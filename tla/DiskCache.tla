------------------------------ MODULE DiskCache ------------------------------
(* LocalDiskCache of src/IR/Cache/IRCache.cpp: a directory of artifacts that *)
(* outlives the compilers which use it, and that several may use at a time.  *)
(* An entry is a directory with up to three files, written in place.  A step *)
(* is one operation on the file system; a walk over the whole cache is one   *)
(* step as well.                                                             *)
(*                                                                           *)
(* A payload is Blocks blocks, and a file is the set of the blocks that have *)
(* been written; their bytes follow from the key.  The one block of meta.json *)
(* is its timestamp.  Who has a file open goes on with it after it has been  *)
(* unlinked: what is written is lost, what is read is what was there.        *)
EXTENDS FiniteSetsExt, Sequences

CONSTANTS
    Procs,      \* compilers that use the cache
    Keys,       \* cache keys, ordered as their paths are
    Artifacts,  \* the pairs <<key, payload>> that are stored
    None,       \* no file, no compiler
    Blocks,     \* blocks of a payload
    MaxSize,    \* the limit of the cache, in blocks
    MaxTime     \* bound: the last second of the clock

Payloads == {"ir", "obj"}
Files == Payloads \cup {"meta"}

ASSUME DiskCacheAssumption ==
    /\ Keys \subseteq Nat /\ IsFiniteSet(Keys) /\ Artifacts \subseteq Keys \X Payloads
    /\ None \notin Procs \cup Keys
    /\ \A s \in SUBSET (1 .. Blocks) : None # s
    /\ \A t \in 0 .. MaxTime : None # {t}
    /\ Blocks \in Nat \ {0} /\ MaxSize \in Nat /\ MaxTime \in Nat \ {0}

VARIABLES
    dirs,       \* the entries whose directory exists
    disk,       \* the files of each entry
    proc,       \* the local state of each compiler
    now,        \* the clock
    torn,       \* history: payloads whose writer died or failed in the middle
    debt        \* history: a store ended before it looked at the size

history == <<torn, debt>>
vars == <<dirs, disk, proc, now, history>>

(* todo: the files to write or to read; open: the file that is open still    *)
(* has its name; off: the next block, or the size that was found; victims:   *)
(* the list of evictIfNeeded; doomed: what remove_all has still to unlink;   *)
(* alone is history: nobody else was busy since the call began.              *)
Idle == [pc |-> "idle", key |-> None, ts |-> 0, todo |-> <<>>, open |-> FALSE,
         off |-> 0, victims |-> {}, doomed |-> {}, alone |-> FALSE]

Init ==
    /\ dirs = {} /\ disk = [k \in Keys |-> [f \in Files |-> None]]
    /\ proc = [p \in Procs |-> Idle]
    /\ now = 1 /\ torn = {} /\ debt = FALSE

-----------------------------------------------------------------------------
At(p, where) == proc[p].pc = where
Finish(p) == proc' = [proc EXCEPT ![p] = Idle]
File(p) == Head(proc[p].todo)
Opened(p) == <<proc[p].key, File(p)>>

\* The last block that was written ends a file, whatever is before it.
Size(k, f) ==
    IF disk[k][f] \in {None, {}} THEN 0
    ELSE IF f = "meta" THEN 1 ELSE Max(disk[k][f])

computeTotalSize == MapThenSumSet(LAMBDA kf : Size(kf[1], kf[2]), Keys \X Files)

Torn(p) == IF proc[p].open /\ File(p) \in Payloads THEN torn \cup {Opened(p)} ELSE torn

Begin(p, r) ==
    /\ At(p, "idle")
    /\ proc' = [q \in Procs |->
                  IF q = p THEN [r EXCEPT !.alone = \A o \in Procs : At(o, "idle")]
                  ELSE [proc[q] EXCEPT !.alone = FALSE]]
    /\ UNCHANGED <<disk, now, history>>

-----------------------------------------------------------------------------
(* store, as storeIR and storeObject call it: the payload, then meta.json.   *)

Store(p, k, f) ==
    /\ Begin(p, [Idle EXCEPT !.pc = "open", !.key = k, !.ts = now,
                             !.todo = <<f, "meta">>])
    /\ dirs' = dirs \cup {k}

\* writeFile truncates the file that has the name, or makes a new one.
OpenFile(p) ==
    LET k == proc[p].key IN
    /\ At(p, "open") /\ k \in dirs
    /\ disk' = [disk EXCEPT ![k][File(p)] = {}]
    /\ proc' = [proc EXCEPT ![p].pc = "write", ![p].open = TRUE, ![p].off = 1]
    /\ torn' = torn \ {<<k, File(p)>>}
    /\ UNCHANGED <<dirs, now, debt>>

\* The directory of the entry has been evicted: store returns false.
OpenFails(p) ==
    /\ At(p, "open") /\ proc[p].key \notin dirs
    /\ Finish(p)
    /\ UNCHANGED <<dirs, disk, now, history>>

\* After meta.json only the size of the cache is left to look at.
CloseFile(p) ==
    IF File(p) = "meta" 
    THEN proc' = [proc EXCEPT ![p] = [Idle EXCEPT !.pc = "check", !.alone = proc[p].alone]]
    ELSE proc' = [proc EXCEPT ![p].todo = Tail(@), ![p].open = FALSE,
                              ![p].off = 0, ![p].pc = "open"]

\* A faulty variant: the last block is never flushed.
BeforeLastBlock(p) == File(p) = "meta" \/ proc[p].off + 1 >= Blocks

\* A faulty variant: one block too many is written.
PastLastBlock(p) == File(p) = "meta" \/ proc[p].off > Blocks

AtLastBlock(p) == File(p) = "meta" \/ proc[p].off = Blocks

WriteBlock(p) ==
    LET k == proc[p].key
        f == File(p)
        block == IF f = "meta" THEN {proc[p].ts} ELSE disk[k][f] \cup {proc[p].off} IN
    /\ At(p, "write")
    /\ disk' = IF proc[p].open THEN [disk EXCEPT ![k][f] = block] ELSE disk
    /\ IF AtLastBlock(p) THEN CloseFile(p)
       ELSE proc' = [proc EXCEPT ![p].off = @ + 1]
    /\ UNCHANGED <<dirs, now, history>>

\* The disk is full.  The error on meta.json, which is small, shows when the
\* stream is closed, and is not looked at.
WriteFails(p) ==
    /\ At(p, "write")
    /\ IF File(p) = "meta" THEN CloseFile(p) ELSE Finish(p)
    /\ torn' = Torn(p)
    /\ debt' = (debt \/ File(p) # "meta")
    /\ UNCHANGED <<dirs, disk, now>>

-----------------------------------------------------------------------------
(* evictIfNeeded. *)

\* A faulty variant: the size of the cache is not looked at.
NeverFull == TRUE

SmallEnough == computeTotalSize <= MaxSize

CheckSize(p) ==
    /\ At(p, "check")
    /\ IF SmallEnough THEN Finish(p) ELSE proc' = [proc EXCEPT ![p].pc = "list"]
    /\ debt' = FALSE
    /\ UNCHANGED <<dirs, disk, now, torn>>

\* Directories without a readable meta.json count, but are not listed.
Readable(k) == Size(k, "meta") > 0
Timestamp(k) == CHOOSE t \in disk[k]["meta"] : TRUE

ListEntries(p) ==
    /\ At(p, "list")
    /\ proc' = [proc EXCEPT ![p].pc = "evict",
                   ![p].victims = {<<Timestamp(k), k>> : k \in {e \in Keys : Readable(e)}}]
    /\ UNCHANGED <<dirs, disk, now, history>>

Before(v, w) == v[1] < w[1] \/ (v[1] = w[1] /\ v[2] <= w[2])

\* A faulty variant: the newest entry first.
LastOf(vs) == CHOOSE v \in vs : \A w \in vs : Before(w, v)

FirstOf(vs) == CHOOSE v \in vs : \A w \in vs : Before(v, w)

Victim(p) == FirstOf(proc[p].victims)[2]

EvictionEnds(p) ==
    /\ At(p, "evict")
    /\ proc[p].victims = {} \/ computeTotalSize <= (MaxSize * 9) \div 10
    /\ Finish(p)
    /\ UNCHANGED <<dirs, disk, now, history>>

\* remove_all: the files one by one, then the directory if nothing is new in it.
EvictNext(p) ==
    /\ At(p, "evict")
    /\ proc[p].victims # {} /\ computeTotalSize > (MaxSize * 9) \div 10
    /\ proc' = [proc EXCEPT ![p].pc = "remove",
                   ![p].doomed = {f \in Files : disk[Victim(p)][f] # None}]
    /\ UNCHANGED <<dirs, disk, now, history>>

\* Those who have the file open keep it.  What a reader had yet to read of it
\* is read as it is now.
Unlink(p, f) ==
    LET k == Victim(p) IN
    /\ At(p, "remove") /\ f \in proc[p].doomed
    /\ disk' = [disk EXCEPT ![k][f] = None]
    /\ proc' = [q \in Procs |->
                  IF q = p THEN [proc[q] EXCEPT !.doomed = @ \ {f}]
                  ELSE IF proc[q].open /\ Opened(q) = <<k, f>>
                       THEN [proc[q] EXCEPT !.open = FALSE]
                       ELSE proc[q]]
    /\ torn' = torn \ {<<k, f>>}
    /\ UNCHANGED <<dirs, now, debt>>

RemoveDir(p) ==
    LET v == FirstOf(proc[p].victims) IN
    /\ At(p, "remove") /\ proc[p].doomed = {}
    /\ dirs' = IF \A f \in Files : disk[v[2]][f] = None THEN dirs \ {v[2]} ELSE dirs
    /\ proc' = [proc EXCEPT ![p].pc = "evict", ![p].victims = @ \ {v}]
    /\ UNCHANGED <<disk, now, history>>

-----------------------------------------------------------------------------
(* lookup.  A payload that is empty or not there is left out.                *)

Lookup(p, k) ==
    /\ Readable(k)                          \* otherwise a miss
    /\ Begin(p, [Idle EXCEPT !.pc = "size", !.key = k, !.todo = <<"ir", "obj">>])
    /\ UNCHANGED dirs

NextFile(p) ==
    IF Len(proc[p].todo) = 1 THEN Finish(p)
    ELSE proc' = [proc EXCEPT ![p].todo = Tail(@), ![p].pc = "size",
                              ![p].open = FALSE, ![p].off = 0]

\* readFile opens the file and asks for its size.
ReadSize(p) ==
    LET n == Size(proc[p].key, File(p)) IN
    /\ At(p, "size")
    /\ IF n = 0 THEN NextFile(p)
       ELSE proc' = [proc EXCEPT ![p].pc = "read", ![p].off = n, ![p].open = TRUE]
    /\ UNCHANGED <<dirs, disk, now, history>>

\* It then reads so many bytes; lookup does not ask whether it could.
Got(p) == disk[proc[p].key][File(p)] \cap (1 .. proc[p].off)

ReadBytes(p) ==
    /\ At(p, "read") /\ NextFile(p)
    /\ UNCHANGED <<dirs, disk, now, history>>

-----------------------------------------------------------------------------
\* A compiler is killed; a new one may start.
Crash(p) ==
    /\ ~At(p, "idle") /\ Finish(p)
    /\ torn' = IF At(p, "write") THEN Torn(p) ELSE torn
    /\ debt' = (debt \/ proc[p].pc \notin {"size", "read"})
    /\ UNCHANGED <<dirs, disk, now>>

Tick ==
    /\ now < MaxTime /\ now' = now + 1
    /\ UNCHANGED <<dirs, disk, proc, history>>

Step(p) ==
    \/ \E a \in Artifacts : Store(p, a[1], a[2])
    \/ \E k \in Keys : Lookup(p, k)
    \/ OpenFile(p) \/ OpenFails(p) \/ WriteBlock(p) \/ WriteFails(p)
    \/ CheckSize(p) \/ ListEntries(p) \/ EvictionEnds(p) \/ EvictNext(p) \/ RemoveDir(p)
    \/ \E f \in Files : Unlink(p, f)
    \/ ReadSize(p) \/ ReadBytes(p)
    \/ Crash(p)

Next == Tick \/ \E p \in Procs : Step(p)
Spec == Init /\ [][Next]_vars

-----------------------------------------------------------------------------
(* Properties. *)

\* The type invariant; a writer stays within its payload.
TypeOK ==
    /\ dirs \subseteq Keys
    /\ disk \in [Keys -> [Files -> {None} \cup SUBSET Nat]]
    /\ \A p \in Procs : proc[p].off \in 0 .. Blocks
    /\ now \in 1 .. MaxTime
    /\ torn \subseteq Keys \X Payloads /\ debt \in BOOLEAN

(* A payload with blocks missing is being completed by a compiler that has  *)
(* still to write every one of them, or its writer was killed or met a full *)
(* disk: compilers that truncate, write and evict the same file at the same *)
(* time leave no half of it behind.                                         *)
IncompleteHasWriter ==
    \A k \in Keys, f \in Payloads :
        \/ disk[k][f] \in {None, 1 .. Blocks} \/ <<k, f>> \in torn
        \/ \E p \in Procs :
              /\ At(p, "write") /\ proc[p].open /\ Opened(p) = <<k, f>>
              /\ (1 .. Blocks) \ disk[k][f] \subseteq proc[p].off .. Blocks

(* A lookup that nobody interferes with returns whole payloads, whatever    *)
(* was going on before it began, if no writer died in them: meta.json is    *)
(* read first and vouches for nothing itself.                               *)
LookupIsWhole ==
    \A p \in Procs :
       At(p, "read") /\ proc[p].alone /\ Opened(p) \notin torn => Got(p) = 1 .. Blocks

AllIdle == \A p \in Procs : At(p, "idle")

(* Once nobody is busy the cache is within its limit or has nothing left to *)
(* evict, however the stores and evictions overlapped and although each of  *)
(* them looked at another size, unless the last store was cut short.        *)
SizeBounded ==
    AllIdle /\ ~debt => computeTotalSize <= MaxSize \/ \A k \in Keys : ~Readable(k)

EntrySize(k) == MapThenSumSet(LAMBDA f : Size(k, f), Files)

(* A compiler that is alone, in a cache without debris, evicts the newest   *)
(* entry, which is the one it has just stored, only if that entry alone is  *)
(* above the mark of nine tenths.                                           *)
NewestIsKept ==
    [][\A p \in Procs :
          EvictNext(p) /\ proc[p].alone /\ (\A k \in dirs : Readable(k)) =>
             \/ \E w \in proc[p].victims : w[1] >= Timestamp(Victim(p)) /\ w[2] # Victim(p)
             \/ EntrySize(Victim(p)) > (MaxSize * 9) \div 10]_vars
=============================================================================
