--------------------------- MODULE DiskCacheProofs --------------------------
(***************************************************************************)
(* Theorems about DiskCache, for every set of compilers and of artifacts,  *)
(* every size of a payload and every limit of the cache.                   *)
(***************************************************************************)
EXTENDS DiskCache, DataLemmas, TLAPS

-----------------------------------------------------------------------------
(* The local state of a compiler.                                          *)

Places == {"idle", "open", "write", "check", "list", "evict", "remove", "size", "read"}
KeyOrNone == Keys \cup {None}
Lists == {<<>>, <<"ir", "meta">>, <<"obj", "meta">>, <<"meta">>, <<"ir", "obj">>, <<"obj">>}
Numbers == Nat \cup {Max(s) : s \in SUBSET Nat}
Listing == SUBSET (Nat \X Keys)
SomeFiles == SUBSET Files
Local == [pc : Places, key : KeyOrNone, ts : Nat, todo : Lists, open : BOOLEAN,
          off : Numbers, victims : Listing, doomed : SomeFiles, alone : BOOLEAN]

Contents == {None} \cup SUBSET Nat

Typed ==
    /\ proc \in [Procs -> Local]
    /\ disk \in [Keys -> [Files -> Contents]]
    /\ now \in Nat

\* A compiler in store has the payload and meta.json left to write.
Storing(p) ==
    /\ proc[p].pc \in {"open", "write"} =>
          proc[p].key \in Keys /\ proc[p].todo \in {<<"ir", "meta">>, <<"obj", "meta">>, <<"meta">>}
    /\ proc[p].pc = "write" /\ File(p) # "meta" => proc[p].off \in 1 .. Blocks

\* A compiler in lookup has one payload or two left to read.
Looking(p) ==
    proc[p].pc \in {"size", "read"} =>
        proc[p].key \in Keys /\ proc[p].todo \in {<<"ir", "obj">>, <<"obj">>}

\* What a writer has the name of holds blocks of the payload.
Inside(p) ==
    proc[p].pc = "write" /\ proc[p].open /\ File(p) # "meta" =>
        disk[proc[p].key][File(p)] \subseteq 1 .. Blocks

LocalInv == Typed /\ \A p \in Procs : Storing(p) /\ Looking(p) /\ Inside(p)

LEMMA Fields ==
    ASSUME NEW r \in Local
    PROVE  /\ r.pc \in Places /\ r.key \in KeyOrNone /\ r.ts \in Nat /\ r.todo \in Lists
           /\ r.off \in Numbers /\ r.victims \in Listing /\ r.doomed \in SomeFiles
           /\ r.open \in BOOLEAN /\ r.alone \in BOOLEAN
BY Zenon DEF Local

LEMMA Update ==
    ASSUME NEW r \in Local
    PROVE  /\ \A x \in Places : [r EXCEPT !.pc = x] \in Local
           /\ \A x \in KeyOrNone : [r EXCEPT !.key = x] \in Local
           /\ \A x \in Nat : [r EXCEPT !.ts = x] \in Local
           /\ \A x \in Lists : [r EXCEPT !.todo = x] \in Local
           /\ \A x \in BOOLEAN : [r EXCEPT !.open = x] \in Local
           /\ \A x \in Numbers : [r EXCEPT !.off = x] \in Local
           /\ \A x \in Listing : [r EXCEPT !.victims = x] \in Local
           /\ \A x \in SomeFiles : [r EXCEPT !.doomed = x] \in Local
           /\ \A x \in BOOLEAN : [r EXCEPT !.alone = x] \in Local
BY Zenon DEF Local

LEMMA IdleLocal == Idle \in Local
<1>1. /\ "idle" \in Places /\ None \in KeyOrNone /\ 0 \in Nat /\ <<>> \in Lists
      /\ 0 \in Numbers /\ {} \in Listing /\ {} \in SomeFiles
  BY DEF Places, KeyOrNone, Lists, Numbers, Listing, SomeFiles
<1>2. QED
  BY <1>1, Zenon DEF Idle, Local

\* Updates of several fields at once.
LEMMA Updates ==
    ASSUME NEW r \in Local, NEW pc \in Places, NEW todo \in Lists, NEW off \in Numbers,
           NEW open \in BOOLEAN
    PROVE  /\ [r EXCEPT !.todo = todo, !.pc = pc, !.open = open, !.off = off] \in Local
           /\ [r EXCEPT !.todo = todo, !.open = open, !.off = off, !.pc = pc] \in Local
           /\ \A b \in BOOLEAN : [r EXCEPT !.pc = pc, !.alone = b] \in Local
BY Zenon DEF Local

LEMMA OpenUpdate ==
    ASSUME NEW r \in Local, NEW pc \in Places, NEW off \in Numbers, NEW open \in BOOLEAN
    PROVE  [r EXCEPT !.pc = pc, !.open = open, !.off = off] \in Local
BY Zenon DEF Local

\* An update of p that leaves its record in Local keeps the compilers typed.
LEMMA Moved ==
    ASSUME proc \in [Procs -> Local], NEW p \in Procs, NEW r \in Local,
           proc' = [proc EXCEPT ![p] = r]
    PROVE  /\ proc' \in [Procs -> Local] /\ proc'[p] = r
           /\ \A q \in Procs \ {p} : proc'[q] = proc[q]
OBVIOUS

\* When p begins, the others lose nothing but the mark that they are alone.
LEMMA BeginTyped ==
    ASSUME proc \in [Procs -> Local], NEW p \in Procs, NEW r \in Local, Begin(p, r)
    PROVE  /\ proc' \in [Procs -> Local]
           /\ \E b \in BOOLEAN : proc'[p] = [r EXCEPT !.alone = b]
           /\ \A q \in Procs \ {p} : proc'[q] = [proc[q] EXCEPT !.alone = FALSE]
<1> DEFINE b == \A o \in Procs : At(o, "idle")
<1>1. proc' = [q \in Procs |-> IF q = p THEN [r EXCEPT !.alone = b]
                               ELSE [proc[q] EXCEPT !.alone = FALSE]]
  BY DEF Begin
<1>2. b \in BOOLEAN
  OBVIOUS
<1> HIDE DEF b
<1>3. [r EXCEPT !.alone = b] \in Local
  BY <1>2, Update
<1>4. \A q \in Procs : [proc[q] EXCEPT !.alone = FALSE] \in Local
  BY Update
<1>5. QED
  BY <1>1, <1>2, <1>3, <1>4

LEMMA SizeTyped ==
    ASSUME Typed, NEW k \in Keys, NEW f \in Files PROVE Size(k, f) \in Numbers
<1>1. disk[k][f] \in Contents
  BY DEF Typed
<1>2. QED
  BY <1>1 DEF Size, Numbers, Contents

LEMMA FilesKnown == Payloads \subseteq Files /\ "meta" \in Files /\ "meta" \notin Payloads
BY DEF Files, Payloads

\* The constants the steps write.
LEMMA Written ==
    /\ \A x \in {"idle", "open", "write", "check", "list", "evict", "remove",
                                "size", "read"} : x \in Places
    /\ \A x \in Lists : x # <<>> => Tail(x) \in Lists
    /\ Nat \subseteq Numbers
BY DEF Places, Lists, Numbers

LEMMA FinishTyped ==
    ASSUME proc \in [Procs -> Local], NEW p \in Procs, Finish(p)
    PROVE  /\ proc' \in [Procs -> Local] /\ proc'[p] = Idle
           /\ \A q \in Procs \ {p} : proc'[q] = proc[q]
BY IdleLocal DEF Finish

\* The record of a compiler after one of its steps, field by field.
LEMMA OpenFileTyped ==
    ASSUME proc \in [Procs -> Local], NEW p \in Procs, OpenFile(p)
    PROVE  /\ proc' \in [Procs -> Local]
           /\ proc'[p].pc = "write" /\ proc'[p].open /\ proc'[p].off = 1
           /\ proc'[p].todo = proc[p].todo /\ proc'[p].key = proc[p].key
           /\ proc'[p].alone = proc[p].alone
           /\ \A q \in Procs \ {p} : proc'[q] = proc[q]
<1>1. proc' = [proc EXCEPT ![p].pc = "write", ![p].open = TRUE, ![p].off = 1]
  BY DEF OpenFile
<1>2. "write" \in Places /\ TRUE \in BOOLEAN /\ 1 \in Numbers
  BY Written
<1>3. [proc[p] EXCEPT !.pc = "write", !.open = TRUE, !.off = 1] \in Local
  BY <1>2, OpenUpdate
<1>4. proc' \in [Procs -> Local]
  BY <1>1, <1>3
<1>5. QED
  BY <1>1, <1>4 DEF Local

LEMMA CloseFileTyped ==
    ASSUME proc \in [Procs -> Local], NEW p \in Procs, CloseFile(p), proc[p].todo # <<>>
    PROVE  /\ proc' \in [Procs -> Local]
           /\ ~proc'[p].open /\ proc'[p].off = 0
           /\ File(p) = "meta" => proc'[p].pc = "check"
           /\ File(p) # "meta" =>
                 /\ proc'[p].pc = "open" /\ proc'[p].todo = Tail(proc[p].todo)
                 /\ proc'[p].key = proc[p].key
           /\ \A q \in Procs \ {p} : proc'[q] = proc[q]
<1>1. "check" \in Places /\ "open" \in Places /\ FALSE \in BOOLEAN /\ 0 \in Numbers
  BY Written
<1>2. proc[p].todo \in Lists /\ proc[p].alone \in BOOLEAN
  BY Fields
<1>3. Tail(proc[p].todo) \in Lists
  BY <1>2, Written
<1>4. CASE File(p) = "meta"
  <2> DEFINE r == [Idle EXCEPT !.pc = "check", !.alone = proc[p].alone]
  <2>1. proc' = [proc EXCEPT ![p] = r]
    BY <1>4 DEF CloseFile
  <2>2. r \in Local
    BY <1>1, <1>2, IdleLocal, Updates
  <2>3. r.pc = "check" /\ ~r.open /\ r.off = 0
    BY DEF Idle
  <2> HIDE DEF r
  <2>4. QED
    BY <1>4, <2>1, <2>2, <2>3, Moved
<1>5. CASE File(p) # "meta"
  <2>1. proc' = [proc EXCEPT ![p].todo = Tail(proc[p].todo), ![p].open = FALSE,
                             ![p].off = 0, ![p].pc = "open"]
    BY <1>5 DEF CloseFile
  <2>2. [proc[p] EXCEPT !.todo = Tail(proc[p].todo), !.open = FALSE, !.off = 0, !.pc = "open"]
          \in Local
    BY <1>1, <1>3, Updates
  <2>3. proc' \in [Procs -> Local]
    BY <2>1, <2>2
  <2>4. QED
    BY <1>5, <2>1, <2>3 DEF Local
<1>6. QED
  BY <1>4, <1>5

\* A compiler that goes on writing as before.
Same(q) ==
    /\ proc'[q].pc = proc[q].pc /\ proc'[q].key = proc[q].key
    /\ proc'[q].todo = proc[q].todo /\ proc'[q].off = proc[q].off

LEMMA StoringFrame ==
    ASSUME NEW q \in Procs, Storing(q), Same(q) \/ proc'[q].pc \notin {"open", "write"}
    PROVE  Storing(q)'
BY DEF Storing, Same, File

LEMMA LookingFrame ==
    ASSUME NEW q \in Procs, Looking(q), Same(q) \/ proc'[q].pc \notin {"size", "read"}
    PROVE  Looking(q)'
BY DEF Looking, Same

LEMMA OthersSame ==
    ASSUME proc \in [Procs -> Local], NEW p \in Procs, NEW q \in Procs,
           proc'[q] = proc[q] \/ proc'[q] = [proc[q] EXCEPT !.alone = FALSE]
             \/ proc'[q] = [proc[q] EXCEPT !.open = FALSE]
    PROVE  Same(q) /\ (proc'[q].open => proc[q].open)
BY DEF Same, Local

\* A step of p that does not write: the records it leaves.
Quiet(p) ==
    \/ OpenFails(p) \/ CheckSize(p) \/ ListEntries(p) \/ EvictionEnds(p) \/ EvictNext(p)
    \/ RemoveDir(p) \/ ReadSize(p) \/ ReadBytes(p) \/ Crash(p)

LEMMA NextFileTyped ==
    ASSUME proc \in [Procs -> Local], NEW p \in Procs, NextFile(p), proc[p].todo # <<>>
    PROVE  /\ proc' \in [Procs -> Local] /\ proc'[p].pc \in {"idle", "size"}
           /\ proc'[p].pc = "size" =>
                 /\ Len(proc[p].todo) # 1
                 /\ proc'[p].todo = Tail(proc[p].todo) /\ proc'[p].key = proc[p].key
           /\ \A q \in Procs \ {p} : proc'[q] = proc[q]
<1>1. CASE Finish(p)
  BY <1>1, FinishTyped DEF Idle
<1>2. CASE /\ Len(proc[p].todo) # 1
           /\ proc' = [proc EXCEPT ![p].todo = Tail(@), ![p].pc = "size",
                                   ![p].open = FALSE, ![p].off = 0]
  <2>1. "size" \in Places /\ FALSE \in BOOLEAN /\ 0 \in Numbers
    BY Written
  <2>2. Tail(proc[p].todo) \in Lists
    BY Fields, Written
  <2>3. [proc[p] EXCEPT !.todo = Tail(proc[p].todo), !.pc = "size", !.open = FALSE, !.off = 0]
          \in Local
    BY <2>1, <2>2, Updates
  <2>4. proc' \in [Procs -> Local]
    BY <1>2, <2>3
  <2>5. QED
    BY <1>2, <2>4 DEF Local
<1>3. QED
  BY <1>1, <1>2 DEF NextFile

LEMMA TimestampNat ==
    ASSUME Typed, NEW k \in Keys, Readable(k) PROVE Timestamp(k) \in Nat
<1>1. disk[k]["meta"] \in Contents /\ disk[k]["meta"] \notin {None, {}}
  BY FilesKnown DEF Typed, Readable, Size
<1>2. QED
  BY <1>1 DEF Contents, Timestamp

LEMMA QuietTyped ==
    ASSUME LocalInv, NEW p \in Procs, Quiet(p)
    PROVE  /\ proc' \in [Procs -> Local] /\ proc'[p].pc \notin {"open", "write"}
           /\ Looking(p)'
           /\ \A q \in Procs \ {p} : proc'[q] = proc[q]
           /\ UNCHANGED <<disk, now>>
<1>0. Typed /\ proc \in [Procs -> Local] /\ Looking(p)
  BY DEF LocalInv, Typed
<1>1. CASE Finish(p)
  BY <1>0, <1>1, FinishTyped
  DEF Idle, Looking, Quiet, OpenFails, CheckSize, ListEntries, EvictionEnds, EvictNext, RemoveDir,
      ReadSize, ReadBytes, Crash
<1>2. CASE CheckSize(p) /\ ~Finish(p)
  <2>1. proc' = [proc EXCEPT ![p].pc = "list"] /\ "list" \in Places
    BY <1>2, Written DEF CheckSize
  <2>2. proc' \in [Procs -> Local]
    BY <1>0, <2>1, Update
  <2>3. QED
    BY <1>0, <1>2, <2>1, <2>2 DEF Local, Looking, CheckSize
<1>3. CASE ListEntries(p)
  <2> DEFINE V == {<<Timestamp(k), k>> : k \in {e \in Keys : Readable(e)}}
  <2>1. proc' = [proc EXCEPT ![p].pc = "evict", ![p].victims = V]
    BY <1>3 DEF ListEntries
  <2>2. V \in Listing /\ "evict" \in Places
    BY <1>0, TimestampNat, Written DEF Listing
  <2> HIDE DEF V
  <2>3. proc' \in [Procs -> Local]
    <3>1. [proc[p] EXCEPT !.pc = "evict", !.victims = V] \in Local
      <4>1. proc[p] \in Local
        BY <1>0
      <4>2. QED
        BY <2>2, <4>1, Zenon DEF Local
    <3>2. QED
      BY <1>0, <2>1, <3>1
  <2>4. QED
    BY <1>0, <1>3, <2>1, <2>3 DEF Local, Looking, ListEntries
<1>4. CASE EvictNext(p)
  <2> DEFINE D == {f \in Files : disk[Victim(p)][f] # None}
  <2>1. proc' = [proc EXCEPT ![p].pc = "remove", ![p].doomed = D]
    BY <1>4 DEF EvictNext
  <2>2. D \in SomeFiles /\ "remove" \in Places
    BY Written DEF SomeFiles
  <2> HIDE DEF D
  <2>3. proc' \in [Procs -> Local]
    <3>1. [proc[p] EXCEPT !.pc = "remove", !.doomed = D] \in Local
      <4>1. proc[p] \in Local
        BY <1>0
      <4>2. QED
        BY <2>2, <4>1, Zenon DEF Local
    <3>2. QED
      BY <1>0, <2>1, <3>1
  <2>4. QED
    BY <1>0, <1>4, <2>1, <2>3 DEF Local, Looking, EvictNext
<1>5. CASE RemoveDir(p)
  <2> DEFINE V == proc[p].victims \ {FirstOf(proc[p].victims)}
  <2>1. proc' = [proc EXCEPT ![p].pc = "evict", ![p].victims = V]
    BY <1>5 DEF RemoveDir
  <2>2. V \in Listing /\ "evict" \in Places
    <3>1. proc[p].victims \in Listing
      BY <1>0, Fields
    <3>2. QED
      BY <3>1, Written DEF Listing
  <2> HIDE DEF V
  <2>3. proc' \in [Procs -> Local]
    <3>1. [proc[p] EXCEPT !.pc = "evict", !.victims = V] \in Local
      <4>1. proc[p] \in Local
        BY <1>0
      <4>2. QED
        BY <2>2, <4>1, Zenon DEF Local
    <3>2. QED
      BY <1>0, <2>1, <3>1
  <2>4. QED
    BY <1>0, <1>5, <2>1, <2>3 DEF Local, Looking, RemoveDir
<1>6. CASE ReadSize(p) \/ ReadBytes(p)
  <2>1. proc[p].todo # <<>>
    <3>1. proc[p].todo \in {<<"ir", "obj">>, <<"obj">>}
      BY <1>0, <1>6 DEF Looking, ReadSize, ReadBytes, At
    <3>2. <<"ir", "obj">> # <<>> /\ <<"obj">> # <<>>
      OBVIOUS
    <3>3. QED
      BY <3>1, <3>2
  <2>2. CASE NextFile(p)
    <3>1. /\ proc[p].key \in Keys /\ proc[p].todo \in {<<"ir", "obj">>, <<"obj">>}
          /\ UNCHANGED <<disk, now>>
      BY <1>0, <1>6 DEF Looking, ReadSize, ReadBytes, At
    <3>2. Tail(<<"ir", "obj">>) = <<"obj">> /\ Len(<<"obj">>) = 1
      OBVIOUS
    <3>3. Looking(p)'
      BY <1>0, <2>1, <2>2, <3>1, <3>2, NextFileTyped DEF Looking
    <3>4. QED
      BY <1>0, <2>1, <2>2, <3>1, <3>3, NextFileTyped
  <2>3. CASE ReadSize(p) /\ ~NextFile(p)
    <3> DEFINE n == Size(proc[p].key, File(p))
    <3>1. proc' = [proc EXCEPT ![p].pc = "read", ![p].off = n, ![p].open = TRUE]
      BY <2>3 DEF ReadSize
    <3>2. proc[p].key \in Keys /\ File(p) \in Files
      BY <1>0, <2>3 DEF Looking, ReadSize, At, File, Files, Payloads
    <3>3. n \in Numbers /\ "read" \in Places /\ TRUE \in BOOLEAN
      BY <1>0, <3>2, SizeTyped, Written
    <3> HIDE DEF n
    <3>4. [proc[p] EXCEPT !.pc = "read", !.off = n, !.open = TRUE] \in Local
      <4>1. proc[p] \in Local /\ TRUE \in BOOLEAN
        BY <1>0
      <4>2. QED
        BY <3>3, <4>1, Zenon DEF Local
    <3>5. proc' \in [Procs -> Local]
      BY <1>0, <3>1, <3>4
    <3>6. QED
      BY <1>0, <2>3, <3>1, <3>5 DEF Local, Looking, ReadSize, At
  <2>4. QED
    BY <1>6, <2>2, <2>3 DEF ReadBytes
<1>7. QED
  BY <1>1, <1>2, <1>3, <1>4, <1>5, <1>6
  DEF Quiet, OpenFails, EvictionEnds, Crash

-----------------------------------------------------------------------------
(* The steps of store and lookup.                                          *)

LEMMA InsideFrame ==
    ASSUME NEW q \in Procs, Inside(q), UNCHANGED disk,
           proc'[q].pc # "write" \/ (Same(q) /\ (proc'[q].open => proc[q].open))
    PROVE  Inside(q)'
BY DEF Inside, Same, File

\* A compiler that leaves the files alone, and what it has become.
LEMMA LocalInvFrame ==
    ASSUME LocalInv, NEW p \in Procs, disk' \in [Keys -> [Files -> Contents]], now' \in Nat,
           proc' \in [Procs -> Local], Storing(p)', Looking(p)',
           \A q \in Procs \ {p} : Same(q), \A q \in Procs : Inside(q)'
    PROVE  LocalInv'
BY StoringFrame, LookingFrame DEF LocalInv, Typed

LEMMA StoreTyped ==
    ASSUME LocalInv, NEW p \in Procs, NEW k \in Keys, NEW f \in Payloads, Store(p, k, f)
    PROVE  /\ LocalInv' /\ proc'[p].pc = "open" /\ proc'[p].key = k /\ proc'[p].off = 0
           /\ \A q \in Procs \ {p} : Same(q) /\ (proc'[q].open <=> proc[q].open)
<1> DEFINE r == [Idle EXCEPT !.pc = "open", !.key = k, !.ts = now, !.todo = <<f, "meta">>]
<1>0. Typed /\ proc \in [Procs -> Local] /\ now \in Nat
  BY DEF LocalInv, Typed
<1>1. /\ Idle \in Local /\ "open" \in Places /\ k \in KeyOrNone /\ <<f, "meta">> \in Lists
      /\ <<f, "meta">> \in {<<"ir", "meta">>, <<"obj", "meta">>, <<"meta">>}
  BY IdleLocal, Written DEF KeyOrNone, Lists, Payloads
<1>2. r \in Local
  BY <1>0, <1>1, Zenon DEF Local
<1>3. r.pc = "open" /\ r.key = k /\ r.todo = <<f, "meta">> /\ r.off = 0
  BY DEF Idle
<1>4. Begin(p, r)
  BY DEF Store
<1> HIDE DEF r
<1>5. PICK b \in BOOLEAN : proc'[p] = [r EXCEPT !.alone = b]
  BY <1>0, <1>2, <1>4, BeginTyped
<1>6. /\ proc'[p].pc = "open" /\ proc'[p].key = k /\ proc'[p].todo = <<f, "meta">>
      /\ proc'[p].off = 0
  BY <1>2, <1>3, <1>5 DEF Local
<1>7. /\ proc' \in [Procs -> Local]
      /\ \A q \in Procs \ {p} : proc'[q] = [proc[q] EXCEPT !.alone = FALSE]
  BY <1>0, <1>2, <1>4, BeginTyped
<1>8. \A q \in Procs \ {p} : Same(q) /\ (proc'[q].open <=> proc[q].open)
  BY <1>0, <1>7 DEF Same, Local
<1>9. Storing(p)' /\ Looking(p)'
  BY <1>1, <1>6 DEF Storing, Looking
<1>10. UNCHANGED <<disk, now>>
  BY <1>4 DEF Begin
<1>11. QED
  <2>1. \A q \in Procs : Inside(q)'
    BY <1>6, <1>8, <1>10, InsideFrame DEF LocalInv
  <2>2. QED
    BY <1>0, <1>6, <1>7, <1>8, <1>9, <1>10, <2>1, LocalInvFrame DEF Typed

LEMMA LookupTyped ==
    ASSUME LocalInv, NEW p \in Procs, NEW k \in Keys, Lookup(p, k)
    PROVE  /\ LocalInv' /\ proc'[p].pc = "size" /\ proc'[p].key = k /\ proc'[p].off = 0
           /\ \A q \in Procs \ {p} : Same(q) /\ (proc'[q].open <=> proc[q].open)
<1> DEFINE r == [Idle EXCEPT !.pc = "size", !.key = k, !.todo = <<"ir", "obj">>]
<1>0. Typed /\ proc \in [Procs -> Local] /\ now \in Nat
  BY DEF LocalInv, Typed
<1>1. Idle \in Local /\ "size" \in Places /\ k \in KeyOrNone /\ <<"ir", "obj">> \in Lists
  BY IdleLocal, Written DEF KeyOrNone, Lists
<1>2. r \in Local
  BY <1>1, Zenon DEF Local
<1>3. r.pc = "size" /\ r.key = k /\ r.todo = <<"ir", "obj">> /\ r.off = 0
  BY DEF Idle
<1>4. Begin(p, r)
  BY DEF Lookup
<1> HIDE DEF r
<1>5. PICK b \in BOOLEAN : proc'[p] = [r EXCEPT !.alone = b]
  BY <1>0, <1>2, <1>4, BeginTyped
<1>6. /\ proc'[p].pc = "size" /\ proc'[p].key = k /\ proc'[p].todo = <<"ir", "obj">>
      /\ proc'[p].off = 0
  BY <1>2, <1>3, <1>5 DEF Local
<1>7. /\ proc' \in [Procs -> Local]
      /\ \A q \in Procs \ {p} : proc'[q] = [proc[q] EXCEPT !.alone = FALSE]
  BY <1>0, <1>2, <1>4, BeginTyped
<1>8. \A q \in Procs \ {p} : Same(q) /\ (proc'[q].open <=> proc[q].open)
  BY <1>0, <1>7 DEF Same, Local
<1>9. Storing(p)' /\ Looking(p)'
  BY <1>6 DEF Storing, Looking
<1>10. UNCHANGED <<disk, now>>
  BY <1>4 DEF Begin
<1>11. QED
  <2>1. \A q \in Procs : Inside(q)'
    BY <1>6, <1>8, <1>10, InsideFrame DEF LocalInv
  <2>2. QED
    BY <1>0, <1>6, <1>7, <1>8, <1>9, <1>10, <2>1, LocalInvFrame DEF Typed

\* The file that a compiler in store has in hand.
LEMMA OpenFileIs ==
    ASSUME NEW p \in Procs, Storing(p), proc[p].pc \in {"open", "write"}
    PROVE  /\ proc[p].key \in Keys /\ File(p) \in Files /\ proc[p].todo # <<>>
           /\ File(p) # "meta" => File(p) \in Payloads /\ Tail(proc[p].todo) = <<"meta">>
<1>1. /\ Head(<<"ir", "meta">>) = "ir" /\ Tail(<<"ir", "meta">>) = <<"meta">>
      /\ Head(<<"obj", "meta">>) = "obj" /\ Tail(<<"obj", "meta">>) = <<"meta">>
      /\ Head(<<"meta">>) = "meta"
      /\ <<"ir", "meta">> # <<>> /\ <<"obj", "meta">> # <<>> /\ <<"meta">> # <<>>
  OBVIOUS
<1>2. /\ proc[p].key \in Keys
      /\ proc[p].todo \in {<<"ir", "meta">>, <<"obj", "meta">>, <<"meta">>}
  BY DEF Storing
<1>3. QED
  BY <1>1, <1>2 DEF File, Files, Payloads

LEMMA OpenFileStep ==
    ASSUME LocalInv, NEW p \in Procs, OpenFile(p)
    PROVE  /\ LocalInv'
           /\ proc'[p].pc = "write" /\ proc'[p].open /\ proc'[p].off = 1
           /\ Opened(p)' = Opened(p) /\ Opened(p) \in Keys \X Files
           /\ disk'[Opened(p)[1]][Opened(p)[2]] = {}
           /\ \A k \in Keys, f \in Files :
                 <<k, f>> # Opened(p) => disk'[k][f] = disk[k][f]
           /\ \A q \in Procs \ {p} : proc'[q] = proc[q]
<1>0. Typed /\ proc \in [Procs -> Local] /\ Storing(p) /\ proc[p].pc = "open"
  BY DEF LocalInv, Typed, OpenFile, At
<1>1. /\ proc[p].key \in Keys /\ File(p) \in Files
      /\ disk' = [disk EXCEPT ![proc[p].key][File(p)] = {}] /\ UNCHANGED now
  BY <1>0, OpenFileIs DEF OpenFile
<1>2. /\ disk' \in [Keys -> [Files -> Contents]] /\ disk'[proc[p].key][File(p)] = {}
      /\ \A k \in Keys, f \in Files :
            k # proc[p].key \/ f # File(p) => disk'[k][f] = disk[k][f]
  BY <1>0, <1>1 DEF Typed, Contents
<1>3. File(p)' = File(p) /\ Opened(p)' = Opened(p)
  BY <1>0, OpenFileTyped DEF File, Opened
<1>4. Storing(p)' /\ Looking(p)'
  <2>1. /\ proc'[p].pc = "write" /\ proc'[p].off = 1
        /\ proc'[p].todo = proc[p].todo /\ proc'[p].key = proc[p].key
    BY <1>0, OpenFileTyped
  <2>2. 1 \in 1 .. Blocks
    BY DiskCacheAssumption
  <2>3. QED
    BY <1>0, <2>1, <2>2 DEF Storing, Looking
<1>5. \A q \in Procs \ {p} : proc'[q] = proc[q] /\ Same(q)
  BY <1>0, OpenFileTyped DEF Same
<1>6. LocalInv'
  <2>1. Inside(p)'
    BY <1>0, <1>1, <1>2, <1>3, OpenFileTyped DEF Inside
  <2>2. ASSUME NEW q \in Procs \ {p} PROVE Inside(q)'
    <3>1. proc[q].pc = "write" => proc[q].key \in Keys /\ File(q) \in Files
      BY OpenFileIs DEF LocalInv
    <3>2. Inside(q) /\ File(q)' = File(q)
      BY <1>5 DEF LocalInv, File
    <3>3. QED
      BY <1>1, <1>2, <1>5, <3>1, <3>2 DEF Inside
  <2>3. QED
    BY <1>0, <1>1, <1>2, <1>4, <1>5, <2>1, <2>2, OpenFileTyped, LocalInvFrame DEF Typed
<1>7. QED
  BY <1>0, <1>1, <1>2, <1>3, <1>5, <1>6, OpenFileTyped DEF Opened

\* After a file is closed the compiler opens meta.json, or looks at the size.
LEMMA CloseFileStep ==
    ASSUME LocalInv, NEW p \in Procs, CloseFile(p), proc[p].pc = "write"
    PROVE  /\ proc' \in [Procs -> Local] /\ Storing(p)' /\ Looking(p)'
           /\ ~proc'[p].open /\ proc'[p].pc # "write"
           /\ \A q \in Procs \ {p} : proc'[q] = proc[q]
<1>0. proc \in [Procs -> Local] /\ Storing(p)
  BY DEF LocalInv, Typed
<1>1. /\ proc[p].key \in Keys /\ proc[p].todo # <<>>
      /\ File(p) # "meta" => Tail(proc[p].todo) = <<"meta">>
  BY <1>0, OpenFileIs
<1>2. Storing(p)' /\ Looking(p)'
  BY <1>0, <1>1, CloseFileTyped DEF Storing, Looking
<1>3. QED
  BY <1>0, <1>1, <1>2, CloseFileTyped

\* A block is one of the payload, and the last one is Blocks.
LEMMA WriteBlockStep ==
    ASSUME LocalInv, NEW p \in Procs, WriteBlock(p)
    PROVE  /\ LocalInv'
           /\ \A q \in Procs \ {p} : proc'[q] = proc[q]
           /\ proc[p].pc = "write" /\ File(p) \in Files /\ Opened(p) = <<proc[p].key, File(p)>>
           /\ \A k \in Keys, f \in Files :
                 <<k, f>> # Opened(p) \/ ~proc[p].open => disk'[k][f] = disk[k][f]
           /\ proc[p].open /\ File(p) \in Payloads =>
                 /\ proc[p].off \in 1 .. Blocks
                 /\ disk'[proc[p].key][File(p)] = disk[proc[p].key][File(p)] \cup {proc[p].off}
           /\ \/ ~proc'[p].open /\ proc'[p].pc # "write"
                 /\ (File(p) \in Payloads => proc[p].off = Blocks)
              \/ /\ proc'[p].pc = "write" /\ proc'[p].off = proc[p].off + 1
                 /\ proc'[p].open = proc[p].open /\ Opened(p)' = Opened(p)
                 /\ File(p) \in Payloads
<1> DEFINE k == proc[p].key
           f == File(p)
           block == IF f = "meta" THEN {proc[p].ts} ELSE disk[k][f] \cup {proc[p].off}
<1>0. /\ Typed /\ proc \in [Procs -> Local] /\ proc[p] \in Local /\ proc[p].pc = "write"
      /\ Storing(p) /\ Looking(p) /\ now \in Nat
  BY DEF LocalInv, Typed, WriteBlock, At
<1>1. k \in Keys /\ f \in Files /\ (f # "meta" <=> f \in Payloads) /\ proc[p].ts \in Nat
  BY <1>0, OpenFileIs, FilesKnown, Fields
<1>2. f \in Payloads => proc[p].off \in 1 .. Blocks
  BY <1>0, <1>1 DEF Storing
<1>3. disk' = (IF proc[p].open THEN [disk EXCEPT ![k][f] = block] ELSE disk) /\ UNCHANGED now
  BY DEF WriteBlock
<1>4. proc[p].open => block \in Contents /\ (f # "meta" => block \subseteq 1 .. Blocks)
  <2>1. CASE f = "meta"
    BY <1>1, <2>1 DEF Contents
  <2>2. CASE f # "meta" /\ proc[p].open
    <3>1. disk[k][f] \subseteq 1 .. Blocks /\ proc[p].off \in 1 .. Blocks
      BY <1>0, <1>1, <1>2, <2>2 DEF LocalInv, Inside
    <3>2. 1 .. Blocks \subseteq Nat
      BY DiskCacheAssumption
    <3>3. QED
      BY <2>2, <3>1, <3>2 DEF Contents
  <2>3. QED
    BY <2>1, <2>2
<1> HIDE DEF block
<1>5. /\ disk' \in [Keys -> [Files -> Contents]]
      /\ \A j \in Keys, g \in Files :
            (j # k \/ g # f \/ ~proc[p].open) => disk'[j][g] = disk[j][g]
      /\ proc[p].open => disk'[k][f] = block
  BY <1>0, <1>1, <1>3, <1>4 DEF Typed
<1>6. ASSUME AtLastBlock(p)
      PROVE  /\ proc' \in [Procs -> Local] /\ Storing(p)' /\ Looking(p)'
             /\ ~proc'[p].open /\ proc'[p].pc # "write"
             /\ \A q \in Procs \ {p} : proc'[q] = proc[q]
             /\ f \in Payloads => proc[p].off = Blocks
  <2>1. CloseFile(p)
    BY <1>6 DEF WriteBlock
  <2>2. /\ proc' \in [Procs -> Local] /\ Storing(p)' /\ Looking(p)'
        /\ ~proc'[p].open /\ proc'[p].pc # "write"
        /\ \A q \in Procs \ {p} : proc'[q] = proc[q]
    BY <1>0, <2>1, CloseFileStep
  <2>3. f \in Payloads => proc[p].off = Blocks
    BY <1>1, <1>6 DEF AtLastBlock
  <2>4. QED
    BY <2>2, <2>3
<1>7. ASSUME ~AtLastBlock(p)
      PROVE  /\ proc' \in [Procs -> Local] /\ Storing(p)' /\ Looking(p)'
             /\ proc'[p].pc = "write" /\ proc'[p].off = proc[p].off + 1
             /\ proc'[p].open = proc[p].open /\ proc'[p].key = k
             /\ File(p)' = f /\ Opened(p)' = Opened(p) /\ f \in Payloads
             /\ \A q \in Procs \ {p} : proc'[q] = proc[q]
  <2>1. f # "meta" /\ proc[p].off # Blocks /\ proc' = [proc EXCEPT ![p].off = proc[p].off + 1]
    BY <1>7 DEF WriteBlock, AtLastBlock
  <2>2. proc[p].off + 1 \in 1 .. Blocks /\ proc[p].off + 1 \in Numbers
    <3>1. proc[p].off \in 1 .. Blocks
      BY <1>1, <1>2, <2>1
    <3>2. proc[p].off + 1 \in 1 .. Blocks /\ proc[p].off + 1 \in Nat
      BY <2>1, <3>1, DiskCacheAssumption
    <3>3. QED
      BY <3>2, Written
  <2>3. [proc[p] EXCEPT !.off = proc[p].off + 1] \in Local
    BY <1>0, <2>2, Update
  <2>4. proc' \in [Procs -> Local] /\ \A q \in Procs \ {p} : proc'[q] = proc[q]
    BY <1>0, <2>1, <2>3
  <2>5. /\ proc'[p].pc = "write" /\ proc'[p].off = proc[p].off + 1
        /\ proc'[p].open = proc[p].open /\ proc'[p].key = k /\ proc'[p].todo = proc[p].todo
    BY <1>0, <2>1 DEF Local
  <2>6. File(p)' = f /\ Opened(p)' = Opened(p)
    BY <2>5 DEF File, Opened
  <2>7. Storing(p)' /\ Looking(p)'
    BY <1>0, <2>2, <2>5, <2>6 DEF Storing, Looking
  <2>8. QED
    BY <1>1, <2>1, <2>4, <2>5, <2>6, <2>7
<1>8. /\ proc' \in [Procs -> Local] /\ Storing(p)' /\ Looking(p)'
      /\ \A q \in Procs \ {p} : proc'[q] = proc[q] /\ Same(q)
      /\ proc'[p].pc = "write" => /\ proc'[p].key = k /\ File(p)' = f
                                  /\ proc'[p].open = proc[p].open
  BY <1>6, <1>7 DEF Same
<1>9. ASSUME NEW q \in Procs PROVE Inside(q)'
  <2>1. CASE q = p
    BY <1>1, <1>4, <1>5, <1>8, <2>1 DEF Inside
  <2>2. CASE q # p
    <3>1. proc[q].pc = "write" => proc[q].key \in Keys /\ File(q) \in Files
      BY OpenFileIs DEF LocalInv
    <3>2. Inside(q) /\ File(q)' = File(q) /\ proc'[q] = proc[q]
      BY <1>8, <2>2 DEF LocalInv, File
    <3>3. CASE proc[q].key = k /\ File(q) = f /\ proc[p].open
      BY <1>1, <1>4, <1>5, <3>1, <3>2, <3>3 DEF Inside
    <3>4. CASE ~(proc[q].key = k /\ File(q) = f /\ proc[p].open)
      BY <1>5, <3>1, <3>2, <3>4 DEF Inside
    <3>5. QED
      BY <3>3, <3>4
  <2>3. QED
    BY <2>1, <2>2
<1>10. LocalInv'
  BY <1>0, <1>3, <1>5, <1>8, <1>9, LocalInvFrame
<1>11. /\ \A j \in Keys, g \in Files :
            <<j, g>> # Opened(p) \/ ~proc[p].open => disk'[j][g] = disk[j][g]
       /\ proc[p].open /\ f \in Payloads =>
            disk'[k][f] = disk[k][f] \cup {proc[p].off}
  BY <1>1, <1>5 DEF Opened, block
<1>12. QED
  BY <1>0, <1>1, <1>2, <1>6, <1>7, <1>8, <1>10, <1>11 DEF Opened

LEMMA WriteFailsStep ==
    ASSUME LocalInv, NEW p \in Procs, WriteFails(p)
    PROVE  /\ LocalInv' /\ UNCHANGED disk /\ proc'[p].pc # "write"
           /\ \A q \in Procs \ {p} : proc'[q] = proc[q]
<1>0. Typed /\ proc \in [Procs -> Local] /\ proc[p].pc = "write" /\ UNCHANGED <<disk, now>>
  BY DEF LocalInv, Typed, WriteFails, At
<1>1. /\ proc' \in [Procs -> Local] /\ Storing(p)' /\ Looking(p)' /\ proc'[p].pc # "write"
      /\ \A q \in Procs \ {p} : proc'[q] = proc[q] /\ Same(q)
  <2>1. CASE CloseFile(p)
    BY <1>0, <2>1, CloseFileStep DEF Same
  <2>2. CASE Finish(p)
    BY <1>0, <2>2, FinishTyped DEF Same, Storing, Looking, Idle
  <2>3. QED
    BY <2>1, <2>2 DEF WriteFails
<1>2. \A q \in Procs : Inside(q)'
  BY <1>0, <1>1, InsideFrame DEF LocalInv
<1>3. QED
  BY <1>0, <1>1, <1>2, LocalInvFrame DEF Typed

LEMMA QuietStep ==
    ASSUME LocalInv, NEW p \in Procs, Quiet(p)
    PROVE  /\ LocalInv' /\ UNCHANGED disk /\ proc'[p].pc # "write"
           /\ \A q \in Procs \ {p} : proc'[q] = proc[q]
<1>1. /\ proc' \in [Procs -> Local] /\ proc'[p].pc \notin {"open", "write"} /\ Looking(p)'
      /\ \A q \in Procs \ {p} : proc'[q] = proc[q]
      /\ UNCHANGED <<disk, now>>
  BY QuietTyped
<1>2. Storing(p)' /\ \A q \in Procs \ {p} : Same(q)
  BY <1>1 DEF Storing, Same
<1>3. \A q \in Procs : Inside(q)'
  BY <1>1, <1>2, InsideFrame DEF LocalInv
<1>4. QED
  BY <1>1, <1>2, <1>3, LocalInvFrame DEF LocalInv, Typed

\* Whoever has the file open goes on, without its name.
LEMMA UnlinkStep ==
    ASSUME LocalInv, NEW p \in Procs, NEW f \in Files, Unlink(p, f)
    PROVE  /\ LocalInv' /\ proc'[p].pc # "write"
           /\ \A k \in Keys, g \in Files :
                 <<k, g>> # <<Victim(p), f>> => disk'[k][g] = disk[k][g]
           /\ Victim(p) \in Keys => disk'[Victim(p)][f] = None
           /\ \A q \in Procs \ {p} :
                 /\ Same(q)
                 /\ proc'[q].open <=> proc[q].open /\ Opened(q) # <<Victim(p), f>>
<1> DEFINE k == Victim(p)
           D == proc[p].doomed \ {f}
           r == [proc[p] EXCEPT !.doomed = D]
<1>0. /\ Typed /\ proc \in [Procs -> Local] /\ proc[p].pc = "remove"
      /\ disk' = [disk EXCEPT ![k][f] = None] /\ UNCHANGED now
      /\ proc' = [q \in Procs |->
                    IF q = p THEN r
                    ELSE IF proc[q].open /\ Opened(q) = <<k, f>>
                         THEN [proc[q] EXCEPT !.open = FALSE]
                         ELSE proc[q]]
  BY DEF LocalInv, Typed, Unlink, At
<1> HIDE DEF k
<1>1. r \in Local /\ r.pc = "remove"
  <2>1. proc[p] \in Local /\ proc[p].doomed \in SomeFiles
    BY <1>0, Fields
  <2>2. D \in SomeFiles
    BY <2>1 DEF SomeFiles
  <2>3. r \in Local
    BY <2>1, <2>2, Update
  <2>4. r.pc = proc[p].pc
    BY <2>1 DEF Local
  <2>5. QED
    BY <1>0, <2>3, <2>4
<1>2. \A q \in Procs : [proc[q] EXCEPT !.open = FALSE] \in Local
  BY <1>0, Update
<1> HIDE DEF r
<1>3. proc' \in [Procs -> Local] /\ proc'[p].pc = "remove"
  BY <1>0, <1>1, <1>2
<1>4. \A q \in Procs \ {p} :
         /\ Same(q)
         /\ proc'[q].open <=> proc[q].open /\ Opened(q) # <<k, f>>
  <2> SUFFICES ASSUME NEW q \in Procs \ {p}
               PROVE  /\ Same(q)
                      /\ proc'[q].open <=> proc[q].open /\ Opened(q) # <<k, f>>
    OBVIOUS
  <2>1. CASE proc[q].open /\ Opened(q) = <<k, f>>
    <3>1. proc'[q] = [proc[q] EXCEPT !.open = FALSE] /\ proc[q] \in Local
      BY <1>0, <2>1
    <3>2. Same(q) /\ ~proc'[q].open
      BY <3>1 DEF Same, Local
    <3>3. QED
      BY <2>1, <3>2
  <2>2. CASE ~(proc[q].open /\ Opened(q) = <<k, f>>)
    <3>1. proc'[q] = proc[q]
      BY <1>0, <2>2
    <3>2. QED
      BY <2>2, <3>1 DEF Same
  <2>3. QED
    BY <2>1, <2>2
<1>5. /\ disk' \in [Keys -> [Files -> Contents]]
      /\ \A j \in Keys, g \in Files : j # k \/ g # f => disk'[j][g] = disk[j][g]
      /\ k \in Keys => disk'[k][f] = None
  BY <1>0 DEF Typed, Contents
<1>6. Storing(p)' /\ Looking(p)'
  BY <1>3 DEF Storing, Looking
<1>7. ASSUME NEW q \in Procs PROVE Inside(q)'
  <2>1. CASE q = p
    BY <1>3, <2>1 DEF Inside
  <2>2. CASE q # p
    <3>1. proc[q].pc = "write" => proc[q].key \in Keys /\ File(q) \in Files
      BY OpenFileIs DEF LocalInv
    <3>2. Inside(q) /\ File(q)' = File(q) /\ Opened(q)' = Opened(q) /\ Same(q)
      BY <1>4, <2>2 DEF LocalInv, File, Opened, Same
    <3>3. ASSUME proc'[q].open, proc'[q].pc = "write"
          PROVE  proc[q].open /\ disk'[proc[q].key][File(q)] = disk[proc[q].key][File(q)]
      BY <1>4, <1>5, <2>2, <3>1, <3>2, <3>3 DEF Opened, Same
    <3>4. QED
      BY <3>2, <3>3 DEF Inside, Same
  <2>3. QED
    BY <2>1, <2>2
<1>8. LocalInv'
  BY <1>0, <1>3, <1>4, <1>5, <1>6, <1>7, LocalInvFrame DEF Typed
<1>9. QED
  BY <1>3, <1>4, <1>5, <1>8 DEF k

LEMMA LocalInvInit == Init => LocalInv
<1> SUFFICES ASSUME Init PROVE LocalInv
  OBVIOUS
<1>1. proc \in [Procs -> Local] /\ \A p \in Procs : proc[p].pc = "idle"
  BY IdleLocal DEF Init, Idle
<1>2. Typed
  BY <1>1 DEF Init, Typed, Contents
<1>3. QED
  BY <1>1, <1>2 DEF LocalInv, Storing, Looking, Inside

LEMMA LocalInvIdle ==
    LocalInv /\ UNCHANGED <<disk, proc>> /\ now' \in Nat => LocalInv'
BY DEF LocalInv, Typed, Storing, Looking, Inside, File

LEMMA StepIs ==
    ASSUME NEW p \in Procs, Step(p)
    PROVE  \/ \E k \in Keys, f \in Payloads : Store(p, k, f)
           \/ \E k \in Keys : Lookup(p, k)
           \/ OpenFile(p) \/ WriteBlock(p) \/ WriteFails(p) \/ Quiet(p)
           \/ \E f \in Files : Unlink(p, f)
BY DiskCacheAssumption DEF Step, Quiet

LEMMA LocalInvStep == LocalInv /\ [Next]_vars => LocalInv'
<1> SUFFICES ASSUME LocalInv, [Next]_vars PROVE LocalInv'
  OBVIOUS
<1>1. CASE Tick \/ UNCHANGED vars
  <2>1. UNCHANGED <<disk, proc>> /\ now' \in Nat
    BY <1>1 DEF Tick, vars, LocalInv, Typed
  <2>2. QED
    BY <2>1, LocalInvIdle
<1>2. ASSUME NEW p \in Procs, Step(p) PROVE LocalInv'
  BY <1>2, StepIs, StoreTyped, LookupTyped, OpenFileStep, WriteBlockStep, WriteFailsStep,
     QuietStep, UnlinkStep
<1>3. QED
  BY <1>1, <1>2 DEF Next

-----------------------------------------------------------------------------
(* The payloads.                                                           *)

OpenAt(p, k, f) == At(p, "write") /\ proc[p].open /\ Opened(p) = <<k, f>>

Completing(p, k, f) ==
    OpenAt(p, k, f) /\ (1 .. Blocks) \ disk[k][f] \subseteq proc[p].off .. Blocks

\* A payload that is not there is not being written: who had it open has lost
\* its name, and a writer that opens it afterwards begins at the first block.
Kept(k, f) ==
    \/ disk[k][f] = None /\ \A p \in Procs : ~OpenAt(p, k, f)
    \/ disk[k][f] = 1 .. Blocks
    \/ <<k, f>> \in torn
    \/ \E p \in Procs : Completing(p, k, f)

KeptInv == \A k \in Keys, f \in Payloads : Kept(k, f)

\* The other compilers see a step of p in the disk only.
LEMMA OpenAtSame ==
    ASSUME NEW q \in Procs, Same(q), NEW k, NEW f
    PROVE  /\ Opened(q)' = Opened(q) /\ proc'[q].off = proc[q].off
           /\ (proc'[q].open <=> proc[q].open) => (OpenAt(q, k, f)' <=> OpenAt(q, k, f))
BY DEF Same, Opened, OpenAt, File, At

\* A step of p after which it writes nothing.
LEMMA KeptFrame ==
    ASSUME NEW p \in Procs, NEW k \in Keys, NEW f \in Payloads, Kept(k, f),
           disk'[k][f] = disk[k][f], proc'[p].pc # "write",
           \A q \in Procs \ {p} : Same(q) /\ (proc'[q].open <=> proc[q].open),
           <<k, f>> \in torn \/ OpenAt(p, k, f) => <<k, f>> \in torn'
    PROVE  Kept(k, f)'
<1>1. ~OpenAt(p, k, f)'
  BY DEF OpenAt, At
<1>2. \A q \in Procs \ {p} : OpenAt(q, k, f)' <=> OpenAt(q, k, f)
  BY OpenAtSame
<1>3. \A q \in Procs \ {p} : Completing(q, k, f) => Completing(q, k, f)'
  BY <1>2, OpenAtSame DEF Completing
<1>4. Completing(p, k, f) => <<k, f>> \in torn'
  BY DEF Completing
<1>5. QED
  BY <1>1, <1>2, <1>3, <1>4 DEF Kept

LEMMA KeptOpenFile ==
    ASSUME LocalInv, NEW p \in Procs, OpenFile(p),
           NEW k \in Keys, NEW f \in Payloads, Kept(k, f)
    PROVE  Kept(k, f)'
<1>1. /\ proc'[p].pc = "write" /\ proc'[p].open /\ proc'[p].off = 1
      /\ Opened(p)' = Opened(p) /\ f \in Files /\ ~OpenAt(p, k, f)
      /\ torn' = torn \ {Opened(p)}
      /\ \A q \in Procs \ {p} : proc'[q] = proc[q] /\ Same(q)
  BY OpenFileStep, FilesKnown DEF OpenAt, OpenFile, At, Same, Opened
<1>2. CASE Opened(p) = <<k, f>>
  <2>1. disk'[k][f] = {}
    BY <1>2, OpenFileStep
  <2>2. Completing(p, k, f)'
    BY <1>1, <1>2, <2>1 DEF Completing, OpenAt, At
  <2>3. QED
    BY <2>2 DEF Kept
<1>3. CASE Opened(p) # <<k, f>>
  <2>1. disk'[k][f] = disk[k][f] /\ ~OpenAt(p, k, f)'
    BY <1>1, <1>3, OpenFileStep DEF OpenAt
  <2>2. \A q \in Procs \ {p} : OpenAt(q, k, f)' <=> OpenAt(q, k, f)
    BY <1>1, OpenAtSame
  <2>3. \A q \in Procs \ {p} : Completing(q, k, f) => Completing(q, k, f)'
    BY <1>1, <2>1, <2>2 DEF Completing
  <2>4. ~Completing(p, k, f)
    BY <1>1 DEF Completing
  <2>5. QED
    BY <1>1, <1>3, <2>1, <2>2, <2>3, <2>4 DEF Kept
<1>4. QED
  BY <1>2, <1>3

LEMMA KeptWriteBlock ==
    ASSUME LocalInv, NEW p \in Procs, WriteBlock(p),
           NEW k \in Keys, NEW f \in Payloads, Kept(k, f)
    PROVE  Kept(k, f)'
<1>1. /\ \A q \in Procs \ {p} : proc'[q] = proc[q] /\ Same(q)
      /\ Opened(p) = <<proc[p].key, File(p)>> /\ f \in Files
      /\ torn' = torn
  BY WriteBlockStep, FilesKnown DEF Same, WriteBlock, history
<1>2. \A q \in Procs \ {p} : OpenAt(q, k, f)' <=> OpenAt(q, k, f)
  BY <1>1, OpenAtSame
<1>3. CASE OpenAt(p, k, f)
  <2>1. /\ proc[p].key = k /\ File(p) = f /\ proc[p].open
        /\ proc[p].off \in 1 .. Blocks
        /\ disk'[k][f] = disk[k][f] \cup {proc[p].off}
        /\ disk[k][f] \subseteq 1 .. Blocks
    <3>1. proc[p].key = k /\ File(p) = f /\ proc[p].open /\ proc[p].pc = "write"
      BY <1>1, <1>3 DEF OpenAt, At
    <3>2. f # "meta"
      BY FilesKnown
    <3>3. QED
      BY <3>1, <3>2, WriteBlockStep DEF LocalInv, Inside
  <2>2. ASSUME NEW q \in Procs \ {p}, Completing(q, k, f) PROVE Completing(q, k, f)'
    BY <1>1, <1>2, <2>1, <2>2 DEF Completing
  <2>3. ASSUME Completing(p, k, f) PROVE Completing(p, k, f)' \/ disk'[k][f] = 1 .. Blocks
    <3>1. CASE proc[p].off = Blocks
      <4>1. (1 .. Blocks) \ disk[k][f] \subseteq {Blocks}
        BY <2>3, <3>1, DiskCacheAssumption DEF Completing
      <4>2. QED
        BY <2>1, <3>1, <4>1
    <3>2. CASE proc[p].off # Blocks
      <4>1. /\ proc'[p].pc = "write" /\ proc'[p].off = proc[p].off + 1
            /\ proc'[p].open = proc[p].open /\ Opened(p)' = Opened(p)
        BY <2>1, <3>2, WriteBlockStep
      <4>2. OpenAt(p, k, f)'
        BY <1>3, <4>1 DEF OpenAt, At
      <4>3. ASSUME NEW n \in (1 .. Blocks) \ disk'[k][f] PROVE n \in proc'[p].off .. Blocks
        <5>1. n \in proc[p].off .. Blocks /\ n # proc[p].off
          BY <2>1, <2>3, <4>3 DEF Completing
        <5>2. QED
          BY <2>1, <4>1, <5>1, DiskCacheAssumption
      <4>4. QED
        BY <4>2, <4>3 DEF Completing
    <3>3. QED
      BY <3>1, <3>2
  <2>4. disk[k][f] = 1 .. Blocks => disk'[k][f] = 1 .. Blocks
    BY <2>1
  <2>5. QED
    BY <1>1, <1>3, <2>2, <2>3, <2>4 DEF Kept
<1>4. CASE ~OpenAt(p, k, f)
  <2>1. disk'[k][f] = disk[k][f]
    <3>1. proc[p].pc = "write"
      BY WriteBlockStep
    <3>2. <<k, f>> # Opened(p) \/ ~proc[p].open
      BY <1>4, <3>1 DEF OpenAt, At
    <3>3. QED
      BY <1>1, <3>2, WriteBlockStep
  <2>2. ~OpenAt(p, k, f)'
    <3>1. \/ proc'[p].pc # "write"
          \/ /\ proc'[p].pc = "write" /\ proc[p].pc = "write"
             /\ proc'[p].open = proc[p].open /\ Opened(p)' = Opened(p)
      BY WriteBlockStep
    <3>2. QED
      BY <1>4, <3>1 DEF OpenAt, At
  <2>3. \A q \in Procs \ {p} : Completing(q, k, f) => Completing(q, k, f)'
    BY <1>1, <1>2, <2>1 DEF Completing
  <2>4. ~Completing(p, k, f)
    BY <1>4 DEF Completing
  <2>5. QED
    BY <1>1, <1>2, <2>1, <2>2, <2>3, <2>4 DEF Kept
<1>5. QED
  BY <1>3, <1>4

LEMMA KeptUnlink ==
    ASSUME LocalInv, NEW p \in Procs, NEW g \in Files, Unlink(p, g),
           NEW k \in Keys, NEW f \in Payloads, Kept(k, f)
    PROVE  Kept(k, f)'
<1>1. /\ proc'[p].pc # "write" /\ proc[p].pc = "remove" /\ f \in Files
      /\ torn' = torn \ {<<Victim(p), g>>}
      /\ \A q \in Procs \ {p} :
            /\ Same(q)
            /\ proc'[q].open <=> proc[q].open /\ Opened(q) # <<Victim(p), g>>
  BY UnlinkStep, FilesKnown DEF Unlink, At
<1>2. ~OpenAt(p, k, f) /\ ~OpenAt(p, k, f)'
  BY <1>1 DEF OpenAt, At
<1>3. CASE <<k, f>> = <<Victim(p), g>>
  <2>1. disk'[k][f] = None
    BY <1>3, UnlinkStep
  <2>2. \A q \in Procs \ {p} : ~OpenAt(q, k, f)'
    BY <1>1, <1>3, OpenAtSame DEF OpenAt
  <2>3. QED
    BY <1>2, <2>1, <2>2 DEF Kept
<1>4. CASE <<k, f>> # <<Victim(p), g>>
  <2>1. disk'[k][f] = disk[k][f]
    BY <1>1, <1>4, UnlinkStep
  <2>2. \A q \in Procs \ {p} : OpenAt(q, k, f)' <=> OpenAt(q, k, f)
    BY <1>1, <1>4, OpenAtSame DEF OpenAt, Same, At
  <2>3. \A q \in Procs \ {p} : Completing(q, k, f) => Completing(q, k, f)'
    BY <1>1, <2>1, <2>2 DEF Completing, Same
  <2>4. QED
    BY <1>1, <1>2, <1>4, <2>1, <2>2, <2>3 DEF Kept, Completing
<1>5. QED
  BY <1>3, <1>4

LEMMA KeptStep ==
    ASSUME LocalInv, [Next]_vars, NEW k \in Keys, NEW f \in Payloads, Kept(k, f)
    PROVE  Kept(k, f)'
<1>1. CASE Tick \/ UNCHANGED vars
  BY <1>1 DEF Tick, vars, history, Kept, Completing, OpenAt, Opened, File, At
<1>2. ASSUME NEW p \in Procs, Step(p) PROVE Kept(k, f)'
  <2>1. CASE OpenFile(p)
    BY <2>1, KeptOpenFile
  <2>2. CASE WriteBlock(p)
    BY <2>2, KeptWriteBlock
  <2>3. CASE \E g \in Files : Unlink(p, g)
    BY <2>3, KeptUnlink
  <2>4. CASE (\E j \in Keys, g \in Payloads : Store(p, j, g)) \/ (\E j \in Keys : Lookup(p, j))
    <3>1. /\ proc'[p].pc # "write" /\ proc[p].pc = "idle"
          /\ \A q \in Procs \ {p} : Same(q) /\ (proc'[q].open <=> proc[q].open)
          /\ UNCHANGED <<disk, torn>>
      <4>1. proc[p].pc = "idle" /\ UNCHANGED <<disk, torn>>
        BY <2>4 DEF Store, Lookup, Begin, At, history
      <4>2. /\ proc'[p].pc # "write"
            /\ \A q \in Procs \ {p} : Same(q) /\ (proc'[q].open <=> proc[q].open)
        <5>1. CASE \E j \in Keys, g \in Payloads : Store(p, j, g)
          BY <5>1, StoreTyped
        <5>2. CASE \E j \in Keys : Lookup(p, j)
          BY <5>2, LookupTyped
        <5>3. QED
          BY <2>4, <5>1, <5>2
      <4>3. QED
        BY <4>1, <4>2
    <3>2. QED
      BY <3>1, KeptFrame DEF OpenAt, At
  <2>5. CASE WriteFails(p) \/ Quiet(p)
    <3>1. /\ proc'[p].pc # "write" /\ UNCHANGED disk
          /\ \A q \in Procs \ {p} : Same(q) /\ (proc'[q].open <=> proc[q].open)
      BY <2>5, WriteFailsStep, QuietStep DEF Same
    <3>2. <<k, f>> \in torn => <<k, f>> \in torn'
      BY <2>5
      DEF WriteFails, Torn, Quiet, OpenFails, CheckSize, ListEntries, EvictionEnds, EvictNext,
          RemoveDir, ReadSize, ReadBytes, Crash, history
    <3>3. OpenAt(p, k, f) => <<k, f>> \in torn'
      <4> SUFFICES ASSUME OpenAt(p, k, f) PROVE <<k, f>> \in torn'
        OBVIOUS
      <4>1. proc[p].pc = "write" /\ proc[p].open /\ File(p) = f /\ Opened(p) = <<k, f>>
        BY DEF OpenAt, At, Opened
      <4>2. <<k, f>> \in Torn(p)
        BY <4>1 DEF Torn
      <4>3. WriteFails(p) \/ Crash(p)
        BY <2>5, <4>1
        DEF Quiet, OpenFails, CheckSize, ListEntries, EvictionEnds, EvictNext, RemoveDir,
            ReadSize, ReadBytes, At
      <4>4. QED
        BY <4>1, <4>2, <4>3 DEF WriteFails, Crash, At
    <3>4. QED
      BY <3>1, <3>2, <3>3, KeptFrame
  <2>6. QED
    BY <1>2, <2>1, <2>2, <2>3, <2>4, <2>5, StepIs
<1>3. QED
  BY <1>1, <1>2 DEF Next

-----------------------------------------------------------------------------
(* A compiler that is alone.                                               *)

\* A step that begins no call.
Goes(p) ==
    OpenFile(p) \/ WriteBlock(p) \/ WriteFails(p) \/ Quiet(p) \/ \E f \in Files : Unlink(p, f)

\* It marks nobody as alone.
LEMMA MarkKept ==
    ASSUME LocalInv, NEW p \in Procs, Goes(p)
    PROVE  /\ proc[p].pc # "idle"
           /\ \A q \in Procs : proc'[q].alone => proc[q].alone
<1>0. proc \in [Procs -> Local]
  BY DEF LocalInv, Typed
<1>1. proc[p].pc # "idle"
  BY DEF Goes, Quiet, OpenFile, WriteBlock, WriteFails, OpenFails, CheckSize, ListEntries,
         EvictionEnds, EvictNext, RemoveDir, ReadSize, ReadBytes, Crash, Unlink, At
<1>2. CASE Finish(p)
  BY <1>0, <1>1, <1>2 DEF Finish, Idle
<1>3. CASE CloseFile(p)
  <2>1. CASE File(p) = "meta"
    <3>1. [Idle EXCEPT !.pc = "check", !.alone = proc[p].alone].alone = proc[p].alone
      BY DEF Idle
    <3>2. QED
      BY <1>0, <1>1, <1>3, <2>1, <3>1 DEF CloseFile
  <2>2. CASE File(p) # "meta"
    BY <1>0, <1>1, <1>3, <2>2 DEF CloseFile, Local
  <2>3. QED
    BY <2>1, <2>2
<1>4. CASE NextFile(p) /\ ~Finish(p)
  <2>1. proc' = [proc EXCEPT ![p].todo = Tail(@), ![p].pc = "size",
                             ![p].open = FALSE, ![p].off = 0]
    BY <1>4 DEF NextFile
  <2>2. proc'[p].alone = proc[p].alone /\ \A q \in Procs \ {p} : proc'[q] = proc[q]
    BY <1>0, <2>1 DEF Local
  <2>3. QED
    BY <1>1, <2>2
<1>5. CASE OpenFile(p)
  BY <1>0, <1>1, <1>5 DEF OpenFile, Local
<1>6. CASE WriteBlock(p) /\ ~CloseFile(p)
  BY <1>0, <1>1, <1>6 DEF WriteBlock, Local
<1>7. CASE CheckSize(p) /\ ~Finish(p)
  BY <1>0, <1>1, <1>7 DEF CheckSize, Local
<1>8. CASE ListEntries(p)
  BY <1>0, <1>1, <1>8 DEF ListEntries, Local
<1>9. CASE EvictNext(p)
  BY <1>0, <1>1, <1>9 DEF EvictNext, Local
<1>10. CASE RemoveDir(p)
  BY <1>0, <1>1, <1>10 DEF RemoveDir, Local
<1>11. CASE ReadSize(p) /\ ~NextFile(p)
  BY <1>0, <1>1, <1>11 DEF ReadSize, Local
<1>12. CASE \E f \in Files : Unlink(p, f)
  <2>1. PICK f \in Files : Unlink(p, f)
    BY <1>12
  <2>2. \A q \in Procs : \/ proc'[q] = [proc[q] EXCEPT !.doomed = proc[q].doomed \ {f}]
                         \/ proc'[q] = [proc[q] EXCEPT !.open = FALSE]
                         \/ proc'[q] = proc[q]
    BY <2>1 DEF Unlink
  <2>3. \A q \in Procs : proc[q] \in Local
    BY <1>0
  <2>4. \A q \in Procs : proc'[q].alone = proc[q].alone
    BY <2>2, <2>3 DEF Local
  <2>5. QED
    BY <1>1, <2>4
<1>13. QED
  BY <1>2, <1>3, <1>4, <1>5, <1>6, <1>7, <1>8, <1>9, <1>10, <1>11, <1>12
  DEF Goes, Quiet, WriteFails, OpenFails, EvictionEnds, ReadBytes, Crash, CheckSize, ReadSize

\* Nobody else is busy while a compiler is alone.
Alone(p) == proc[p].alone => \A q \in Procs \ {p} : proc[q].pc = "idle"

\* What it reads is the whole payload.
ReadsAll(p) ==
    proc[p].pc = "read" /\ proc[p].alone /\ Opened(p) \notin torn =>
        /\ proc[p].off = Blocks
        /\ disk[proc[p].key][File(p)] = 1 .. Blocks

AloneInv == \A p \in Procs : Alone(p) /\ ReadsAll(p)

\* The other steps of a compiler touch nobody who is alone.
LEMMA AloneGoes ==
    ASSUME LocalInv, NEW p \in Procs, Goes(p), AloneInv,
           \A q \in Procs \ {p} : Same(q)
    PROVE  /\ \A q \in Procs : Alone(q)'
           /\ \A q \in Procs \ {p} : ReadsAll(q)'
<1>1. proc[p].pc # "idle" /\ \A q \in Procs : proc'[q].alone => proc[q].alone
  BY MarkKept
<1>2. \A q \in Procs \ {p} : ~proc'[q].alone
  BY <1>1 DEF AloneInv, Alone
<1>3. Alone(p)'
  BY <1>1 DEF AloneInv, Alone, Same
<1>4. QED
  BY <1>2, <1>3 DEF Alone, ReadsAll

LEMMA MaxBlocks == Max(1 .. Blocks) = Blocks
<1>1. Blocks \in 1 .. Blocks /\ \A y \in 1 .. Blocks : Blocks >= y
  BY DiskCacheAssumption
<1>2. \A x \in 1 .. Blocks : (\A y \in 1 .. Blocks : x >= y) => x = Blocks
  BY <1>1, DiskCacheAssumption
<1>3. QED
  BY <1>1, <1>2 DEF Max

\* Opening a payload to read it: it is there, nobody completes it, and so it is
\* whole unless its writer died.
LEMMA ReadSizeWhole ==
    ASSUME LocalInv, KeptInv, AloneInv, NEW p \in Procs, ReadSize(p)
    PROVE  ReadsAll(p)'
<1> DEFINE k == proc[p].key
           f == File(p)
<1>0. /\ proc \in [Procs -> Local] /\ proc[p].pc = "size" /\ UNCHANGED <<disk, torn>>
      /\ k \in Keys /\ f \in Payloads
  <2>1. proc[p].key \in Keys /\ proc[p].todo \in {<<"ir", "obj">>, <<"obj">>}
    BY DEF LocalInv, Looking, ReadSize, At
  <2>2. Head(<<"ir", "obj">>) = "ir" /\ Head(<<"obj">>) = "obj"
    OBVIOUS
  <2>3. QED
    BY <2>1, <2>2 DEF LocalInv, Typed, ReadSize, At, history, File, Payloads
<1>1. CASE Size(k, f) = 0
  <2>1. NextFile(p) /\ proc[p].todo # <<>>
    <3>1. proc[p].todo \in {<<"ir", "obj">>, <<"obj">>}
      BY <1>0 DEF LocalInv, Looking
    <3>2. <<"ir", "obj">> # <<>> /\ <<"obj">> # <<>>
      OBVIOUS
    <3>3. NextFile(p)
      BY <1>1 DEF ReadSize
    <3>4. QED
      BY <3>1, <3>2, <3>3
  <2>2. proc'[p].pc # "read"
    BY <1>0, <2>1, NextFileTyped
  <2>3. QED
    BY <2>2 DEF ReadsAll
<1>2. CASE Size(k, f) # 0
  <2>1. proc' = [proc EXCEPT ![p].pc = "read", ![p].off = Size(k, f), ![p].open = TRUE]
    BY <1>2 DEF ReadSize
  <2>2. /\ proc'[p].off = Size(k, f) /\ proc'[p].key = k /\ proc'[p].todo = proc[p].todo
        /\ proc'[p].alone = proc[p].alone
    BY <1>0, <2>1 DEF Local
  <2>3. File(p)' = f /\ Opened(p)' = <<k, f>>
    BY <2>2 DEF File, Opened
  <2>4. disk[k][f] \notin {None, {}}
    BY <1>2 DEF Size
  <2>5. ASSUME proc[p].alone, <<k, f>> \notin torn PROVE disk[k][f] = 1 .. Blocks
    <3>1. \A q \in Procs : ~Completing(q, k, f)
      BY <1>0, <2>5 DEF AloneInv, Alone, Completing, OpenAt, At
    <3>2. QED
      BY <1>0, <2>4, <2>5, <3>1 DEF KeptInv, Kept
  <2>6. disk[k][f] = 1 .. Blocks => Size(k, f) = Blocks
    BY <1>0, <2>4, MaxBlocks, FilesKnown DEF Size
  <2>7. QED
    BY <1>0, <2>2, <2>3, <2>5, <2>6 DEF ReadsAll
<1>3. QED
  BY <1>1, <1>2

LEMMA ReadsAllFrame ==
    ASSUME NEW q \in Procs, ReadsAll(q), UNCHANGED <<disk, torn>>,
           Same(q), proc'[q].alone => proc[q].alone
    PROVE  ReadsAll(q)'
BY DEF ReadsAll, Same, Opened, File

LEMMA AloneBegins ==
    ASSUME LocalInv, AloneInv, NEW p \in Procs, NEW r \in Local, Begin(p, r),
           r.pc \in {"open", "size"}
    PROVE  AloneInv'
<1>0. proc \in [Procs -> Local]
  BY DEF LocalInv, Typed
<1>1. PICK b \in BOOLEAN : proc'[p] = [r EXCEPT !.alone = b]
  BY <1>0, BeginTyped
<1>2. \A q \in Procs \ {p} : proc'[q] = [proc[q] EXCEPT !.alone = FALSE]
  BY <1>0, BeginTyped
<1>3. \A q \in Procs \ {p} : ~proc'[q].alone /\ proc'[q].pc = proc[q].pc
  <2>1. TAKE q \in Procs \ {p}
  <2>2. proc[q] \in Local /\ proc'[q] = [proc[q] EXCEPT !.alone = FALSE]
    BY <1>0, <1>2
  <2>3. proc'[q].alone = FALSE
    BY <2>2, Zenon DEF Local
  <2>4. proc'[q].pc = proc[q].pc
    BY <1>0, <2>2, OthersSame DEF Same
  <2>5. QED
    BY <2>3, <2>4
<1>4. proc'[p].pc # "read"
  BY <1>1 DEF Local
<1>5. proc'[p].alone => \A q \in Procs : proc[q].pc = "idle"
  <2> DEFINE c == \A o \in Procs : At(o, "idle")
  <2>1. proc' = [q \in Procs |-> IF q = p THEN [r EXCEPT !.alone = c]
                                 ELSE [proc[q] EXCEPT !.alone = FALSE]]
    BY DEF Begin
  <2> HIDE DEF c
  <2>2. proc'[p] = [r EXCEPT !.alone = c]
    BY <2>1
  <2>3. proc'[p].alone = c
    BY <2>2 DEF Local
  <2>4. QED
    BY <2>3 DEF c, At
<1>6. QED
  BY <1>3, <1>4, <1>5 DEF AloneInv, Alone, ReadsAll

LEMMA AloneStep ==
    ASSUME LocalInv, KeptInv, AloneInv, NEW p \in Procs, Step(p) PROVE AloneInv'
<1>1. CASE \E k \in Keys, f \in Payloads : Store(p, k, f)
  <2>1. PICK k \in Keys, f \in Payloads : Store(p, k, f)
    BY <1>1
  <2> DEFINE r == [Idle EXCEPT !.pc = "open", !.key = k, !.ts = now, !.todo = <<f, "meta">>]
  <2>2. /\ Idle \in Local /\ "open" \in Places /\ k \in KeyOrNone /\ <<f, "meta">> \in Lists
        /\ now \in Nat
    BY IdleLocal, Written DEF KeyOrNone, Lists, Payloads, LocalInv, Typed
  <2>3. r \in Local
    BY <2>2, Zenon DEF Local
  <2>4. Begin(p, r) /\ r.pc = "open"
    BY <2>1 DEF Store, Idle
  <2> HIDE DEF r
  <2>5. QED
    BY <2>3, <2>4, AloneBegins
<1>2. CASE \E k \in Keys : Lookup(p, k)
  <2>1. PICK k \in Keys : Lookup(p, k)
    BY <1>2
  <2> DEFINE r == [Idle EXCEPT !.pc = "size", !.key = k, !.todo = <<"ir", "obj">>]
  <2>2. Idle \in Local /\ "size" \in Places /\ k \in KeyOrNone /\ <<"ir", "obj">> \in Lists
    BY IdleLocal, Written DEF KeyOrNone, Lists
  <2>3. r \in Local
    BY <2>2, Zenon DEF Local
  <2>4. Begin(p, r) /\ r.pc = "size"
    BY <2>1 DEF Lookup, Idle
  <2> HIDE DEF r
  <2>5. QED
    BY <2>3, <2>4, AloneBegins
<1>3. CASE Goes(p)
  <2>1. \A q \in Procs \ {p} : Same(q)
    BY <1>3, OpenFileStep, WriteBlockStep, WriteFailsStep, QuietStep, UnlinkStep
    DEF Goes, Same
  <2>2. CASE ReadSize(p)
    BY <1>3, <2>1, <2>2, AloneGoes, ReadSizeWhole DEF AloneInv
  <2>3. CASE ~ReadSize(p)
    <3>1. proc'[p].pc # "read"
      <4>1. proc \in [Procs -> Local]
        BY DEF LocalInv, Typed
      <4>2. CASE Finish(p)
        BY <4>1, <4>2, FinishTyped DEF Idle
      <4>3. CASE ReadBytes(p)
        <5>1. proc[p].todo # <<>>
          BY <4>3 DEF ReadBytes, At, LocalInv, Looking
        <5>2. QED
          BY <4>1, <4>3, <5>1, NextFileTyped DEF ReadBytes
      <4>4. CASE CheckSize(p) /\ ~Finish(p)
        BY <4>1, <4>4 DEF CheckSize, Local
      <4>5. CASE ListEntries(p)
        BY <4>1, <4>5 DEF ListEntries, Local
      <4>6. CASE EvictNext(p)
        BY <4>1, <4>6 DEF EvictNext, Local
      <4>7. CASE RemoveDir(p)
        BY <4>1, <4>7 DEF RemoveDir, Local
      <4>8. CASE OpenFile(p)
        BY <4>8, OpenFileStep
      <4>9. CASE CloseFile(p) /\ proc[p].pc = "write"
        BY <4>1, <4>9, CloseFileStep, CloseFileTyped, OpenFileIs DEF LocalInv
      <4>10. CASE WriteBlock(p) /\ ~CloseFile(p)
        BY <4>10, <4>1 DEF WriteBlock, At, Local
      <4>11. CASE \E f \in Files : Unlink(p, f)
        <5>1. PICK f \in Files : Unlink(p, f)
          BY <4>11
        <5>2. proc'[p] = [proc[p] EXCEPT !.doomed = @ \ {f}] /\ proc[p].pc = "remove"
          BY <4>1, <5>1 DEF Unlink, At
        <5>3. QED
          BY <4>1, <5>2 DEF Local
      <4>12. QED
        BY <1>3, <2>3, <4>2, <4>3, <4>4, <4>5, <4>6, <4>7, <4>8, <4>9, <4>10, <4>11
        DEF Goes, Quiet, WriteFails, WriteBlock, OpenFails, EvictionEnds, CheckSize, Crash, At
    <3>2. QED
      BY <1>3, <2>1, <3>1, AloneGoes DEF AloneInv, ReadsAll
  <2>4. QED
    BY <2>2, <2>3
<1>4. QED
  BY <1>1, <1>2, <1>3, StepIs DEF Goes

LEMMA InvAlways == Spec => [](LocalInv /\ KeptInv /\ AloneInv)
<1>1. Init => LocalInv /\ KeptInv /\ AloneInv
  <2>1. Init => KeptInv
    BY FilesKnown DEF Init, KeptInv, Kept, OpenAt, At, Idle
  <2>2. Init => AloneInv
    BY DEF Init, AloneInv, Alone, ReadsAll, Idle
  <2>3. QED
    BY <2>1, <2>2, LocalInvInit
<1>2. ASSUME LocalInv, KeptInv, AloneInv, [Next]_vars PROVE (LocalInv /\ KeptInv /\ AloneInv)'
  <2>1. LocalInv' /\ KeptInv'
    BY <1>2, LocalInvStep, KeptStep DEF KeptInv
  <2>2. CASE Tick \/ UNCHANGED vars
    <3>1. UNCHANGED <<disk, torn, proc>>
      BY <2>2 DEF Tick, vars, history
    <3>2. AloneInv'
      BY <1>2, <3>1 DEF AloneInv, Alone, ReadsAll, Opened, File
    <3>3. QED
      BY <2>1, <3>2
  <2>3. CASE \E p \in Procs : Step(p)
    BY <1>2, <2>1, <2>3, AloneStep
  <2>4. QED
    BY <1>2, <2>2, <2>3 DEF Next
<1>3. QED
  BY <1>1, <1>2, PTL DEF Spec

(* A payload with blocks missing is being completed by a compiler that has *)
(* still to write every one of them, or its writer was killed or met a     *)
(* full disk, however many compilers truncate, write and evict it.         *)
THEOREM SpecIncompleteHasWriter == Spec => []IncompleteHasWriter
<1>1. KeptInv => IncompleteHasWriter
  BY DEF KeptInv, Kept, Completing, OpenAt, IncompleteHasWriter
<1>2. QED
  BY <1>1, InvAlways, PTL

(* A lookup that nobody interferes with returns whole payloads, whatever   *)
(* was going on before it began, if no writer died in them.                *)
THEOREM SpecLookupIsWhole == Spec => []LookupIsWhole
<1>1. ASSUME AloneInv, NEW p \in Procs, At(p, "read"), proc[p].alone, Opened(p) \notin torn
      PROVE  Got(p) = 1 .. Blocks
  <2>1. proc[p].off = Blocks /\ disk[proc[p].key][File(p)] = 1 .. Blocks
    BY <1>1 DEF AloneInv, ReadsAll, At
  <2>2. QED
    BY <2>1 DEF Got
<1>2. AloneInv => LookupIsWhole
  BY <1>1 DEF LookupIsWhole
<1>3. QED
  BY <1>2, InvAlways, PTL

-----------------------------------------------------------------------------
(* The type invariant.                                                     *)

\* Beyond LocalInv: payloads hold their own blocks only, so no reader finds
\* more than Blocks of them.
Bounded ==
    /\ dirs \subseteq Keys
    /\ \A k \in Keys, f \in Payloads : disk[k][f] = None \/ disk[k][f] \subseteq 1 .. Blocks
    /\ \A p \in Procs : proc[p].off \in 0 .. Blocks
    /\ now \in 1 .. MaxTime /\ torn \subseteq Keys \X Payloads /\ debt \in BOOLEAN

LEMMA SizeBounds ==
    ASSUME Typed, Bounded, NEW k \in Keys, NEW f \in Files PROVE Size(k, f) \in 0 .. Blocks
<1>1. CASE disk[k][f] \in {None, {}}
  BY <1>1, DiskCacheAssumption DEF Size
<1>2. CASE disk[k][f] \notin {None, {}} /\ f = "meta"
  BY <1>2, DiskCacheAssumption DEF Size
<1>3. CASE disk[k][f] \notin {None, {}} /\ f # "meta"
  <2>1. disk[k][f] \in SUBSET (1 .. Blocks) /\ disk[k][f] # {} /\ Blocks \in Nat
    BY <1>3, DiskCacheAssumption DEF Bounded, Files
  <2>2. Max(disk[k][f]) \in 1 .. Blocks
    BY <2>1, MaxUpTo
  <2>3. Size(k, f) = Max(disk[k][f])
    BY <1>3 DEF Size
  <2>. QED BY <2>2, <2>3, DiskCacheAssumption
<1>. QED BY <1>1, <1>2, <1>3

\* What a step leaves in off.
LEMMA OffStep ==
    ASSUME LocalInv, Bounded, NEW p \in Procs, Step(p), LocalInv'
    PROVE  \A q \in Procs : proc'[q].off \in 0 .. Blocks
<1>0. /\ proc \in [Procs -> Local] /\ proc[p] \in Local /\ proc[p].off \in 0 .. Blocks
      /\ 0 \in 0 .. Blocks /\ 1 \in 0 .. Blocks
  BY DiskCacheAssumption DEF LocalInv, Typed, Bounded
<1>1. \A q \in Procs \ {p} : Same(q)
  BY StepIs, StoreTyped, LookupTyped, OpenFileStep, WriteBlockStep, WriteFailsStep, QuietStep,
     UnlinkStep DEF Same
<1>2. proc'[p].off \in 0 .. Blocks
  <2>1. CASE Finish(p)
    BY <1>0, <2>1, FinishTyped DEF Idle
  <2>2. CASE (\E k \in Keys, f \in Payloads : Store(p, k, f)) \/ \E k \in Keys : Lookup(p, k)
    BY <1>0, <2>2, StoreTyped, LookupTyped
  <2>3. CASE OpenFile(p)
    BY <1>0, <2>3, OpenFileTyped
  <2>4. CASE CloseFile(p) /\ proc[p].pc = "write"
    <3>1. proc[p].todo # <<>>
      BY <2>4, OpenFileIs DEF LocalInv
    <3>. QED BY <1>0, <2>4, <3>1, CloseFileTyped
  <2>5. CASE WriteBlock(p) /\ ~CloseFile(p)
    <3>1. proc' = [proc EXCEPT ![p].off = proc[p].off + 1] /\ File(p) # "meta" /\ proc[p].pc = "write"
          /\ proc[p].off # Blocks
      BY <2>5 DEF WriteBlock, AtLastBlock, At
    <3>2. proc'[p].off = proc[p].off + 1
      BY <1>0, <3>1 DEF Local
    <3>. QED BY <1>0, <3>1, <3>2, DiskCacheAssumption
  <2>6. CASE CheckSize(p) /\ ~Finish(p)
    BY <1>0, <2>6 DEF CheckSize, Local
  <2>7. CASE ListEntries(p)
    BY <1>0, <2>7 DEF ListEntries, Local
  <2>8. CASE EvictNext(p)
    BY <1>0, <2>8 DEF EvictNext, Local
  <2>9. CASE RemoveDir(p)
    BY <1>0, <2>9 DEF RemoveDir, Local
  <2>10. CASE \E f \in Files : Unlink(p, f)
    <3>1. PICK f \in Files : Unlink(p, f)
      BY <2>10
    <3>2. proc'[p] = [proc[p] EXCEPT !.doomed = @ \ {f}]
      BY <1>0, <3>1 DEF Unlink
    <3>. QED BY <1>0, <3>2 DEF Local
  <2>11. CASE NextFile(p) /\ ~Finish(p)
    BY <1>0, <2>11 DEF NextFile, Local
  <2>12. CASE ReadSize(p) /\ ~NextFile(p)
    <3>1. proc' = [proc EXCEPT ![p].pc = "read", ![p].off = Size(proc[p].key, File(p)),
                               ![p].open = TRUE]
      BY <2>12 DEF ReadSize
    <3>2. proc'[p].off = Size(proc[p].key, File(p))
      BY <1>0, <3>1 DEF Local
    <3>3. proc[p].key \in Keys /\ File(p) \in Files
      BY <2>12 DEF LocalInv, Looking, ReadSize, At, File, Files, Payloads
    <3>. QED BY <3>2, <3>3, SizeBounds DEF LocalInv
  <2>. QED
    BY <2>1, <2>2, <2>3, <2>4, <2>5, <2>6, <2>7, <2>8, <2>9, <2>10, <2>11, <2>12, StepIs
    DEF Quiet, WriteFails, WriteBlock, OpenFails, EvictionEnds, CheckSize, ReadSize, ReadBytes,
        Crash, At
<1>3. ASSUME NEW q \in Procs \ {p} PROVE proc'[q].off \in 0 .. Blocks
  BY <1>1 DEF Bounded, Same
<1>. QED BY <1>2, <1>3

\* What a step leaves of the payloads.
LEMMA BlocksStep ==
    ASSUME LocalInv, Bounded, NEW p \in Procs, Step(p), NEW k \in Keys, NEW f \in Payloads
    PROVE  disk'[k][f] = None \/ disk'[k][f] \subseteq 1 .. Blocks
<1>0. /\ f \in Files /\ (disk[k][f] = None \/ disk[k][f] \subseteq 1 .. Blocks)
      /\ disk \in [Keys -> [Files -> Contents]]
  BY FilesKnown DEF Bounded, LocalInv, Typed
<1>1. CASE OpenFile(p)
  <2>1. CASE <<k, f>> = Opened(p)
    <3>1. Opened(p)[1] = k /\ Opened(p)[2] = f
      BY <2>1
    <3>2. disk'[k][f] = {}
      BY <1>1, <3>1, OpenFileStep
    <3>. QED BY <3>2
  <2>2. CASE <<k, f>> # Opened(p)
    BY <1>0, <1>1, <2>2, OpenFileStep
  <2>. QED BY <2>1, <2>2
<1>2. CASE WriteBlock(p)
  <2>1. CASE <<k, f>> = Opened(p) /\ proc[p].open
    <3>1. /\ proc[p].key = k /\ File(p) = f /\ proc[p].off \in 1 .. Blocks
          /\ disk'[k][f] = disk[k][f] \cup {proc[p].off} /\ proc[p].pc = "write"
      BY <1>2, <2>1, WriteBlockStep
    <3>2. disk[k][f] \subseteq 1 .. Blocks
      BY <2>1, <3>1, FilesKnown DEF LocalInv, Inside
    <3>. QED BY <3>1, <3>2
  <2>2. CASE ~(<<k, f>> = Opened(p) /\ proc[p].open)
    BY <1>0, <1>2, <2>2, WriteBlockStep
  <2>. QED BY <2>1, <2>2
<1>3. CASE \E g \in Files : Unlink(p, g)
  <2>1. PICK g \in Files : Unlink(p, g)
    BY <1>3
  <2>2. CASE <<k, f>> = <<Victim(p), g>>
    <3>1. Victim(p) = k /\ g = f
      BY <2>2
    <3>. QED BY <2>1, <3>1, UnlinkStep
  <2>3. CASE <<k, f>> # <<Victim(p), g>>
    BY <1>0, <2>1, <2>3, UnlinkStep
  <2>. QED BY <2>2, <2>3
<1>4. CASE UNCHANGED disk
  BY <1>0, <1>4
<1>5. ASSUME (\E j \in Keys, g \in Payloads : Store(p, j, g)) \/ \E j \in Keys : Lookup(p, j)
      PROVE  UNCHANGED disk
  BY <1>5 DEF Store, Lookup, Begin
<1>6. ASSUME WriteFails(p) \/ Quiet(p) PROVE UNCHANGED disk
  BY <1>6, WriteFailsStep, QuietStep
<1>. QED
  BY <1>1, <1>2, <1>3, <1>4, <1>5, <1>6, StepIs

LEMMA TornStep ==
    ASSUME LocalInv, Bounded, NEW p \in Procs, Step(p)
    PROVE  torn' \subseteq Keys \X Payloads
<1>0. torn \subseteq Keys \X Payloads
  BY DEF Bounded
<1>1. CASE WriteFails(p) \/ (Crash(p) /\ At(p, "write"))
  <2>1. proc[p].pc = "write" /\ torn' = Torn(p)
    BY <1>1 DEF WriteFails, Crash, At
  <2>2. proc[p].key \in Keys
    BY <2>1, OpenFileIs DEF LocalInv
  <2>. QED BY <1>0, <2>1, <2>2 DEF Torn, Opened
<1>. QED
  BY <1>0, <1>1 DEF Step, Store, Lookup, Begin, OpenFile, OpenFails, WriteBlock, CheckSize, ListEntries,
     EvictionEnds, EvictNext, RemoveDir, ReadSize, ReadBytes, Crash, Unlink, history

LEMMA OthersStep ==
    ASSUME Bounded, NEW p \in Procs, Step(p)
    PROVE  dirs' \subseteq Keys /\ now' \in 1 .. MaxTime /\ debt' \in BOOLEAN
<1>1. debt \in BOOLEAN /\ dirs \subseteq Keys /\ now \in 1 .. MaxTime
  BY DEF Bounded
<1>2. dirs' \subseteq Keys
  <2>1. ASSUME NEW k \in Keys, NEW f \in Payloads, Store(p, k, f) PROVE dirs' \subseteq Keys
    BY <1>1, <2>1 DEF Store
  <2>2. ASSUME \E k \in Keys : Lookup(p, k) PROVE dirs' \subseteq Keys
    BY <1>1, <2>2 DEF Lookup
  <2>3. ASSUME RemoveDir(p) PROVE dirs' \subseteq Keys
    <3>1. \E v : dirs' = dirs \ {v} \/ dirs' = dirs
      BY <2>3 DEF RemoveDir
    <3>. QED BY <1>1, <3>1
  <2>4. ASSUME ~RemoveDir(p), Goes(p) PROVE dirs' \subseteq Keys
    BY <1>1, <2>4
    DEF Goes, Quiet, OpenFile, OpenFails, WriteBlock, WriteFails, CheckSize, ListEntries,
        EvictionEnds, EvictNext, ReadSize, ReadBytes, Crash, Unlink
  <2>. QED BY <2>1, <2>2, <2>3, <2>4, StepIs DEF Goes
<1>3. now' \in 1 .. MaxTime
  BY <1>1
  DEF Step, Store, Lookup, Begin, OpenFile, OpenFails, WriteBlock, WriteFails, CheckSize, ListEntries,
     EvictionEnds, EvictNext, RemoveDir, ReadSize, ReadBytes, Crash, Unlink
<1>4. debt' \in BOOLEAN
  BY <1>1
  DEF Step, Store, Lookup, Begin, OpenFile, OpenFails, WriteBlock, WriteFails, CheckSize, ListEntries,
     EvictionEnds, EvictNext, RemoveDir, ReadSize, ReadBytes, Crash, Unlink, history
<1>. QED BY <1>2, <1>3, <1>4

LEMMA BoundedInit == Init => Bounded
<1> SUFFICES ASSUME Init PROVE Bounded
  OBVIOUS
<1>1. dirs = {} /\ torn = {} /\ debt = FALSE
  BY DEF Init
<1>2. \A k \in Keys, f \in Payloads : disk[k][f] = None
  BY FilesKnown DEF Init
<1>3. \A p \in Procs : proc[p].off = 0
  BY DEF Init, Idle
<1>4. now \in 1 .. MaxTime /\ 0 \in 0 .. Blocks
  BY DiskCacheAssumption DEF Init
<1>. QED BY <1>1, <1>2, <1>3, <1>4 DEF Bounded

LEMMA BoundedAlways == Spec => [](LocalInv /\ Bounded)
<1>1. ASSUME LocalInv, Bounded, [Next]_vars PROVE (LocalInv /\ Bounded)'
  <2>1. LocalInv'
    BY <1>1, LocalInvStep
  <2>2. CASE Tick \/ UNCHANGED vars
    <3>1. UNCHANGED <<dirs, disk, proc, history>> /\ now' \in 1 .. MaxTime
      BY <1>1, <2>2, DiskCacheAssumption DEF Tick, vars, Bounded
    <3>. QED BY <1>1, <2>1, <3>1 DEF Bounded, history
  <2>3. ASSUME NEW p \in Procs, Step(p) PROVE Bounded'
    BY <1>1, <2>1, <2>3, OffStep, BlocksStep, TornStep, OthersStep DEF Bounded
  <2>. QED BY <1>1, <2>1, <2>2, <2>3 DEF Next
<1>. QED BY <1>1, LocalInvInit, BoundedInit, PTL DEF Spec

(* Every variable keeps its type; writers and readers stay within the       *)
(* payload, whoever else writes or unlinks it meanwhile.                   *)
THEOREM TypeCorrect == Spec => []TypeOK
<1>1. LocalInv /\ Bounded => TypeOK
  BY DEF LocalInv, Typed, Bounded, TypeOK, Contents
<1>. QED BY <1>1, BoundedAlways, PTL

-----------------------------------------------------------------------------
(* The size of the cache.                                                  *)

Entries == Keys \X Files
Weight == [e \in Entries |-> Size(e[1], e[2])]

\* An entry that is being stored may still be cut short or evicted: only the
\* others are counted.
Busy(k) == \E p \in Procs : proc[p].pc \in {"open", "write"} /\ proc[p].key = k
Steady == [e \in Entries |-> IF Busy(e[1]) THEN 0 ELSE Size(e[1], e[2])]
SteadySize == Total(Steady, Entries)

\* Compiler p will look at the size again, or has yet to decide about entry k.
Listed(p, k) == \E v \in proc[p].victims : v[2] = k
Covers(p, k) ==
    \/ proc[p].pc \in {"check", "list"}
    \/ proc[p].pc = "evict" /\ Listed(p, k)
    \/ proc[p].pc = "remove" /\ Listed(p, k) /\ (k = Victim(p) => "meta" \in proc[p].doomed)
Covered == \A k \in Keys : Readable(k) => \E p \in Procs : Covers(p, k)

SizeInv == debt \/ SteadySize <= MaxSize \/ Covered

\* A file is in a directory, and who has the name of a file has not lost it.
Named ==
    /\ \A k \in Keys, f \in Files : disk[k][f] # None => k \in dirs
    /\ \A p \in Procs :
          proc[p].pc = "write" /\ proc[p].open => disk[proc[p].key][File(p)] # None
    /\ \A p \in Procs : proc[p].ts \in 0 .. MaxTime

Sized == LocalInv /\ Bounded

LEMMA FilesFinite == IsFiniteSet(Files)
<1>1. Files = ({"ir"} \cup {"obj"}) \cup {"meta"}
  BY DEF Files, Payloads
<1>2. IsFiniteSet({"ir"}) /\ IsFiniteSet({"obj"}) /\ IsFiniteSet({"meta"})
  BY FS_Singleton
<1>. QED BY <1>1, <1>2, FS_Union

LEMMA EntriesFinite == IsFiniteSet(Entries)
BY FilesFinite, FS_Product, DiskCacheAssumption DEF Entries

LEMMA SizeNat ==
    ASSUME Sized, NEW e \in Entries
    PROVE  e[1] \in Keys /\ e[2] \in Files /\ Size(e[1], e[2]) \in Nat
<1>1. e[1] \in Keys /\ e[2] \in Files
  BY DEF Entries
<1>2. Size(e[1], e[2]) \in 0 .. Blocks
  BY <1>1, SizeBounds DEF Sized, LocalInv
<1>. QED BY <1>1, <1>2, DiskCacheAssumption

WeightTyped == Weight \in [Entries -> Nat] /\ Steady \in [Entries -> Nat]

LEMMA WeightType == Sized => WeightTyped
BY SizeNat DEF Weight, Steady, WeightTyped

LEMMA TotalSize ==
    ASSUME Sized
    PROVE  computeTotalSize = Total(Weight, Entries) /\ computeTotalSize \in Nat
<1> DEFINE Adds(it) ==
             it = [s \in SUBSET Entries |->
                     IF s = {} THEN 0
                     ELSE Size(Chosen(s)[1], Chosen(s)[2]) + it[s \ {Chosen(s)}]]
<1>1. computeTotalSize = (CHOOSE it : Adds(it))[Entries]
  BY DEF computeTotalSize, MapThenSumSet, MapThenFoldSet, Chosen, Entries
<1>2. ASSUME NEW it PROVE Adds(it) <=> Sums(it, Weight, Entries)
  <2>1. ASSUME NEW s \in SUBSET Entries, s # {}
        PROVE  Weight[Chosen(s)] = Size(Chosen(s)[1], Chosen(s)[2])
    BY <2>1 DEF Chosen, Weight
  <2>. QED BY <2>1 DEF Sums
<1> HIDE DEF Adds
<1>3. \E it : Sums(it, Weight, Entries)
  BY SumsExist, EntriesFinite
<1>4. Sums(CHOOSE it : Adds(it), Weight, Entries)
  BY <1>2, <1>3
<1>. QED BY <1>1, <1>4, TotalIs, WeightType, EntriesFinite DEF WeightTyped

LEMMA SteadyIsLess ==
    ASSUME Sized PROVE SteadySize \in Nat /\ SteadySize <= computeTotalSize
<1>1. \A e \in Entries : Steady[e] <= Weight[e]
  BY SizeNat DEF Steady, Weight
<1>. QED BY <1>1, WeightType, TotalMonotone, TotalSize, EntriesFinite DEF SteadySize, WeightTyped

\* What a step must not do to make the steady size grow.
LEMMA SteadyShrinks ==
    ASSUME Sized, Sized',
           \A k \in Keys, f \in Files : Busy(k)' \/ Size(k, f)' = 0
                                        \/ (~Busy(k) /\ Size(k, f)' <= Size(k, f))
    PROVE  SteadySize \in Nat /\ SteadySize' \in Nat /\ SteadySize' <= SteadySize
<1>1. Steady \in [Entries -> Nat] /\ Steady' \in [Entries -> Nat]
  <2>1. Sized' => WeightTyped'
    BY WeightType, PTL
  <2>. QED BY <2>1, WeightType DEF WeightTyped
<1>2. ASSUME NEW e \in Entries PROVE Steady'[e] <= Steady[e]
  <2>1. e[1] \in Keys /\ e[2] \in Files
    BY DEF Entries
  <2>2. Steady'[e] = IF Busy(e[1])' THEN 0 ELSE Size(e[1], e[2])'
    BY DEF Steady
  <2>3. Steady[e] = IF Busy(e[1]) THEN 0 ELSE Size(e[1], e[2])
    BY DEF Steady
  <2>4. Steady[e] \in Nat
    BY <1>1
  <2>. QED BY <2>1, <2>2, <2>3, <2>4
<1>. QED BY <1>1, <1>2, TotalMonotone, EntriesFinite DEF SteadySize

LEMMA SizeSame ==
    ASSUME NEW k \in Keys, NEW f \in Files, disk'[k][f] = disk[k][f]
    PROVE  Size(k, f)' = Size(k, f)
BY DEF Size

\* What the other compilers keep in a step of p.
Keeps(q) ==
    /\ proc'[q].pc = proc[q].pc /\ proc'[q].key = proc[q].key
    /\ proc'[q].victims = proc[q].victims /\ proc'[q].doomed = proc[q].doomed

LEMMA OthersKeep ==
    ASSUME LocalInv, NEW p \in Procs, Step(p), NEW q \in Procs \ {p} PROVE Keeps(q)
<1>0. proc \in [Procs -> Local] /\ proc[q] \in Local
  BY DEF LocalInv, Typed
<1>1. CASE proc'[q] = proc[q]
  BY <1>1 DEF Keeps
<1>2. CASE proc'[q] = [proc[q] EXCEPT !.alone = FALSE]
  BY <1>0, <1>2 DEF Keeps, Local
<1>3. CASE proc'[q] = [proc[q] EXCEPT !.open = FALSE]
  BY <1>0, <1>3 DEF Keeps, Local
<1>4. CASE \E k \in Keys, f \in Payloads : Store(p, k, f)
  BY <1>0, <1>2, <1>4 DEF Store, Begin
<1>5. CASE \E k \in Keys : Lookup(p, k)
  BY <1>0, <1>2, <1>5 DEF Lookup, Begin
<1>6. CASE \E f \in Files : Unlink(p, f)
  BY <1>0, <1>1, <1>3, <1>6 DEF Unlink
<1>. QED
  BY <1>1, <1>4, <1>5, <1>6, StepIs, OpenFileStep, WriteBlockStep, WriteFailsStep, QuietStep

LEMMA CoversKeeps ==
    ASSUME NEW q \in Procs, Keeps(q), NEW k PROVE Covers(q, k)' <=> Covers(q, k)
BY DEF Keeps, Covers, Listed, Victim

Stores(p, k) == proc[p].pc \in {"open", "write"} /\ proc[p].key = k

\* A step of p that writes to the entry it is storing, makes nothing readable,
\* and still covers what it covered.
LEMMA SizeFrame ==
    ASSUME Sized, Sized', SizeInv, debt' = debt, NEW p \in Procs, \A q \in Procs \ {p} : Keeps(q),
           \A k \in Keys : Stores(p, k) => Stores(p, k)' \/ \A f \in Files : Size(k, f)' = 0,
           \A k \in Keys, f \in Files : Stores(p, k)' \/ Size(k, f)' <= Size(k, f),
           \A k \in Keys : Readable(k)' => Readable(k) /\ (Covers(p, k) => Covers(p, k)')
    PROVE  SizeInv'
<1>1. CASE debt
  BY <1>1 DEF SizeInv
<1>2. CASE SteadySize <= MaxSize
  <2>1. ASSUME NEW k \in Keys, NEW f \in Files
        PROVE  Busy(k)' \/ Size(k, f)' = 0 \/ (~Busy(k) /\ Size(k, f)' <= Size(k, f))
    <3>1. Busy(k) => Stores(p, k) \/ \E q \in Procs \ {p} : Stores(q, k)
      BY DEF Busy, Stores
    <3>2. (\E q \in Procs \ {p} : Stores(q, k)) => Busy(k)'
      BY DEF Busy, Stores, Keeps
    <3>3. Stores(p, k)' => Busy(k)'
      BY DEF Busy, Stores
    <3>. QED BY <3>1, <3>2, <3>3
  <2>2. SteadySize \in Nat /\ SteadySize' \in Nat /\ SteadySize' <= SteadySize
    BY <2>1, SteadyShrinks
  <2>. QED BY <1>2, <2>2, DiskCacheAssumption DEF SizeInv
<1>3. CASE Covered
  <2>1. ASSUME NEW k \in Keys, Readable(k)' PROVE \E q \in Procs : Covers(q, k)'
    <3>1. PICK q \in Procs : Covers(q, k)
      BY <1>3, <2>1 DEF Covered
    <3>. QED BY <2>1, <3>1, CoversKeeps
  <2>. QED BY <2>1 DEF SizeInv, Covered
<1>. QED BY <1>1, <1>2, <1>3 DEF SizeInv

\* Compiler p will look at the size.
LEMMA SizeWillCheck ==
    ASSUME NEW p \in Procs, proc'[p].pc \in {"check", "list"} PROVE SizeInv'
BY DEF SizeInv, Covered, Covers

\* The files of an entry without a directory.
LEMMA NoDirectory ==
    ASSUME Named, NEW k \in Keys, k \notin dirs PROVE \A f \in Files : Size(k, f) = 0
BY DEF Named, Size

LEMMA NotMeta ==
    ASSUME Sized, NEW k \in Keys, Readable(k) PROVE disk[k]["meta"] \notin {None, {}}
BY DEF Readable, Size

LEMMA SizeBegins ==
    ASSUME Sized, Sized', SizeInv, NEW p \in Procs,
           (\E k \in Keys, f \in Payloads : Store(p, k, f)) \/ \E k \in Keys : Lookup(p, k),
           \A q \in Procs \ {p} : Keeps(q)
    PROVE  SizeInv'
<1>1. UNCHANGED <<disk, debt>> /\ proc[p].pc = "idle"
  BY DEF Store, Lookup, Begin, history, At
<1>2. \A k \in Keys, f \in Files : Size(k, f)' = Size(k, f) /\ Size(k, f) \in Nat
  <2>1. ASSUME NEW k \in Keys, NEW f \in Files PROVE Size(k, f) \in Nat
    BY SizeBounds, DiskCacheAssumption DEF Sized, LocalInv
  <2>2. ASSUME NEW k \in Keys, NEW f \in Files PROVE Size(k, f)' = Size(k, f)
    BY <1>1, SizeSame
  <2>. QED BY <2>1, <2>2
<1>3. \A k \in Keys : Readable(k)' <=> Readable(k)
  BY <1>2, FilesKnown DEF Readable
<1>. QED BY <1>1, <1>2, <1>3, SizeFrame DEF Stores, Covers

LEMMA SizeOpenFile ==
    ASSUME Sized, Sized', SizeInv, NEW p \in Procs, OpenFile(p),
           \A q \in Procs \ {p} : Keeps(q)
    PROVE  SizeInv'
<1>1. /\ proc[p].pc = "open" /\ proc'[p].pc = "write" /\ proc'[p].key = proc[p].key
      /\ debt' = debt
  BY OpenFileTyped DEF OpenFile, At, Sized, LocalInv, Typed
<1>2. ASSUME NEW k \in Keys, NEW f \in Files
      PROVE  Size(k, f)' <= Size(k, f)
  <2>0. Size(k, f) \in Nat
    BY SizeBounds, DiskCacheAssumption DEF Sized, LocalInv
  <2>1. CASE Opened(p) = <<k, f>>
    <3>1. Opened(p)[1] = k /\ Opened(p)[2] = f
      BY <2>1
    <3>2. disk'[k][f] = {}
      BY <3>1, OpenFileStep DEF Sized
    <3>. QED BY <2>0, <3>2 DEF Size
  <2>2. CASE Opened(p) # <<k, f>>
    <3>1. disk'[k][f] = disk[k][f]
      BY <2>2, OpenFileStep DEF Sized
    <3>. QED BY <2>0, <3>1, SizeSame
  <2>. QED BY <2>1, <2>2
<1>3. \A k \in Keys : Readable(k)' => Readable(k)
  <2>1. \A k \in Keys : Size(k, "meta") \in Nat /\ Size(k, "meta")' \in Nat
    <3>1. \A k \in Keys, f \in Files : Size(k, f) \in 0 .. Blocks
      BY SizeBounds DEF Sized, LocalInv
    <3>2. \A k \in Keys : Size(k, "meta")' \in {0, 1}
      BY DEF Size
    <3>. QED BY <3>1, <3>2, FilesKnown, DiskCacheAssumption
  <2>. QED BY <1>2, <2>1, FilesKnown DEF Readable
<1>. QED BY <1>1, <1>2, <1>3, SizeFrame DEF Stores, Covers

LEMMA SizeWriteBlock ==
    ASSUME Sized, Sized', SizeInv, NEW p \in Procs, WriteBlock(p),
           \A q \in Procs \ {p} : Keeps(q)
    PROVE  SizeInv'
<1>0. /\ proc \in [Procs -> Local] /\ proc[p].pc = "write" /\ debt' = debt
      /\ proc[p].key \in Keys /\ File(p) \in Files /\ proc[p].todo # <<>>
  BY OpenFileIs DEF Sized, LocalInv, Typed, WriteBlock, At, history
<1>1. CASE File(p) = "meta"
  <2>1. CloseFile(p)
    BY <1>1 DEF WriteBlock, AtLastBlock
  <2>2. proc'[p].pc = "check"
    BY <1>0, <1>1, <2>1, CloseFileTyped
  <2>. QED BY <2>2, SizeWillCheck
<1>2. CASE File(p) # "meta"
  <2>1. proc'[p].pc \in {"open", "write"} /\ proc'[p].key = proc[p].key
    <3>1. CASE CloseFile(p)
      BY <1>0, <1>2, <3>1, CloseFileTyped
    <3>2. CASE ~CloseFile(p)
      BY <1>0, <3>2 DEF WriteBlock, Local
    <3>. QED BY <3>1, <3>2
  <2>2. ASSUME NEW k \in Keys, NEW f \in Files, k # proc[p].key \/ f # File(p)
        PROVE  Size(k, f)' = Size(k, f) /\ Size(k, f) \in Nat
    <3>1. disk'[k][f] = disk[k][f]
      BY <2>2, WriteBlockStep DEF Sized
    <3>2. Size(k, f) \in Nat
      BY SizeBounds, DiskCacheAssumption DEF Sized, LocalInv
    <3>. QED BY <3>1, <3>2, SizeSame
  <2>3. \A k \in Keys, f \in Files : Stores(p, k)' \/ Size(k, f)' <= Size(k, f)
    BY <2>1, <2>2 DEF Stores
  <2>4. \A k \in Keys : Readable(k)' => Readable(k)
    BY <1>2, <2>2, FilesKnown DEF Readable
  <2>. QED BY <1>0, <2>1, <2>3, <2>4, SizeFrame DEF Stores, Covers
<1>. QED BY <1>1, <1>2

LEMMA SizeWriteFails ==
    ASSUME Sized, NEW p \in Procs, WriteFails(p) PROVE SizeInv'
<1>0. /\ proc \in [Procs -> Local] /\ proc[p].pc = "write" /\ proc[p].todo # <<>>
  BY OpenFileIs DEF Sized, LocalInv, Typed, WriteFails, At
<1>1. CASE File(p) = "meta"
  BY <1>0, <1>1, CloseFileTyped, SizeWillCheck DEF WriteFails
<1>2. CASE File(p) # "meta"
  BY <1>2 DEF WriteFails, SizeInv
<1>. QED BY <1>1, <1>2

\* The disk is as it was.
LEMMA SizeUnchanged ==
    ASSUME Sized, UNCHANGED disk
    PROVE  /\ \A k \in Keys, f \in Files : Size(k, f)' = Size(k, f) /\ Size(k, f) \in Nat
           /\ \A k : Readable(k)' <=> Readable(k)
           /\ \A k \in Keys : Size(k, "meta")' = Size(k, "meta")
<1>1. \A k \in Keys, f \in Files : Size(k, f) \in Nat
  BY SizeBounds, DiskCacheAssumption DEF Sized, LocalInv
<1>. QED BY <1>1, FilesKnown DEF Size, Readable

LEMMA SizeFinish ==
    ASSUME Sized, Sized', SizeInv, NEW p \in Procs, UNCHANGED <<disk, debt>>,
           \A q \in Procs \ {p} : Keeps(q), proc'[p].pc \notin {"open", "write"},
           \A k \in Keys : Stores(p, k) => \A f \in Files : Size(k, f) = 0,
           \A k \in Keys : Readable(k) /\ Covers(p, k) => Covers(p, k)'
    PROVE  SizeInv'
BY SizeUnchanged, SizeFrame DEF Stores

LEMMA SizeOpenFails ==
    ASSUME Sized, Sized', SizeInv, Named, NEW p \in Procs, OpenFails(p),
           \A q \in Procs \ {p} : Keeps(q)
    PROVE  SizeInv'
<1>1. /\ proc[p].pc = "open" /\ proc'[p].pc = "idle" /\ UNCHANGED <<disk, debt>>
      /\ proc[p].key \notin dirs
  BY FinishTyped DEF OpenFails, At, history, Idle, Sized, LocalInv, Typed
<1>2. \A k \in Keys : Stores(p, k) => \A f \in Files : Size(k, f) = 0
  BY <1>1, NoDirectory DEF Stores
<1>. QED BY <1>1, <1>2, SizeFinish DEF Covers

\* Whoever finds the cache small enough may stop.
LEMMA SizeSmall ==
    ASSUME Sized, Sized', NEW p \in Procs, UNCHANGED disk,
           \A q \in Procs \ {p} : Keeps(q), proc[p].pc \notin {"open", "write"},
           computeTotalSize <= MaxSize
    PROVE  SizeInv'
<1>1. ASSUME NEW k \in Keys, NEW f \in Files
      PROVE  Busy(k)' \/ Size(k, f)' = 0 \/ (~Busy(k) /\ Size(k, f)' <= Size(k, f))
  <2>1. Busy(k) => Busy(k)'
    BY DEF Busy, Keeps
  <2>. QED BY <2>1, SizeUnchanged
<1>2. SteadySize \in Nat /\ SteadySize' \in Nat /\ SteadySize' <= SteadySize
  BY <1>1, SteadyShrinks
<1>3. SteadySize <= computeTotalSize /\ computeTotalSize \in Nat
  BY SteadyIsLess, TotalSize
<1>. QED BY <1>2, <1>3, DiskCacheAssumption DEF SizeInv

LEMMA SizeCheck ==
    ASSUME Sized, Sized', NEW p \in Procs, CheckSize(p), \A q \in Procs \ {p} : Keeps(q)
    PROVE  SizeInv'
<1>1. CASE SmallEnough
  <2>1. UNCHANGED disk /\ proc[p].pc = "check"
    BY DEF CheckSize, At
  <2>. QED BY <1>1, <2>1, SizeSmall DEF SmallEnough
<1>2. CASE ~SmallEnough
  <2>1. proc'[p].pc = "list"
    BY <1>2 DEF CheckSize, Sized, LocalInv, Typed, Local
  <2>. QED BY <2>1, SizeWillCheck
<1>. QED BY <1>1, <1>2

LEMMA SizeList ==
    ASSUME Sized, NEW p \in Procs, ListEntries(p) PROVE SizeInv'
<1> DEFINE V == {<<Timestamp(k), k>> : k \in {e \in Keys : Readable(e)}}
<1>1. /\ proc' = [proc EXCEPT ![p].pc = "evict", ![p].victims = V] /\ UNCHANGED disk
      /\ proc \in [Procs -> Local]
  BY DEF ListEntries, Sized, LocalInv, Typed
<1>2. ASSUME NEW k \in Keys, Readable(k) PROVE <<Timestamp(k), k>> \in V
  BY <1>2
<1> HIDE DEF V
<1>3. proc'[p].pc = "evict" /\ proc'[p].victims = V
  BY <1>1 DEF Local
<1>4. ASSUME NEW k \in Keys, Readable(k)' PROVE Covers(p, k)'
  <2>1. <<Timestamp(k), k>> \in proc'[p].victims
    BY <1>1, <1>2, <1>3, <1>4, SizeUnchanged
  <2>. QED BY <1>3, <2>1 DEF Covers, Listed
<1>. QED BY <1>4 DEF SizeInv, Covered

LEMMA SizeEvictionEnds ==
    ASSUME Sized, Sized', SizeInv, NEW p \in Procs, EvictionEnds(p),
           \A q \in Procs \ {p} : Keeps(q)
    PROVE  SizeInv'
<1>1. /\ proc[p].pc = "evict" /\ proc'[p].pc = "idle" /\ UNCHANGED <<disk, debt>>
  BY FinishTyped DEF EvictionEnds, At, history, Idle, Sized, LocalInv, Typed
<1>2. CASE proc[p].victims = {}
  BY <1>1, <1>2, SizeFinish DEF Covers, Listed, Stores
<1>3. CASE computeTotalSize <= (MaxSize * 9) \div 10
  <2>1. (MaxSize * 9) \div 10 <= MaxSize /\ (MaxSize * 9) \div 10 \in Nat
    BY DiskCacheAssumption
  <2>2. computeTotalSize <= MaxSize
    BY <1>3, <2>1, TotalSize, DiskCacheAssumption
  <2>. QED BY <1>1, <2>2, SizeSmall
<1>. QED BY <1>2, <1>3 DEF EvictionEnds

LEMMA SizeEvictNext ==
    ASSUME Sized, Sized', SizeInv, NEW p \in Procs, EvictNext(p),
           \A q \in Procs \ {p} : Keeps(q)
    PROVE  SizeInv'
<1> DEFINE D == {f \in Files : disk[Victim(p)][f] # None}
<1>1. /\ proc' = [proc EXCEPT ![p].pc = "remove", ![p].doomed = D]
      /\ proc \in [Procs -> Local] /\ proc[p].pc = "evict" /\ UNCHANGED <<disk, debt>>
  BY DEF EvictNext, Sized, LocalInv, Typed, At, history
<1>2. Readable(Victim(p)) => "meta" \in D
  BY FilesKnown DEF Readable, Size
<1> HIDE DEF D
<1>3. /\ proc'[p].pc = "remove" /\ proc'[p].doomed = D /\ proc'[p].victims = proc[p].victims
  BY <1>1 DEF Local
<1>4. Victim(p)' = Victim(p)
  BY <1>3 DEF Victim
<1>5. \A k \in Keys : Readable(k) /\ Covers(p, k) => Covers(p, k)'
  BY <1>1, <1>2, <1>3, <1>4 DEF Covers, Listed
<1>. QED BY <1>1, <1>3, <1>5, SizeFinish DEF Stores

LEMMA SizeUnlink ==
    ASSUME Sized, Sized', SizeInv, NEW p \in Procs, NEW f \in Files, Unlink(p, f),
           \A q \in Procs \ {p} : Keeps(q)
    PROVE  SizeInv'
<1>0. /\ proc \in [Procs -> Local] /\ proc[p].pc = "remove" /\ debt' = debt
      /\ proc'[p] = [proc[p] EXCEPT !.doomed = @ \ {f}]
  BY DEF Unlink, Sized, LocalInv, Typed, At
<1>1. /\ proc'[p].pc = "remove" /\ proc'[p].doomed = proc[p].doomed \ {f}
      /\ proc'[p].victims = proc[p].victims /\ Victim(p)' = Victim(p)
  BY <1>0 DEF Local, Victim
<1>2. ASSUME NEW k \in Keys, NEW g \in Files
      PROVE  /\ Size(k, g)' <= Size(k, g)
             /\ Size(k, g)' = Size(k, g) \/ Size(k, g)' = 0
             /\ k = Victim(p) /\ g = f => Size(k, g)' = 0
  <2>0. Size(k, g) \in Nat
    BY SizeBounds, DiskCacheAssumption DEF Sized, LocalInv
  <2>1. CASE k = Victim(p) /\ g = f
    <3>1. disk'[k][g] = None
      BY <2>1, UnlinkStep DEF Sized
    <3>. QED BY <2>0, <3>1 DEF Size
  <2>2. CASE ~(k = Victim(p) /\ g = f)
    <3>1. disk'[k][g] = disk[k][g]
      BY <2>2, UnlinkStep DEF Sized
    <3>. QED BY <2>0, <2>2, <3>1, SizeSame
  <2>. QED BY <2>1, <2>2
<1>3. ASSUME NEW k \in Keys, Readable(k)' PROVE Readable(k) /\ (k = Victim(p) => f # "meta")
  <2>1. Size(k, "meta")' = Size(k, "meta") \/ Size(k, "meta")' = 0
    BY <1>2, FilesKnown
  <2>2. k = Victim(p) /\ f = "meta" => Size(k, "meta")' = 0
    BY <1>2, FilesKnown
  <2>. QED BY <1>3, <2>1, <2>2 DEF Readable
<1>4. \A k \in Keys : Readable(k)' => Readable(k) /\ (Covers(p, k) => Covers(p, k)')
  BY <1>0, <1>1, <1>3 DEF Covers, Listed
<1>. QED BY <1>0, <1>1, <1>2, <1>4, SizeFrame DEF Stores

LEMMA SizeRemoveDir ==
    ASSUME Sized, Sized', SizeInv, NEW p \in Procs, RemoveDir(p),
           \A q \in Procs \ {p} : Keeps(q)
    PROVE  SizeInv'
<1> DEFINE v == FirstOf(proc[p].victims)
           V == proc[p].victims \ {v}
<1>1. /\ proc' = [proc EXCEPT ![p].pc = "evict", ![p].victims = V]
      /\ proc \in [Procs -> Local] /\ proc[p].pc = "remove" /\ proc[p].doomed = {}
      /\ UNCHANGED <<disk, debt>> /\ Victim(p) = v[2]
  BY DEF RemoveDir, Sized, LocalInv, Typed, At, history, Victim
<1> HIDE DEF v
<1>2. /\ proc'[p].pc = "evict" /\ proc'[p].victims = V
  <2> HIDE DEF V
  <2>. QED BY <1>1 DEF Local
<1>3. \A k \in Keys : Covers(p, k) => Covers(p, k)'
  BY <1>1, <1>2 DEF Covers, Listed
<1>. QED BY <1>1, <1>2, <1>3, SizeFinish DEF Stores

LEMMA SizeReads ==
    ASSUME Sized, Sized', SizeInv, NEW p \in Procs,
           ReadSize(p) \/ ReadBytes(p) \/ (Crash(p) /\ proc[p].pc \in {"size", "read"}),
           \A q \in Procs \ {p} : Keeps(q)
    PROVE  SizeInv'
<1>1. Quiet(p) /\ proc[p].pc \in {"size", "read"} /\ UNCHANGED <<disk, debt>>
  <2>1. debt \in BOOLEAN
    BY DEF Sized, Bounded
  <2>. QED BY <2>1 DEF Quiet, ReadSize, ReadBytes, Crash, At, history
<1>2. proc'[p].pc \notin {"open", "write"}
  BY <1>1, QuietTyped DEF Sized
<1>. QED BY <1>1, <1>2, SizeFinish DEF Stores, Covers

LEMMA SizeCrash ==
    ASSUME NEW p \in Procs, Crash(p), proc[p].pc \notin {"size", "read"} PROVE SizeInv'
BY DEF Crash, SizeInv

LEMMA SizeStep ==
    ASSUME Sized, Sized', SizeInv, Named, NEW p \in Procs, Step(p)
    PROVE  SizeInv'
<1>1. \A q \in Procs \ {p} : Keeps(q)
  BY OthersKeep DEF Sized
<1>. QED
  BY <1>1, StepIs, SizeBegins, SizeOpenFile, SizeWriteBlock, SizeWriteFails, SizeOpenFails, SizeCheck,
     SizeList, SizeEvictionEnds, SizeEvictNext, SizeUnlink, SizeRemoveDir, SizeReads, SizeCrash
  DEF Quiet

-----------------------------------------------------------------------------
(* Directories and names of files.                                         *)

FilesInDirs == \A k \in Keys, f \in Files : disk[k][f] # None => k \in dirs
NameKept(p) == proc[p].pc = "write" /\ proc[p].open => disk[proc[p].key][File(p)] # None

LEMMA DirsStep ==
    ASSUME LocalInv, Named, NEW p \in Procs, Step(p) PROVE FilesInDirs'
<1>1. FilesInDirs
  BY DEF Named, FilesInDirs
<1>2. CASE UNCHANGED disk /\ dirs \subseteq dirs'
  BY <1>1, <1>2 DEF FilesInDirs
<1>3. CASE OpenFile(p)
  <2>1. proc[p].key \in dirs /\ Opened(p)[1] = proc[p].key /\ Opened(p)[2] = File(p) /\ dirs' = dirs
    BY <1>3 DEF OpenFile, Opened
  <2>2. ASSUME NEW k \in Keys, NEW f \in Files, k \notin dirs PROVE disk'[k][f] = disk[k][f]
    <3>1. <<k, f>> # Opened(p)
      BY <2>1, <2>2
    <3>. QED BY <1>3, <3>1, OpenFileStep
  <2>. QED BY <1>1, <2>1, <2>2 DEF FilesInDirs
<1>4. CASE WriteBlock(p)
  <2>1. proc[p].pc = "write" /\ Opened(p) = <<proc[p].key, File(p)>> /\ dirs' = dirs
    BY <1>4, WriteBlockStep DEF WriteBlock
  <2>2. ASSUME NEW k \in Keys, NEW f \in Files, k \notin dirs PROVE disk'[k][f] = disk[k][f]
    <3>1. <<k, f>> # Opened(p) \/ ~proc[p].open
      BY <2>1, <2>2 DEF Named
    <3>. QED BY <1>4, <3>1, WriteBlockStep
  <2>. QED BY <1>1, <2>1, <2>2 DEF FilesInDirs
<1>5. CASE \E g \in Files : Unlink(p, g)
  <2>1. PICK g \in Files : Unlink(p, g)
    BY <1>5
  <2>2. ASSUME NEW k \in Keys, NEW f \in Files PROVE disk'[k][f] = disk[k][f] \/ disk'[k][f] = None
    <3>1. CASE <<k, f>> = <<Victim(p), g>>
      <4>1. Victim(p) = k /\ g = f
        BY <3>1
      <4>. QED BY <2>1, <4>1, UnlinkStep
    <3>2. CASE <<k, f>> # <<Victim(p), g>>
      BY <2>1, <3>2, UnlinkStep
    <3>. QED BY <3>1, <3>2
  <2>3. dirs' = dirs
    BY <2>1 DEF Unlink
  <2>. QED BY <1>1, <2>2, <2>3 DEF FilesInDirs
<1>6. CASE RemoveDir(p)
  <2>1. UNCHANGED disk
    BY <1>6 DEF RemoveDir
  <2>2. PICK v : dirs' = dirs \/ (dirs' = dirs \ {v} /\ \A f \in Files : disk[v][f] = None)
    BY <1>6 DEF RemoveDir
  <2>. QED BY <1>1, <2>1, <2>2 DEF FilesInDirs
<1>7. (\E k \in Keys, f \in Payloads : Store(p, k, f)) \/ (\E k \in Keys : Lookup(p, k))
        => UNCHANGED disk /\ dirs \subseteq dirs'
  BY DEF Store, Lookup, Begin
<1>8. WriteFails(p) \/ Quiet(p) => RemoveDir(p) \/ (UNCHANGED disk /\ dirs \subseteq dirs')
  BY DEF Quiet, OpenFails, WriteFails, CheckSize, ListEntries, EvictionEnds, EvictNext, ReadSize,
         ReadBytes, Crash
<1>. QED BY <1>2, <1>3, <1>4, <1>5, <1>6, <1>7, <1>8, StepIs

\* A compiler that does nothing keeps the name of its file unless it is unlinked.
LEMMA NameFrame ==
    ASSUME LocalInv, NEW q \in Procs, NameKept(q), Same(q), proc'[q].open => proc[q].open,
           \A k \in Keys, f \in Files :
              disk[k][f] # None /\ disk'[k][f] = None => ~(proc'[q].open /\ Opened(q) = <<k, f>>)
    PROVE  NameKept(q)'
<1>1. proc[q].pc = "write" => proc[q].key \in Keys /\ File(q) \in Files
  BY OpenFileIs DEF LocalInv
<1>. QED BY <1>1 DEF NameKept, Same, Opened, File

\* What is written is a file.
LEMMA NoneIsNoFile ==
    {} # None /\ (\A s : s \subseteq 1 .. Blocks => s # None) /\ \A t \in 0 .. MaxTime : {t} # None
<1>1. \A s \in SUBSET (1 .. Blocks) : None # s
  BY DiskCacheAssumption
<1>2. {} \in SUBSET (1 .. Blocks)
  OBVIOUS
<1>. QED BY <1>1, <1>2, DiskCacheAssumption

\* Opening and writing leave a file where there was one, and in the file in hand.
LEMMA FilesStay ==
    ASSUME LocalInv, Named, NEW p \in Procs, OpenFile(p) \/ WriteBlock(p),
           NEW k \in Keys, NEW f \in Files,
           disk[k][f] # None \/ (<<k, f>> = Opened(p) /\ (OpenFile(p) \/ proc[p].open))
    PROVE  disk'[k][f] # None
<1>1. CASE OpenFile(p)
  <2>1. CASE <<k, f>> = Opened(p)
    <3>1. Opened(p)[1] = k /\ Opened(p)[2] = f
      BY <2>1
    <3>. QED BY <1>1, <3>1, OpenFileStep, NoneIsNoFile
  <2>2. CASE <<k, f>> # Opened(p)
    BY <1>1, <2>2, OpenFileStep
  <2>. QED BY <2>1, <2>2
<1>2. CASE WriteBlock(p)
  <2>1. CASE ~(<<k, f>> = Opened(p) /\ proc[p].open)
    <3>1. disk'[k][f] = disk[k][f]
      BY <1>2, <2>1, WriteBlockStep
    <3>2. ~OpenFile(p)
      BY <1>2 DEF OpenFile, WriteBlock, At
    <3>. QED BY <2>1, <3>1, <3>2
  <2>2. CASE <<k, f>> = Opened(p) /\ proc[p].open
    <3>1. proc[p].key = k /\ File(p) = f /\ proc[p].pc = "write"
      BY <1>2, <2>2, WriteBlockStep
    <3>2. CASE f = "meta"
      <4>1. disk' = [disk EXCEPT ![k][f] = {proc[p].ts}]
        BY <1>2, <2>2, <3>1, <3>2 DEF WriteBlock
      <4>2. disk'[k][f] = {proc[p].ts}
        BY <4>1 DEF LocalInv, Typed
      <4>. QED BY <4>2, NoneIsNoFile DEF Named
    <3>3. CASE f # "meta"
      <4>1. f \in Payloads
        BY <3>3 DEF Files
      <4>2. /\ proc[p].off \in 1 .. Blocks /\ disk'[k][f] = disk[k][f] \cup {proc[p].off}
        BY <1>2, <2>2, <3>1, <4>1, WriteBlockStep
      <4>3. disk[k][f] \subseteq 1 .. Blocks
        BY <2>2, <3>1, <3>3 DEF LocalInv, Inside
      <4>. QED BY <4>2, <4>3, NoneIsNoFile
    <3>. QED BY <3>2, <3>3
  <2>. QED BY <2>1, <2>2
<1>. QED BY <1>1, <1>2

LEMMA NameStep ==
    ASSUME LocalInv, LocalInv', Named, NEW p \in Procs, Step(p), NEW q \in Procs
    PROVE  NameKept(q)'
<1>0. NameKept(q) /\ proc \in [Procs -> Local]
  BY DEF Named, NameKept, LocalInv, Typed
<1>1. CASE q # p /\ (OpenFile(p) \/ WriteBlock(p))
  <2>1. proc'[q] = proc[q]
    BY <1>1, OpenFileStep, WriteBlockStep
  <2>2. Same(q) /\ (proc'[q].open => proc[q].open)
    BY <2>1 DEF Same
  <2>. QED BY <1>0, <1>1, <2>2, FilesStay, NameFrame
<1>2. CASE q = p /\ OpenFile(p)
  <2>1. Opened(p)' = Opened(p) /\ Opened(p) \in Keys \X Files
    BY <1>2, OpenFileStep
  <2>2. /\ proc'[p].key = Opened(p)[1] /\ File(p)' = Opened(p)[2]
        /\ Opened(p) = <<Opened(p)[1], Opened(p)[2]>>
    BY <2>1 DEF Opened
  <2>3. disk'[Opened(p)[1]][Opened(p)[2]] # None
    BY <1>2, <2>1, <2>2, FilesStay
  <2>. QED BY <1>2, <2>2, <2>3 DEF NameKept
<1>3. CASE q = p /\ WriteBlock(p)
  <2>1. CASE ~proc'[p].open
    BY <1>3, <2>1 DEF NameKept
  <2>2. CASE proc'[p].open
    <3>1. /\ proc[p].open /\ Opened(p)' = Opened(p) /\ Opened(p) = <<proc[p].key, File(p)>>
          /\ proc[p].pc = "write" /\ File(p) \in Files
      BY <1>3, <2>2, WriteBlockStep
    <3>2. proc[p].key \in Keys
      BY <3>1, OpenFileIs DEF LocalInv
    <3>3. disk'[proc[p].key][File(p)] # None
      BY <1>3, <3>1, <3>2, FilesStay
    <3>4. proc'[p].key = proc[p].key /\ File(p)' = File(p)
      BY <3>1 DEF Opened
    <3>. QED BY <1>3, <3>3, <3>4 DEF NameKept
  <2>. QED BY <2>1, <2>2
<1>4. CASE \E g \in Files : Unlink(p, g)
  <2>1. PICK g \in Files : Unlink(p, g)
    BY <1>4
  <2>2. CASE q = p
    BY <2>1, <2>2, UnlinkStep DEF NameKept
  <2>3. CASE q # p
    <3>1. Same(q) /\ (proc'[q].open <=> proc[q].open /\ Opened(q) # <<Victim(p), g>>)
      BY <2>1, <2>3, UnlinkStep
    <3>2. \A k \in Keys, f \in Files : disk[k][f] # None /\ disk'[k][f] = None => <<k, f>> = <<Victim(p), g>>
      BY <2>1, UnlinkStep
    <3>. QED BY <1>0, <3>1, <3>2, NameFrame
  <2>. QED BY <2>2, <2>3
<1>5. CASE (\E k \in Keys, f \in Payloads : Store(p, k, f)) \/ \E k \in Keys : Lookup(p, k)
  <2>1. proc'[p].pc # "write" /\ UNCHANGED disk
        /\ \A r \in Procs \ {p} : Same(r) /\ (proc'[r].open <=> proc[r].open)
    <3>1. UNCHANGED disk
      BY <1>5 DEF Store, Lookup, Begin
    <3>. QED BY <1>5, <3>1, StoreTyped, LookupTyped
  <2>. QED BY <1>0, <2>1, NameFrame DEF NameKept
<1>6. CASE WriteFails(p) \/ Quiet(p)
  <2>1. /\ proc'[p].pc # "write" /\ UNCHANGED disk
        /\ \A r \in Procs \ {p} : Same(r) /\ (proc'[r].open <=> proc[r].open)
    BY <1>6, WriteFailsStep, QuietStep DEF Same
  <2>. QED BY <1>0, <2>1, NameFrame DEF NameKept
<1>. QED BY <1>1, <1>2, <1>3, <1>4, <1>5, <1>6, StepIs

\* The records that Store and Lookup begin with.
LEMMA StoreBegins ==
    ASSUME LocalInv, NEW p \in Procs, NEW k \in Keys, NEW f \in Payloads, Store(p, k, f)
    PROVE  \E r \in Local : Begin(p, r) /\ r.ts = now
<1> DEFINE r == [Idle EXCEPT !.pc = "open", !.key = k, !.ts = now, !.todo = <<f, "meta">>]
<1>1. Idle \in Local /\ "open" \in Places /\ k \in KeyOrNone /\ <<f, "meta">> \in Lists /\ now \in Nat
  BY IdleLocal, Written DEF KeyOrNone, Lists, Payloads, LocalInv, Typed
<1>2. r \in Local
  BY <1>1, Zenon DEF Local
<1>3. Begin(p, r) /\ r.ts = now
  BY DEF Store, Idle
<1>. QED BY <1>2, <1>3

LEMMA LookupBegins ==
    ASSUME LocalInv, NEW p \in Procs, NEW k \in Keys, Lookup(p, k)
    PROVE  \E r \in Local : Begin(p, r) /\ r.ts = 0
<1> DEFINE r == [Idle EXCEPT !.pc = "size", !.key = k, !.todo = <<"ir", "obj">>]
<1>1. Idle \in Local /\ "size" \in Places /\ k \in KeyOrNone /\ <<"ir", "obj">> \in Lists
  BY IdleLocal, Written DEF KeyOrNone, Lists
<1>2. r \in Local
  BY <1>1, Zenon DEF Local
<1>3. Begin(p, r) /\ r.ts = 0
  BY DEF Lookup, Idle
<1>. QED BY <1>2, <1>3

\* The time of a store.
LEMMA StampStep ==
    ASSUME Sized, Named, NEW p \in Procs, Step(p), NEW q \in Procs
    PROVE  proc'[q].ts \in 0 .. MaxTime
<1>0. /\ proc \in [Procs -> Local] /\ proc[q] \in Local /\ proc[q].ts \in 0 .. MaxTime
      /\ now \in 0 .. MaxTime /\ 0 \in 0 .. MaxTime
  BY DiskCacheAssumption DEF Sized, LocalInv, Typed, Named, Bounded
<1>1. CASE proc'[q] = proc[q]
  BY <1>0, <1>1
<1>2. CASE Finish(p)
  BY <1>0, <1>2 DEF Finish, Idle
<1>3. CASE CloseFile(p)
  <2>1. CASE File(p) = "meta"
    <3>1. PICK b \in BOOLEAN : proc' = [proc EXCEPT ![p] = [Idle EXCEPT !.pc = "check", !.alone = b]]
      BY <1>0, <1>3, <2>1 DEF CloseFile, Local
    <3>2. [Idle EXCEPT !.pc = "check", !.alone = b].ts = 0
      BY DEF Idle
    <3>. QED BY <1>0, <3>1, <3>2
  <2>2. CASE File(p) # "meta"
    BY <1>0, <1>3, <2>2 DEF CloseFile, Local
  <2>. QED BY <2>1, <2>2
<1>4. CASE NextFile(p) /\ ~Finish(p)
  BY <1>0, <1>4 DEF NextFile, Local
<1>5. CASE (\E k \in Keys, f \in Payloads : Store(p, k, f)) \/ \E k \in Keys : Lookup(p, k)
  <2>1. PICK r : Begin(p, r) /\ r \in Local /\ r.ts \in {now, 0}
    <3>1. CASE \E k \in Keys, f \in Payloads : Store(p, k, f)
      <4>1. PICK k \in Keys, f \in Payloads : Store(p, k, f)
        BY <3>1
      <4>. QED BY <4>1, StoreBegins DEF Sized
    <3>2. CASE \E k \in Keys : Lookup(p, k)
      <4>1. PICK k \in Keys : Lookup(p, k)
        BY <3>2
      <4>. QED BY <4>1, LookupBegins DEF Sized
    <3>. QED BY <1>5, <3>1, <3>2
  <2>2. PICK b \in BOOLEAN : proc'[p] = [r EXCEPT !.alone = b]
    BY <1>0, <2>1, BeginTyped
  <2>3. q # p => proc'[q] = [proc[q] EXCEPT !.alone = FALSE]
    BY <1>0, <2>1, BeginTyped
  <2>. QED BY <1>0, <2>1, <2>2, <2>3 DEF Local
<1>7. CASE OpenFile(p)
  BY <1>0, <1>7 DEF OpenFile, Local
<1>8. CASE WriteBlock(p) /\ ~CloseFile(p)
  BY <1>0, <1>8 DEF WriteBlock, Local
<1>9. CASE CheckSize(p) /\ ~Finish(p)
  BY <1>0, <1>9 DEF CheckSize, Local
<1>10. CASE ListEntries(p)
  BY <1>0, <1>10 DEF ListEntries, Local
<1>11. CASE EvictNext(p)
  BY <1>0, <1>11 DEF EvictNext, Local
<1>12. CASE RemoveDir(p)
  BY <1>0, <1>12 DEF RemoveDir, Local
<1>13. CASE ReadSize(p) /\ ~NextFile(p)
  BY <1>0, <1>13 DEF ReadSize, Local
<1>14. CASE \E f \in Files : Unlink(p, f)
  BY <1>0, <1>14 DEF Unlink, Local
<1>. QED
  BY <1>2, <1>3, <1>4, <1>5, <1>7, <1>8, <1>9, <1>10, <1>11, <1>12, <1>13, <1>14, StepIs
  DEF Quiet, WriteFails, WriteBlock, OpenFails, EvictionEnds, CheckSize, ReadSize, ReadBytes, Crash

LEMMA NamedStep ==
    ASSUME Sized, LocalInv', Named, NEW p \in Procs, Step(p) PROVE Named'
<1>1. FilesInDirs'
  BY DirsStep DEF Sized
<1>2. \A q \in Procs : NameKept(q)'
  BY NameStep DEF Sized
<1>3. \A q \in Procs : proc'[q].ts \in 0 .. MaxTime
  BY StampStep
<1>. QED BY <1>1, <1>2, <1>3 DEF Named, FilesInDirs, NameKept

LEMMA SizeInit == Init => Named /\ SizeInv
<1> SUFFICES ASSUME Init PROVE Named /\ SizeInv
  OBVIOUS
<1>1. /\ \A k \in Keys, f \in Files : disk[k][f] = None
      /\ \A p \in Procs : proc[p] = Idle
  BY DEF Init
<1>2. Idle.pc = "idle" /\ Idle.ts = 0 /\ 0 \in 0 .. MaxTime
  BY DiskCacheAssumption DEF Idle
<1>3. Named
  BY <1>1, <1>2 DEF Named
<1>4. \A k \in Keys : ~Readable(k)
  BY <1>1, FilesKnown DEF Readable, Size
<1>. QED BY <1>3, <1>4 DEF SizeInv, Covered

LEMMA SizeAlways == Spec => [](Sized /\ Named /\ SizeInv)
<1>1. ASSUME Sized, Sized', Named, SizeInv, [Next]_vars PROVE (Named /\ SizeInv)'
  <2>1. CASE Tick \/ UNCHANGED vars
    <3>1. UNCHANGED <<dirs, disk, proc, history>>
      BY <2>1 DEF Tick, vars
    <3>2. Named'
      BY <1>1, <3>1 DEF Named, File
    <3>3. SizeInv'
      BY <1>1, <3>1 DEF SizeInv, SteadySize, Steady, Entries, Busy, Size, Covered, Covers, Readable,
         Listed, Victim, history
    <3>. QED BY <3>2, <3>3
  <2>2. ASSUME NEW p \in Procs, Step(p) PROVE (Named /\ SizeInv)'
    BY <1>1, <2>2, NamedStep, SizeStep DEF Sized
  <2>. QED BY <1>1, <2>1, <2>2 DEF Next
<1>2. Spec => []Sized
  BY BoundedAlways DEF Sized
<1>. QED BY <1>1, <1>2, SizeInit, PTL DEF Spec

(* Once nobody is busy the cache is within its limit or has nothing left   *)
(* to evict, however many stores and evictions overlapped, unless the last *)
(* store was cut short: a compiler whose writes took the cache above the   *)
(* limit looks at the size itself, or what it wrote has been evicted.      *)
THEOREM SpecSizeBounded == Spec => []SizeBounded
<1>1. ASSUME Sized, SizeInv PROVE SizeBounded
  <2> SUFFICES ASSUME AllIdle, ~debt
               PROVE  computeTotalSize <= MaxSize \/ \A k \in Keys : ~Readable(k)
    BY DEF SizeBounded
  <2>1. \A p \in Procs : proc[p].pc = "idle"
    BY DEF AllIdle, At
  <2>2. CASE SteadySize <= MaxSize
    <3>1. Steady = Weight
      BY <2>1 DEF Steady, Weight, Busy
    <3>. QED BY <1>1, <2>2, <3>1, TotalSize DEF SteadySize
  <2>3. CASE Covered
    BY <2>1, <2>3 DEF Covered, Covers
  <2>. QED BY <1>1, <2>2, <2>3 DEF SizeInv
<1>. QED BY <1>1, SizeAlways, PTL

-----------------------------------------------------------------------------
(* What is evicted first.                                                  *)

\* The list that evictIfNeeded makes of the entries ks.
ListOf(ks) == {<<Timestamp(k), k>> : k \in {e \in ks : Readable(e)}}

\* Of a compiler that is alone: its list is the list of the cache, but for the
\* entry it is removing, whose files it has all listed.
Exact(p) ==
    proc[p].alone =>
        /\ proc[p].pc = "evict" => proc[p].victims = ListOf(Keys)
        /\ proc[p].pc = "remove" =>
              /\ proc[p].victims # {}
              /\ proc[p].victims \ {FirstOf(proc[p].victims)} = ListOf(Keys \ {Victim(p)})
              /\ \A f \in Files : disk[Victim(p)][f] # None => f \in proc[p].doomed

ExactInv == \A p \in Procs : Exact(p)

\* A list that is not empty has a first entry: the least timestamp, and of
\* these the least key.
LEMMA FirstIs ==
    ASSUME NEW vs \in SUBSET (Nat \X Keys), vs # {}
    PROVE  FirstOf(vs) \in vs /\ \A w \in vs : Before(FirstOf(vs), w)
<1>0. Keys \subseteq Nat
  BY DiskCacheAssumption
<1>1. \A w \in vs : w[1] \in Nat /\ w[2] \in Nat
  <2>1. \A w \in Nat \X Keys : w[1] \in Nat /\ w[2] \in Keys
    OBVIOUS
  <2>. QED BY <1>0, <2>1
<1> DEFINE T == {w[1] : w \in vs}
<1>2. T \in SUBSET Nat /\ T # {}
  BY <1>1
<1> HIDE DEF T
<1>3. PICK t \in T : \A u \in T : t <= u
  BY <1>2, LeastNatural
<1> DEFINE U == {w[2] : w \in {v \in vs : v[1] = t}}
<1>4. U \in SUBSET Nat /\ U # {}
  <2>1. \E v \in vs : v[1] = t
    BY <1>3 DEF T
  <2>. QED BY <1>1, <2>1
<1> HIDE DEF U
<1>5. PICK k \in U : \A u \in U : k <= u
  BY <1>4, LeastNatural
<1>6. PICK v \in vs : v[1] = t /\ v[2] = k
  BY <1>5 DEF U
<1>7. ASSUME NEW w \in vs PROVE Before(v, w)
  <2>1. t <= w[1] /\ (w[1] = t => k <= w[2])
    BY <1>3, <1>5 DEF T, U
  <2>2. v[1] \in Nat /\ w[1] \in Nat /\ v[2] \in Nat /\ w[2] \in Nat
    BY <1>1
  <2>. QED BY <1>6, <2>1, <2>2 DEF Before
<1>. QED BY <1>6, <1>7 DEF FirstOf

LEMMA VictimIs ==
    ASSUME LocalInv, NEW p \in Procs, proc[p].victims # {}
    PROVE  /\ FirstOf(proc[p].victims) \in proc[p].victims /\ Victim(p) \in Keys
           /\ \A w \in proc[p].victims : Before(FirstOf(proc[p].victims), w)
<1>1. proc[p].victims \in SUBSET (Nat \X Keys)
  BY Fields DEF LocalInv, Typed, Listing
<1>2. FirstOf(proc[p].victims) \in proc[p].victims
  BY <1>1, FirstIs
<1>3. \A w \in Nat \X Keys : w[2] \in Keys
  OBVIOUS
<1>. QED BY <1>1, <1>2, <1>3, FirstIs DEF Victim

\* The list depends on the files meta.json only.
LEMMA ListSame ==
    ASSUME NEW ks \in SUBSET Keys, \A k \in ks : disk'[k]["meta"] = disk[k]["meta"]
    PROVE  ListOf(ks)' = ListOf(ks)
<1>1. \A k \in ks : (Readable(k)' <=> Readable(k)) /\ Timestamp(k)' = Timestamp(k)
  BY FilesKnown DEF Readable, Size, Timestamp
<1>2. {e \in ks : Readable(e)}' = {e \in ks : Readable(e)}
  BY <1>1
<1>. QED BY <1>1, <1>2 DEF ListOf

LEMMA ListTyped ==
    ASSUME Typed, NEW ks \in SUBSET Keys PROVE ListOf(ks) \in SUBSET (Nat \X Keys)
BY TimestampNat DEF ListOf

\* The steps of a compiler that begins to evict, or goes on.
LEMMA ExactList ==
    ASSUME LocalInv, NEW p \in Procs, ListEntries(p) PROVE Exact(p)'
<1> DEFINE V == ListOf(Keys)
<1>1. /\ proc' = [proc EXCEPT ![p].pc = "evict", ![p].victims = V] /\ UNCHANGED disk
      /\ proc \in [Procs -> Local]
  BY DEF ListEntries, LocalInv, Typed, ListOf
<1> HIDE DEF V
<1>2. proc'[p].pc = "evict" /\ proc'[p].victims = V
  BY <1>1 DEF Local
<1>3. ListOf(Keys)' = V
  BY <1>1, ListSame DEF V
<1>. QED BY <1>2, <1>3 DEF Exact

LEMMA ExactEvictNext ==
    ASSUME LocalInv, NEW p \in Procs, Exact(p), EvictNext(p) PROVE Exact(p)'
<1> DEFINE D == {f \in Files : disk[Victim(p)][f] # None}
           V == proc[p].victims
           v == FirstOf(V)
<1>1. /\ proc' = [proc EXCEPT ![p].pc = "remove", ![p].doomed = D] /\ UNCHANGED disk
      /\ proc \in [Procs -> Local] /\ proc[p].pc = "evict" /\ V # {}
  BY DEF EvictNext, LocalInv, Typed, At
<1>2. \A f \in Files : disk[Victim(p)][f] # None => f \in D
  OBVIOUS
<1>3. /\ proc'[p].pc = "remove" /\ proc'[p].doomed = D /\ proc'[p].victims = V
      /\ proc'[p].alone = proc[p].alone
  <2> HIDE DEF D
  <2>. QED BY <1>1 DEF Local
<1>4. Victim(p)' = Victim(p) /\ Victim(p) = v[2]
  BY <1>3 DEF Victim
<1>5. ASSUME proc[p].alone PROVE V \ {v} = ListOf(Keys \ {v[2]})
  <2>1. V = ListOf(Keys) /\ V \in SUBSET (Nat \X Keys)
    BY <1>1, <1>5, Fields DEF Exact, Listing
  <2> HIDE DEF V, v
  <2>2. v \in V
    BY <1>1, <2>1, FirstIs DEF v
  <2>3. v = <<Timestamp(v[2]), v[2]>>
    BY <2>1, <2>2 DEF ListOf
  <2>. QED BY <2>1, <2>3 DEF ListOf
<1>6. ListOf(Keys \ {Victim(p)})' = ListOf(Keys \ {Victim(p)})
  BY <1>1, <1>4 DEF ListOf, Readable, Size, Timestamp
<1>. QED BY <1>1, <1>2, <1>3, <1>4, <1>5, <1>6 DEF Exact

LEMMA ExactUnlink ==
    ASSUME LocalInv, NEW p \in Procs, Exact(p), NEW f \in Files, Unlink(p, f) PROVE Exact(p)'
<1> DEFINE D == proc[p].doomed \ {f}
<1>0. /\ proc \in [Procs -> Local] /\ proc[p].pc = "remove"
      /\ proc'[p] = [proc[p] EXCEPT !.doomed = D]
      /\ disk' = [disk EXCEPT ![Victim(p)][f] = None]
  BY DEF Unlink, LocalInv, Typed, At
<1>1. /\ proc'[p].pc = "remove" /\ proc'[p].doomed = D
      /\ proc'[p].victims = proc[p].victims /\ proc'[p].alone = proc[p].alone
  <2> HIDE DEF D
  <2>. QED BY <1>0 DEF Local
<1>2. Victim(p)' = Victim(p) /\ FirstOf(proc[p].victims)' = FirstOf(proc[p].victims)
  BY <1>1 DEF Victim
<1>3. \A k \in Keys, g \in Files : <<k, g>> # <<Victim(p), f>> => disk'[k][g] = disk[k][g]
  BY UnlinkStep
<1>4. ListOf(Keys \ {Victim(p)})' = ListOf(Keys \ {Victim(p)})
  <2> DEFINE ks == Keys \ {Victim(p)}
  <2>1. ks \in SUBSET Keys /\ \A k \in ks : disk'[k]["meta"] = disk[k]["meta"]
    BY <1>3, FilesKnown
  <2>2. ks' = ks
    BY <1>2
  <2> HIDE DEF ks
  <2>3. {<<Timestamp(k), k>> : k \in {e \in ks : Readable(e)}}' = ListOf(ks)
    BY <2>1, <2>2, ListSame DEF ListOf
  <2>. QED BY <2>3 DEF ks, ListOf
<1>5. ASSUME proc[p].alone, NEW g \in Files, disk'[Victim(p)][g] # None PROVE g \in D
  <2>1. Victim(p) \in Keys
    BY <1>0, <1>5, VictimIs DEF Exact
  <2>2. g # f
    BY <1>5, <2>1, UnlinkStep
  <2>3. disk[Victim(p)][g] # None
    BY <1>3, <1>5, <2>1, <2>2
  <2>. QED BY <1>0, <1>5, <2>2, <2>3 DEF Exact
<1>. QED BY <1>0, <1>1, <1>2, <1>4, <1>5 DEF Exact

LEMMA ExactRemoveDir ==
    ASSUME LocalInv, NEW p \in Procs, Exact(p), RemoveDir(p) PROVE Exact(p)'
<1> DEFINE v == FirstOf(proc[p].victims)
           V == proc[p].victims \ {v}
<1>1. /\ proc' = [proc EXCEPT ![p].pc = "evict", ![p].victims = V]
      /\ proc \in [Procs -> Local] /\ proc[p].pc = "remove" /\ proc[p].doomed = {}
      /\ UNCHANGED disk
  BY DEF RemoveDir, LocalInv, Typed, At
<1> HIDE DEF V
<1>2. /\ proc'[p].pc = "evict" /\ proc'[p].victims = V /\ proc'[p].alone = proc[p].alone
  BY <1>1 DEF Local
<1>3. ASSUME proc[p].alone PROVE V = ListOf(Keys)
  <2>1. ~Readable(Victim(p))
    BY <1>1, <1>3, FilesKnown DEF Exact, Readable, Size
  <2>2. V = ListOf(Keys \ {Victim(p)})
    BY <1>1, <1>3 DEF Exact, V
  <2>. QED BY <2>1, <2>2 DEF ListOf
<1>4. ListOf(Keys)' = ListOf(Keys)
  BY <1>1, ListSame
<1>. QED BY <1>2, <1>3, <1>4 DEF Exact

\* The other steps leave no list behind.
LEMMA ExactNothing ==
    ASSUME NEW p \in Procs, proc'[p].pc \notin {"evict", "remove"} PROVE Exact(p)'
BY DEF Exact

LEMMA ExactStep ==
    ASSUME LocalInv, AloneInv, ExactInv, NEW p \in Procs, Step(p) PROVE ExactInv'
<1>0. proc \in [Procs -> Local]
  BY DEF LocalInv, Typed
<1>1. CASE (\E k \in Keys, f \in Payloads : Store(p, k, f)) \/ \E k \in Keys : Lookup(p, k)
  <2>1. PICK r \in Local : Begin(p, r)
    BY <1>1, StoreBegins, LookupBegins
  <2>2. \A q \in Procs \ {p} : proc'[q] = [proc[q] EXCEPT !.alone = FALSE]
    BY <1>0, <2>1, BeginTyped
  <2>3. \A q \in Procs \ {p} : ~proc'[q].alone
    BY <1>0, <2>2 DEF Local
  <2>4. proc'[p].pc \in {"open", "size"}
    BY <1>1, StoreTyped, LookupTyped
  <2>. QED BY <2>3, <2>4, ExactNothing DEF ExactInv, Exact
<1>2. CASE Goes(p)
  <2>1. \A q \in Procs \ {p} : ~proc'[q].alone
    BY <1>2, MarkKept DEF AloneInv, Alone
  <2>2. Exact(p)'
    <3>1. CASE ListEntries(p) \/ EvictNext(p) \/ RemoveDir(p) \/ \E f \in Files : Unlink(p, f)
      BY <3>1, ExactList, ExactEvictNext, ExactRemoveDir, ExactUnlink DEF ExactInv
    <3>2. CASE Finish(p)
      BY <1>0, <3>2, FinishTyped, ExactNothing DEF Idle
    <3>3. CASE OpenFile(p)
      BY <3>3, OpenFileStep, ExactNothing
    <3>4. CASE CloseFile(p) /\ proc[p].pc = "write"
      <4>1. proc'[p].pc \in {"check", "open"}
        BY <1>0, <3>4, CloseFileTyped, OpenFileIs DEF LocalInv
      <4>. QED BY <4>1, ExactNothing
    <3>5. CASE WriteBlock(p) /\ ~CloseFile(p)
      <4>1. proc'[p].pc = "write"
        BY <1>0, <3>5 DEF WriteBlock, At, Local
      <4>. QED BY <4>1, ExactNothing
    <3>6. CASE CheckSize(p) /\ ~Finish(p)
      <4>1. proc'[p].pc = "list"
        BY <1>0, <3>6 DEF CheckSize, Local
      <4>. QED BY <4>1, ExactNothing
    <3>7. CASE NextFile(p) /\ proc[p].pc \in {"size", "read"}
      <4>1. proc'[p].pc \in {"idle", "size"}
        BY <1>0, <3>7, NextFileTyped DEF LocalInv, Looking
      <4>. QED BY <4>1, ExactNothing
    <3>8. CASE ReadSize(p) /\ ~NextFile(p)
      <4>1. proc'[p].pc = "read"
        BY <1>0, <3>8 DEF ReadSize, Local
      <4>. QED BY <4>1, ExactNothing
    <3>. QED
      BY <1>2, <3>1, <3>2, <3>3, <3>4, <3>5, <3>6, <3>7, <3>8
      DEF Goes, Quiet, WriteFails, WriteBlock, OpenFails, EvictionEnds, CheckSize, ReadSize,
          ReadBytes, Crash, At
  <2>. QED BY <2>1, <2>2 DEF ExactInv, Exact
<1>. QED BY <1>1, <1>2, StepIs DEF Goes

LEMMA ExactAlways == Spec => []ExactInv
<1>1. Init => ExactInv
  BY DEF Init, ExactInv, Exact, Idle
<1>2. ASSUME LocalInv, AloneInv, ExactInv, [Next]_vars PROVE ExactInv'
  <2>1. CASE Tick \/ UNCHANGED vars
    <3>1. UNCHANGED <<disk, proc>>
      BY <2>1 DEF Tick, vars
    <3>. QED
      BY <1>2, <3>1 DEF ExactInv, Exact, ListOf, Readable, Size, Timestamp, Victim
  <2>. QED BY <1>2, <2>1, ExactStep DEF Next
<1>. QED BY <1>1, <1>2, InvAlways, PTL DEF Spec

\* The size of one entry.
LEMMA EntrySizeIs ==
    ASSUME Sized, NEW k \in Keys
    PROVE  LET h == [f \in Files |-> Size(k, f)] IN
           h \in [Files -> Nat] /\ EntrySize(k) = Total(h, Files)
<1> DEFINE h == [f \in Files |-> Size(k, f)]
           Adds(it) ==
             it = [s \in SUBSET Files |->
                     IF s = {} THEN 0 ELSE Size(k, Chosen(s)) + it[s \ {Chosen(s)}]]
<1>1. h \in [Files -> Nat]
  BY SizeBounds, DiskCacheAssumption DEF Sized, LocalInv
<1>2. EntrySize(k) = (CHOOSE it : Adds(it))[Files]
  BY DEF EntrySize, MapThenSumSet, MapThenFoldSet, Chosen
<1>3. ASSUME NEW it PROVE Adds(it) <=> Sums(it, h, Files)
  <2>1. ASSUME NEW s \in SUBSET Files, s # {}
        PROVE  h[Chosen(s)] = Size(k, Chosen(s))
    BY <2>1 DEF Chosen
  <2>. QED BY <2>1 DEF Sums
<1> HIDE DEF Adds, h
<1>4. \E it : Sums(it, h, Files)
  BY SumsExist, FilesFinite
<1>5. Sums(CHOOSE it : Adds(it), h, Files)
  BY <1>3, <1>4
<1>6. EntrySize(k) = Total(h, Files)
  BY <1>1, <1>2, <1>5, TotalIs, FilesFinite
<1>. QED BY <1>1, <1>6 DEF h

\* When there is nothing but entry k, it is as large as the cache.
LEMMA OnlyEntry ==
    ASSUME Sized, NEW k \in Keys, \A e \in Keys, f \in Files : e # k => Size(e, f) = 0
    PROVE  EntrySize(k) = computeTotalSize
<1> DEFINE h == [f \in Files |-> Size(k, f)]
<1>1. h \in [Files -> Nat] /\ EntrySize(k) = Total(h, Files)
  BY EntrySizeIs
<1>2. Weight \in [Entries -> Nat] /\ computeTotalSize = Total(Weight, Entries)
  BY WeightType, TotalSize DEF WeightTyped
<1>3. \A f \in Files : Weight[<<k, f>>] = h[f]
  BY DEF Weight, Entries
<1> DEFINE z == {k} \X Files
<1>4. \A e \in Entries \ z : Weight[e] = 0
  <2>1. \A e \in Entries \ z : e[1] \in Keys /\ e[2] \in Files /\ e[1] # k
    BY DEF Entries
  <2>. QED BY <2>1 DEF Weight
<1>5. Table(Entries, Keys, Files, z, k) /\ IsFiniteSet(Keys)
  BY DiskCacheAssumption DEF Table, Entries
<1> HIDE DEF h, z
<1>6. Total(Weight, Entries) = Total(h, Files)
  BY <1>1, <1>2, <1>3, <1>4, <1>5, FilesFinite, TotalRow
<1>. QED BY <1>1, <1>2, <1>6

(* A compiler that is alone, in a cache without debris, evicts an entry     *)
(* only if another one is left that is as new, or if this one alone is      *)
(* above the mark: what it has listed is what the cache holds, the first of *)
(* the list is the oldest, and when the list has one entry the size of the  *)
(* cache is the size of that entry.                                         *)
THEOREM SpecNewestIsKept == Spec => NewestIsKept
<1> DEFINE Keeping ==
             \A p \in Procs :
                EvictNext(p) /\ proc[p].alone /\ (\A k \in dirs : Readable(k)) =>
                   \/ \E w \in proc[p].victims : w[1] >= Timestamp(Victim(p)) /\ w[2] # Victim(p)
                   \/ EntrySize(Victim(p)) > (MaxSize * 9) \div 10
<1>1. ASSUME Sized, Named, ExactInv PROVE Keeping
  <2> SUFFICES ASSUME NEW p \in Procs, EvictNext(p), proc[p].alone, \A k \in dirs : Readable(k)
               PROVE  \/ \E w \in proc[p].victims : w[1] >= Timestamp(Victim(p)) /\ w[2] # Victim(p)
                      \/ EntrySize(Victim(p)) > (MaxSize * 9) \div 10
    OBVIOUS
  <2> DEFINE V == proc[p].victims
             v == FirstOf(V)
  <2>1. V = ListOf(Keys) /\ V # {} /\ computeTotalSize > (MaxSize * 9) \div 10
    BY <1>1 DEF ExactInv, Exact, EvictNext, At
  <2>2. v \in V /\ Victim(p) \in Keys /\ (\A w \in V : Before(v, w)) /\ Victim(p) = v[2]
    BY <1>1, <2>1, VictimIs DEF Sized, Victim
  <2> HIDE DEF V, v
  <2>3. v[1] = Timestamp(Victim(p)) /\ v[1] \in Nat
    BY <1>1, <2>1, <2>2, TimestampNat DEF ListOf, Sized, LocalInv
  <2>4. CASE \E k \in Keys : Readable(k) /\ k # Victim(p)
    <3>1. PICK k \in Keys : Readable(k) /\ k # Victim(p)
      BY <2>4
    <3> DEFINE w == <<Timestamp(k), k>>
    <3>2. w \in V /\ w[1] = Timestamp(k) /\ w[2] = k /\ Timestamp(k) \in Nat
      BY <1>1, <2>1, <3>1, TimestampNat DEF ListOf, Sized, LocalInv
    <3> HIDE DEF w
    <3>3. v[1] <= w[1]
      BY <2>2, <2>3, <3>2 DEF Before
    <3>. QED BY <2>3, <3>1, <3>2, <3>3 DEF V
  <2>5. CASE \A k \in Keys : Readable(k) => k = Victim(p)
    <3>1. \A k \in Keys, f \in Files : k # Victim(p) => Size(k, f) = 0
      BY <1>1, <2>5 DEF Named, Size
    <3>2. EntrySize(Victim(p)) = computeTotalSize
      BY <1>1, <2>2, <3>1, OnlyEntry
    <3>. QED BY <2>1, <3>2
  <2>. QED BY <2>4, <2>5
<1>2. NewestIsKept <=> [][Keeping]_vars
  BY DEF NewestIsKept
<1> HIDE DEF Keeping
<1>. QED BY <1>1, <1>2, SizeAlways, ExactAlways, PTL

=============================================================================
