---------------------------- MODULE HeaderSearch ----------------------------
(***************************************************************************)
(* How a header name written in a directive becomes a file on disk: the    *)
(* lookups of blocktype/Lex/HeaderSearch.cpp.  The file system does not    *)
(* change during a compilation, so the lookup caches (LookupCache,         *)
(* StatCache, FileManager::FileCache) are transparent and are left out.    *)
(***************************************************************************)
EXTENDS Naturals, Sequences

CONSTANTS
    FileNames,    \* names as written in a directive or given to the driver
    Paths,        \* path strings the FileManager is asked for
    Dirs,         \* directories
    SearchPaths,  \* sequence of directories, in the order of addSearchPath
    DirPart,      \* the directory prefix of a name, or NoDir if it has no '/'
    NoDir,
    Absolute,     \* the names that are absolute paths
    Joined,       \* Joined[d][f]: the string joinPath(d, f)
    OnDisk,       \* the paths a file exists at
    NoFile        \* the null FileEntry

ASSUME HeaderSearchAssumption ==
    /\ SearchPaths \in Seq(Dirs)
    /\ NoDir \notin Dirs
    /\ DirPart \in [FileNames -> Dirs \cup {NoDir}]
    /\ Absolute \subseteq FileNames
    /\ FileNames \subseteq Paths
    /\ Joined \in [Dirs -> [FileNames -> Paths]]
    /\ OnDisk \subseteq Paths
    /\ NoFile \notin Paths

\* The search path indices at which a file called f is found.
FoundAt(f) == {i \in DOMAIN SearchPaths : Joined[SearchPaths[i]][f] \in OnDisk}

\* The first of them after index k: the loops over SearchPaths stop at it.
FirstAfter(f, k) ==
    LET hits == {i \in FoundAt(f) : i > k}
    IN  IF hits = {} THEN NoFile
        ELSE Joined[SearchPaths[CHOOSE i \in hits : \A j \in hits : i <= j]][f]

IfOnDisk(p) == IF p \in OnDisk THEN p ELSE NoFile

(* lookupHeader(f, false, IncludeDir) as handleIncludeDirective calls it:   *)
(* an absolute name stands for itself; otherwise the directory of the       *)
(* including file is tried first when its name has one, then every search   *)
(* path in order.                                                           *)
LookupHeader(from, f) ==
    LET dir == DirPart[from] IN
    IF f \in Absolute THEN IfOnDisk(f)
    ELSE IF dir # NoDir /\ Joined[dir][f] \in OnDisk THEN Joined[dir][f]
    ELSE FirstAfter(f, 0)

(* lookupHeaderNext(f, current): the search starts after the first search   *)
(* path that holds a file called current, or at the first one if none does. *)
LookupHeaderNext(f, current) ==
    LET here == FoundAt(current) IN
    FirstAfter(f, IF here = {} THEN 0
                  ELSE CHOOSE i \in here : \A j \in here : i <= j)
=============================================================================
