--------------------------- MODULE MCPreprocessor ---------------------------
(* Values for the constants of Preprocessor: two macros, a main file, two  *)
(* headers on a search path of two directories, and sets of lines.         *)
EXTENDS Preprocessor

\* a.h and b.h live in "inc", b.h in "sys" too, c.h nowhere.  "/inc/a.h" is
\* an absolute name, and the path of a.h.
MCNames == {"m.cpp", "a.h", "b.h", "c.h", "/inc/a.h"}
MCJoined == [d \in {"inc", "sys"} |->
              [f \in MCNames |->
                 CASE d = "inc" /\ f = "a.h" -> "/inc/a.h"
                   [] d = "inc" /\ f = "b.h" -> "/inc/b.h"
                   [] d = "sys" /\ f = "b.h" -> "/sys/b.h"
                   [] OTHER -> "nowhere"]]
MCPaths == MCNames \cup {"/inc/b.h", "/sys/b.h", "nowhere"}
MCOnDisk == {"/inc/a.h", "/inc/b.h", "/sys/b.h"}
MCDirPart == [f \in MCNames |-> IF f = "/inc/a.h" THEN "inc" ELSE "none"]
MCSearchPaths == <<"inc", "sys">>

\* A main file and one header, in the one directory of the search path.
OneSearchPath == <<"inc">>
OneDirPart == [f \in {"m.cpp", "a.h"} |-> "none"]
OneJoined == [d \in {"inc"} |-> [f \in {"m.cpp", "a.h"} |->
                                   IF f = "a.h" THEN "/inc/a.h" ELSE "nowhere"]]

\* A line with directive d and macro n, or naming file f.
M(d, n) == [d |-> d, n |-> n, f |-> "m.cpp"]
F(d, f) == [d |-> d, n |-> "", f |-> f]

ConditionalLines ==
    {M(d, n) : d \in {"if", "elif", "ifdef", "elifdef", "elifndef"},
               n \in {"X", "Y", ""}}
    \cup {M(d, n) : d \in {"ifndef", "define", "undef"}, n \in {"X", ""}}
    \cup {M(d, "") : d \in {"text", "else", "endif", "error",
                             "include", "include_next", "once", "line"}}
    \cup {F("include", "a.h")}

IncludeLines ==
    {F("include", f) : f \in {"a.h", "b.h", "/inc/a.h", "c.h"}}
    \cup {F("text", "m.cpp"), F("once", "m.cpp")}

OnceLines == {F("include", "a.h"), F("text", "m.cpp"), F("once", "m.cpp")}

GuardLines ==
    {M(d, n) : d \in {"ifndef", "define"}, n \in {"X", "Y"}}
    \cup {F("include", f) : f \in {"a.h", "b.h"}}
    \cup {F("include_next", f) : f \in {"b.h", "c.h"}}
    \cup {M("endif", ""), F("line", "b.h"), M("ifdef", "")}
=============================================================================
