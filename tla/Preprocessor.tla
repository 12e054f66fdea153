---------------------------- MODULE Preprocessor ----------------------------
(***************************************************************************)
(* The directive machine of blocktype/Lex/Preprocessor.cpp: the include    *)
(* stack, the stack of open conditional sections, the macro table, the     *)
(* #pragma once set and the include-guard detector, driven by lexToken.    *)
(*                                                                         *)
(* One step is one turn of lexToken's loop: it reads one source line (a    *)
(* directive, or a line of text abstracted to one token), the end of the   *)
(* current file, or the end-of-directive token a suspended lexer still     *)
(* owes.  The lines are picked by the environment, so every content of     *)
(* every file is covered.  A line is a record: d is the directive, n the   *)
(* macro it names, f the file it names.                                    *)
(***************************************************************************)
EXTENDS HeaderSearch, FiniteSets

CONSTANTS
    Names,        \* macro names
    NoName,       \* the operand of a directive that has none
    Predefined,   \* the macros initializePredefinedMacros leaves defined
    Lines,        \* the source lines that can occur
    MainFiles,    \* the names passed to enterSourceFile
    HasHeaders,   \* the preprocessor was given a HeaderSearch and FileManager
    MaxCond,      \* bound: open conditional sections
    MaxDepth,     \* bound: files on the include stack
    MaxID         \* bound: file IDs the SourceManager hands out

NoID == MaxID + 1          \* static_cast<unsigned>(-1)
IDs == 0 .. MaxID

Directives ==
    {"text", "define", "undef", "if", "ifdef", "ifndef", "elif", "elifdef",
     "elifndef", "else", "endif", "include", "include_next", "once", "line",
     "error"}

Line == [d : Directives, n : Names \cup {NoName}, f : FileNames]

ASSUME PreprocessorAssumption ==
    /\ NoName \notin Names
    /\ Predefined \subseteq Names
    /\ Lines \subseteq Line
    /\ MainFiles \subseteq FileNames
    /\ HasHeaders \in BOOLEAN
    /\ MaxCond \in Nat \ {0} /\ MaxDepth \in Nat \ {0} /\ MaxID \in Nat \ {0}

VARIABLES
    stack,      \* IncludeStack; CurLexer is the lexer of its last entry
    cond,       \* ConditionalStack
    skipping,   \* Skipping
    macros,     \* the keys of Macros
    fileID,     \* SourceManager::FilenameToID
    nextID,     \* SourceManager::Files.size()
    curID,      \* CurrentFileID
    curName,    \* CurrentFilename
    once,       \* PragmaOnceFiles
    guards,     \* FileIncludeGuards
    pending,    \* PendingIncludeGuard
    guarded,    \* HeaderSearch::IncludeGuardFiles
    err,        \* DiagnosticsEngine::hasErrorOccurred
    tok,        \* what this step hands to the caller of lexToken
    oncePaths   \* history: the files a #pragma once was read in

sections == <<cond, skipping>>
files    == <<stack, fileID, nextID, curID, curName>>
guardVars == <<guards, pending, guarded>>
onceVars == <<once, oncePaths>>
vars == <<sections, files, guardVars, onceVars, macros, err, tok>>

(***************************************************************************)
(* A frame's lexer: dmode is its IsInPreprocessorDirective flag, end says  *)
(* that it has no line left.  name is the name as written, path the file   *)
(* that was opened.                                                        *)
(***************************************************************************)
Frame == [name : FileNames, path : Paths, id : IDs, dmode : BOOLEAN,
          end : BOOLEAN]

\* past is a history field: an earlier group of the section was not skipped.
Section == [was : BOOLEAN, found : BOOLEAN, els : BOOLEAN, past : BOOLEAN]

GuardInfo == [macro : Names \cup {NoName}, saw : BOOLEAN]
NoGuard == [macro |-> NoName, saw |-> TRUE]

Init ==
    /\ stack = <<>> /\ cond = <<>> /\ skipping = FALSE
    /\ macros = Predefined
    /\ fileID = [p \in Paths |-> NoID] /\ nextID = 0 /\ curID = NoID
    /\ curName \in MainFiles      \* not read before enterSourceFile sets it
    /\ once = {} /\ oncePaths = {}
    /\ guards = [i \in IDs |-> NoGuard] /\ pending = NoName /\ guarded = {}
    /\ err = FALSE /\ tok = "none"

-----------------------------------------------------------------------------
Top == stack[Len(stack)]
Inner == cond[Len(cond)]

\* The current lexer is about to lex the first token of a line.
AtLine(l, d) == stack # <<>> /\ ~Top.dmode /\ ~Top.end /\ l.d = d

SetTop(frame) == [stack EXCEPT ![Len(stack)] = frame]

\* A faulty variant: the Skipping test is missing.
DeliverSkipped(k) == tok' = k

\* lexToken returns a token to its caller only while nothing is skipped.
Deliver(k) == tok' = IF skipping THEN "none" ELSE k
Quiet == tok' = "none"

Report == err' = TRUE

\* A faulty variant: every main file gets a FileInfo of its own.
NewMainFileID == nextID + 1

\* SourceManager::createMainFileID: the main file is always file 0.
MainFileID == IF nextID = 0 THEN 1 ELSE nextID

(***************************************************************************)
(* enterSourceFile reuses file ID 0 and leaves CurrentFileID alone; reset  *)
(* keeps Macros and whatever the SourceManager and HeaderSearch hold.      *)
(***************************************************************************)
EnterSourceFile(f) ==
    /\ stack = <<>>
    /\ stack' = <<[name |-> f, path |-> f, id |-> 0, dmode |-> FALSE,
                   end |-> FALSE]>>
    /\ fileID' = [fileID EXCEPT ![f] = 0]
    /\ nextID' = MainFileID
    /\ curName' = f
    /\ Quiet
    /\ UNCHANGED <<sections, curID, guardVars, onceVars, macros, err>>

Reset ==
    /\ stack' = <<>> /\ cond' = <<>> /\ skipping' = FALSE
    /\ curName' \in MainFiles /\ curID' = NoID
    /\ guards' = [i \in IDs |-> NoGuard] /\ pending' = NoName
    /\ once' = {} /\ oncePaths' = {}
    /\ Quiet
    /\ UNCHANGED <<macros, fileID, nextID, guarded, err>>

-----------------------------------------------------------------------------
(* Tokens that are not directives.  A macro name expands to one token or   *)
(* stays itself, so a text line always delivers one token.                 *)
Text(l) ==
    /\ AtLine(l, "text")
    /\ Deliver("text")
    /\ UNCHANGED <<sections, files, guardVars, onceVars, macros, err>>

\* The newline that ends an #include line is lexed after the included file:
\* handleDirective cleared the flag of the new lexer, not of this one.
EndOfDirective ==
    /\ stack # <<>> /\ Top.dmode
    /\ stack' = SetTop([Top EXCEPT !.dmode = FALSE])
    /\ Deliver("eod")
    /\ UNCHANGED <<sections, fileID, nextID, curID, curName, guardVars,
                   onceVars, macros, err>>

\* CurrentFilename, CurrentFileID and ConditionalStack keep their values.
EndOfFile ==
    /\ stack # <<>> /\ ~Top.dmode
    /\ stack' = SubSeq(stack, 1, Len(stack) - 1)
    /\ tok' = IF Len(stack) = 1 THEN "eof" ELSE "none"
    /\ UNCHANGED <<sections, fileID, nextID, curID, curName, guardVars,
                   onceVars, macros, err>>

-----------------------------------------------------------------------------
(* #define and #undef: handled whether or not the group is skipped.        *)
\* A faulty variant: PendingIncludeGuard is not cleared.
SawGuardDefineKeepsPending(n) ==
    /\ pending = n /\ curID # NoID
    /\ guards' = [guards EXCEPT ![curID].saw = TRUE]
    /\ UNCHANGED <<pending, guarded>>

SawGuardDefine(n) ==
    /\ pending = n /\ curID # NoID
    /\ pending' = NoName
    /\ IF guards[curID].saw
       THEN UNCHANGED <<guards, guarded>>
       ELSE /\ guards' = [guards EXCEPT ![curID].saw = TRUE]
            /\ guarded' = guarded \cup {curName}

Define(l) ==
    /\ AtLine(l, "define") /\ l.n # NoName
    /\ IF pending = l.n /\ curID # NoID
       THEN SawGuardDefine(l.n)
       ELSE UNCHANGED guardVars
    /\ macros' = macros \cup {l.n}
    /\ Quiet
    /\ UNCHANGED <<sections, files, onceVars, err>>

Undef(l) ==
    /\ AtLine(l, "undef") /\ l.n # NoName
    /\ macros' = macros \ {l.n}
    /\ Quiet
    /\ UNCHANGED <<sections, files, guardVars, onceVars, err>>

\* "macro name must be an identifier", #error and unknown directives.
BadDirective(l) ==
    /\ \/ AtLine(l, "define") /\ l.n = NoName
       \/ AtLine(l, "undef") /\ l.n = NoName
       \/ AtLine(l, "error")
    /\ Report /\ Quiet
    /\ UNCHANGED <<sections, files, guardVars, onceVars, macros>>

-----------------------------------------------------------------------------
(* Conditional sections.  The value of a condition is whether the macro it *)
(* names is defined (PPExprEvaluator gives an identifier the value 1 or    *)
(* 0); a condition without tokens is false.                                *)

\* A missing macro name makes the end-of-directive token stand for it; the
\* loop "skip to end of directive" then runs on to the end of the file.
SkipToEndOfDirective(l) ==
    stack' = IF l.n = NoName THEN SetTop([Top EXCEPT !.end = TRUE]) ELSE stack

\* Faulty variants: the section forgets that it is in a skipped group, or
\* counts its first group as taken before its condition is known.
OpenSectionForgets(c) ==
    /\ Len(cond) < MaxCond
    /\ cond' = Append(cond, [was |-> skipping, found |-> c,
                             els |-> FALSE, past |-> FALSE])
    /\ skipping' = ~c

OpenSectionTaken(c) ==
    /\ Len(cond) < MaxCond
    /\ cond' = Append(cond, [was |-> skipping, found |-> TRUE,
                             els |-> FALSE, past |-> FALSE])
    /\ skipping' = (skipping \/ ~c)

OpenSection(c) ==
    /\ Len(cond) < MaxCond
    /\ cond' = Append(cond, [was |-> skipping, found |-> c,
                             els |-> FALSE, past |-> FALSE])
    /\ skipping' = (skipping \/ ~c)

If(l) ==
    /\ AtLine(l, "if")
    /\ OpenSection(l.n \in macros)
    /\ Quiet
    /\ UNCHANGED <<files, guardVars, onceVars, macros, err>>

Ifdef(l) ==
    /\ AtLine(l, "ifdef")
    /\ SkipToEndOfDirective(l)
    /\ OpenSection(l.n \in macros)
    /\ Quiet
    /\ UNCHANGED <<fileID, nextID, curID, curName, guardVars, onceVars,
                   macros, err>>

\* The first #ifndef outside every section may open an include guard.
Ifndef(l) ==
    /\ AtLine(l, "ifndef")
    /\ IF ~skipping /\ cond = <<>> /\ curID # NoID
       THEN /\ pending' = l.n
            /\ guards' = [guards EXCEPT ![curID] = [macro |-> l.n, saw |-> FALSE]]
            /\ UNCHANGED guarded
       ELSE UNCHANGED guardVars
    /\ SkipToEndOfDirective(l)
    /\ OpenSection(l.n \notin macros)
    /\ Quiet
    /\ UNCHANGED <<fileID, nextID, curID, curName, onceVars, macros, err>>

\* Faulty variants: an earlier group that was taken is forgotten.
NextGroupForgets(c, e) ==
    LET taken == c /\ ~Inner.was IN
    /\ cond' = [cond EXCEPT ![Len(cond)] =
                  [was |-> Inner.was, found |-> Inner.found \/ (taken /\ ~e),
                   els |-> e, past |-> Inner.past \/ ~skipping]]
    /\ skipping' = ~taken

NextGroupNotRecorded(c, e) ==
    LET taken == c /\ ~Inner.was /\ ~Inner.found IN
    /\ cond' = [cond EXCEPT ![Len(cond)] =
                  [was |-> Inner.was, found |-> Inner.found,
                   els |-> e, past |-> Inner.past \/ ~skipping]]
    /\ skipping' = ~taken

\* The section goes on to its next group, which is taken if c holds and no
\* group before it was.
NextGroup(c, e) ==
    LET taken == c /\ ~Inner.was /\ ~Inner.found IN
    /\ cond' = [cond EXCEPT ![Len(cond)] =
                  [was |-> Inner.was, found |-> Inner.found \/ (taken /\ ~e),
                   els |-> e, past |-> Inner.past \/ ~skipping]]
    /\ skipping' = ~taken

NoGroupLeft == cond # <<>> => Inner.els

Elif(l) ==
    /\ AtLine(l, "elif") /\ ~NoGroupLeft
    /\ NextGroup(l.n \in macros, FALSE)
    /\ Quiet
    /\ UNCHANGED <<files, guardVars, onceVars, macros, err>>

Elifdef(l) ==
    /\ AtLine(l, "elifdef") /\ ~NoGroupLeft
    /\ SkipToEndOfDirective(l)
    /\ NextGroup(l.n \in macros, FALSE)
    /\ Quiet
    /\ UNCHANGED <<fileID, nextID, curID, curName, guardVars, onceVars,
                   macros, err>>

Elifndef(l) ==
    /\ AtLine(l, "elifndef") /\ ~NoGroupLeft
    /\ SkipToEndOfDirective(l)
    /\ NextGroup(l.n \notin macros, FALSE)
    /\ Quiet
    /\ UNCHANGED <<fileID, nextID, curID, curName, guardVars, onceVars,
                   macros, err>>

Else(l) ==
    /\ AtLine(l, "else") /\ ~NoGroupLeft
    /\ NextGroup(TRUE, TRUE)
    /\ Quiet
    /\ UNCHANGED <<files, guardVars, onceVars, macros, err>>

CloseSection ==
    /\ cond' = SubSeq(cond, 1, Len(cond) - 1)
    /\ skipping' = Inner.was

Endif(l) ==
    /\ AtLine(l, "endif") /\ cond # <<>>
    /\ CloseSection
    /\ Quiet
    /\ UNCHANGED <<files, guardVars, onceVars, macros, err>>

\* #elif, #else or #endif without #if, and #elif or #else after #else.  The
\* early return leaves the operand of the directive to be lexed as text.
Misplaced(l) ==
    /\ \/ /\ \E d \in {"elif", "elifdef", "elifndef"} : AtLine(l, d)
          /\ NoGroupLeft
          /\ IF l.n = NoName THEN Quiet ELSE Deliver("text")
       \/ AtLine(l, "else") /\ NoGroupLeft /\ Quiet
       \/ AtLine(l, "endif") /\ cond = <<>> /\ Quiet
    /\ Report
    /\ UNCHANGED <<sections, files, guardVars, onceVars, macros>>

-----------------------------------------------------------------------------
(* File inclusion.                                                         *)
\* Faulty variants: createFileID maps the path that was opened, or hands out
\* the same FileInfo again.
EnterByPath(f, p) ==
    /\ Len(stack) < MaxDepth /\ nextID <= MaxID
    /\ stack' = Append(SetTop([Top EXCEPT !.dmode = TRUE]),
                       [name |-> f, path |-> p, id |-> nextID, dmode |-> FALSE,
                        end |-> FALSE])
    /\ fileID' = [fileID EXCEPT ![p] = nextID]
    /\ nextID' = nextID + 1
    /\ curName' = f

EnterSameID(f, p) ==
    /\ Len(stack) < MaxDepth /\ nextID <= MaxID
    /\ stack' = Append(SetTop([Top EXCEPT !.dmode = TRUE]),
                       [name |-> f, path |-> p, id |-> nextID, dmode |-> FALSE,
                        end |-> FALSE])
    /\ fileID' = [fileID EXCEPT ![f] = nextID]
    /\ UNCHANGED nextID
    /\ curName' = f

Enter(f, p) ==
    /\ Len(stack) < MaxDepth /\ nextID <= MaxID
    /\ stack' = Append(SetTop([Top EXCEPT !.dmode = TRUE]),
                       [name |-> f, path |-> p, id |-> nextID, dmode |-> FALSE,
                        end |-> FALSE])
    /\ fileID' = [fileID EXCEPT ![f] = nextID]
    /\ nextID' = nextID + 1
    /\ curName' = f

\* A faulty variant: only the including file is compared.
OnTop(f) == Top.name = f

OnStack(f) == \E i \in DOMAIN stack : stack[i].name = f

\* #pragma once is looked up by the path of the file, but createFileID maps
\* the name as written.
SeenOnce(p) == fileID[p] # NoID /\ fileID[p] \in once

Include(l) ==
    LET p == LookupHeader(Top.name, l.f) IN
    /\ AtLine(l, "include") /\ HasHeaders
    /\ ~OnStack(l.f) /\ p # NoFile /\ ~SeenOnce(p)
    /\ Enter(l.f, p)
    /\ curID' = nextID
    /\ Quiet
    /\ UNCHANGED <<sections, guardVars, onceVars, macros, err>>

\* The inclusion is refused: circular, not found, or already seen.
IncludeRefused(l) ==
    LET p == LookupHeader(Top.name, l.f) IN
    /\ AtLine(l, "include")
    /\ \/ OnStack(l.f) /\ Report
       \/ ~OnStack(l.f) /\ HasHeaders /\ p = NoFile /\ Report
       \/ ~OnStack(l.f) /\ HasHeaders /\ p # NoFile /\ SeenOnce(p) /\ UNCHANGED err
       \/ ~OnStack(l.f) /\ ~HasHeaders /\ UNCHANGED err
    /\ Quiet
    /\ UNCHANGED <<sections, files, guardVars, onceVars, macros>>

\* No circularity check, no #pragma once check, CurrentFileID not updated.
IncludeNext(l) ==
    LET p == LookupHeaderNext(l.f, curName) IN
    /\ AtLine(l, "include_next")
    /\ \/ HasHeaders /\ p # NoFile /\ Enter(l.f, p) /\ UNCHANGED <<curID, err>>
       \/ HasHeaders /\ p = NoFile /\ Report /\ UNCHANGED files
       \/ ~HasHeaders /\ UNCHANGED <<files, err>>
    /\ Quiet
    /\ UNCHANGED <<sections, guardVars, onceVars, macros>>

-----------------------------------------------------------------------------
PragmaOnce(l) ==
    /\ AtLine(l, "once")
    /\ once' = IF curID = NoID THEN once ELSE once \cup {curID}
    /\ oncePaths' = oncePaths \cup {Top.path}
    /\ Quiet
    /\ UNCHANGED <<sections, files, guardVars, macros, err>>

\* #line N "f"
LineDirective(l) ==
    /\ AtLine(l, "line")
    /\ curName' = l.f
    /\ Quiet
    /\ UNCHANGED <<sections, stack, fileID, nextID, curID, guardVars, onceVars,
                   macros, err>>

HandleDirective(l) ==
    \/ Define(l) \/ Undef(l) \/ BadDirective(l)
    \/ If(l) \/ Ifdef(l) \/ Ifndef(l)
    \/ Elif(l) \/ Elifdef(l) \/ Elifndef(l)
    \/ Else(l) \/ Endif(l) \/ Misplaced(l)
    \/ Include(l) \/ IncludeRefused(l) \/ IncludeNext(l)
    \/ PragmaOnce(l) \/ LineDirective(l)

Next ==
    \/ \E f \in MainFiles : EnterSourceFile(f)
    \/ Reset
    \/ EndOfDirective \/ EndOfFile
    \/ \E l \in Lines : Text(l) \/ HandleDirective(l)

Spec == Init /\ [][Next]_vars

-----------------------------------------------------------------------------
(* Properties.                                                             *)

\* The type invariant of the directive machine.
TypeOK ==
    /\ stack \in Seq(Frame)
    /\ cond \in Seq(Section)
    /\ skipping \in BOOLEAN
    /\ macros \subseteq Names
    /\ fileID \in [Paths -> IDs \cup {NoID}]
    /\ nextID \in 0 .. MaxID + 1
    /\ curID \in IDs \cup {NoID}
    /\ curName \in FileNames
    /\ once \subseteq IDs /\ oncePaths \subseteq Paths
    /\ guards \in [IDs -> GuardInfo]
    /\ pending \in Names \cup {NoName}
    /\ guarded \subseteq FileNames
    /\ err \in BOOLEAN
    /\ tok \in {"none", "text", "eod", "eof"}

\* The current group of section i is skipped.
SkippedIn(i) == IF i = Len(cond) THEN skipping ELSE cond[i + 1].was

(* Skipping is inherited: a section opened in a skipped group is skipped   *)
(* whatever its conditions say, and outside every section nothing is       *)
(* skipped.  handleEndifDirective relies on it to restore Skipping.        *)
SkippingIsInherited ==
    /\ cond = <<>> => ~skipping
    /\ cond # <<>> => ~cond[1].was
    /\ \A i \in DOMAIN cond : cond[i].was => SkippedIn(i)

(* Of the groups of one conditional section at most one is not skipped.    *)
AtMostOneGroup == \A i \in DOMAIN cond : cond[i].past => SkippedIn(i)

(* A section that has an #else and is not inside a skipped group has one   *)
(* group that is not skipped.                                              *)
ElseCompletes ==
    \A i \in DOMAIN cond :
        cond[i].els /\ ~cond[i].was => cond[i].past \/ ~SkippedIn(i)

(* The flags of ConditionalInfo amount to the promise of the directives:   *)
(* every step on the sections is a step of ConditionalSections.            *)
StatusOf(i) ==
    CASE cond[i].was -> "dead"
      [] ~cond[i].was /\ ~SkippedIn(i) -> "active"
      [] ~cond[i].was /\ SkippedIn(i) /\ cond[i].found -> "done"
      [] OTHER -> "waiting"

Groups == [i \in 1 .. Len(cond) |->
              [status |-> StatusOf(i), els |-> cond[i].els]]

Promise == INSTANCE ConditionalSections WITH secs <- Groups

ImplementsSections == Promise!Spec

\* A token reaches the caller only while every open section is being read.
TextOnlyWhileReading == [][tok' = "text" => Promise!Reading]_vars

(* Unless #include_next is used, the circularity check keeps every name at *)
(* most once on the include stack, so inclusion cannot recur for ever.     *)
NoCircularInclude == \A i, j \in DOMAIN stack : stack[i].name = stack[j].name => i = j

(* While a file is being read, SourceManager resolves its name to its own  *)
(* FileInfo although IDs are reused and names are mapped again: diagnostics *)
(* and #pragma once look the file up by name.                              *)
OpenFilesResolve == \A i \in DOMAIN stack : fileID[stack[i].name] = stack[i].id

(* With #include_next names may repeat and be mapped again, but no two open *)
(* files share a file ID, even after ID 0 has been used again.             *)
OpenIDsDistinct == \A i, j \in DOMAIN stack : stack[i].id = stack[j].id => i = j

(* The include-guard detector waits for the #define of a macro only while  *)
(* some file is recorded as guarded by it and still without that #define.  *)
PendingGuardIsRecorded ==
    pending # NoName =>
        \E i \in IDs : guards[i] = [macro |-> pending, saw |-> FALSE]

-----------------------------------------------------------------------------
(* What the repository says of the preprocessor and the code does not do.  *)

\* #pragma once: a file it was read in is not included again.
OnceIncluded ==
    [][stack # <<>> /\ Len(stack') > Len(stack)
         => stack'[Len(stack')].path \notin oncePaths]_vars

=============================================================================
