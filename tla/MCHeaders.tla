------------------------------ MODULE MCHeaders ------------------------------
(* Headers, read in two vocabularies: plain inclusion, which goes deeper,  *)
(* and include guards with #include_next and #line.                        *)
EXTENDS MCPreprocessor

VARIABLE vocabulary     \* the lines the files are made of
headerVars == <<vars, vocabulary>>

HeaderLines == IncludeLines \cup GuardLines
ASSUME VocabularyAssumption == HeaderLines \subseteq Lines

HeaderInit == Init /\ vocabulary \in {IncludeLines, GuardLines}

\* Bounds of the second vocabulary: three files deep, three numbers of files.
Bounded == vocabulary = GuardLines => Len(stack') < MaxDepth /\ nextID' <= MaxID

HeaderNext ==
    /\ \/ \E f \in MainFiles : EnterSourceFile(f)
       \/ Reset
       \/ EndOfDirective \/ EndOfFile
       \/ \E l \in vocabulary : Text(l) \/ HandleDirective(l)
    /\ Bounded
    /\ UNCHANGED vocabulary

HeaderSpec == HeaderInit /\ [][HeaderNext]_headerVars

(* Unless #include_next is used, the circularity check keeps every name at *)
(* most once on the include stack, so inclusion cannot recur for ever.     *)
NoCircularHeader == vocabulary = IncludeLines => NoCircularInclude

(* Unless #include_next is used, SourceManager resolves the name of every  *)
(* open file to its own FileInfo although IDs are reused and names mapped  *)
(* again.                                                                  *)
OpenHeadersResolve == vocabulary = IncludeLines => OpenFilesResolve
=============================================================================
