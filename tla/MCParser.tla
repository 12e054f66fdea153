------------------------------ MODULE MCParser ------------------------------
(* The parser reads inputs made of a few kinds of tokens at a time: the      *)
(* constructs of one vocabulary are nested in each other to its depth.       *)
EXTENDS Parser

Vocabulary(depth, kinds) ==
    [depth |-> depth, kinds |-> kinds \cup {"type", "id"}]
Braces == {"lbrace", "rbrace"}
Parens == {"lparen", "rparen"}

Blocks == Vocabulary(2, Braces \cup {"semi", "class", "params"})
Unions == Vocabulary(2, Braces \cup {"semi", "union"})
Templates == Vocabulary(2, Braces \cup {"class", "params", "template"})
Namespaces == Vocabulary(2, Braces \cup {"semi", "namespace", "template"})
Errors == Vocabulary(1, Braces \cup {"semi", "ids", "params", "rparen", "hash", "concept",
                                     "return"})
Loops == Vocabulary(2, Braces \cup Parens \cup {"semi", "if", "else", "do", "while"})
Iterations == Vocabulary(2, Braces \cup Parens \cup {"semi", "for", "range", "typedRange"})
Labels == Vocabulary(2, Braces \cup {"semi", "idc", "colon", "params", "case", "default",
                                     "goto"})
Handlers == Vocabulary(2, Braces \cup Parens \cup {"semi", "break", "switch", "try", "catch"})
Types == Vocabulary(1, Braces \cup {"semi", "idc", "colon", "comma", "equal", "enum", "class",
                                    "using", "typedef"})
Specifications == Vocabulary(1, Braces \cup {"semi", "equal", "namespace", "using",
                                             "extern", "export"})
Functions == Vocabulary(1, Braces \cup Parens \cup {"semi", "params", "comma", "equal",
                                                    "static_assert"})
Calls == Vocabulary(2, Parens \cup {"semi", "comma", "equal", "op"})
Conditions == Vocabulary(2, {"semi", "idc", "equal", "op", "question", "colon"})
Lists == Vocabulary(2, Braces \cup {"semi", "comma", "equal", "period"})
Members == Vocabulary(1, Braces \cup {"semi", "class", "access", "colon", "friend", "using",
                                      "tilde", "params"})
Fields == Vocabulary(1, Braces \cup {"semi", "class", "idc", "colon", "equal", "default",
                                     "comma", "params"})
Constructors == Vocabulary(2, {"lbrace"} \cup Parens \cup {"class", "colon", "comma", "tilde"})
Friends == Vocabulary(2, {"lbrace"} \cup Parens \cup {"class", "comma", "friend"})

Inputs == {Blocks, Unions, Templates, Namespaces, Errors, Loops, Iterations, Labels, Handlers,
           Types, Specifications, Functions, Calls, Conditions, Lists, Members, Fields,
           Constructors, Friends}

\* The parser goes on until it is done.  That a step is always possible until
\* then is checked (no deadlock), so that this is the fairness of Spec.
MCNext == Next \/ (stack = <<>> /\ UNCHANGED vars)
MCSpec == /\ Init /\ [][MCNext]_vars
          /\ ([]<>(stack = <<>>)) \/ ([]<><<stack # <<>>>>_vars)

\* A few kinds of tokens are enough to hang.
JustBlocks == {Vocabulary(1, Braces \cup {"semi", "class"})}
=============================================================================
