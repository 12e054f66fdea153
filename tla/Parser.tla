------------------------------- MODULE Parser -------------------------------
(* The recursive-descent parser of src/Parse, the scopes it opens in Sema,   *)
(* and its error recovery: ParserCore has the state and the recovery, and    *)
(* the modules it is composed of have the parse functions.                   *)
EXTENDS ParserStatements, ParserClasses

Next == Recovery \/ Ends \/ Expressions \/ Statements \/ Declarations \/ Classes

\* The parser runs until it is done: nothing else can stop it.
Spec == Init /\ [][Next]_vars /\ WF_vars(Next)

-----------------------------------------------------------------------------
(* Properties. *)

\* The places in the parse functions where a call may be suspended: those of
\* the recovery, of the expressions, the statements, the declarations and the
\* classes.
SharedFrames ==
    {"semi", "close", "end", "aggressive", "far", "skipDecl", "skipStmt",
     "skipParen", "skipParam", "skipMem", "skipParenArg", "skipBraceArg",
     "balanced", "nextDecl", "nextDecl.block", "nextDecl.after", "nextStmt",
     "nextStmt.block", "nextStmt.after"}
ExpressionFrames ==
    {"unary", "unaryEnd", "checked", "postfix", "access", "called", "args",
     "arg", "paren", "rhsOperand", "rhs", "rhsA", "condTrue", "condFalse",
     "assign", "init", "clause", "initClause", "designator", "designated"}
StatementFrames ==
    {"for", "misplaced", "stmt", "compound", "return", "exprStmt", "label",
     "goto", "cond", "if", "then", "while", "doWhile", "doCond", "forInit",
     "forCond", "forStep", "forEnd", "try", "handlers", "catch", "catchType",
     "catchName", "catchBody"}
DeclarationFrames ==
    {"decl", "TU", "directive", "optSemi", "specifiers", "declarator",
     "unnamed", "named", "var", "varList", "varEnd", "incomplete", "fn",
     "fnDefault", "fnSemi", "fnEnd", "paramList", "paramNext", "paramDecl",
     "paramName", "paramRest", "paramEnd", "ns", "nsOpen", "nsAlias",
     "nsBody", "using", "usingName", "usingAlias", "aliasType", "typedef",
     "typedefName", "linkage", "linked", "linkBody", "exportBody", "export",
     "exported", "exportFirst", "exportMore", "enum", "enumName", "enumBase",
     "enumType", "enumOpen", "enumerators", "enumerator", "enumNext",
     "assert", "assertEnd", "template"}
ClassFrames ==
    {"class", "classOpen", "classBrace", "unnamedBrace", "union",
     "unionBrace", "bases", "basesNext", "classBody", "unnamedBody",
     "member", "memberSpec", "memberName", "accessColon", "memberRest",
     "inClass", "methodParams", "methodParam", "methodClose", "method",
     "methodDefault", "ctor", "dropped", "ctorRest", "ctorBody", "dtor",
     "dtorParams", "dtorClose", "mem", "memDone", "memNext", "memArgs",
     "memberFriend", "friendClass", "friendName", "friendOpen",
     "friendParams", "friendNext", "memParen", "parenArg", "parenNext",
     "memBrace", "braceArg", "braceNext"}
Frames == SharedFrames \cup ExpressionFrames \cup StatementFrames
            \cup DeclarationFrames \cup ClassFrames

\* The type invariant; every frame is one that some parse function goes on
\* from, and a skip loop stays within its limit.
TypeOK ==
    /\ Tok \in Kinds /\ vocabulary \in Vocabularies
    /\ stack \in Seq(Frames) /\ ret \in Values
    /\ ConsecutiveErrors \in 0 .. AggressiveAt
    /\ counter \in 0 .. (IF At("nextDecl") THEN MaxSkipTokens ELSE MaxDepth + 2)
    /\ parens \in 0 .. MaxDepth + 1
    /\ scopes \in Seq({"TU", "class", "block", "control", "function", "params", "template"})
    /\ contexts \in Seq({"TU", "class", "function"})
    /\ fault \in {"none", "syntax", "meaning", "silent"}
    /\ leaked \in Nat /\ moved \in BOOLEAN

\* The scopes and the declaration contexts a frame has open.
ScopesOf(f) == CASE f = "TU" -> <<"TU">>
                 [] f = "compound" -> <<"block">>
                 [] f = "forEnd" -> <<"control">>
                 [] f = "fnEnd" -> <<"function">>
                 [] f \in {"classBody", "unnamedBody"} -> <<"class">>
                 [] f = "template" -> <<"template", "params">>
                 [] OTHER -> <<>>

ContextsOf(f) == CASE f = "TU" -> <<"TU">>
                   [] f = "fnEnd" -> <<"function">>
                   [] f \in {"classBody", "unnamedBody"} -> <<"class">>
                   [] OTHER -> <<>>

OpenScopes == FlattenSeq([i \in DOMAIN stack |-> ScopesOf(stack[i])])
OpenContexts == FlattenSeq([i \in DOMAIN stack |-> ContextsOf(stack[i])])

(* Every early return, error path and recovery of the parse functions        *)
(* leaves Sema's scopes and declaration contexts as they were on entry, so   *)
(* that a later declaration is not registered in a class or block that has   *)
(* ended.  The variable template is the one way out that forgets its two     *)
(* scopes, and nothing but those is ever left behind.                        *)
ScopesMatch ==
    stack # <<>> =>
        /\ contexts = OpenContexts
        /\ leaked = 0 => scopes = OpenScopes
        /\ Len(scopes) = Len(OpenScopes) + 2 * leaked

\* What is left of the input for a frame to read: the symbol of its name, but
\* for the frames that end alike and those that have nothing to read.
Silent == {"template", "incomplete", "linked", "exported", "fnEnd", "paramEnd",
           "dropped", "misplaced", "forEnd", "unaryEnd", "rhsOperand", "checked",
           "condFalse"}

SymbolOf(f) ==
    CASE f \in {"end", "varList", "varEnd", "fnSemi", "exprStmt"} -> "semi"
      [] f \in {"cond", "methodClose"} -> "close"
      [] f \in {"nsBody", "linkBody", "exportFirst", "exportMore"} -> "decls"
      [] f \in {"classBrace", "unnamedBrace"} -> "brace"
      [] f \in {"classBody", "unnamedBody"} -> "members"
      [] f = "called" -> "postfix"
      [] f = "parenArg" -> "parenNext"
      [] f = "braceArg" -> "braceNext"
      [] OTHER -> f

Expected == LET reading == SelectSeq(stack, LAMBDA f : f \notin Silent)
            IN  [i \in DOMAIN reading |-> SymbolOf(reading[i])]

(* Until the first problem is reported the parser is a predictive parser of  *)
(* ParserGrammar: it consumes a token, or chooses a rule by it, only as the  *)
(* grammar allows, and reports a syntax error only where the grammar has no  *)
(* rule: no valid input is refused and no invalid one accepted.              *)
Grammar == INSTANCE ParserGrammar WITH
    Kinds <- Kinds,
    open <- IF fault = "none" THEN Expected ELSE <<>>,
    ahead <- IF fault = "none" THEN Tok ELSE "eof",
    fault <- fault

ImplementsGrammar == Grammar!Spec

(* Whatever the input, the parser ends or goes on consuming tokens, unless   *)
(* it is at the top level in front of a "}" that closes nothing: there is    *)
(* no other place where parsing and recovery hand the same token back and    *)
(* forth for ever, at a keyword that no declaration begins with either.      *)
StuckOnlyAtStrayBrace ==
    []<>(stack = <<>> \/ moved \/ (stack = <<"TU">> /\ Tok = "rbrace"))

-----------------------------------------------------------------------------
(* What the repository says of the recovery and the code does not do.        *)

\* The recovery skips the tokens in error, so that parsing goes on.
RecoveryMakesProgress == []<>(stack = <<>> \/ moved)

=============================================================================
