------------------------------ MODULE ParserCore ------------------------------
(* What the parse functions of src/Parse share: the tokens, the call stack,  *)
(* the scopes of Sema, and the ways to skip tokens after an error.  The C++  *)
(* call stack is a variable: a frame names a parse function and the place in *)
(* it, and "ret" is what the last call returned.  The input is drawn token   *)
(* by token and has no bound; only its nesting has one.  Of NextTok the code *)
(* asks whether an identifier or a colon follows an identifier, and that is  *)
(* part of the token's kind.                                                 *)
(*                                                                           *)
(* A token stands for every token the code treats alike:                     *)
(*   type       a builtin type of one word                                   *)
(*   id         an identifier that names no type; "ids" if an identifier     *)
(*              follows, "idc" if a colon does                               *)
(*   params     "(" ")", which is two tokens of the code                     *)
(*   template   the whole header "template" "<" parameters ">", with         *)
(*              parameters that Sema accepts                                 *)
(*   extern     "extern" and the string that names a language                *)
(*   range, typedRange   what begins a loop over a range: "auto" or a        *)
(*              builtin type, then a name and a colon                        *)
(*   op         "+", an operator of one operand and of two                   *)
(*   class, break, access   also "struct", "continue", the three accesses    *)
(*   concept    a keyword that starts a declaration (isDeclarationStart) and *)
(*              is refused by parseDeclaration                               *)
(* A run reads one of the vocabularies at a time: the constructs of one are  *)
(* nested in each other, those of two are not.                               *)
EXTENDS Integers, SequencesExt, FiniteSetsExt

CONSTANTS
    Vocabularies,   \* the kinds of tokens of an input and how deep they nest
    MaxLeaks,       \* bound: no template header once so many scopes leaked
    MaxDepth,       \* bound: braces opened in a block that is skipped
    MaxSkipTokens   \* the limit of skipUntilNextDeclaration, 50 in the code

Ids == {"id", "ids", "idc"}
Statement == {"if", "else", "while", "switch", "do", "for", "case", "default",
              "break", "return", "goto", "try", "lbrace", "semi"}
Declaration == {"type", "ids", "namespace", "class", "union", "template", "concept", "enum",
                "using", "typedef", "extern", "export", "friend", "static_assert"}
Kinds == Ids \cup Statement \cup Declaration \cup
    {"rbrace", "params", "lparen", "rparen", "hash", "catch", "range", "typedRange",
     "comma", "colon", "equal", "question", "op", "period", "access", "tilde", "eof"}

ASSUME BoundsAssumption ==
    /\ \A v \in Vocabularies : v.kinds \subseteq Kinds /\ v.depth \in Nat
    /\ MaxLeaks \in Nat /\ MaxDepth \in Nat /\ MaxSkipTokens \in Nat \ {0}

VARIABLES
    Tok,                \* the current token
    vocabulary,         \* what the input is made of; never changes
    stack,              \* the frames, the innermost first
    ret,                \* what the last call returned
    ConsecutiveErrors,  \* saturates at AggressiveAt, the one value tested
    counter,            \* SkipCount or BraceDepth of the running skip loop
    parens,             \* ParenDepth of skipUntilBalanced
    scopes, contexts,   \* Sema: the chain of scopes, DeclContextStack
    fault,              \* the first reported problem
    leaked,             \* history: pairs of scopes that were never popped
    moved               \* history: the last step consumed a token

control == <<stack, ret>>
errors == <<ConsecutiveErrors, fault>>
sema == <<scopes, contexts, leaked>>
skipping == <<counter, parens>>
vars == <<Tok, vocabulary, control, errors, sema, skipping, moved>>

Values == {"none", "null", "node", "var", "fn"}
AggressiveAt == 3

Init ==
    /\ vocabulary \in Vocabularies
    /\ Tok \in (vocabulary.kinds \ {"range", "typedRange"}) \cup {"eof"}
    /\ stack = <<"TU">> /\ ret = "none"
    /\ ConsecutiveErrors = 0 /\ counter = 0 /\ parens = 0
    /\ scopes = <<"TU">> /\ contexts = <<"TU">>
    /\ fault = "none" /\ leaked = 0 /\ moved = FALSE

At(f) == stack # <<>> /\ Head(stack) = f
AtOne(F) == stack # <<>> /\ Head(stack) \in F

-----------------------------------------------------------------------------
(* Tokens. *)

\* What opens a construct, and the frames that wait for one to be closed.
Opening == {"lbrace", "lparen", "namespace", "class", "union", "template", "extern",
            "export", "if", "while", "switch", "do", "for", "try", "case", "default", "idc",
            "question", "op", "equal", "tilde"}
Waiting == {"nsBody", "linkBody", "linked", "exportBody", "exportFirst", "exportMore",
            "exported", "classBody", "unnamedBody", "enumNext", "template", "compound",
            "then", "doWhile", "forEnd", "handlers", "misplaced", "clause", "arg",
            "paren", "condTrue", "condFalse", "checked", "unaryEnd", "paramNext",
            "methodParam", "methodClose", "friendNext",
            "parenArg", "parenNext", "braceArg", "braceNext"}
Nesting == Quantify(DOMAIN stack, LAMBDA i : stack[i] \in Waiting)

\* What is asked of the token after an identifier is known.
AfterName(k) ==
    /\ Tok = "ids" => k \in Ids
    /\ Tok = "id" => k \notin Ids \cup {"colon"}
    /\ Tok = "idc" => k = "colon"

\* In these places the code reads a type, and "(" would go on with it: a
\* function type and a declarator in parentheses are not modelled.
InType == {"aliasType", "enumType", "bases", "catchType", "memberFriend", "paramDecl",
           "specifiers", "typedef", "typedefName", "catchName"}

AfterType(k) ==
    /\ Tok \in {"type", "typedef", "friend"} => k # "lparen"
    /\ Tok \in Ids /\ AtOne(InType) => k \notin {"lparen", "params"}
    /\ Tok = "type" /\ AtOne(InType \ {"specifiers"}) => k # "params"
    /\ Tok \in {"typedef", "friend"} => k # "params"

\* After "(" a type begins a cast or the variable of a condition: not modelled.
InMember == {"memberRest", "ctor", "dtorParams", "memArgs", "friendOpen"}
InDeclarator == {"named", "unnamed", "fn", "paramRest"} \cup InMember
Heading == {"if", "while", "switch", "for", "catch"}
AfterParen(k) ==
    /\ Tok = "lparen" =>
          /\ k = "type" => AtOne({"for", "catch"} \cup InDeclarator)
          /\ k = "rparen" /\ "params" \in vocabulary.kinds =>
                AtOne(Heading \cup {"doCond"} \cup InMember)
          /\ k = "idc" => ~At("for")
    /\ k \in {"range", "typedRange"} => Tok = "lparen" /\ At("for")
    /\ Tok \in Heading => k # "params"

\* Tokens that stand for several and are read at one place only.  A class
\* that is a template has a name; a union is no template.
AfterSpecifier(k) ==
    /\ k = "extern" => Tok \notin Ids \cup {"type", "friend", "typedef", "comma", "lparen"}
    /\ Tok = "template" => k \notin {"concept", "union"}
    /\ Tok = "class" /\ At("decl") /\ Len(stack) > 1 /\ stack[2] = "template" => k \in Ids
    /\ Tok = "type" /\ k = "idc" => "for" \notin vocabulary.kinds

\* The tokens that may follow.
Deep == Nesting >= vocabulary.depth \/ counter + parens >= MaxDepth
Supply ==
    IF Tok = "eof" THEN {"eof"}
    ELSE {k \in (vocabulary.kinds \ (IF Deep THEN Opening ELSE {})) \cup {"eof"} :
            /\ AfterName(k) /\ AfterType(k) /\ AfterParen(k) /\ AfterSpecifier(k)
            /\ k = "template" => leaked < MaxLeaks}

consumeToken == Tok' \in Supply /\ moved' = TRUE /\ UNCHANGED vocabulary
KeepToken == moved' = FALSE /\ UNCHANGED <<Tok, vocabulary>>

isDeclarationStart == Tok \in Declaration
isStatementStart == Tok \in Statement

-----------------------------------------------------------------------------
(* Control: the innermost frame goes on as fs, or returns v to its caller.  *)

Continue(fs) == stack' = fs \o Tail(stack) /\ ret' = "none"
Return(v) == stack' = Tail(stack) /\ ret' = v
Stay == UNCHANGED control

\* What was the first thing to go wrong.
First(kind) == fault' = IF fault = "none" THEN kind ELSE fault

\* emitError, n times, because of the form or the meaning of what was read.
emitErrors(n, kind) ==
    /\ ConsecutiveErrors' = IF ConsecutiveErrors + n > AggressiveAt
                            THEN AggressiveAt ELSE ConsecutiveErrors + n
    /\ First(kind)
emitError(n) == emitErrors(n, "syntax")

\* Sema reports on its own: ConsecutiveErrors does not count it.
Refuse(v) ==
    /\ First("meaning") /\ Return(v) /\ KeepToken
    /\ UNCHANGED <<ConsecutiveErrors, sema, skipping>>

\* The token is consumed, left for later, or an error.
Accept(c) == c /\ consumeToken /\ UNCHANGED <<errors, sema, skipping>>
Leave(c) == c /\ KeepToken /\ UNCHANGED <<errors, sema, skipping>>
Fail(n, c) == c /\ emitError(n) /\ KeepToken /\ UNCHANGED <<sema, skipping>>

(* The steps of a parse function at f whose token is in K.  It consumes the  *)
(* token and goes on (Shift) or returns (Finish), it does so without the     *)
(* token (Step, Done), or it reports and does so (Report, Reject).           *)
In(f, K) == At(f) /\ Tok \in K
Shift(f, K, fs) == In(f, K) /\ Accept(Continue(fs))
Finish(f, K, v) == In(f, K) /\ Accept(Return(v))
Step(f, K, fs) == In(f, K) /\ Leave(Continue(fs))
Done(f, K, v) == In(f, K) /\ Leave(Return(v))
Report(f, K, fs) == In(f, K) /\ Fail(1, Continue(fs))
Reject(f, K, v) == In(f, K) /\ Fail(1, Return(v))
Others(K) == Kinds \ K

\* A ";" or a ")": if it is missing, that is reported, and the caller is given
\* v, or nothing (Required).
Terminator(f, k, v) == Finish(f, {k}, v) \/ Reject(f, Others({k}), v)
Required(f, k, v) == Finish(f, {k}, v) \/ Reject(f, Others({k}), "null")

\* The ends that many constructs share.
Ends == Terminator("semi", "semi", "node") \/ Terminator("close", "rparen", "node")
          \/ Required("end", "semi", "node")

\* One item after another up to a "}"; after a bad one, a skip to ";" or "}".
Items(f, item) ==
    \/ At(f) /\ ret = "null" /\ Leave(Continue(<<"skipDecl", f>>))
    \/ ret # "null" /\ Step(f, Others({"rbrace", "eof"}), <<item, f>>)

\* A missing expression is reported and replaced (createRecoveryExpr).
Replace(f) == At(f) /\ ret = "null" /\ Fail(1, Continue(<<f>>))

PushScope(ks) == scopes' = ks \o scopes
PopScope(n) == scopes' = SubSeq(scopes, n + 1, Len(scopes))
PushDeclContext(c) == contexts' = <<c>> \o contexts
PopDeclContext == contexts' = Tail(contexts)
SameContext == UNCHANGED <<contexts, leaked>>

\* The "{" of a block.
EnterBlock(f, fs) ==
    /\ In(f, {"lbrace"})
    /\ PushScope(<<"block">>) /\ SameContext
    /\ Continue(<<"compound">> \o fs)
    /\ consumeToken /\ UNCHANGED <<errors, skipping>>

-----------------------------------------------------------------------------
(* Skipping. *)

\* A faulty variant: no number of errors makes the recovery aggressive.
NeverAggressive ==
    IF isDeclarationStart \/ isStatementStart THEN "nextStmt" ELSE "nextDecl"

determineRecoveryLevel ==
    IF ConsecutiveErrors >= AggressiveAt THEN "aggressive"
    ELSE IF isDeclarationStart \/ isStatementStart THEN "nextStmt"
    ELSE "nextDecl"

\* Tokens are consumed up to one of K; one in C is consumed as well.  A skip
\* to a ")" that is not consumed takes the first token of "params".
SkipUntil(f, K, C) ==
    /\ At(f)
    /\ \/ Tok \notin K \cup {"eof"} /\ ("rparen" \in K => Tok # "params") /\ Accept(Stay)
       \/ Tok \in K \cup {"eof"} /\ Tok \in C /\ Accept(Return("none"))
       \/ Tok \in K \cup {"eof"} /\ Tok \notin C /\ Leave(Return("none"))
       \/ /\ "rparen" \in K /\ Tok = "params"
          /\ IF "rparen" \in C THEN consumeToken
             ELSE Tok' = "rparen" /\ moved' = TRUE /\ UNCHANGED vocabulary
          /\ Return("none") /\ UNCHANGED <<errors, sema, skipping>>

skipUntil ==
    \/ SkipUntil("aggressive", {"rbrace"}, {})
    \/ SkipUntil("far", {"semi", "rbrace"}, {})
    \/ SkipUntil("skipDecl", {"semi", "rbrace"}, {"semi"})
    \/ SkipUntil("skipStmt", {"semi"}, {"semi"})
    \/ SkipUntil("skipParen", {"rparen"}, {"rparen"})
    \/ SkipUntil("skipParam", {"rparen", "semi"}, {})
    \/ SkipUntil("skipMem", {"comma", "lbrace", "semi"}, {})
    \/ SkipUntil("skipParenArg", {"comma", "rparen"}, {})
    \/ SkipUntil("skipBraceArg", {"comma", "rbrace"}, {})

\* The rest of a block whose "{" was consumed.  An unmatched ")" ends it too.
skipUntilBalanced ==
    /\ At("balanced")
    /\ UNCHANGED <<errors, sema>>
    /\ \/ /\ Tok \in {"lbrace", "rbrace"} /\ (Tok = "rbrace" => counter > 0)
          /\ counter' = IF Tok = "lbrace" THEN counter + 1 ELSE counter - 1
          /\ Stay /\ consumeToken /\ UNCHANGED parens
       \/ /\ Tok \in {"lparen", "rparen"} /\ (Tok = "rparen" => parens > 0)
          /\ parens' = IF Tok = "lparen" THEN parens + 1 ELSE parens - 1
          /\ Stay /\ consumeToken /\ UNCHANGED counter
       \/ /\ Tok \notin {"lbrace", "rbrace", "lparen", "rparen", "eof"}
          /\ Stay /\ consumeToken /\ UNCHANGED skipping
       \/ /\ \/ Tok = "eof"
             \/ Tok = "rparen" /\ parens = 0
             \/ Tok = "rbrace" /\ counter = 0
          /\ Return("none") /\ KeepToken /\ counter' = 0 /\ parens' = 0

\* A faulty variant: one token too many is skipped.
SkipOneMore(n) == counter <= MaxSkipTokens /\ counter' = counter + n

\* SkipCount is tested before every token; "params" is two of them.
CountSkipped(n) ==
    /\ counter < MaxSkipTokens
    /\ counter' = IF counter + n > MaxSkipTokens THEN MaxSkipTokens ELSE counter + n

skipUntilNextDeclaration ==
    \/ /\ At("nextDecl") /\ UNCHANGED <<errors, sema, parens>>
       /\ \/ /\ counter < MaxSkipTokens
             /\ isDeclarationStart \/ Tok \in {"rbrace", "eof"}
             /\ Return("none") /\ KeepToken /\ counter' = 0
          \/ /\ counter < MaxSkipTokens /\ Tok = "semi"
             /\ Return("none") /\ consumeToken /\ counter' = 0
          \/ /\ counter < MaxSkipTokens /\ Tok = "lbrace"
             /\ Continue(<<"balanced", "nextDecl.block">>)
             /\ consumeToken /\ counter' = 0
          \/ /\ ~isDeclarationStart
             /\ Tok \notin {"semi", "lbrace", "rbrace", "eof"}
             /\ CountSkipped(IF Tok = "params" THEN 2 ELSE 1)
             /\ Stay /\ consumeToken
          \/ /\ counter >= MaxSkipTokens
             /\ Continue(<<"far">>) /\ KeepToken /\ counter' = 0
    \/ Shift("nextDecl.block", {"rbrace"}, <<"nextDecl.after">>)
    \/ Step("nextDecl.block", Others({"rbrace"}), <<"nextDecl.after">>)
    \/ Done("nextDecl.after", Declaration, "none")
    \/ Step("nextDecl.after", Others(Declaration), <<"nextDecl">>)

skipUntilNextStatement ==
    \/ Finish("nextStmt", {"semi"}, "none")
    \/ Shift("nextStmt", {"lbrace"}, <<"balanced", "nextStmt.block">>)
    \/ Done("nextStmt", (Declaration \cup Statement \cup {"rbrace", "eof"})
                            \ {"semi", "lbrace"}, "none")
    \/ /\ In("nextStmt", Others(Declaration \cup Statement \cup {"rbrace", "eof"}))
       /\ Accept(Stay)
    \/ Shift("nextStmt.block", {"rbrace"}, <<"nextStmt.after">>)
    \/ Step("nextStmt.block", Others({"rbrace"}), <<"nextStmt.after">>)
    \/ Finish("nextStmt.after", {"semi"}, "none")
    \/ Done("nextStmt.after", (Declaration \cup Statement) \ {"semi"}, "none")
    \/ Step("nextStmt.after", Others(Declaration \cup Statement), <<"nextStmt">>)

Recovery == skipUntil \/ skipUntilBalanced \/ skipUntilNextDeclaration
              \/ skipUntilNextStatement
=============================================================================
