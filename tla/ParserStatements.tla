-------------------------- MODULE ParserStatements --------------------------
(* The statements of src/Parse/ParseStmt.cpp and ParseStmtCXX.cpp.  A        *)
(* statement that cannot be read is replaced by an empty one or dropped: no  *)
(* caller asks what a statement returned.  A block and a loop "for" have a   *)
(* scope of their own.                                                       *)
EXTENDS ParserExpressions

\* An identifier that names no type starts an expression: "A b;" too.
isDeclarationStatement ==
    Tok \in {"type", "namespace", "class", "union", "template", "enum", "using", "typedef",
             "static_assert", "extern"}

\* The depth of loops is raised after their bodies have been read
\* (ActOnWhileStmt and the like): Sema refuses every "break", "continue",
\* "case" and "default".
Misplaced == At("misplaced") /\ Refuse("node")

\* The statements that begin with a keyword, and what follows it.
StatementHeads == [return  |-> <<"return">>,     goto  |-> <<"goto">>,
          if      |-> <<"if">>,         while |-> <<"while">>,
          switch  |-> <<"while">>,
          do      |-> <<"stmt", "doWhile">>,
          for     |-> <<"for">>,        try   |-> <<"try">>,
          break   |-> <<"semi", "misplaced">>,
          case    |-> Expression \o <<"label", "misplaced">>,
          default |-> <<"label", "misplaced">>,
          idc     |-> <<"label">>]

parseStatement ==
    \/ EnterBlock("stmt", <<>>)
    \/ Finish("stmt", {"semi"}, "node")
    \/ In("stmt", DOMAIN StatementHeads) /\ Accept(Continue(StatementHeads[Tok]))
    \/ At("stmt") /\ isDeclarationStatement /\ Leave(Continue(<<"decl">>))
    \/ /\ In("stmt", Others(DOMAIN StatementHeads \cup {"lbrace", "semi"}))
       /\ ~isDeclarationStatement
       /\ Leave(Continue(Expression \o <<"exprStmt">>))

parseCompoundStatement ==
    \/ /\ In("compound", {"rbrace"})
       /\ PopScope(1) /\ SameContext
       /\ Return("node") /\ consumeToken /\ UNCHANGED <<errors, skipping>>
    \/ /\ In("compound", {"eof"})
       /\ PopScope(1) /\ SameContext
       /\ Return("node") /\ emitError(1) /\ KeepToken /\ UNCHANGED skipping
    \/ Step("compound", Others({"rbrace", "eof"}), <<"stmt", "compound">>)

parseReturnStatement ==
    \/ Finish("return", {"semi"}, "node")
    \/ Step("return", Others({"semi"}), Expression \o <<"semi">>)

\* After a bad expression tokens are skipped up to ";", past any "}".
parseExpressionStatement ==
    \/ At("exprStmt") /\ ret = "null" /\ Leave(Continue(<<"skipStmt">>))
    \/ At("exprStmt") /\ ret # "null" /\ Leave(Continue(<<"semi">>))

parseLabelStatement ==
    \/ Replace("label")
    \/ /\ ret # "null"
       /\ \/ Shift("label", {"colon"}, <<"stmt">>)
          \/ Report("label", Others({"colon"}), <<"stmt">>)

parseGotoStatement ==
    \/ Shift("goto", Ids, <<"semi">>)
    \/ Report("goto", Others(Ids), <<"skipStmt">>)

parseCondition ==
    \/ Replace("cond")
    \/ At("cond") /\ ret # "null" /\ Leave(Continue(<<"close">>))

parseIfStatement ==
    \/ Shift("if", {"lparen"}, Expression \o <<"cond", "stmt", "then">>)
    \/ Reject("if", Others({"lparen"}), "node")
    \/ Shift("then", {"else"}, <<"stmt">>)
    \/ Done("then", Others({"else"}), "node")

\* "switch" as well.
parseWhileStatement ==
    \/ Shift("while", {"lparen"}, Expression \o <<"cond", "stmt">>)
    \/ Reject("while", Others({"lparen"}), "node")

parseDoStatement ==
    \/ Shift("doWhile", {"while"}, <<"doCond">>)
    \/ Reject("doWhile", Others({"while"}), "node")
    \/ Shift("doCond", {"lparen"}, Expression \o <<"close", "semi">>)
    \/ Reject("doCond", Others({"lparen"}), "node")

\* The scope is opened once the loop is known to be none over a range.
EnterFor(fs) ==
    /\ PushScope(<<"control">>) /\ SameContext
    /\ Continue(fs \o <<"forCond", "forEnd">>) /\ UNCHANGED <<errors, skipping>>

parseForStatement ==
    \/ Shift("for", {"lparen"}, <<"forInit">>)
    \/ Reject("for", Others({"lparen"}), "node")
    \/ In("forInit", {"semi"}) /\ EnterFor(<<>>) /\ consumeToken
    \/ At("forInit") /\ isDeclarationStatement /\ EnterFor(<<"decl">>) /\ KeepToken
    \/ /\ In("forInit", Others({"semi", "range", "typedRange"}))
       /\ ~isDeclarationStatement
       /\ EnterFor(Expression \o <<"semi">>) /\ KeepToken
    \/ Shift("forCond", {"semi"}, <<"forStep">>)
    \/ Step("forCond", Others({"semi"}), Expression \o <<"semi", "forStep">>)
    \/ Shift("forStep", {"rparen"}, <<"stmt">>)
    \/ Step("forStep", Others({"rparen"}), Expression \o <<"close", "stmt">>)
    \/ /\ At("forEnd")
       /\ PopScope(1) /\ SameContext
       /\ Return("node") /\ KeepToken /\ UNCHANGED <<errors, skipping>>

\* A loop over a range has no scope.  Its variable is read as part of the
\* type unless the type is "auto", and then found missing.
parseCXXForRangeStatement ==
    \/ Shift("forInit", {"range"}, Expression \o <<"close", "stmt">>)
    \/ /\ In("forInit", {"typedRange"})
       /\ Continue(<<"skipParen">>) /\ emitError(1) /\ consumeToken
       /\ UNCHANGED <<sema, skipping>>

parseCXXTryStatement ==
    \/ EnterBlock("try", <<"handlers">>)
    \/ Reject("try", Others({"lbrace"}), "node")
    \/ Shift("handlers", {"catch"}, <<"catch", "handlers">>)
    \/ Done("handlers", Others({"catch"}), "node")

parseCXXCatchClause ==
    \/ Shift("catch", {"lparen"}, <<"catchType", "close", "catchBody">>)
    \/ Reject("catch", Others({"lparen"}), "node")
    \/ Shift("catchType", Ids \cup {"type"}, <<"catchName">>)
    \/ Reject("catchType", Others(Ids \cup {"type"}), "node")
    \/ Finish("catchName", Ids, "node")
    \/ Done("catchName", Others(Ids), "node")
    \/ EnterBlock("catchBody", <<>>)
    \/ Reject("catchBody", Others({"lbrace"}), "node")

Statements ==
    \/ parseStatement \/ parseCompoundStatement \/ Misplaced
    \/ parseReturnStatement \/ parseExpressionStatement \/ parseLabelStatement
    \/ parseGotoStatement \/ parseCondition \/ parseIfStatement
    \/ parseWhileStatement \/ parseDoStatement
    \/ parseForStatement \/ parseCXXForRangeStatement
    \/ parseCXXTryStatement \/ parseCXXCatchClause
=============================================================================
