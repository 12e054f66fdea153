-------------------------- MODULE ParserExpressions --------------------------
(* The expressions of src/Parse/ParseExpr.cpp: operators by precedence       *)
(* climbing, the conditional operator, calls, members, parentheses and lists *)
(* in braces.  An expression that cannot be read is "null", which each caller*)
(* passes on or replaces in its own way.  Sema may refuse what was read, and *)
(* each caller of Sema keeps what it had or returns null.                    *)
EXTENDS ParserCore

\* parseExpression reads an operand and all that follows; without a comma it
\* is parseAssignmentExpression.
Expression == <<"unary", "rhs">>
Assignment == <<"unary", "rhsA">>

\* What continues an operand.
Operators == {"op", "equal", "comma", "question"}
PostfixStarts == {"params", "lparen", "period"}

\* "()" is a parenthesis around a missing expression: a recovery node.
parsePrimaryExpression ==
    \/ Shift("unary", Ids, <<"postfix">>)
    \/ Shift("unary", {"lparen"}, Expression \o <<"paren">>)
    \/ Shift("unary", {"lbrace"}, <<"init", "postfix">>)
    \/ /\ In("unary", {"params"})
       /\ Continue(<<"postfix">>) /\ emitError(1) /\ consumeToken
       /\ UNCHANGED <<sema, skipping>>
    \/ Reject("unary", Others(Ids \cup {"lparen", "lbrace", "params", "op", "tilde"}), "null")

\* A missing operand has been reported; Sema may refuse the operator.
parseUnaryExpression ==
    \/ Shift("unary", {"op", "tilde"}, <<"unary", "unaryEnd">>)
    \/ At("unaryEnd") /\ Leave(Return("node"))
    \/ At("unaryEnd") /\ ret # "null" /\ Refuse("null")

\* What Sema refuses is reported and the operand kept.
KeepRefused == At("checked") /\ (Leave(Return("node")) \/ Refuse("node"))

parsePostfixExpression ==
    \/ At("postfix") /\ ret = "null" /\ Leave(Return("null"))
    \/ /\ ret # "null"
       /\ \/ Shift("postfix", {"params"}, <<"called">>)
          \/ Shift("postfix", {"lparen"}, <<"args", "called">>)
          \/ Shift("postfix", {"period"}, <<"access">>)
          \/ Done("postfix", Others(PostfixStarts), "node")
    \/ Shift("access", Ids, <<"checked", "postfix">>)
    \/ Reject("access", Others(Ids), "node")

\* Sema may refuse the call; the null it returns is the expression.
parseCallExpression ==
    \/ At("called") /\ Leave(Continue(<<"postfix">>))
    \/ In("called", Others(PostfixStarts)) /\ Refuse("null")

parseCallArguments ==
    \/ Finish("args", {"rparen"}, "node")
    \/ Step("args", Others({"rparen"}), <<"assign", "arg">>)
    \/ Replace("arg")
    \/ /\ ret # "null"
       /\ \/ Shift("arg", {"comma"}, <<"assign", "arg">>)
          \/ Finish("arg", {"rparen"}, "node")
          \/ Reject("arg", Others({"comma", "rparen"}), "node")

parseParenExpression ==
    \/ Shift("paren", {"rparen"}, <<"postfix">>)
    \/ Report("paren", Others({"rparen"}), <<"skipParen", "postfix">>)

\* The right operand is missing at the end of the loop of parseRHS.
parseOperand ==
    /\ At("rhsOperand")
    /\ \/ ret = "null" /\ Fail(1, Return("node"))
       \/ ret # "null" /\ Leave(Return("node"))

\* "+" binds tighter than "?", "=" and ",": its right operand is an operand,
\* that of the others takes what binds tighter with it.
RHS(f, loose) ==
    \/ At(f) /\ ret = "null" /\ Leave(Return("null"))
    \/ /\ ret # "null"
       /\ \/ Shift(f, {"op"}, <<"unary", "rhsOperand", "checked", f>>)
          \/ Shift(f, loose, <<"unary", "rhsOperand", "rhsA", "checked", f>>)
          \/ Shift(f, {"question"}, Expression \o <<"condTrue", f>>)
          \/ Done(f, Others(loose \cup {"op", "question"}), "node")

parseRHS == RHS("rhs", {"equal", "comma"}) \/ RHS("rhsA", {"equal"}) \/ parseOperand

\* Sema may refuse the whole; an operator after that would be read with a
\* null operand, which is not modelled.
parseConditionalExpression ==
    \/ Replace("condTrue") \/ Replace("condFalse")
    \/ /\ ret # "null"
       /\ \/ Shift("condTrue", {"colon"}, Expression \o <<"condFalse">>)
          \/ Reject("condTrue", Others({"colon"}), "node")
          \/ At("condFalse") /\ Leave(Return("node"))
          \/ In("condFalse", Others(Operators)) /\ Refuse("null")

parseAssignmentExpression ==
    \/ Shift("assign", {"lbrace"}, <<"init">>)
    \/ Step("assign", Others({"lbrace"}), Assignment)

\* After a clause that cannot be read, tokens are skipped up to "," or "}".
parseInitializerList ==
    \/ Finish("init", {"rbrace"}, "node")
    \/ Reject("init", {"eof"}, "null")
    \/ Step("init", Others({"rbrace", "eof"}), <<"initClause", "clause">>)
    \/ Shift("clause", {"comma"}, <<"init">>)
    \/ Step("clause", {"rbrace"}, <<"init">>)
    \/ /\ In("clause", Others({"comma", "rbrace", "eof"}))
       /\ ret = "null" /\ Accept(Stay)
    \/ /\ In("clause", Others({"comma", "rbrace"}))
       /\ ret # "null" \/ Tok = "eof"
       /\ Fail(2, Return("null"))

parseInitializerClause ==
    \/ Shift("initClause", {"period"}, <<"designator">>)
    \/ Shift("initClause", {"lbrace"}, <<"init">>)
    \/ Step("initClause", Others({"period", "lbrace"}), <<"assign">>)

parseDesignatedInitializer ==
    \/ Shift("designator", Ids, <<"designated">>)
    \/ Reject("designator", Others(Ids), "null")
    \/ Shift("designated", {"equal"}, <<"initClause">>)
    \/ Reject("designated", Others({"equal"}), "null")

Expressions ==
    \/ parsePrimaryExpression \/ parseUnaryExpression \/ KeepRefused
    \/ parsePostfixExpression \/ parseCallExpression \/ parseCallArguments
    \/ parseParenExpression \/ parseRHS \/ parseConditionalExpression
    \/ parseAssignmentExpression
    \/ parseInitializerList \/ parseInitializerClause \/ parseDesignatedInitializer
=============================================================================
