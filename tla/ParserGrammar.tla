--------------------------- MODULE ParserGrammar ---------------------------
(* What the parser promises: the language it reads, as a predictive grammar. *)
(* "open" is what the rest of the input has to be, the next symbol first.  A *)
(* symbol is rewritten by the kind of the token ahead: Reading says what     *)
(* follows when the token begins the symbol, Choosing what the symbol is     *)
(* replaced by when the token is left for later.  A token for which a symbol *)
(* has no rule is a syntax error, and only such a token is.                  *)
(*                                                                           *)
(* The rules are those of the code, not those of C++: the ";" after a        *)
(* function without a body is optional and the one after a constructor not   *)
(* allowed, an empty declaration and a forward declaration of a class are    *)
(* errors, an alias is not a member of a class.                              *)
EXTENDS Sequences, TLC

CONSTANT Kinds          \* the kinds of tokens

VARIABLES open, ahead, fault
vars == <<open, ahead, fault>>

Names == {"id", "ids", "idc"}
Types == Names \cup {"type"}
Starts == {"type", "ids", "namespace", "class", "union", "template", "concept", "enum", "using",
           "typedef", "extern", "export", "friend", "static_assert"}
DeclarationStatements == Starts \ {"ids", "concept", "export", "friend"}

Expr == <<"unary", "rhs">>
On(K, rest) == [k \in K |-> {rest}]
Else(rest) == On(Kinds, rest)
Items(item, list) == On(Kinds \ {"rbrace", "eof"}, <<item, list>>)
Nothing == <<>>
Again(X) == On({"friend", "typedef"}, <<X>>)

\* The rules that begin with a token: what follows it.
ReadingDeclarations ==
    [TU         |-> On({"hash"}, <<"directive", "TU">>),
     directive  |-> On(Kinds \ (Starts \cup {"eof"}), <<"directive">>),
     decl       |-> "namespace" :> {<<"ns">>} @@ "class" :> {<<"class", "optSemi">>}
                    @@ "union" :> {<<"union", "optSemi">>}
                    @@ "using" :> {<<"using">>} @@ "enum" :> {<<"enum", "optSemi">>}
                    @@ "typedef" :> {<<"typedef">>} @@ "extern" :> {<<"linkage">>}
                    @@ "export" :> {<<"export">>} @@ "template" :> {<<"decl">>}
                    @@ "static_assert" :> {<<"assert">>},
     optSemi    |-> On({"semi"}, Nothing),
     semi       |-> On({"semi"}, Nothing),
     close      |-> On({"rparen"}, Nothing),
     specifiers |-> On(Types, <<"declarator">>) @@ Again("specifiers"),
     declarator |-> On(Names, <<"named">>) @@ On({"params"}, <<"unnamed">>)
                    @@ Again("declarator"),
     unnamed    |-> "params" :> {<<"unnamed">>} @@ "lparen" :> {<<"paramList", "unnamed">>},
     named      |-> "params" :> {<<"fn">>} @@ "lparen" :> {<<"paramList", "fn">>},
     var        |-> "lbrace" :> {<<"init", "semi">>} @@ "equal" :> {Expr \o <<"semi">>},
     fn         |-> "params" :> {<<"fn">>} @@ "lparen" :> {<<"paramList", "fn">>}
                    @@ "lbrace" :> {<<"compound">>} @@ "equal" :> {<<"fnDefault">>}
                    @@ "semi" :> {Nothing},
     fnDefault  |-> On({"default"}, <<"semi">>),
     paramList  |-> On({"rparen"}, Nothing),
     paramNext  |-> "comma" :> {<<"paramList">>} @@ "rparen" :> {Nothing},
     paramDecl  |-> On(Types, <<"paramName">>) @@ Again("paramDecl"),
     paramName  |-> On(Names, <<"paramRest">>) @@ Again("paramName"),
     paramRest  |-> "params" :> {<<"paramRest">>} @@ "equal" :> {Expr}
                    @@ "lparen" :> {<<"paramList", "paramRest">>},
     ns         |-> On(Names, <<"nsOpen">>) @@ On({"lbrace"}, <<"decls">>),
     nsOpen     |-> "equal" :> {<<"nsAlias">>} @@ "lbrace" :> {<<"decls">>},
     nsAlias    |-> On(Names, <<"semi">>),
     decls      |-> On({"rbrace"}, Nothing),
     using      |-> On(Names, <<"usingAlias">>)
                    @@ On({"namespace", "enum"}, <<"usingName">>),
     usingName  |-> On(Names, <<"semi">>),
     usingAlias |-> On({"equal"}, <<"aliasType">>),
     aliasType  |-> On(Types, <<"semi">>),
     typedef    |-> On(Types, <<"typedefName">>) @@ Again("typedef"),
     typedefName |-> On(Names, <<"semi">>) @@ Again("typedefName"),
     linkage    |-> On({"lbrace"}, <<"decls">>),
     export     |-> On({"lbrace"}, <<"exportBody">>),
     enum       |-> On({"class"}, <<"enumName">>),
     enumName   |-> On(Names, <<"enumBase">>),
     enumBase   |-> On({"colon"}, <<"enumType">>),
     enumType   |-> On(Types, <<"enumOpen">>),
     enumOpen   |-> On({"lbrace"}, <<"enumerators">>),
     enumerators |-> On(Names, <<"enumerator">>) @@ On({"rbrace"}, <<"optSemi">>),
     enumerator |-> On({"equal"}, Expr \o <<"enumNext">>),
     enumNext   |-> "comma" :> {<<"enumerators">>} @@ "rbrace" :> {<<"optSemi">>},
     assert     |-> On({"lparen"}, Expr \o <<"assertEnd">>),
     assertEnd  |-> On({"rparen"}, <<"semi">>)]

ReadingClasses ==
    [class      |-> On(Names, <<"classOpen">>) @@ On({"colon"}, <<"bases", "brace">>)
                    @@ On({"lbrace"}, <<"members">>),
     classOpen  |-> On({"colon"}, <<"bases", "brace">>),
     union      |-> On(Names, <<"unionBrace">>) @@ On({"lbrace"}, <<"members", "optSemi">>),
     unionBrace |-> On({"lbrace"}, <<"members", "optSemi">>),
     brace      |-> On({"lbrace"}, <<"members">>),
     bases      |-> On(Types, <<"basesNext">>) @@ On({"access"}, <<"bases">>),
     basesNext  |-> On({"comma"}, <<"bases">>),
     members    |-> On({"rbrace"}, Nothing),
     member     |-> [k \in Names |-> {<<"memberName">>, <<"ctor">>}]
                    @@ "access" :> {<<"accessColon">>} @@ "friend" :> {<<"memberFriend">>}
                    @@ "class" :> {<<"class", "optSemi">>} @@ "union" :> {<<"union", "optSemi">>}
                    @@ "using" :> {<<"usingName">>}
                    @@ "tilde" :> {<<"dtor">>} @@ "type" :> {<<"memberName">>}
                    @@ "typedef" :> {<<"memberSpec">>},
     memberSpec |-> On(Types, <<"memberName">>) @@ Again("memberSpec"),
     memberName |-> On(Names, <<"memberRest">>) @@ Again("memberName"),
     memberRest |-> "params" :> {<<"method">>} @@ "lparen" :> {<<"methodParams", "method">>}
                    @@ "colon" :> {Expr \o <<"inClass">>} @@ "equal" :> {Expr \o <<"semi">>}
                    @@ "semi" :> {Nothing},
     inClass    |-> On({"equal"}, Expr \o <<"semi">>),
     accessColon |-> On({"colon"}, Nothing),
     methodParams |-> On({"rparen"}, Nothing),
     methodParam |-> On({"comma"}, <<"paramDecl", "methodParam">>),
     method     |-> "lbrace" :> {<<"compound", "optSemi">>} @@ "equal" :> {<<"methodDefault">>},
     methodDefault |-> On({"default"}, <<"optSemi">>),
     ctor       |-> "params" :> {<<"ctorRest">>} @@ "lparen" :> {<<"methodParams", "ctorRest">>},
     ctorRest   |-> On({"colon"}, <<"mem", "ctorBody">>),
     ctorBody   |-> On({"lbrace"}, <<"compound">>),
     dtor       |-> On(Names, <<"dtorParams">>),
     dtorParams |-> "params" :> {<<"ctorBody">>} @@ "lparen" :> {<<"dtorClose">>},
     dtorClose  |-> On({"rparen"}, <<"ctorBody">>),
     mem        |-> On(Names, <<"memArgs">>),
     memArgs    |-> "params" :> {<<"memDone">>} @@ "lparen" :> {<<"memParen">>}
                    @@ "lbrace" :> {<<"memBrace">>},
     memParen   |-> On({"rparen"}, <<"memDone">>),
     memBrace   |-> On({"rbrace"}, <<"memDone">>),
     parenNext  |-> On({"rparen"}, <<"memDone">>),
     braceNext  |-> On({"rbrace"}, <<"memDone">>),
     memNext    |-> On({"comma"}, <<"mem">>),
     memberFriend |-> On(Types, <<"friendName">>) @@ On({"class", "union"}, <<"friendClass">>),
     friendClass |-> On(Names, <<"semi">>),
     friendName |-> On(Names, <<"friendOpen">>),
     friendOpen |-> "params" :> {<<"semi">>} @@ "lparen" :> {<<"friendParams">>},
     friendParams |-> On({"rparen"}, <<"semi">>),
     friendNext |-> "comma" :> {<<"paramDecl", "friendNext">>} @@ "rparen" :> {<<"semi">>}]

ReadingStatements ==
    [stmt       |-> "lbrace" :> {<<"compound">>} @@ "semi" :> {Nothing}
                    @@ "return" :> {<<"return">>} @@ "goto" :> {<<"goto">>}
                    @@ "if" :> {<<"if">>} @@ "while" :> {<<"while">>}
                    @@ "switch" :> {<<"while">>} @@ "do" :> {<<"stmt", "doWhile">>}
                    @@ "for" :> {<<"for">>} @@ "try" :> {<<"try">>}
                    @@ "break" :> {<<"semi">>} @@ "case" :> {Expr \o <<"label">>}
                    @@ "default" :> {<<"label">>} @@ "idc" :> {<<"label">>},
     compound   |-> On({"rbrace"}, Nothing),
     return     |-> On({"semi"}, Nothing),
     label      |-> On({"colon"}, <<"stmt">>),
     goto       |-> On(Names, <<"semi">>),
     if         |-> On({"lparen"}, Expr \o <<"close", "stmt", "then">>),
     then       |-> On({"else"}, <<"stmt">>),
     while      |-> On({"lparen"}, Expr \o <<"close", "stmt">>),
     doWhile    |-> On({"while"}, <<"doCond">>),
     doCond     |-> On({"lparen"}, Expr \o <<"close", "semi">>),
     for        |-> On({"lparen"}, <<"forInit">>),
     forInit    |-> On({"semi"}, <<"forCond">>) @@ On({"range"}, Expr \o <<"close", "stmt">>),
     forCond    |-> On({"semi"}, <<"forStep">>),
     forStep    |-> On({"rparen"}, <<"stmt">>),
     try        |-> On({"lbrace"}, <<"compound", "handlers">>),
     handlers   |-> On({"catch"}, <<"catch", "handlers">>),
     catch      |-> On({"lparen"}, <<"catchType", "close", "catchBody">>),
     catchType  |-> On(Types, <<"catchName">>),
     catchName  |-> On(Names, Nothing),
     catchBody  |-> On({"lbrace"}, <<"compound">>)]

ReadingExpressions ==
    [unary      |-> On(Names, <<"postfix">>) @@ On({"op", "tilde"}, <<"unary">>)
                    @@ On({"lparen"}, Expr \o <<"paren">>) @@ On({"lbrace"}, <<"init", "postfix">>),
     postfix    |-> "params" :> {<<"postfix">>} @@ "lparen" :> {<<"args", "postfix">>}
                    @@ "period" :> {<<"access">>},
     access     |-> On(Names, <<"postfix">>),
     args       |-> On({"rparen"}, Nothing),
     arg        |-> "comma" :> {<<"assign", "arg">>} @@ "rparen" :> {Nothing},
     paren      |-> On({"rparen"}, <<"postfix">>),
     rhs        |-> On({"op"}, <<"unary", "rhs">>)
                    @@ On({"equal", "comma"}, <<"unary", "rhsA", "rhs">>)
                    @@ On({"question"}, Expr \o <<"condTrue", "rhs">>),
     rhsA       |-> On({"op"}, <<"unary", "rhsA">>) @@ On({"equal"}, <<"unary", "rhsA", "rhsA">>)
                    @@ On({"question"}, Expr \o <<"condTrue", "rhsA">>),
     condTrue   |-> On({"colon"}, Expr),
     assign     |-> On({"lbrace"}, <<"init">>),
     init       |-> On({"rbrace"}, Nothing),
     clause     |-> On({"comma"}, <<"init">>),
     initClause |-> On({"period"}, <<"designator">>) @@ On({"lbrace"}, <<"init">>),
     designator |-> On(Names, <<"designated">>),
     designated |-> On({"equal"}, <<"initClause">>)]

Reading == ReadingDeclarations @@ ReadingClasses @@ ReadingStatements @@ ReadingExpressions

\* The rules that do not begin with a token: what the symbol is replaced by if
\* the token ahead is none that Reading has for it.
Ends == {"directive", "optSemi", "fn", "paramRest", "basesNext", "ctorBody", "memNext",
         "then", "handlers", "catchName", "postfix", "rhs", "rhsA"}

Choosing ==
    [X \in Ends |-> Else(Nothing)] @@
    [TU         |-> On({"eof"}, Nothing) @@ Else(<<"decl", "TU">>),
     decl       |-> Else(<<"specifiers">>),
     named      |-> Else(<<"var">>),             var |-> Else(<<"semi">>),
     fnDefault  |-> Else(<<"semi">>),
     paramList  |-> On(Kinds \ {"eof"}, <<"paramDecl", "paramNext">>),
     paramName  |-> Else(<<"paramRest">>),
     decls      |-> Items("decl", "decls"),      exportBody |-> Items("decl", "decls"),
     linkage    |-> Else(<<"decl">>),            export |-> Else(<<"decl">>),
     enum       |-> Else(<<"enumName">>),        enumName |-> Else(<<"enumBase">>),
     enumBase   |-> Else(<<"enumOpen">>),        enumType |-> Else(<<"enumOpen">>),
     enumerator |-> Else(<<"enumNext">>),
     classOpen  |-> Else(<<"brace">>),           members |-> Items("member", "members"),
     inClass    |-> Else(<<"semi">>),
     methodParams |-> Else(<<"paramDecl", "methodParam">>),
     methodParam |-> Else(<<"close">>),
     method     |-> Else(<<"optSemi">>),         methodDefault |-> Else(<<"optSemi">>),
     ctorRest   |-> Else(<<"ctorBody">>),
     memArgs    |-> Else(<<"memDone">>),
     memDone    |-> [k \in Kinds |-> {<<"memNext">>, Nothing}],
     memParen   |-> Else(Expr \o <<"parenNext">>),
     memBrace   |-> Else(Expr \o <<"braceNext">>),
     friendParams |-> Else(<<"paramDecl", "friendNext">>),
     stmt       |-> On(DeclarationStatements, <<"decl">>) @@ Else(Expr \o <<"semi">>),
     compound   |-> Items("stmt", "compound"),
     return     |-> Else(Expr \o <<"semi">>),
     forInit    |-> On(DeclarationStatements, <<"decl", "forCond">>)
                    @@ On(Kinds \ {"typedRange"}, Expr \o <<"semi", "forCond">>),
     forCond    |-> Else(Expr \o <<"semi", "forStep">>),
     forStep    |-> Else(Expr \o <<"close", "stmt">>),
     args       |-> Else(<<"assign", "arg">>),
     assign     |-> Else(<<"unary", "rhsA">>),
     init       |-> Items("initClause", "clause"),
     clause     |-> On({"rbrace"}, <<"init">>),
     initClause |-> Else(<<"assign">>)]

Rules(table, X, k) ==
    IF X \in DOMAIN table /\ k \in DOMAIN table[X] THEN table[X][k] ELSE {}
Consumes(X, k) == Rules(Reading, X, k)
Predicts(X, k) == IF Consumes(X, k) = {} THEN Rules(Choosing, X, k) ELSE {}

Init == open = <<"TU">> /\ ahead \in Kinds /\ fault = "none"

\* A token that the grammar allows is consumed.
Read == /\ open # <<>>
        /\ \E rest \in Consumes(Head(open), ahead) : open' = rest \o Tail(open)
        /\ ahead' \in Kinds
        /\ UNCHANGED fault

\* A symbol is rewritten by the token ahead.
Predict == /\ open # <<>>
           /\ \E rest \in Predicts(Head(open), ahead) : open' = rest \o Tail(open)
           /\ UNCHANGED <<ahead, fault>>

\* What follows an error is not specified.
Stop(kind) == fault = "none" /\ fault' = kind /\ open' = <<>> /\ ahead' = "eof"

\* A token that cannot come here.
SyntaxError == /\ open # <<>>
               /\ Head(open) = "exportBody" => ahead # "rbrace"
               /\ Consumes(Head(open), ahead) = {}
               /\ Predicts(Head(open), ahead) = {}
               /\ Stop("syntax")

\* The meaning of what was read is refused.
Refused == Stop("meaning")

\* Exports in braces may be none, but the declaration is dropped unreported.
NoExports == open # <<>> /\ Head(open) = "exportBody" /\ ahead = "rbrace" /\ Stop("silent")

Next == Read \/ Predict \/ SyntaxError \/ Refused \/ NoExports
Spec == Init /\ [][Next]_vars
=============================================================================
