------------------------- MODULE ParserDeclarations -------------------------
(* The declarations of src/Parse/ParseDecl.cpp and the headers of templates. *)
(* A declaration returns "null" if it could not be read, "var" or "fn" for a *)
(* variable or a function, and "node" for anything else; one that reports an *)
(* error and keeps what it has is not null.                                  *)
EXTENDS ParserExpressions

\* The main loop: one declaration after another, and the recovery between.
parseTranslationUnit ==
    /\ At("TU")
    /\ \/ /\ ret \notin {"none", "null"}            \* resetConsecutiveErrors
          /\ Continue(<<"TU">>) /\ KeepToken
          /\ ConsecutiveErrors' = 0
          /\ UNCHANGED <<fault, sema, skipping>>
       \/ /\ ret = "null"                           \* recoverFromError
          /\ Continue(<<determineRecoveryLevel, "TU">>) /\ KeepToken
          /\ ConsecutiveErrors' = IF ConsecutiveErrors < AggressiveAt
                                  THEN ConsecutiveErrors + 1 ELSE AggressiveAt
          /\ UNCHANGED <<fault, sema, skipping>>
       \/ ret = "none" /\ Done("TU", {"eof"}, "none")
       \/ ret = "none" /\ Shift("TU", {"hash"}, <<"directive", "TU">>)
       \/ ret = "none" /\ Step("TU", Others({"eof", "hash"}), <<"decl", "TU">>)

\* A directive has no end: tokens are skipped up to a declaration.
skipPreprocessingDirective ==
    /\ At("directive")
    /\ \/ Tok \in Declaration \cup {"eof"} /\ Leave(Return("none"))
       \/ ~isDeclarationStart /\ Tok # "eof" /\ Accept(Stay)

EnterTemplate ==
    /\ In("decl", {"template"})
    /\ PushScope(<<"template", "params">>) /\ SameContext
    /\ Continue(<<"decl", "template">>)
    /\ consumeToken /\ UNCHANGED <<errors, skipping>>

\* The ";" after a class, an enumeration or the body of a method.
OptionalSemi ==
    \/ Finish("optSemi", {"semi"}, "node")
    \/ Done("optSemi", Others({"semi"}), "node")

\* The declarations that begin with a keyword, and what follows it.
DeclarationHeads == [namespace |-> <<"ns">>,      class   |-> <<"class", "optSemi">>,
                     using     |-> <<"using">>,   enum    |-> <<"enum", "optSemi">>,
                     union     |-> <<"union", "optSemi">>,
                     typedef   |-> <<"typedef">>, extern  |-> <<"linkage">>,
                     export    |-> <<"export">>,  static_assert |-> <<"assert">>]

parseDeclaration ==
    \/ EnterTemplate \/ OptionalSemi
    \/ In("decl", DOMAIN DeclarationHeads) /\ Accept(Continue(DeclarationHeads[Tok]))
    \/ Step("decl", Others(DOMAIN DeclarationHeads \cup {"template"}), <<"specifiers">>)

\* "friend" and "typedef" are read as specifiers wherever a type is, before
\* the type and after it.
Specifiers(F) == AtOne(F) /\ Tok \in {"friend", "typedef"} /\ Accept(Stay)

parseDeclSpecifierSeq ==
    \/ Specifiers({"specifiers", "declarator", "paramDecl", "paramName",
                   "typedef", "typedefName"})
    \/ Shift("specifiers", {"type"}, <<"declarator">>)
    \/ Shift("specifiers", Ids, <<"declarator", "incomplete">>)
    \/ Reject("specifiers", Others(Ids \cup {"type", "friend", "typedef"}), "null")

\* A function or a variable.  Without a name it is neither, whatever follows.
parseDeclarator ==
    \/ Shift("declarator", Ids, <<"named">>)
    \/ Shift("declarator", {"params"}, <<"unnamed">>)
    \/ Reject("declarator", Others(Ids \cup {"params", "friend", "typedef"}), "null")
    \/ In("unnamed", {"params"}) /\ Accept(Stay)
    \/ Shift("unnamed", {"lparen"}, <<"paramList", "unnamed">>)
    \/ Reject("unnamed", Others({"params", "lparen"}), "null")
    \/ Shift("named", {"params"}, <<"fn">>)
    \/ Shift("named", {"lparen"}, <<"paramList", "fn">>)
    \/ Step("named", Others({"params", "lparen"}), <<"var">>)

\* An initial value that cannot be read is dropped, a bad list is not.
\* ActOnVarDeclFull refuses a variable whose type is not complete.
buildVarDecl ==
    \/ Shift("var", {"lbrace"}, <<"init", "varList">>)
    \/ Shift("var", {"equal"}, Expression \o <<"varEnd">>)
    \/ Step("var", Others({"lbrace", "equal"}), <<"varEnd">>)
    \/ At("varList") /\ ret = "null" /\ Leave(Return("null"))
    \/ At("varList") /\ ret # "null" /\ Leave(Continue(<<"varEnd">>))
    \/ Required("varEnd", "semi", "var")
    \/ At("incomplete") /\ ret = "var" /\ Refuse("null")
    \/ At("incomplete") /\ ret # "var" /\ Leave(Return(ret))

-----------------------------------------------------------------------------
(* Functions. *)

\* A faulty variant: a function without a body has to end in ";".
NeedsSemi ==
    \/ Finish("fn", {"semi"}, "fn")
    \/ Reject("fn", Others({"semi", "lbrace", "equal", "lparen", "params"}), "fn")

\* A function without a body: the ";" is taken if there is one.
FunctionSemi ==
    \/ Finish("fn", {"semi"}, "fn")
    \/ Done("fn", Others({"semi", "lbrace", "equal", "lparen", "params"}), "fn")

\* The declarator may have more parameter lists.  The body is in a function
\* scope of its own, around the block's.
buildFunctionDecl ==
    \/ In("fn", {"params"}) /\ Accept(Stay)
    \/ Shift("fn", {"lparen"}, <<"paramList", "fn">>)
    \/ /\ In("fn", {"lbrace"})
       /\ PushScope(<<"block", "function">>) /\ PushDeclContext("function")
       /\ Continue(<<"compound", "fnEnd">>)
       /\ consumeToken /\ UNCHANGED <<errors, leaked, skipping>>
    \/ Shift("fn", {"equal"}, <<"fnDefault">>)
    \/ FunctionSemi
    \/ Shift("fnDefault", {"default"}, <<"fnSemi">>)
    \/ Step("fnDefault", Others({"default"}), <<"fnSemi">>)
    \/ Terminator("fnSemi", "semi", "fn")
    \/ /\ At("fnEnd")
       /\ PopScope(1) /\ PopDeclContext /\ UNCHANGED leaked
       /\ Return("fn") /\ KeepToken /\ UNCHANGED <<errors, skipping>>

\* The list ends at a parameter that no "," or ")" follows, reported twice.
parseFunctionDeclaratorInfo ==
    \/ Finish("paramList", {"rparen"}, "none")
    \/ Reject("paramList", {"eof"}, "none")
    \/ Step("paramList", Others({"rparen", "eof"}), <<"paramDecl", "paramNext">>)
    \/ Shift("paramNext", {"comma"}, <<"paramList">>)
    \/ Finish("paramNext", {"rparen"}, "none")
    \/ In("paramNext", Others({"comma", "rparen"})) /\ Fail(2, Return("none"))

\* A parameter may be a function.
parseParameterDeclaration ==
    \/ Shift("paramDecl", Ids \cup {"type"}, <<"paramName">>)
    \/ Reject("paramDecl", Others(Ids \cup {"type", "friend", "typedef"}), "null")
    \/ Shift("paramName", Ids, <<"paramRest">>)
    \/ Step("paramName", Others(Ids \cup {"friend", "typedef"}), <<"paramRest">>)
    \/ In("paramRest", {"params"}) /\ Accept(Stay)
    \/ Shift("paramRest", {"lparen"}, <<"paramList", "paramRest">>)
    \/ Shift("paramRest", {"equal"}, Expression \o <<"paramEnd">>)
    \/ At("paramEnd") /\ Leave(Return("node"))
    \/ Done("paramRest", Others({"params", "lparen", "equal"}), "node")

-----------------------------------------------------------------------------
(* Declarations that begin with a keyword. *)

parseNamespaceDeclaration ==
    \/ Shift("ns", Ids, <<"nsOpen">>)
    \/ Shift("ns", {"lbrace"}, <<"nsBody">>)
    \/ Reject("ns", Others(Ids \cup {"lbrace"}), "node")
    \/ Shift("nsOpen", {"equal"}, <<"nsAlias">>)
    \/ Shift("nsOpen", {"lbrace"}, <<"nsBody">>)
    \/ Reject("nsOpen", Others({"equal", "lbrace"}), "node")
    \/ Shift("nsAlias", Ids, <<"end">>)
    \/ Reject("nsAlias", Others(Ids), "null")

parseNamespaceBody ==
    \/ Items("nsBody", "decl")
    \/ ret # "null" /\ Finish("nsBody", {"rbrace"}, "node")
    \/ ret # "null" /\ Reject("nsBody", {"eof"}, "node")

\* A name without "::" or "=" is refused.
parseUsingDeclaration ==
    \/ Shift("using", {"namespace", "enum"}, <<"usingName">>)
    \/ Shift("using", Ids, <<"usingAlias">>)
    \/ Reject("using", Others(Ids \cup {"namespace", "enum"}), "null")
    \/ Shift("usingName", Ids, <<"end">>)
    \/ Reject("usingName", Others(Ids), "null")
    \/ Shift("usingAlias", {"equal"}, <<"aliasType">>)
    \/ Reject("usingAlias", Others({"equal"}), "null")
    \/ Shift("aliasType", Ids \cup {"type"}, <<"semi">>)
    \/ Reject("aliasType", Others(Ids \cup {"type"}), "null")

parseTypedefDeclaration ==
    \/ Shift("typedef", Ids \cup {"type"}, <<"typedefName">>)
    \/ Reject("typedef", Others(Ids \cup {"type", "friend", "typedef"}), "null")
    \/ Shift("typedefName", Ids, <<"end">>)
    \/ Reject("typedefName", Others(Ids \cup {"friend", "typedef"}), "null")

\* A linkage specification stands even if its declaration does not.
parseLinkageSpecDeclaration ==
    \/ Shift("linkage", {"lbrace"}, <<"linkBody">>)
    \/ Step("linkage", Others({"lbrace"}), <<"decl", "linked">>)
    \/ At("linked") /\ Leave(Return("node"))
    \/ Items("linkBody", "decl")
    \/ ret # "null" /\ Finish("linkBody", {"rbrace"}, "node")
    \/ ret # "null" /\ Reject("linkBody", {"eof"}, "node")

\* A block of exports in which nothing was declared is null without a report.
ExportsNothing ==
    /\ In("exportBody", {"rbrace"})
    /\ Return("null") /\ consumeToken /\ First("silent")
    /\ UNCHANGED <<ConsecutiveErrors, sema, skipping>>

parseExportDeclaration ==
    \/ Shift("export", {"lbrace"}, <<"exportBody">>)
    \/ Step("export", Others({"lbrace"}), <<"decl", "exported">>)
    \/ At("exported") /\ Leave(Return(IF ret = "null" THEN "null" ELSE "node"))
    \/ ExportsNothing
    \/ Reject("exportBody", {"eof"}, "null")
    \/ Step("exportBody", Others({"rbrace", "eof"}), <<"decl", "exportFirst">>)
    \/ At("exportFirst") /\ ret = "null" /\ Leave(Continue(<<"skipDecl", "exportBody">>))
    \/ At("exportFirst") /\ ret # "null" /\ Leave(Continue(<<"exportMore">>))
    \/ Items("exportMore", "decl")
    \/ ret # "null" /\ Finish("exportMore", {"rbrace"}, "node")
    \/ ret # "null" /\ Reject("exportMore", {"eof"}, "null")

\* A bad underlying type goes unreported.
parseEnumDeclaration ==
    \/ Shift("enum", {"class"}, <<"enumName">>)
    \/ Step("enum", Others({"class"}), <<"enumName">>)
    \/ Shift("enumName", Ids, <<"enumBase">>)
    \/ Step("enumName", Others(Ids), <<"enumBase">>)
    \/ Shift("enumBase", {"colon"}, <<"enumType">>)
    \/ Step("enumBase", Others({"colon"}), <<"enumOpen">>)
    \/ Shift("enumType", Ids \cup {"type"}, <<"enumOpen">>)
    \/ Step("enumType", Others(Ids \cup {"type"}), <<"enumOpen">>)
    \/ Shift("enumOpen", {"lbrace"}, <<"enumerators">>)
    \/ Reject("enumOpen", Others({"lbrace"}), "node")

\* An enumerator without a name is reported, and the next token decides.
parseEnumBody ==
    \/ Shift("enumerators", {"rbrace"}, <<"optSemi">>)
    \/ Reject("enumerators", {"eof"}, "node")
    \/ Shift("enumerators", Ids, <<"enumerator">>)
    \/ Report("enumerators", Others(Ids \cup {"rbrace", "eof"}), <<"enumNext">>)
    \/ Shift("enumerator", {"equal"}, Expression \o <<"enumNext">>)
    \/ Step("enumerator", Others({"equal"}), <<"enumNext">>)
    \/ Shift("enumNext", {"comma"}, <<"enumerators">>)
    \/ Shift("enumNext", {"rbrace"}, <<"optSemi">>)
    \/ Reject("enumNext", Others({"comma", "rbrace"}), "node")

\* The expression takes the "," before a message as an operator.
parseStaticAssertDeclaration ==
    \/ Shift("assert", {"lparen"}, Expression \o <<"assertEnd">>)
    \/ Reject("assert", Others({"lparen"}), "null")
    \/ At("assertEnd") /\ ret = "null" /\ Fail(1, Return("null"))
    \/ ret # "null" /\ Shift("assertEnd", {"rparen"}, <<"end">>)
    \/ ret # "null" /\ Reject("assertEnd", Others({"rparen"}), "null")

-----------------------------------------------------------------------------
(* Templates. *)

\* A faulty variant: an early return without the two calls of PopScope.
ForgetToPop == At("template") /\ ret = "null" /\ Leave(Return("null"))

NothingToTemplate ==
    /\ At("template") /\ ret = "null"
    /\ PopScope(2) /\ SameContext
    /\ Return("null") /\ KeepToken /\ UNCHANGED <<errors, skipping>>

\* ActOnVarTemplateDecl is called before the parameters are set and refuses:
\* the early return leaves both scopes behind.
parseTemplateDeclaration ==
    \/ NothingToTemplate
    \/ /\ At("template") /\ ret = "var"
       /\ leaked' = leaked + 1 /\ UNCHANGED <<scopes, contexts>>
       /\ Return("null") /\ KeepToken /\ First("meaning")
       /\ UNCHANGED <<ConsecutiveErrors, skipping>>
    \/ /\ At("template") /\ ret \notin {"null", "var"}
       /\ PopScope(2) /\ SameContext
       /\ Return("node") /\ KeepToken /\ UNCHANGED <<errors, skipping>>

Declarations ==
    \/ parseTranslationUnit \/ skipPreprocessingDirective \/ parseDeclaration
    \/ parseDeclSpecifierSeq \/ parseDeclarator \/ buildVarDecl
    \/ buildFunctionDecl \/ parseFunctionDeclaratorInfo \/ parseParameterDeclaration
    \/ parseNamespaceDeclaration \/ parseNamespaceBody \/ parseUsingDeclaration
    \/ parseTypedefDeclaration \/ parseLinkageSpecDeclaration
    \/ parseExportDeclaration \/ parseEnumDeclaration \/ parseEnumBody
    \/ parseStaticAssertDeclaration \/ parseTemplateDeclaration
=============================================================================
