---------------------------- MODULE ParserClasses ----------------------------
(* The classes of src/Parse/ParseClass.cpp and their members.  A class that  *)
(* lacks its body or its "}" is kept.  The body of a method is a block with  *)
(* no function scope around it.                                              *)
EXTENDS ParserDeclarations

EnterClass(f, fs) ==
    /\ In(f, {"lbrace"})
    /\ PushScope(<<"class">>) /\ PushDeclContext("class") /\ UNCHANGED leaked
    /\ Continue(fs)
    /\ consumeToken /\ UNCHANGED <<errors, skipping>>

\* The name of a class tells its constructors from its other members; a class
\* without a name has none.
parseClassDeclaration ==
    \/ Shift("class", Ids, <<"classOpen">>)
    \/ Shift("class", {"colon"}, <<"bases", "unnamedBrace">>)
    \/ EnterClass("class", <<"unnamedBody">>)
    \/ Reject("class", Others(Ids \cup {"colon", "lbrace"}), "node")
    \/ Shift("classOpen", {"colon"}, <<"bases", "classBrace">>)
    \/ Step("classOpen", Others({"colon"}), <<"classBrace">>)
    \/ EnterClass("classBrace", <<"classBody">>)
    \/ EnterClass("unnamedBrace", <<"unnamedBody">>)
    \/ Reject("classBrace", Others({"lbrace"}), "node")
    \/ Reject("unnamedBrace", Others({"lbrace"}), "node")

\* A union has no bases, and takes a ";" before its caller takes another.
parseUnionDeclaration ==
    \/ Shift("union", Ids, <<"unionBrace">>)
    \/ EnterClass("union", <<"unnamedBody", "optSemi">>)
    \/ Reject("union", Others(Ids \cup {"lbrace"}), "node")
    \/ EnterClass("unionBrace", <<"classBody", "optSemi">>)
    \/ Reject("unionBrace", Others({"lbrace"}), "node")

\* A base that cannot be read is reported and left out.
parseBaseClause ==
    \/ In("bases", {"access"}) /\ Accept(Stay)
    \/ Shift("bases", Ids \cup {"type"}, <<"basesNext">>)
    \/ Report("bases", Others(Ids \cup {"type", "access"}), <<"basesNext">>)
    \/ Shift("basesNext", {"comma"}, <<"bases">>)
    \/ Done("basesNext", Others({"comma"}), "none")

LeaveClass == PopScope(1) /\ PopDeclContext /\ UNCHANGED leaked /\ Return("node")

\* The scope of the class is left before its "}" is looked for.
Body(f) ==
    \/ Items(f, "member")
    \/ /\ ret # "null" /\ In(f, {"rbrace"}) /\ LeaveClass
       /\ consumeToken /\ UNCHANGED <<errors, skipping>>
    \/ /\ ret # "null" /\ In(f, {"eof"}) /\ LeaveClass
       /\ emitError(1) /\ KeepToken /\ UNCHANGED skipping

parseClassBody == Body("classBody") \/ Body("unnamedBody")

IsNamed == stack[2] = "classBody"

\* "using X = type" is refused in a class: parseTypeAliasDeclaration begins to
\* read it at the "=".
parseClassMember ==
    \/ Shift("member", {"access"}, <<"accessColon">>)
    \/ Shift("member", {"friend"}, <<"memberFriend">>)
    \/ Shift("member", {"class"}, <<"class", "optSemi">>)
    \/ Shift("member", {"union"}, <<"union", "optSemi">>)
    \/ Shift("member", {"using"}, <<"usingName">>)
    \/ Shift("member", {"tilde"}, <<"dtor">>)
    \/ Shift("member", {"type"}, <<"memberName">>)
    \/ Shift("member", Ids, <<"memberName">>)
    \/ Shift("member", Ids, <<"ctor">>) /\ IsNamed
    \/ Shift("member", {"typedef"}, <<"memberSpec">>)
    \/ Reject("member", Others(Ids \cup {"access", "friend", "class", "union", "using",
                                         "tilde", "type", "typedef"}), "null")
    \/ Specifiers({"memberSpec", "memberName"})
    \/ Shift("memberSpec", Ids \cup {"type"}, <<"memberName">>)
    \/ Reject("memberSpec", Others(Ids \cup {"type", "friend", "typedef"}), "null")
    \/ Shift("memberName", Ids, <<"memberRest">>)
    \/ Reject("memberName", Others(Ids \cup {"friend", "typedef"}), "null")

parseAccessSpecifier == Required("accessColon", "colon", "node")

\* The members that are no functions: a width and an initial value that cannot
\* be read are dropped.
Field ==
    \/ Shift("memberRest", {"colon"}, Expression \o <<"inClass">>)
    \/ Shift("memberRest", {"equal"}, Expression \o <<"end">>)
    \/ Finish("memberRest", {"semi"}, "node")
    \/ Reject("memberRest", Others({"params", "lparen", "colon", "equal", "semi"}), "null")
    \/ Shift("inClass", {"equal"}, Expression \o <<"end">>)
    \/ Step("inClass", Others({"equal"}), <<"end">>)

\* A parameter that cannot be read is reported again and ends the list.
Parameters ==
    \/ Finish("methodParams", {"rparen"}, "node")
    \/ Step("methodParams", Others({"rparen"}), <<"paramDecl", "methodParam">>)
    \/ At("methodParam") /\ ret = "null" /\ Fail(1, Continue(<<"skipParam", "methodClose">>))
    \/ /\ ret # "null"
       /\ \/ Shift("methodParam", {"comma"}, <<"paramDecl", "methodParam">>)
          \/ Step("methodParam", Others({"comma"}), <<"methodClose">>)
    \/ Required("methodClose", "rparen", "node")

NoParameters(f) == At(f) /\ ret = "null" /\ Leave(Return("null"))

\* The method stands without a ";" too.
Method ==
    \/ Shift("memberRest", {"params"}, <<"method">>)
    \/ Shift("memberRest", {"lparen"}, <<"methodParams", "method">>)
    \/ NoParameters("method")
    \/ /\ ret # "null"
       /\ \/ EnterBlock("method", <<"optSemi">>)
          \/ Shift("method", {"equal"}, <<"methodDefault">>)
          \/ Step("method", Others({"lbrace", "equal"}), <<"optSemi">>)
    \/ Shift("methodDefault", {"default"}, <<"optSemi">>)
    \/ Step("methodDefault", Others({"default"}), <<"optSemi">>)

\* No ";" is taken after a constructor or a destructor: it is refused as the
\* next member.  Without parameters it is dropped, and tokens are skipped twice.
parseConstructorDeclaration ==
    \/ Shift("ctor", {"params"}, <<"ctorRest">>)
    \/ Shift("ctor", {"lparen"}, <<"methodParams", "ctorRest">>)
    \/ Report("ctor", Others({"params", "lparen"}), <<"skipDecl", "dropped">>)
    \/ At("dropped") /\ Leave(Return("null"))
    \/ NoParameters("ctorRest")
    \/ /\ ret # "null"
       /\ \/ Shift("ctorRest", {"colon"}, <<"mem", "ctorBody">>)
          \/ Step("ctorRest", Others({"colon"}), <<"ctorBody">>)
    \/ EnterBlock("ctorBody", <<>>)
    \/ Done("ctorBody", Others({"lbrace"}), "node")

\* The name is that of the class or it is refused.
parseDestructorDeclaration ==
    \/ Shift("dtor", Ids, <<"dtorParams">>) /\ IsNamed
    \/ In("dtor", Ids) /\ Return("null") /\ emitErrors(1, "meaning")
         /\ KeepToken /\ UNCHANGED <<sema, skipping>>
    \/ Reject("dtor", Others(Ids), "null")
    \/ Shift("dtorParams", {"params"}, <<"ctorBody">>)
    \/ Shift("dtorParams", {"lparen"}, <<"dtorClose">>)
    \/ Reject("dtorParams", Others({"params", "lparen"}), "null")
    \/ Shift("dtorClose", {"rparen"}, <<"ctorBody">>)
    \/ Reject("dtorClose", Others({"rparen"}), "null")

\* A delegating initializer ends the list; Sema does not ask whether any other
\* names a member.
parseMemberInitializerList ==
    \/ Shift("mem", Ids, <<"memArgs">>)
    \/ Report("mem", Others(Ids), <<"skipMem", "memNext">>)
    \/ At("memDone") /\ Leave(Continue(<<"memNext">>))
    \/ At("memDone") /\ Leave(Return("none"))
    \/ Shift("memNext", {"comma"}, <<"mem">>)
    \/ Done("memNext", Others({"comma"}), "none")

Arguments(list, arg, next, close, skip) ==
    \/ Shift(list, {close}, <<"memDone">>)
    \/ Step(list, Others({close}), Expression \o <<arg>>)
    \/ At(arg) /\ ret = "null" /\ Fail(1, Continue(<<skip, next>>))
    \/ At(arg) /\ ret # "null" /\ Leave(Continue(<<next>>))
    \/ Shift(next, {"comma"}, Expression \o <<arg>>)
    \/ Shift(next, {close}, <<"memDone">>)
    \/ Report(next, Others({"comma", close}), <<"skipMem", "memNext">>)

parseMemberInitializer ==
    \/ Shift("memArgs", {"params"}, <<"memDone">>)
    \/ Shift("memArgs", {"lparen"}, <<"memParen">>)
    \/ Shift("memArgs", {"lbrace"}, <<"memBrace">>)
    \/ Step("memArgs", Others({"params", "lparen", "lbrace"}), <<"memDone">>)
    \/ Arguments("memParen", "parenArg", "parenNext", "rparen", "skipParenArg")
    \/ Arguments("memBrace", "braceArg", "braceNext", "rbrace", "skipBraceArg")

parseFriendDeclaration ==
    \/ Shift("memberFriend", {"class", "union"}, <<"friendClass">>)
    \/ Shift("memberFriend", Ids \cup {"type"}, <<"friendName">>)
    \/ Reject("memberFriend", Others(Ids \cup {"type", "class", "union"}), "null")
    \/ Shift("friendClass", Ids, <<"semi">>)
    \/ Reject("friendClass", Others(Ids), "null")
    \/ Shift("friendName", Ids, <<"friendOpen">>)
    \/ Reject("friendName", Others(Ids), "null")
    \/ Shift("friendOpen", {"params"}, <<"end">>)
    \/ Shift("friendOpen", {"lparen"}, <<"friendParams">>)
    \/ Reject("friendOpen", Others({"params", "lparen"}), "null")
    \/ Shift("friendParams", {"rparen"}, <<"end">>)
    \/ Step("friendParams", Others({"rparen"}), <<"paramDecl", "friendNext">>)
    \/ Shift("friendNext", {"comma"}, <<"paramDecl", "friendNext">>)
    \/ Shift("friendNext", {"rparen"}, <<"end">>)
    \/ Reject("friendNext", Others({"comma", "rparen"}), "null")

Classes ==
    \/ parseClassDeclaration \/ parseUnionDeclaration \/ parseBaseClause \/ parseClassBody
    \/ parseClassMember \/ parseAccessSpecifier \/ Field \/ Parameters \/ Method
    \/ parseConstructorDeclaration \/ parseDestructorDeclaration \/ parseMemberInitializerList
    \/ parseMemberInitializer \/ parseFriendDeclaration
=============================================================================
