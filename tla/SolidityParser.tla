--------------------------- MODULE SolidityParser ---------------------------
(***************************************************************************)
(* The functions of Parser.cpp, by their names.  What a name stands for is *)
(* in Parser.  Functions the source does not have are parts of the one     *)
(* above them that return a list of their own.                             *)
(***************************************************************************)
EXTENDS ParserCode

(***************************************************************************)
(* Source units and contracts.                                             *)
(***************************************************************************)
parse == <<
    Until({"eof"}, <<
        On(<< << <<{"pragma"}>>, <<Call("parsePragmaDirective")>> >>,
              << <<{"abstract"} \cup ContractKind>>,
                 <<Call("parseContractDefinition")>> >> >>,
           <<TakeAny>>) >>),
    Give("SourceUnit") >>

pragmaToken ==
    If(<<Name \cup Punctuator \cup {"1"}>>, <<TakeToken>>, <<Report, TakeAny>>)

parsePragmaDirective == <<
    TakeToken, pragmaToken, Until({";", "eof"}, <<pragmaToken>>),
    ExpectSemi, Give("Pragma") >>

parseContractKind ==
    On(<< << <<{"abstract"}, ContractKind>>, <<Leaf, Leaf>> >>,
          << <<{"abstract"}>>, <<TakeAny, Report, Push(Token("contract"))>> >>,
          << <<ContractKind>>, <<Leaf>> >> >>,
       <<Report, Push(Token("contract"))>>)

name == If(<<Name>>, <<Leaf>>, <<Report, ReturnNull>>)

parseInheritanceSpecifier == <<
    name,
    When(<<Paren>>, <<TakeParen, Call("parseFunctionCallListArguments"), TakeParen>>),
    Give("Base") >>

contractPart == On(<<
    << <<{"}"}>>, <<TakeBrace, Give("Contract")>> >>,
    << <<{"function", "constructor", "fallback"}>>,
       <<Call("parseFunction"), Step("addFunction")>> >>,
    << <<{"struct"}>>, <<Call("parseStructDeclaration")>> >>,
    << <<Elementary \cup Name \cup {"mapping"}>>,
       <<Push(Null), Pass("parseStateVariable"), ExpectSemi>> >>,
    << <<{"event"}>>, <<TakeToken, Call("parseEventDefinition")>> >>,
    << <<{"using"}>>, <<Call("parseUsingFor")>> >> >>,
    <<Report, ReturnNull>>)

parseContractDefinition == <<
    parseContractKind, name,
    When(<<{"is"}>>,
         <<TakeToken, Call("parseInheritanceSpecifier"),
           While({","}, <<TakeToken, Call("parseInheritanceSpecifier")>>)>>),
    Expect("{"), Until({"eof"}, <<contractPart>>), Give("Contract") >>

parseStructDeclaration == <<
    TakeToken, Identifier, Expect("{"),
    Until({"eof"}, <<
        When(<<{"}"}>>, <<TakeBrace, Give("Struct")>>),
        Call("parseTypeName"), Identifier, ExpectSemi >>),
    Give("Struct") >>

parseEventDefinition == <<
    Identifier, Call("parseEventParameters"),
    When(<<{"anonymous"}>>, <<Leaf>>), ExpectSemi, Give("Event") >>

parseUsingFor == <<
    TakeToken, Call("parseLibraries"), When(<<{"for"}>>, <<TakeToken>>),
    If(<<{"*"}>>, <<TakeToken>>, <<Call("parseTypeName")>>),
    ExpectSemi, Give("Using") >>

parseIdentifierPath(splitTok) == <<
    If(<<Name>>, <<Leaf>>, <<Step("fail")>>),
    While({splitTok}, <<TakeToken, If(<<Name>>, <<Leaf>>, <<Step("fail")>>)>>),
    Give("IdentifierPath") >>

(***************************************************************************)
(* Functions.  The last of several specifiers of one kind counts; they are *)
(* listed here as they stand.                                              *)
(***************************************************************************)
parseOverrideSpecifier == <<
    TakeToken,
    When(<<Paren>>,
         <<Want("("), Report, Call("parseUserDefinedTypeName"),
           Until({")"}, <<Want(","), Report, Call("parseUserDefinedTypeName")>>),
           Want(")")>>),
    Give("Override") >>

parseSpecifiers == <<
    While(Name \cup Visibility \cup Mutability \cup {"override", "virtual"}, <<
        On(<< << <<{"override"}>>, <<Call("parseOverrideSpecifier")>> >>,
              << <<Name>>,
                 <<Report, TakeToken,
                   When(<<{"("}>>,
                        <<TakeParen, Call("parseFunctionCallArguments"), Drop,
                          TakeParen>>)>> >> >>,
           <<Leaf>>) >>),
    Give("Specifiers") >>

parseFunction == <<
    On(<< << <<{"constructor", "fallback"}>>, <<Leaf>> >>,
          << <<{"function"}, {"("}>>, <<TakeToken, Push(Token("fallback"))>> >>,
          << <<{"function"}, Name>>, <<TakeToken, Leaf>> >> >>,
       <<TakeToken, Report, Step("fail")>>),
    Call("parseParameters"), Call("parseSpecifiers"),
    If(<<{"returns"}>>,
       <<TakeToken, Call("parseReturnParameters")>>,
       <<Push(Node("Parameters", <<>>))>>),
    If(<<{"{"}>>, <<Call("parseBlock"), Deref>>, <<ExpectSemi, Push(Null)>>),
    Give("Function") >>

\* parseParameterList; parseVariableDeclaration with its options is var.
parameterList(allowEmpty, var) == <<
    Expect("("),
    If(<<IF allowEmpty THEN {")"} ELSE {}>>, <<>>,
       <<Push(Null), Pass(var),
         Until({")"}, <<Expect(","), Push(Null), Pass(var)>>)>>),
    Expect(")"), Give("Parameters") >>

(***************************************************************************)
(* Variables and types.                                                    *)
(***************************************************************************)
parseDataLocation == If(<<Location>>, <<Leaf>>, <<Push(Null)>>)

\* parseVariableDeclaration(Options, LookAheadArrayType); the options are
\* the specifiers allowed, and whether a name or an initial value is needed.
variable(specifiers, emptyName, initialValue) ==
    LET others == While((specifiers \ Location) \cup {"constant"}, <<Leaf>>)
        location == specifiers \cap Location IN <<
    WhenNull(<<Call("parseTypeName")>>),
    others,
    When(<<location>>,
         <<Step("typed"), Leaf, others, When(<<location>>, <<Report, ReturnNull>>)>>),
    IF emptyName THEN When(<<Name>>, <<Leaf>>) ELSE Identifier,
    When(<<IF initialValue THEN {"="} ELSE {}>>,
         <<TakeToken, Call("parseExpression"), Deref, Fold("Value", 1)>>),
    Give("Var") >>

parseTypeNameSuffix ==
    While(Bracket, <<
        TakeBracket,
        If(<<{"1"}>>, <<Leaf>>, <<Push(Null)>>),
        Expect("]"), parseDataLocation, Fold("ArrayType", 3) >>)

\* An elementary type without a case is not consumed and gives no type.
parseTypeName == <<
    On(<< << <<{"address"}>>,
             <<Leaf, When(<<Mutability>>, <<Leaf, Fold("AddressType", 2)>>)>> >>,
          << <<Unread>>, <<Push(Null)>> >>,
          << <<Elementary \cup Name>>, <<Leaf>> >>,
          << <<{"var", "function"}>>, <<Report, ReturnNull>> >>,
          << <<{"mapping"}>>,
             <<Call("parseMapping"), WhenNull(<<ReturnNull>>)>> >> >>,
       <<Step("fail")>>),
    parseTypeNameSuffix, Return >>

parseMapping == <<
    Expect("mapping"), Expect("("),
    If(<<Elementary>>, <<Call("parseTypeName")>>, <<Push(Null)>>),
    Expect("=>"), Call("parseTypeName"), Expect(")"), Give("Mapping") >>

(***************************************************************************)
(* Statements.                                                             *)
(***************************************************************************)
\* Mutant: what follows a statement that could not be read is read as the next.
parseBlockWithoutBreak == <<
    Expect("{"), Until({"}"}, <<Call("parseStatement"), WhenNull(<<>>)>>),
    TakeBrace, Give("Block") >>

parseBlock == <<
    Expect("{"),
    Until({"}"}, <<Call("parseStatement"), WhenNull(<<TakeBrace, Give("Block")>>)>>),
    TakeBrace, Give("Block") >>

parseStatement == <<
    On(<< << <<{"if"}>>, <<Call("parseIfStatement"), Return>> >>,
          << <<{"while"}>>, <<Call("parseWhileStatement"), Return>> >>,
          << <<{"do"}>>, <<Call("parseDoWhileStatement"), Return>> >>,
          << <<{"for"}>>, <<Call("parseForStatement"), Return>> >>,
          << <<{"{"}>>, <<Call("parseBlock"), Return>> >>,
          << <<{"continue", "break"}>>, <<Leaf>> >>,
          << <<{"return"}, {";"}>>, <<Leaf>> >>,
          << <<{"return"}>>,
             <<TakeToken, Call("parseExpression"), Deref, Fold("Return", 1)>> >>,
          << <<{"throw", "try", "assembly"}>>, <<Report, TakeToken, Push(Null)>> >>,
          << <<{"emit"}>>, <<Call("parseEmitStatement")>> >>,
          << <<{"revert"}, Name>>, <<Report, TakeToken, Push(Null)>> >> >>,
       <<Call("parseSimpleStatement")>>),
    ExpectSemi, Return >>

condition(open, close) ==
    << Expect(open), Call("parseExpression"), Deref, Expect(close) >>

body == << Call("parseStatement"), Deref >>

parseIfStatement ==
    <<TakeToken>> \o condition("(", ")") \o body \o
    << When(<<{"else"}>>, <<TakeToken>> \o body), Give("If") >>

parseWhileStatement ==
    <<TakeToken>> \o condition("(", ")") \o body \o << Give("While") >>

parseDoWhileStatement ==
    << TakeToken, Call("parseStatement"), Expect("while") >> \o
    condition("{", "}") \o << ExpectSemi, Give("DoWhile") >>

parseForStatement == <<
    TakeToken, Expect("("),
    If(<<{";"}>>, <<Push(Null)>>, <<Call("parseSimpleStatement")>>), ExpectSemi,
    If(<<{";"}>>, <<Push(Null)>>, <<Call("parseExpression"), Deref>>), ExpectSemi,
    If(<<{")"}>>, <<Push(Null)>>, <<Call("parseExpression")>>), Expect(")") >> \o
    body \o << Give("For") >>

parseEmitStatement == <<
    TakeToken, name,
    While({"."}, <<TakeToken, name, Fold("Member", 2)>>),
    Expect("("), Call("parseFunctionCallArguments"), Expect(")"),
    Step("derefArguments"), Fold("Call", 2), Give("Emit") >>

\* tryParseIndexAccessedPath and peekStatementType: what comes next is a
\* declaration, an expression, or a path that may begin either of them.
tryParseIndexAccessedPath(declaration, expression) == On(<<
    << <<{"mapping", "function", "var"}>>, <<Push(Null)>> \o declaration >>,
    << <<Elementary, {"pure", "view", "payable"}>>, <<Push(Null)>> \o declaration >>,
    << <<Elementary \cup Name, Name \cup Location>>, <<Push(Null)>> \o declaration >>,
    << <<Elementary \cup Name, {"[", "."}>>,
       << Call("parseIndexAccessedPath"),
          If(<<Name \cup Location>>,
             << Step("typeNameFromIndexAccessStructure") >> \o declaration,
             << Step("expressionFromIndexAccessStructure") >> \o expression) >> >> >>,
    <<Push(Null)>> \o expression)

parseIndexAccessedPath == <<
    If(<<Name>>, <<Call("parsePath")>>, <<Call("parseTypeName")>>),
    Call("parseIndices"), Give("IndexAccessedPath") >>

parsePath == <<
    LeafToken, While({"."}, <<TakeToken, LeafToken>>), Give("Path") >>

parseIndices == <<
    While({"["}, <<
        TakeBracket, Call("parseExpression"),
        If(<<{"]"}>>, <<TakeBracket>>, <<Report, Give("Indices")>>) >>),
    Give("Indices") >>

\* The components of a tuple behind the first; var or expression is next.
components(next) ==
    Until({")"}, <<Want(","), If(<<{",", ")"}>>, <<Push(Null)>>, next)>>)

parseSimpleStatement ==
    LET declaration ==
            << Pass("parseVariable"),
               components(<<Push(Null), Pass("parseVariable")>>), TakeParen,
               Want("="), Call("parseExpression"), Deref, Give("TupleDecl") >>
        expression ==
            << Pass("parseExpression"), components(<<Call("parseExpression")>>),
               TakeParen, FoldAll("Tuple"), Pass("parseExpression"), Return >>
    IN << When(<<Paren>>,
               << TakeParen, While({","}, <<TakeToken, Push(Null)>>),
                  tryParseIndexAccessedPath(declaration, expression) >>),
          tryParseIndexAccessedPath(
              <<Pass("parseVariableDeclarationStatement"), Return>>,
              <<Pass("parseExpression"), Return>>) >>

parseVariableDeclarationStatement == <<
    WhenNull(<<If(<<{"var"}, {"("}>>, <<Report, ReturnNull>>, <<Push(Null)>>)>>),
    Pass("parseVariable"), Deref,
    When(<<{"="}>>, <<TakeToken, Call("parseExpression"), Deref>>),
    Give("Decl") >>

(***************************************************************************)
(* Expressions.  parseExpression and the three below it are called with    *)
(* the expression parsed so far, or with Null.                             *)
(***************************************************************************)
parseExpression == <<
    Pass("parseBinaryExpression"),
    On(<< << <<AssignOp>>,
             <<Leaf, Call("parseExpression"), Deref, Step("createBinOp"), Return>> >>,
          << <<{"?"}>>,
             <<TakeToken, Call("parseExpression"), Expect(":"),
               Call("parseExpression"), ReturnNull>> >> >>,
       <<Return>>) >>

parseBinaryExpression == << Pass("parseUnaryExpression"), Step("climb"), Return >>

parseUnaryExpression == <<
    WhenNull(<<If(<<UnaryOp>>,
                  <<Leaf, Call("parseUnaryExpression"), Deref, Give("Unary")>>,
                  <<Push(Null)>>)>>),
    Pass("parseLeftHandSideExpression"),
    When(<<{"++", "--"}>>, <<Leaf, Fold("Postfix", 2)>>),
    Return >>

indexAccess == <<
    TakeBracket,
    If(<<{"]", ":"}>>, <<Push(Null)>>, <<Call("parseExpression")>>),
    If(<<{":"}>>,
       <<TakeToken, Drop, Report,
         If(<<{"]"}>>, <<>>, <<Call("parseExpression"), Drop>>)>>,
       <<Want("]"), Step("derefBase"), Fold("Index", 2)>>) >>

memberAccess == <<
    TakeToken, If(<<Name>>, <<>>, <<Report>>), Deref, Identifier, Fold("Member", 2) >>

callArguments == <<
    Step("parseFunctionCallArguments"), Expect(")"),
    Step("derefArguments"), Fold("Call", 2) >>

parseLeftHandSideExpression == <<
    WhenNull(<<On(<<
        << <<{"new"}>>, <<TakeToken, Call("parseTypeName"), Drop, Push(Null)>> >>,
        << <<{"payable"}>>, <<TakeToken, Report, TakeBracket, Push(Null)>> >> >>,
        <<Call("parsePrimaryExpression")>>)>>),
    While({"[", ".", "(", "{"}, <<
        On(<< << <<{"["}>>, indexAccess >>,
              << <<{"."}>>, memberAccess >>,
              << <<{"("}>>, <<TakeParen>> \o callArguments >>,
              << <<{"{"}, Name, {":"}>>,
                 <<Report, TakeBrace, Call("parseNamedArguments"), Drop, TakeBrace>> >> >>,
           <<Return>>) >>),
    Return >>

\* The components up to the closing token; missing is what is done for one
\* that is left out.
tuple(close, missing, is) == <<
    Until({close}, <<
        If(<<{","}>>, missing, <<Call("parseExpression")>>),
        If(<<{close}>>, <<Give(is)>>, <<Want(",")>>),
        When(<<{close}>>, missing) >>),
    Give(is) >>

parsePrimaryExpression ==
    On(<< << <<Castable, {"("}>>,
             <<Leaf, TakeParen, Call("parseExpression"), Deref, Fold("Cast", 2),
               Expect(")"), Return>> >>,
          << <<Elementary, {"("}>>,
             <<TakeToken, TakeParen, Call("parseExpression"), Deref, Step("fail")>> >>,
          << <<{"1"}, Unit>>, <<Leaf, LeafToken, Fold("Number", 2), Return>> >>,
          << <<Literal \cup Name>>, <<Leaf, Return>> >>,
          << <<{"type"}>>, <<Report, ReturnNull>> >>,
          << <<{"("}>>,
             <<TakeParen, Call("parseTuple"), Want(")"), Step("createTuple"), Return>> >>,
          << <<{"["}>>,
             <<TakeBracket, Call("parseInlineArray"), Want("]"), Return>> >> >>,
       <<Report, TakeToken, ReturnNull>>)

(***************************************************************************)
(* Arguments.                                                              *)
(***************************************************************************)
\* Mutant: a comma that is missing between two arguments is not reported.
parseFunctionCallListArgumentsLenient == <<
    If(<<{")"}>>, <<>>,
       << Call("parseExpression"),
          Until({")"}, << If(<<{","}>>, <<TakeToken>>, <<>>),
                          Call("parseExpression") >>) >>),
    Give("Arguments") >>

parseFunctionCallListArguments == <<
    If(<<{")"}>>, <<>>,
       << Call("parseExpression"),
          Until({")"}, << If(<<{","}>>, <<TakeToken>>, <<Report, Give("Arguments")>>),
                          Call("parseExpression") >>) >>),
    Give("Arguments") >>

parseFunctionCallArguments == <<
    If(<<{"{"}>>,
       <<TakeBrace, Call("parseNamedArguments"), TakeBrace>>,
       <<Call("parseFunctionCallListArguments")>>),
    Return >>

\* parseFunctionCallArguments of abi.decode
parseDecodeArguments == <<
    Call("parseExpression"), Want(","), Call("parseTypesTupleExpr"),
    Give("Arguments") >>

parseTypesTupleExpr ==
    LET element == If(<<{"("}>>, <<Call("parseTypesTupleExpr")>>,
                      <<Call("parseTypeName")>>)
    IN << TakeParen,
          If(<<{")"}>>, <<>>, <<element, Until({")"}, <<Want(","), element>>)>>),
          TakeParen, Give("Types") >>

parseNamedArguments ==
    LET argument == << If(<<Name>>, <<>>, <<Report>>), Identifier, Want(":"),
                       Call("parseExpression"), Fold("Named", 2),
                       When(<<{","}, {"}"}>>, <<Report, TakeAny>>) >>
    IN << If(<<{"}"}>>, <<>>, argument \o << Until({"}"}, <<Want(",")>> \o argument) >>),
          Give("Arguments") >>
=============================================================================
