----------------------------- MODULE YulParser -----------------------------
(***************************************************************************)
(* The functions of ParseAsm.cpp and ParseYul.cpp, as in SolidityParser.   *)
(***************************************************************************)
EXTENDS ParserCode

\* The tokens that CreateAsmIdentifier is called for.
AsmName == Name \cup {"address", "return", "byte"}

parseYul == <<
    On(<< << <<{"{"}>>, <<Call("parseAsmBlock")>> >>,
          << <<{"object"}>>, <<Call("parseYulObject")>> >> >>,
       <<Step("fail")>>),
    Give("SourceUnit") >>

parseYulObject == <<
    TakeToken, TakeString, Want("{"), Call("parseYulCode"),
    Until({"}"}, <<
        On(<< << <<{"object"}>>, <<Call("parseYulObject")>> >>,
              << <<{"data"}>>, <<Call("parseYulData")>> >> >>,
           <<TakeAny>>) >>),
    Want("}"), Give("Object") >>

parseYulCode == << TakeToken, Call("parseAsmBlock"), Give("Code") >>

parseYulData == << TakeToken, TakeString, TakeString, Give("Data") >>

parseAsmBlock == <<
    Want("{"), Until({"}", "eof"}, <<Call("parseAsmStatement")>>),
    Want("}"), Give("AsmBlock") >>

parseAsmStatement == <<
    On(<< << <<{"let"}>>, <<Call("parseAsmVariableDeclarationStatement"), Return>> >>,
          << <<{"function"}>>, <<Call("parseAsmFunctionDefinitionStatement"), Return>> >>,
          << <<{"{"}>>, <<Call("parseAsmBlock"), Return>> >>,
          << <<{"if"}>>, <<Call("parseAsmIfStatement"), Return>> >>,
          << <<{"switch"}>>, <<Call("parseAsmSwitchStatement"), Return>> >>,
          << <<{"for"}>>, <<Call("parseAsmForStatement"), Return>> >>,
          << <<{"break", "continue", "leave"}>>, <<Leaf, Return>> >> >>,
       <<Call("parseElementaryOperation")>>),
    On(<< << <<{"("}>>, <<Pass("parseAsmCall"), Return>> >>,
          << <<{",", ":="}>>,
             << Step("keepAsmIdentifier"),
                While({","}, <<TakeToken, Call("parseElementaryOperation"),
                               Step("keepAsmIdentifier")>>),
                Want(":="), Call("parseAsmExpression"), Deref, Give("Assign") >> >> >>,
       <<Return>>) >>

parseAsmIfStatement == <<
    TakeToken, Call("parseAsmExpression"), Deref, Call("parseAsmBlock"),
    Give("AsmIf") >>

parseAsmSwitchStatement == <<
    TakeToken, Call("parseAsmExpression"), Deref,
    If(<<{"case", "default"}>>, <<>>, <<Report>>),
    While({"case"}, <<Call("parseAsmCaseStatement")>>),
    When(<<{"default"}>>, <<Call("parseAsmDefaultStatement")>>),
    Give("Switch") >>

parseAsmCaseStatement == <<
    TakeToken, Call("parseElementaryOperation"), Call("parseAsmBlock"), Give("Case") >>

parseAsmDefaultStatement == << TakeToken, Call("parseAsmBlock"), Give("Default") >>

parseAsmForStatement == <<
    TakeToken, Call("parseAsmBlock"), Call("parseAsmExpression"), Deref,
    Call("parseAsmBlock"), Call("parseAsmBlock"), Give("AsmFor") >>

parseAsmExpression == <<
    Call("parseElementaryOperation"),
    When(<<{"("}>>, <<Pass("parseAsmCall")>>), Return >>

parseElementaryOperation == <<
    On(<< << <<Name \cup {"address"}, {"("}>>, <<Leaf, Return>> >>,
          << <<AsmName>>, <<Leaf, Return>> >>,
          << <<Literal>>, <<Leaf>> >> >>,
       <<Report, TakeToken, ReturnNull>>),
    When(<<{":"}>>, <<TakeToken, Call("parseAsmType"), Fold("Cast", 2)>>),
    Return >>

parseAsmType == << If(<<AsmType>>, <<Leaf>>, <<Step("fail")>>), Return >>

parseAsmVariableDeclaration == <<
    Identifier, When(<<{":"}>>, <<TakeToken, Call("parseAsmType")>>), Give("AsmVar") >>

parseAsmVariableDeclarationList == <<
    While(Name, << Call("parseAsmVariableDeclaration"),
                   If(<<{","}>>, <<TakeToken>>, <<Give("List")>>) >>),
    Give("List") >>

parseAsmVariableDeclarationStatement == <<
    TakeToken, Call("parseAsmVariableDeclarationList"),
    When(<<{":="}>>, <<TakeToken, Call("parseAsmExpression"), Deref>>), Give("Let") >>

parseAsmFunctionDefinitionStatement == <<
    TakeToken, Identifier, TakeParen, Call("parseAsmVariableDeclarationList"),
    TakeParen,
    If(<<{"->"}>>,
       <<TakeToken, Call("parseAsmVariableDeclarationList")>>,
       <<Push(Node("List", <<>>))>>),
    Call("parseAsmBlock"), Give("AsmFunction") >>

parseAsmCall == <<
    TakeParen, Step("asmCallee"),
    Until(Paren, <<Call("parseAsmExpression"), When(<<{","}>>, <<TakeToken>>)>>),
    TakeParen, Step("derefAll"), Give("AsmCall") >>
=============================================================================
