------------------------------- MODULE Parser -------------------------------
(***************************************************************************)
(* The parser at work: the functions of SolidityParser and YulParser over  *)
(* a text, with the lookahead of the lexer (Lexer::LookAhead, CachedLex).  *)
(* A step of this specification is one step of one function: Branch is     *)
(* every if and switch of the parser, Loop every while, Make every node,   *)
(* ReturnFromFunction every return.  What they do in a function is in the  *)
(* steps SolidityParser and YulParser give for it.                         *)
(*                                                                         *)
(* What the parser does when it dereferences a null pointer, reads the     *)
(* front of an empty vector or fails an assertion is to crash: builds have *)
(* assertions unless they are asked not to.                                *)
(***************************************************************************)
EXTENDS SolidityParser, YulParser, SequencesExt

CONSTANTS Sources,   \* texts, and the function each is parsed with
          MaxMade    \* how much of a list a function keeps, at least all of
                     \* what it can read; see Grow

ASSUME SourcesAssumption == \A s \in Sources : s.text \in Seq(STRING)

Functions == [
    parse |-> parse, parsePragmaDirective |-> parsePragmaDirective,
    parseContractDefinition |-> parseContractDefinition,
    parseInheritanceSpecifier |-> parseInheritanceSpecifier,
    parseStructDeclaration |-> parseStructDeclaration,
    parseEventDefinition |-> parseEventDefinition, parseUsingFor |-> parseUsingFor,
    parseLibraries |-> parseIdentifierPath(","),
    parseUserDefinedTypeName |-> parseIdentifierPath("."),
    parseOverrideSpecifier |-> parseOverrideSpecifier,
    parseSpecifiers |-> parseSpecifiers, parseFunction |-> parseFunction,
    parseParameters |-> parameterList(TRUE, "parseParameter"),
    parseReturnParameters |-> parameterList(FALSE, "parseParameter"),
    parseEventParameters |-> parameterList(TRUE, "parseEventParameter"),
    parseParameter |-> variable(Location, TRUE, FALSE),
    parseEventParameter |-> variable({"indexed"}, TRUE, FALSE),
    parseStateVariable |-> variable(Visibility \ {"external"}, FALSE, TRUE),
    parseVariable |-> variable(Location, FALSE, FALSE),
    parseTypeName |-> parseTypeName, parseMapping |-> parseMapping,
    parseBlock |-> parseBlock, parseStatement |-> parseStatement,
    parseIfStatement |-> parseIfStatement,
    parseWhileStatement |-> parseWhileStatement,
    parseDoWhileStatement |-> parseDoWhileStatement,
    parseForStatement |-> parseForStatement,
    parseEmitStatement |-> parseEmitStatement,
    parseSimpleStatement |-> parseSimpleStatement,
    parseVariableDeclarationStatement |-> parseVariableDeclarationStatement,
    parseIndexAccessedPath |-> parseIndexAccessedPath, parsePath |-> parsePath,
    parseIndices |-> parseIndices, parseExpression |-> parseExpression,
    parseBinaryExpression |-> parseBinaryExpression,
    parseUnaryExpression |-> parseUnaryExpression,
    parseLeftHandSideExpression |-> parseLeftHandSideExpression,
    parsePrimaryExpression |-> <<parsePrimaryExpression>>,
    parseTuple |-> tuple(")", <<Push(Null)>>, "Tuple"),
    parseInlineArray |-> tuple("]", <<Report>>, "Array"),
    parseFunctionCallListArguments |-> parseFunctionCallListArguments,
    parseFunctionCallArguments |-> parseFunctionCallArguments,
    parseDecodeArguments |-> parseDecodeArguments,
    parseTypesTupleExpr |-> parseTypesTupleExpr,
    parseNamedArguments |-> parseNamedArguments,
    parseYul |-> parseYul, parseYulObject |-> parseYulObject,
    parseYulCode |-> parseYulCode, parseYulData |-> parseYulData,
    parseAsmBlock |-> parseAsmBlock, parseAsmStatement |-> parseAsmStatement,
    parseAsmIfStatement |-> parseAsmIfStatement,
    parseAsmSwitchStatement |-> parseAsmSwitchStatement,
    parseAsmCaseStatement |-> parseAsmCaseStatement,
    parseAsmDefaultStatement |-> parseAsmDefaultStatement,
    parseAsmForStatement |-> parseAsmForStatement,
    parseAsmExpression |-> parseAsmExpression,
    parseElementaryOperation |-> parseElementaryOperation,
    parseAsmType |-> parseAsmType,
    parseAsmVariableDeclaration |-> parseAsmVariableDeclaration,
    parseAsmVariableDeclarationList |-> parseAsmVariableDeclarationList,
    parseAsmVariableDeclarationStatement |-> parseAsmVariableDeclarationStatement,
    parseAsmFunctionDefinitionStatement |-> parseAsmFunctionDefinitionStatement,
    parseAsmCall |-> parseAsmCall ]

\* Functions whose one argument is a null pointer by default.
Optional == {"parseExpression", "parseBinaryExpression", "parseUnaryExpression",
    "parseLeftHandSideExpression"}

VARIABLES source, tok, lexer, stack, reported, outcome, result
vars == <<source, tok, lexer, stack, reported, outcome, result>>

(***************************************************************************)
(* The lexer: how far the text is lexed, and the tokens lexed ahead.       *)
(***************************************************************************)
Lexeme(i) == IF i <= Len(source.text) THEN source.text[i] ELSE "eof"
Bounded(i) == IF i <= Len(source.text) THEN i ELSE Len(source.text)

\* LookAhead(n - 1) and PeekAhead(n)
PeekAhead(l, n) ==
    LET c == l.at + n - Len(l.cached) IN
    IF c <= 0 THEN l
    ELSE [l EXCEPT !.cached = @ \o [i \in 1 .. c |-> Lexeme(l.read + i)],
                   !.read = Bounded(@ + c)]
LookAhead(l, n) == PeekAhead(l, n).cached[l.at + n]

\* Tok = *TheLexer.CachedLex()
Consume ==
    IF lexer.at < Len(lexer.cached)
    THEN /\ tok' = lexer.cached[lexer.at + 1]
         /\ lexer' = [lexer EXCEPT !.at = @ + 1]
    ELSE /\ tok' = Lexeme(lexer.read + 1)
         /\ lexer' = [read |-> Bounded(lexer.read + 1), cached |-> <<>>, at |-> 0]

\* The n-th token from Tok on.
Seen(n) == IF n = 1 THEN tok ELSE LookAhead(lexer, n - 1)

(***************************************************************************)
(* Calls.                                                                  *)
(***************************************************************************)
Frame(fun, made, min) ==
    [fun |-> fun, todo |-> Functions[fun], made |-> made, min |-> min, level |-> 15]

Top == Head(stack)
Now == Head(Top.todo)
Rest == Tail(Top.todo)
Newest == Last(Top.made)
Older == Front(Top.made)

\* A list in a loop that never ends grows without bound in the program; here
\* it stops growing at a length that no list reaches otherwise.
Grow(made, v) == IF Len(made) < MaxMade THEN Append(made, v) ELSE made

Running(op) == outcome = "parsing" /\ Now.op = op

\* The function goes on with todo and made.
Continue(todo, made) ==
    /\ stack' = <<[Top EXCEPT !.todo = todo, !.made = made]>> \o Tail(stack)
    /\ UNCHANGED <<source, outcome, result>>

ReturnValue(v) ==
    /\ IF Len(stack) = 1
       THEN stack' = <<>> /\ outcome' = "done" /\ result' = v
       ELSE /\ stack' = <<[stack[2] EXCEPT !.made = Grow(@, v)]>>
                        \o SubSeq(stack, 3, Len(stack))
            /\ UNCHANGED <<outcome, result>>
    /\ UNCHANGED source

Crash ==
    /\ outcome' = "crashed"
    /\ stack' = <<>>
    /\ UNCHANGED <<source, tok, lexer, reported, result>>

(***************************************************************************)
(* The steps.                                                              *)
(***************************************************************************)
Init ==
    /\ source \in Sources
    /\ tok = Lexeme(1)
    /\ lexer = [read |-> Bounded(1), cached |-> <<>>, at |-> 0]
    /\ stack = <<Frame(source.start,
                       IF source.start \in Optional THEN <<Null>> ELSE <<>>, 4)>>
    /\ reported = FALSE
    /\ outcome = "parsing"
    /\ result = Null

Consumes(kind) ==
    CASE kind = "any" -> TRUE
      [] kind = "token" -> tok \notin Special
      [] kind = "paren" -> tok \in Paren
      [] kind = "bracket" -> tok \in Bracket
      [] kind = "brace" -> tok \in Brace
      [] kind = "string" -> tok \in String

Take ==
    /\ Running("take")
    /\ \/ Consumes(Now.kind) /\ Consume /\ Continue(Rest, Top.made)
          /\ UNCHANGED reported
       \/ ~Consumes(Now.kind) /\ Crash

TakeLeaf ==
    /\ Running("leaf")
    /\ \/ Consumes(Now.kind) /\ Consume /\ Continue(Rest, Grow(Top.made, Token(tok)))
          /\ UNCHANGED reported
       \/ ~Consumes(Now.kind) /\ Crash

TakeIdentifier ==
    /\ Running("identifier")
    /\ \/ tok \notin NoIdentifier /\ Consume
          /\ Continue(Rest, Grow(Top.made, Token(tok))) /\ UNCHANGED reported
       \/ tok \in NoIdentifier /\ Crash

ExpectAndConsume ==
    /\ Running("expect")
    /\ \/ /\ tok = Now.token
          /\ Consume /\ Continue(Rest, Top.made) /\ UNCHANGED reported
       \/ /\ tok # Now.token
          /\ reported' = TRUE
          /\ IF Now.strict THEN ReturnValue(Null) ELSE Continue(Rest, Top.made)
          /\ UNCHANGED <<tok, lexer>>

\* A parenthesis or bracket too many before the semicolon is skipped.
ExpectAndConsumeSemi ==
    LET extraneous == tok \in {")", "]"} /\ Seen(2) = ";" IN
    /\ Running("semi")
    /\ \/ /\ tok = ";"
          /\ Consume /\ Continue(Rest, Top.made) /\ UNCHANGED reported
       \/ /\ extraneous
          /\ reported' = TRUE
          /\ lexer' = [PeekAhead(lexer, 1) EXCEPT !.at = @ + 1]
          /\ tok' = ";"
          /\ Continue(<<TakeToken>> \o Rest, Top.made)
       \/ /\ tok # ";" /\ ~extraneous
          /\ reported' = TRUE
          /\ ReturnValue(Null)
          /\ lexer' = IF tok \in {")", "]"} THEN PeekAhead(lexer, 1) ELSE lexer
          /\ UNCHANGED tok

\* The first case that matches is taken; the tokens it looks at are lexed.
Branch ==
    LET near == {i \in DOMAIN Now.cases : tok \in Now.cases[i][1][1]}
        matching == {i \in near : \A n \in DOMAIN Now.cases[i][1] :
                                    Seen(n) \in Now.cases[i][1][n]}
        first == CHOOSE i \in matching : \A j \in matching : i <= j
        far == {Len(Now.cases[i][1]) - 1 : i \in near} \cup {0}
    IN
    /\ Running("on")
    /\ IF matching = {} THEN Continue(Now.otherwise \o Rest, Top.made)
                        ELSE Continue(Now.cases[first][2] \o Rest, Top.made)
    /\ lexer' = PeekAhead(lexer, CHOOSE n \in far : \A m \in far : m <= n)
    /\ UNCHANGED <<tok, reported>>

Loop ==
    /\ Running("loop")
    /\ Continue(IF (tok \in Now.tokens) = Now.in THEN Now.body \o Top.todo ELSE Rest,
                Top.made)
    /\ UNCHANGED <<tok, lexer, reported>>

BranchOnNull ==
    /\ Running("whenNull")
    /\ IF Newest = Null THEN Continue(Now.body \o Rest, Older)
                        ELSE Continue(Rest, Top.made)
    /\ UNCHANGED <<tok, lexer, reported>>

CallFunction ==
    /\ Running("call")
    /\ LET made == IF Now.pass THEN <<Newest>>
                   ELSE IF Now.fun \in Optional THEN <<Null>> ELSE <<>>
           kept == IF Now.pass THEN Older ELSE Top.made
       IN stack' = << Frame(Now.fun, made, 4),
                      [Top EXCEPT !.todo = Rest, !.made = kept] >> \o Tail(stack)
    /\ UNCHANGED <<source, tok, lexer, reported, outcome, result>>


\* The right operand of ** may begin with another **.
OperandLevel(level) == IF tok = "**" THEN level ELSE level + 1

\* The loops of parseBinaryExpression: levels are left for good as they sink.
Climb ==
    LET level == Precedence(tok) IN
    /\ Running("climb")
    /\ \/ /\ level \in Top.min .. Top.level
          /\ stack' = << Frame("parseBinaryExpression", <<Null>>, OperandLevel(level)),
                         [Top EXCEPT !.todo = <<Deref, Step("createBinOp")>> \o @,
                                     !.made = Append(@, Token(tok)),
                                     !.level = level] >> \o Tail(stack)
          /\ Consume
          /\ UNCHANGED <<source, outcome, result>>
       \/ /\ level \notin Top.min .. Top.level
          /\ Continue(Rest, Top.made)
          /\ UNCHANGED <<tok, lexer>>
    /\ UNCHANGED reported

(***************************************************************************)
(* Steps that look at the stack only: what is made of it.                  *)
(***************************************************************************)
Folded(is, n) ==
    LET m == Len(Top.made) IN
    Append(SubSeq(Top.made, 1, m - n), Node(is, SubSeq(Top.made, m - n + 1, m)))

\* CreateBinOp of two expressions and the operator between them
CreateBinOp ==
    LET left == Top.made[Len(Top.made) - 2] IN
    IF left = Null THEN Append(SubSeq(Top.made, 1, Len(Top.made) - 3), Null)
                   ELSE Folded("Binary", 3)

IsAsmIdentifier(v) == v.kids = <<>> /\ v.is \in AsmName

\* Of the constructors, and of the functions without a name, only one may be.
Once(v) == v.is = "Function" /\ v.kids[1].is \in {"constructor", "fallback"}
Second == \E v \in Range(Older) : Once(v) /\ v.kids[1] = Newest.kids[1]

Made ==
    CASE Now.op = "push" -> Grow(Top.made, Now.value)
      [] Now.op = "drop" -> Older
      [] Now.op = "fold" -> Folded(Now.is, Now.n)
      [] Now.op = "foldAll" -> Folded(Now.is, Len(Top.made))
      [] Now.op = "createBinOp" -> CreateBinOp
      [] Now.op = "createTuple" ->
            IF Len(Newest.kids) = 1 THEN Append(Older, Node("Paren", Newest.kids))
                                    ELSE Top.made
      [] Now.op = "keepAsmIdentifier" ->
            IF IsAsmIdentifier(Newest) THEN Top.made ELSE Older
      [] Now.op = "addFunction" -> IF Newest = Null THEN Older ELSE Top.made
      [] OTHER -> Top.made

\* What a step dereferences or asserts of the stack.
Sound ==
    CASE Now.op = "deref" -> Newest # Null
      [] Now.op = "derefBase" -> Last(Older) # Null
      [] Now.op = "derefArguments" -> Null \notin Range(Newest.kids)
      [] Now.op = "derefAll" -> Null \notin Range(Top.made)
      [] Now.op = "createTuple" -> Newest.kids # <<Null>>
      [] Now.op = "asmCallee" -> IsAsmIdentifier(Newest)
      [] Now.op = "addFunction" -> Newest = Null \/ ~Once(Newest) \/ ~Second
      [] Now.op = "fail" -> FALSE
      [] OTHER -> TRUE

Make ==
    /\ outcome = "parsing"
    /\ Now.op \in {"push", "drop", "fold", "foldAll", "createBinOp", "createTuple",
                   "keepAsmIdentifier", "addFunction", "deref", "derefBase",
                   "derefArguments", "derefAll", "asmCallee", "fail"}
    /\ \/ Sound /\ Continue(Rest, Made) /\ UNCHANGED <<tok, lexer, reported>>
       \/ ~Sound /\ Crash

ReturnFromFunction ==
    /\ outcome = "parsing"
    /\ Now.op \in {"give", "return", "null"}
    /\ ReturnValue(CASE Now.op = "give" -> Node(Now.is, Top.made)
                     [] Now.op = "return" /\ Top.made # <<>> -> Newest
                     [] OTHER -> Null)
    /\ UNCHANGED <<tok, lexer, reported>>

Diagnose ==
    /\ Running("report")
    /\ reported' = TRUE
    /\ Continue(Rest, Top.made)
    /\ UNCHANGED <<tok, lexer>>

\* A location needs a type.
LocationNeedsType ==
    /\ Running("typed")
    /\ \/ Head(Top.made) # Null /\ Continue(Rest, Top.made) /\ UNCHANGED reported
       \/ Head(Top.made) = Null /\ ReturnValue(Null) /\ reported' = TRUE
    /\ UNCHANGED <<tok, lexer>>

\* Only the callee abi.decode takes types.
ParseArguments ==
    /\ Running("parseFunctionCallArguments")
    /\ Continue(<<Call(IF Newest = Node("Member", <<Token("abi"), Token("decode")>>)
                       THEN "parseDecodeArguments"
                       ELSE "parseFunctionCallArguments")>> \o Rest, Top.made)
    /\ UNCHANGED <<tok, lexer, reported>>

(***************************************************************************)
(* What an IndexAccessedPath becomes.  Its base is a type, a path of       *)
(* tokens, or null if the type could not be read.                          *)
(***************************************************************************)
PathBase == Newest.kids[1]
PathIndices == Newest.kids[2].kids
IsPath == PathBase.is = "Path"

IsNumber(v) == v = Token("1") \/ v.is = "Number"

\* The type a path stands for is not made: it is null.
typeNameFromIndexAccessStructure ==
    LET numbers == {n \in 0 .. Len(PathIndices) :
                      \A i \in 1 .. n : IsNumber(PathIndices[i])}
        lengths == CHOOSE n \in numbers : \A m \in numbers : m <= n
        arrays == [i \in 1 .. lengths |->
                     << Push(PathIndices[i]), parseDataLocation, Fold("ArrayType", 3) >>]
    IN
    /\ Running("typeNameFromIndexAccessStructure")
    /\ Continue(FlattenSeq(arrays)
                \o (IF lengths = Len(PathIndices) THEN <<>>
                    ELSE <<Report, Drop, Push(Null)>>) \o Rest,
                Append(Older, IF IsPath THEN Null ELSE PathBase))
    /\ UNCHANGED <<tok, lexer, reported>>

\* Null and crash are what is made of a type: its path is empty.
expressionFromIndexAccessStructure ==
    LET path == PathBase.kids
        member(base, t) == Node("Member", <<base, t>>)
        index(base, i) == Node("Index", <<base, i>>)
        expression == FoldLeft(index, FoldLeft(member, path[1], Tail(path)), PathIndices)
        empty == PathBase = Null /\ PathIndices = <<>>
    IN
    /\ Running("expressionFromIndexAccessStructure")
    /\ \/ /\ empty \/ (IsPath /\ \A t \in Range(path) : t.is \notin NoIdentifier)
          /\ Continue(Rest, Append(Older, IF empty THEN Null ELSE expression))
          /\ UNCHANGED <<tok, lexer, reported>>
       \/ /\ ~empty /\ (IsPath => \E t \in Range(path) : t.is \in NoIdentifier)
          /\ Crash

Next ==
    \/ Take \/ TakeLeaf \/ TakeIdentifier \/ ExpectAndConsume \/ ExpectAndConsumeSemi
    \/ Branch \/ Loop \/ BranchOnNull \/ CallFunction \/ Climb
    \/ Make \/ ReturnFromFunction \/ Diagnose \/ LocationNeedsType \/ ParseArguments
    \/ typeNameFromIndexAccessStructure \/ expressionFromIndexAccessStructure

\* Nothing stops the parser.
Spec == Init /\ [][Next]_vars /\ WF_vars(Next)
=============================================================================
