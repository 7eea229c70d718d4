----------------------------- MODULE SyntaxText -----------------------------
(***************************************************************************)
(* The text of a syntax tree: what has to be written for the parser to     *)
(* make that tree.  This is the grammar, given as a printer, against which *)
(* the parser is checked; it does not say how a text is read.              *)
(***************************************************************************)
EXTENDS Parser

RECURSIVE Text(_)

Texts(trees) == [i \in DOMAIN trees |-> Text(trees[i])]
Written(trees) == FlattenSeq(Texts(trees))
Separated(trees, separator) ==
    FlattenSeq([i \in DOMAIN trees |->
                  (IF i = 1 THEN <<>> ELSE <<separator>>) \o Text(trees[i])])
Commas(trees) == Separated(trees, ",")

\* Statements without a body end in a semicolon; do-while has its own.
Statement(s) ==
    Text(s) \o (IF s.is \in {"If", "While", "DoWhile", "For", "Block"} THEN <<>>
                ELSE <<";">>)
ContractPart(p) == Text(p) \o (IF p.is = "Var" THEN <<";">> ELSE <<>>)
Optionally(before, trees) ==
    IF trees = <<>> THEN <<>> ELSE before \o Commas(trees)

Having(trees, is) == SelectSeq(trees, LAMBDA t : t.is = is)
Pairs(trees, between, after) ==
    FlattenSeq([i \in 1 .. Len(trees) \div 2 |->
                  Text(trees[2 * i - 1]) \o between \o Text(trees[2 * i]) \o after])

ContractText(kids) ==
    LET header == SelectSeq(kids, LAMBDA t : t.kids = <<>> /\ t.is \in
                                        Name \cup ContractKind \cup {"abstract"})
        bases == Having(kids, "Base")
        parts == SubSeq(kids, Len(header) + Len(bases) + 1, Len(kids))
    IN Written(header) \o Optionally(<<"is">>, bases) \o <<"{">>
       \o FlattenSeq([i \in DOMAIN parts |-> ContractPart(parts[i])]) \o <<"}">>

FunctionText(k) ==
    (IF k[1].is \in {"constructor", "fallback"} THEN <<>> ELSE <<"function">>)
    \o Text(k[1]) \o Text(k[2]) \o Text(k[3])
    \o (IF k[4].kids = <<>> THEN <<>> ELSE <<"returns">> \o Text(k[4]))
    \o (IF k[5] = Null THEN <<";">> ELSE Text(k[5]))

\* The nodes of Solidity, and those of Yul.
SolidityText(is, k) ==
    CASE is = "SourceUnit" -> Written(k)
      [] is = "Contract" -> ContractText(k)
      [] is = "Base" ->
            Text(k[1]) \o (IF Len(k) = 1 THEN <<>> ELSE <<"(">> \o Text(k[2]) \o <<")">>)
      [] is = "Struct" ->
            <<"struct">> \o Text(k[1]) \o <<"{">> \o Pairs(Tail(k), <<>>, <<";">>) \o <<"}">>
      [] is = "Event" -> <<"event">> \o Written(k) \o <<";">>
      [] is = "Using" ->
            <<"using">> \o Commas(k[1].kids) \o <<"for">>
            \o (IF Len(k) = 1 THEN <<"*">> ELSE Text(k[2])) \o <<";">>
      [] is = "Override" -> <<"override">>
      [] is = "Function" -> FunctionText(k)
      [] is \in {"Parameters", "Types"} -> <<"(">> \o Commas(k) \o <<")">>
      [] is \in {"Specifiers", "Var", "AddressType", "Postfix", "Unary", "Binary", "Number"} ->
            Written(k)
      [] is = "Value" -> <<"=">> \o Text(k[1])
      [] is = "ArrayType" -> Text(k[1]) \o <<"[">> \o Text(k[2]) \o <<"]">> \o Text(k[3])
      [] is = "Mapping" ->
            <<"mapping", "(">> \o Text(k[1]) \o <<"=>">> \o Text(k[2]) \o <<")">>
      [] is = "Block" ->
            <<"{">> \o FlattenSeq([i \in DOMAIN k |-> Statement(k[i])]) \o <<"}">>
      [] is = "Return" -> <<"return">> \o Text(k[1])
      [] is = "If" ->
            <<"if", "(">> \o Text(k[1]) \o <<")">> \o Statement(k[2])
            \o (IF Len(k) = 2 THEN <<>> ELSE <<"else">> \o Statement(k[3]))
      [] is = "While" -> <<"while", "(">> \o Text(k[1]) \o <<")">> \o Statement(k[2])
      [] is = "DoWhile" ->
            <<"do">> \o Statement(k[1]) \o <<"while", "{">> \o Text(k[2]) \o <<"}", ";">>
      [] is = "For" ->
            <<"for", "(">> \o Separated(SubSeq(k, 1, 3), ";") \o <<")">> \o Statement(k[4])
      [] is = "Emit" -> <<"emit">> \o Text(k[1])
      [] is = "Decl" -> Separated(k, "=")
      [] is = "TupleDecl" -> <<"(">> \o Commas(Front(k)) \o <<")", "=">> \o Text(Last(k))
      [] is \in {"Tuple", "Paren"} -> <<"(">> \o Commas(k) \o <<")">>
      [] is = "Array" -> <<"[">> \o Commas(k) \o <<"]">>
      [] is = "Index" -> Text(k[1]) \o <<"[">> \o Text(k[2]) \o <<"]">>
      [] is = "Member" -> Separated(k, ".")
      [] is = "Call" -> Text(k[1]) \o <<"(">> \o Text(k[2]) \o <<")">>
      [] is = "Arguments" ->
            IF Having(k, "Named") = <<>> THEN Commas(k) ELSE <<"{">> \o Commas(k) \o <<"}">>
      [] is = "Named" -> Separated(k, ":")
      [] is = "Cast" -> IF k[1].is \in Elementary
                        THEN Text(k[1]) \o <<"(">> \o Text(k[2]) \o <<")">>
                        ELSE Separated(k, ":")

YulText(is, k) ==
    CASE is = "Object" -> <<"object", "'s'", "{">> \o Written(k) \o <<"}">>
      [] is = "Data" -> <<"data", "'s'", "'s'">>
      [] is = "Code" -> <<"code">> \o Text(k[1])
      [] is = "AsmBlock" -> <<"{">> \o Written(k) \o <<"}">>
      [] is = "List" -> Commas(k)
      [] is = "AsmVar" -> Separated(k, ":")
      [] is = "Let" -> <<"let">> \o Separated(k, ":=")
      [] is = "Assign" -> Commas(Front(k)) \o <<":=">> \o Text(Last(k))
      [] is = "AsmCall" -> Text(k[1]) \o <<"(">> \o Commas(Tail(k)) \o <<")">>
      [] is = "AsmIf" -> <<"if">> \o Written(k)
      [] is = "AsmFor" -> <<"for">> \o Written(k)
      [] is = "Switch" -> <<"switch">> \o Written(k)
      [] is = "Case" -> <<"case">> \o Written(k)
      [] is = "Default" -> <<"default">> \o Written(k)
      [] is = "AsmFunction" ->
            <<"function">> \o Text(k[1]) \o <<"(">> \o Text(k[2]) \o <<")">>
            \o (IF k[3].kids = <<>> THEN <<>> ELSE <<"->">> \o Text(k[3])) \o Text(k[4])

YulNode == {"Object", "Data", "Code", "AsmBlock", "List", "AsmVar", "Let", "Assign",
    "AsmCall", "AsmIf", "AsmFor", "Switch", "Case", "Default", "AsmFunction"}
SolidityNode == {"SourceUnit", "Contract", "Base", "Struct", "Event", "Using",
    "Override", "Function", "Parameters", "Types", "Specifiers", "Var", "AddressType", "Postfix",
    "Unary", "Binary", "Value", "ArrayType", "Mapping", "Block", "Return", "If",
    "While", "DoWhile", "For", "Emit", "Decl", "TupleDecl", "Tuple", "Paren", "Array",
    "Index", "Member", "Call", "Arguments", "Named", "Cast", "Number"}

Text(tree) ==
    IF tree = Null THEN <<>>
    ELSE IF tree.is \in SolidityNode THEN SolidityText(tree.is, tree.kids)
    ELSE IF tree.is \in YulNode THEN YulText(tree.is, tree.kids)
    ELSE <<tree.is>>

(***************************************************************************)
(* The part of the text the parser has read: what it has lexed, but for    *)
(* the tokens in the cache that are ahead and for Tok itself.              *)
(***************************************************************************)
Ahead == Len(SelectSeq(SubSeq(lexer.cached, lexer.at + 1, Len(lexer.cached)),
                       LAMBDA t : t # "eof"))
Read == SubSeq(source.text, 1, lexer.read - Ahead - (IF tok = "eof" THEN 0 ELSE 1))

(***************************************************************************)
(* Properties.                                                             *)
(***************************************************************************)
Ended == outcome # "parsing"

\* What is read of a statement includes its semicolon.
TextRead == IF source.start = "parseStatement" THEN Statement(result) ELSE Text(result)


\* An expression or a statement that brings no diagnostic has the tree of the
\* text that was read: no token of it was skipped, supplied or moved.  Left
\* out are new and ?, which are read and make nothing (Parser.cpp:1671 and
\* 1748), a declaration whose type is a path (Parser.cpp:1609), and crashes at
\* what is asserted of the text: that a cast is to an integer type, if not to
\* address, bytes or string (Parser.cpp:1869 and 245), that a list of types
\* follows in abi.decode (Parser.cpp:2003 and 1078), and, within a statement,
\* that a declaration has a name (Parser.cpp:945).
UnreportedIsRead ==
    LET unmade == {"new", "?"} \cap Range(source.text) # {}
        typedByPath == /\ result.is = "Decl" /\ Len(Read) > 1
                       /\ Read[1] \in Name /\ Read[2] \in {"[", "."}
        asserted == \/ "decode" \in Range(Read)
                    \/ \E i \in 1 .. Len(Read) - 1 :
                         Read[i] \in Elementary \ Castable /\ Read[i + 1] = "("
    IN Ended /\ ~reported /\ ~unmade =>
          /\ source.start = "parseExpression" => outcome = "done" \/ asserted
          /\ source.start \in {"parseExpression", "parseStatement"} /\ outcome = "done" =>
                typedByPath \/ TextRead = Read

\* Parsing ends, unless it is caught for good in one of the six loops that
\* wait for a closing token only: in five of them at the end of the file or at
\* type, which is reported and not consumed (Parser.cpp:1406, 1427, 1945,
\* ParseAsm.cpp:342, ParseYul.cpp:62; type is at Parser.cpp:1925), in the list
\* of types of abi.decode at a token that parseTypeName leaves where it is
\* (Parser.cpp:2005; 1035 and 1062).
Waiting == {"parseTuple", "parseInlineArray", "parseSimpleStatement", "parseYulObject",
    "parseAsmCall"}
Caught(call) ==
    \/ call.fun \in Waiting /\ tok \in {"eof", "type"}
    \/ call.fun = "parseTypesTupleExpr" /\ tok \in Unread \cup {"var", "function"}
ParseEnds == <>Ended \/ <>[](\E i \in DOMAIN stack : Caught(stack[i]))
=============================================================================
