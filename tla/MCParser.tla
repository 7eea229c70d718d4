------------------------------ MODULE MCParser ------------------------------
(***************************************************************************)
(* Texts for TLC: the text of every tree of a family that covers the       *)
(* grammar, to be read back as that tree, and texts one token away from    *)
(* one, which nearly always are no texts of the language.                  *)
(***************************************************************************)
EXTENDS SyntaxText

CONSTANTS MaxOperators, MaxSample

T(t) == Token(t)
a == T("a")
b == T("b")
one == T("1")
uint == T("uint")
payable == Node("AddressType", <<T("address"), T("payable")>>)

(***************************************************************************)
(* All expressions of at most n of these operators over one operand, as    *)
(* the levels of OperatorPrecedence.h group them.                          *)
(***************************************************************************)
Operators == <<{"="}, {"||"}, {"=="}, {"+"}, {"**"}, {"*"}>>
RightAssociative == {"=", "**"}

RECURSIVE Grouped(_, _)
Grouped(level, n) ==
    IF level > Len(Operators) THEN IF n = 0 THEN {a} ELSE {}
    ELSE Grouped(level + 1, n) \cup
         UNION { { Node("Binary", <<l, T(o), r>>) :
                     o \in {p \in Operators[level] : p \in RightAssociative},
                     l \in Grouped(level + 1, i), r \in Grouped(level, n - 1 - i) }
                 \cup
                 { Node("Binary", <<l, T(o), r>>) :
                     o \in Operators[level] \ RightAssociative,
                     l \in Grouped(level, i), r \in Grouped(level + 1, n - 1 - i) }
                 : i \in 0 .. n - 1 }

(***************************************************************************)
(* Every form of an expression, and some inside each other.                *)
(***************************************************************************)
N(is, kids) == Node(is, kids)
Binary(l, o, r) == N("Binary", <<l, T(o), r>>)
Arguments == { N("Arguments", <<>>), N("Arguments", <<a, Binary(a, "=", b)>>),
               N("Arguments", <<N("Named", <<a, one>>), N("Named", <<b, a>>)>>) }
Suffixed(e) ==
    {N("Index", <<e, i>>) : i \in {one, Null, Binary(a, "+", b)}}
    \cup {N("Member", <<e, b>>)} \cup {N("Call", <<e, x>>) : x \in Arguments}
Decode == N("Call", << N("Member", <<T("abi"), T("decode")>>),
    N("Arguments", <<a, N("Types", <<uint, N("Types", <<N("ArrayType", <<b, one, Null>>)>>)>>)>>) >>)

Number == N("Number", <<one, T("ether")>>)
Primary == { a, one, T("'s'"), Number, N("Paren", <<Binary(a, "+", b)>>), N("Paren", <<N("Tuple", <<>>)>>),
    N("Tuple", <<>>), N("Tuple", <<a, Null>>), N("Tuple", <<Null, Null, a>>),
    N("Array", <<a, b>>), N("Array", <<>>), N("Cast", <<uint, Binary(a, "||", b)>>),
    N("Cast", <<T("address"), a>>), N("Cast", <<T("bytes"), T("'s'")>>) }
LeftHandSide == Primary \cup UNION {Suffixed(e) : e \in Primary}
    \cup UNION {Suffixed(e) : e \in Suffixed(a)} \cup {Decode}
Postfix == {N("Postfix", <<e, T("++")>>) : e \in LeftHandSide}
Unary == {N("Unary", <<T(o), e>>) : o \in {"-", "delete"}, e \in Suffixed(a) \cup Primary}
    \cup { N("Unary", <<T("!"), N("Unary", <<T("++"), a>>)>>),
           N("Unary", <<T("--"), N("Postfix", <<a, T("--")>>)>>) }
Expressions ==
    UNION {Grouped(1, n) : n \in 0 .. MaxOperators} \cup LeftHandSide \cup Postfix \cup Unary
    \cup {Binary(e, "+", e) : e \in Suffixed(a) \cup Unary}

(***************************************************************************)
(* Statements.  A parenthesis at the start of one opens a tuple.           *)
(***************************************************************************)
Var(kids) == N("Var", kids)
Array(t, n, where) == N("ArrayType", <<t, n, where>>)
Mapping == N("Mapping", <<uint, Array(b, Null, Null)>>)
uintA == Var(<<uint, a>>)

Simple ==
    LET written == {e \in Suffixed(a) : e.is # "Index" \/ e.kids[2] # Null}
    IN written \cup {e \in UNION {Suffixed(e) : e \in written} :
                        e.is # "Index" \/ e.kids[2] # Null}
    \cup { a, Binary(a, "=", b), Binary(N("Index", <<a, one>>), "+=", one),
           N("Postfix", <<N("Member", <<N("Index", <<a, b>>), b>>), T("++")>>),
           N("Unary", <<T("delete"), N("Index", <<a, one>>)>>),
           Binary(N("Tuple", <<a, b>>), "=", N("Tuple", <<b, a>>)),
           Binary(N("Tuple", <<Null, N("Index", <<a, one>>), Null>>), "=", a),
           Binary(N("Tuple", <<N("Member", <<a, b>>)>>), "*", N("Paren", <<a>>)) }
    \cup {N("Decl", <<Var(v)>>) : v \in
            { <<uint, a>>, <<b, a>>, <<b, T("memory"), a>>, <<uint, T("storage"), a>>,
              <<Array(uint, one, Null), a>>, <<Array(uint, Null, T("memory")), a>>,
              <<Array(Array(uint, Null, Null), one, T("storage")), a>>,
              <<Mapping, T("storage"), a>>, <<payable, a>>, <<T("address"), a>>,
              <<Array(payable, Null, T("memory")), a>>, <<T("bytes32"), a>> }}
    \cup { N("Decl", <<uintA, Binary(a, "==", b)>>),
           N("Decl", <<Var(<<Array(uint, one, T("memory")), b>>), N("Array", <<a, b>>)>>),
           N("TupleDecl", <<uintA, a>>),
           N("TupleDecl", <<Null, Null, uintA, Null, Var(<<b, T("memory"), b>>), a>>),
           N("TupleDecl", <<Var(<<Array(uint, one, Null), a>>), uintA, Null, a>>) }

Assign == Binary(a, "=", one)
IfThen(c, s) == N("If", <<c, s>>)
Compound ==
    { IfThen(a, b), IfThen(a, N("If", <<b, Assign, a>>)), N("If", <<a, N("Block", <<b>>), IfThen(b, a)>>),
      N("While", <<Binary(a, "==", b), N("Block", <<T("break"), T("continue")>>)>>),
      N("While", <<a, N("While", <<b, Assign>>)>>),
      N("DoWhile", <<Assign, Binary(a, "||", b)>>),
      N("DoWhile", <<N("Block", <<>>), a>>),
      N("For", <<Null, Null, Null, N("Block", <<>>)>>),
      N("For", <<N("Decl", <<uintA, one>>), Binary(a, "==", one),
                 N("Postfix", <<a, T("++")>>), IfThen(a, T("break"))>>),
      N("For", <<Assign, Null, Assign, Assign>>),
      N("Block", <<a, N("Block", <<Assign, T("return")>>), N("Return", <<N("Tuple", <<a, b>>)>>)>>),
      N("Emit", <<N("Call", <<N("Member", <<a, b>>), N("Arguments", <<one, a>>)>>)>>),
      N("Block", <<N("Emit", <<N("Call", <<a, N("Arguments", <<>>)>>)>>), T("return")>>) }
Statements == Simple \cup Compound \cup {T("return"), N("Return", <<Assign>>)}

(***************************************************************************)
(* Contracts and source units.                                             *)
(***************************************************************************)
Parameters(v) == N("Parameters", v)
Specifiers(s) == N("Specifiers", [i \in DOMAIN s |-> T(s[i])])
Block(s) == N("Block", s)
Function(named, parameters, specifiers, returns, block) ==
    N("Function", <<T(named), Parameters(parameters), specifiers, Parameters(returns), block>>)
Parts == {
    Function("a", <<>>, Specifiers(<<>>), <<>>, Null),
    Function("a", <<uintA, Var(<<b, T("memory")>>)>>, Specifiers(<<"public", "view">>),
             <<Var(<<uint>>)>>, Block(<<N("Return", <<a>>)>>)),
    Function("b", <<>>, N("Specifiers", <<T("external"), T("virtual"), N("Override", <<>>)>>),
             <<uintA, Var(<<uint, b>>)>>, Block(<<>>)),
    Function("constructor", <<uintA>>, Specifiers(<<"public">>), <<>>, Block(<<Assign>>)),
    Function("fallback", <<>>, Specifiers(<<"external", "payable">>), <<>>, Block(<<>>)),
    Var(<<uint, T("public"), T("constant"), a, N("Value", <<one>>)>>),
    Var(<<payable, T("public"), a, N("Value", <<N("Cast", <<T("address"), one>>)>>)>>),
    Function("b", <<Var(<<payable, a>>), Var(<<T("bool")>>)>>, Specifiers(<<"payable">>),
             <<Var(<<payable>>)>>, Block(<<>>)),
    Var(<<Mapping, T("private"), a>>), Var(<<Array(b, one, Null), b>>), Var(<<uint, a>>),
    N("Struct", <<a, uint, a, Array(uint, Null, Null), b>>), N("Struct", <<b>>),
    N("Event", <<a, Parameters(<<>>)>>),
    N("Event", <<b, Parameters(<<Var(<<uint, T("indexed"), a>>), Var(<<uint>>)>>), T("anonymous")>>),
    N("Using", <<N("IdentifierPath", <<a>>), uint>>),
    N("Using", <<N("IdentifierPath", <<a, b>>)>>) }
Contract(kind, bases, parts) == N("Contract", kind \o <<a>> \o bases \o parts)
Large == Contract(<<T("abstract"), T("contract")>>,
    <<N("Base", <<b>>), N("Base", <<a, N("Arguments", <<one, a>>)>>)>>,
    <<Var(<<uint, a>>), Function("a", <<>>, Specifiers(<<>>), <<>>, Block(<<Assign>>)),
      N("Event", <<a, Parameters(<<>>)>>)>>)
Contracts ==
    {Contract(<<T("contract")>>, <<>>, <<p>>) : p \in Parts} \cup
    {Large, Contract(<<T("interface")>>, <<N("Base", <<b>>)>>, <<>>)}

(***************************************************************************)
(* Yul.                                                                    *)
(***************************************************************************)
List(v) == N("List", [i \in DOMAIN v |-> N("AsmVar", v[i])])
AsmCall(f, args) == N("AsmCall", <<f>> \o args)
AsmBlock(s) == N("AsmBlock", s)
YulStatements == {
    a, T("leave"), T("break"), T("continue"), AsmCall(a, <<>>),
    AsmCall(a, <<one, AsmCall(b, <<a>>), N("Cast", <<one, uint>>)>>),
    AsmCall(T("return"), <<a, b>>), AsmCall(T("byte"), <<one, AsmCall(T("address"), <<>>)>>),
    N("Assign", <<a, N("Cast", <<T("true"), T("bool")>>)>>),
    AsmBlock(<<AsmBlock(<<>>), AsmCall(a, <<>>)>>),
    N("Let", <<List(<< <<a>> >>)>>),
    N("Let", <<List(<< <<a, uint>>, <<b>> >>), AsmCall(a, <<one>>)>>),
    N("Assign", <<a, one>>), N("Assign", <<a, b, AsmCall(a, <<b>>)>>),
    N("AsmIf", <<AsmCall(a, <<>>), AsmBlock(<<N("Assign", <<a, one>>)>>)>>),
    N("AsmFor", <<AsmBlock(<<N("Let", <<List(<< <<a>> >>), one>>)>>), a,
                  AsmBlock(<<>>), AsmBlock(<<T("break")>>)>>),
    N("Switch", <<a, N("Case", <<one, AsmBlock(<<>>)>>),
                  N("Case", <<N("Cast", <<one, uint>>), AsmBlock(<<>>)>>)>>),
    N("Switch", <<AsmCall(a, <<b>>), N("Case", <<T("'s'"), AsmBlock(<<a>>)>>),
                  N("Default", <<AsmBlock(<<b>>)>>)>>),
    N("Switch", <<a, N("Default", <<AsmBlock(<<>>)>>)>>),
    N("AsmFunction", <<a, List(<<>>), List(<<>>), AsmBlock(<<T("leave")>>)>>),
    N("AsmFunction", <<a, List(<< <<a>>, <<b, uint>> >>), List(<< <<b>> >>), AsmBlock(<<>>)>>) }
Code == N("Code", <<AsmBlock(<<a, N("Assign", <<a, one>>)>>)>>)
Objects == { N("Object", <<Code>>),
             N("Object", <<Code, N("Object", <<Code>>), N("Data", <<>>)>>) }

(***************************************************************************)
(* The texts.                                                              *)
(***************************************************************************)
Of(start, tree) == [start |-> start, tree |-> tree]
Roots ==
    {Of("parseExpression", e) : e \in Expressions} \cup
    {Of("parseStatement", s) : s \in Statements} \cup
    {Of("parseContractDefinition", c) : c \in Contracts} \cup
    {Of("parse", N("SourceUnit", <<Large, Contract(<<T("library")>>, <<>>, <<>>)>>))} \cup
    {Of("parseAsmStatement", s) : s \in YulStatements} \cup
    {Of("parseYul", N("SourceUnit", <<o>>)) : o \in Objects \cup {AsmBlock(<<a>>)}}

TextOf(root) ==
    IF root.start = "parseStatement" THEN Statement(root.tree) ELSE Text(root.tree)

(***************************************************************************)
(* Texts one token away from a text.                                       *)
(***************************************************************************)
Samples == {
    Of("parseExpression", Binary(N("Unary", <<T("-"), a>>), "+", Binary(b, "*", one))),
    Of("parseExpression", N("Call", <<N("Member", <<a, b>>), N("Arguments", <<a, one>>)>>)),
    Of("parseExpression", N("Call", <<a, N("Arguments", <<N("Named", <<a, one>>)>>)>>)),
    Of("parseExpression", Binary(N("Tuple", <<a, b>>), "=", N("Array", <<a, b>>))),
    Of("parseExpression", N("Cast", <<uint, N("Postfix", <<N("Index", <<a, one>>), T("++")>>)>>)),
    Of("parseExpression", N("Cast", <<T("bool"), a>>)), Of("parseExpression", Decode),
    Of("parseStatement", N("Decl", <<Var(<<payable, a>>), b>>)),
    Of("parseStatement", Binary(N("Member", <<N("Index", <<a, one>>), b>>), "=", b)),
    Of("parseStatement", N("TupleDecl", <<uintA, Null, Var(<<b, T("memory"), b>>), a>>)),
    Of("parseStatement", N("Decl", <<Var(<<Array(uint, one, T("memory")), b>>), a>>)),
    Of("parseStatement", N("If", <<a, N("Block", <<b>>), Assign>>)),
    Of("parseStatement", N("For", <<Assign, a, N("Postfix", <<a, T("++")>>), T("break")>>)),
    Of("parseContractDefinition",
       Contract(<<T("contract")>>, <<>>,
         <<Function("a", <<uintA, Var(<<payable>>)>>, Specifiers(<<"public">>), <<>>, Block(<<a>>)),
           N("Struct", <<a, uint, b>>)>>)),
    Of("parseAsmStatement", N("Assign", <<a, b, AsmCall(a, <<b, one>>)>>)),
    Of("parseAsmStatement", N("Switch", <<a, N("Case", <<one, AsmBlock(<<>>)>>)>>)),
    Of("parseYul", N("SourceUnit", <<N("Object", <<Code, N("Data", <<>>)>>)>>)) }
Typos == {")", "]", "}", ",", ";", "?", "type", "new", "a", "var", "byte"}

Misspelt(t) ==
    {RemoveAt(t, i) : i \in DOMAIN t}
    \cup {InsertAt(t, i, x) : i \in 1 .. Len(t) + 1, x \in Typos}
    \cup {SubSeq(t, 1, i) : i \in 1 .. Len(t)}

Shorter == {r \in Roots : r.start \in {"parseExpression", "parseStatement"}
                         /\ Len(TextOf(r)) <= MaxSample}

MCSources ==
    {[start |-> r.start, text |-> TextOf(r), tree |-> r.tree] : r \in Roots}
    \cup UNION { {[start |-> r.start, text |-> t, tree |-> Null] : t \in Misspelt(TextOf(r))}
                 : r \in Samples \cup Shorter }
=============================================================================
