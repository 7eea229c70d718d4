--------------------------- MODULE MCInheritNodes ---------------------------
EXTENDS InheritNodes

MCContracts == 1..5
MCNames == {"e", "f", "g", "x"}

\* With members: nothing inherited; two and three contracts in a row; two
\* heirs; the diamond; an order that C3 refuses.
MemberGraphs == {
  <<<<>>, <<>>, <<>>, <<>>, <<>>>>,
  <<<<>>, <<1>>, <<>>, <<>>, <<>>>>,
  <<<<>>, <<1>>, <<2>>, <<>>, <<>>>>,
  <<<<>>, <<1>>, <<1>>, <<>>, <<>>>>,
  <<<<>>, <<1>>, <<1>>, <<3, 2>>, <<>>>>,
  <<<<>>, <<1>>, <<1, 2>>, <<>>, <<>>>>}

\* Without: all graphs of three contracts with up to two bases each, a base
\* listed twice and cycles included, and all graphs of five without either in
\* which the contracts are numbered from the most basic one.
Lists(S) == {<<>>} \cup {<<x>> : x \in S} \cup {<<x, y>> : x, y \in S}
Distinct(S) == {l \in Lists(S) : IsInjective(l)}
MCGraphs ==
  {[c \in MCContracts |-> IF c <= 3 THEN g[c] ELSE <<>>] :
     g \in [1..3 -> Lists(1..3)]}
  \cup {<<<<>>, b, c, d, e>> :
          b \in Distinct(1..1), c \in Distinct(1..2), d \in Distinct(1..3),
          e \in Distinct(1..4)}

Fun(n, v, o, vis, mut) ==
  [kind |-> "fun", name |-> n, virtual |-> v, override |-> o, vis |-> vis,
   mut |-> mut]
Var(n)   == [kind |-> "var", name |-> n]
Event(n) == [kind |-> "event", name |-> n]

Program(k, c, m) == [kind |-> k, ctors |-> c, members |-> m]
Plain == [c \in MCContracts |-> "contract"]
Upto(s) == [c \in MCContracts |-> IF c \in DOMAIN s THEN s[c] ELSE <<>>]

AnyFun ==
  {<<Fun("f", v, o, vis, mut)>> : v, o \in BOOLEAN,
     vis \in {"external", "public", "private"},
     mut \in {"nonpayable", "view", "pure", "payable"}}

Public(n, v, o) == Fun(n, v, o, "public", "nonpayable")

\* Any function over any other.
Pairs == {Program(Plain, {}, Upto(<<a, b>>)) : a, b \in AnyFun}

\* Interfaces, with and without what they must not have.
InInterface ==
  {<<>>, <<Var("x")>>, <<Public("f", TRUE, TRUE)>>}
  \cup {<<Fun("f", v, TRUE, "external", "nonpayable")>> : v \in BOOLEAN}
WithInterfaces ==
  {Program([Plain EXCEPT ![1] = k, ![2] = l], s, Upto(<<a, b>>)) :
     k, l \in {"contract", "interface"}, s \in SUBSET {1, 2},
     a, b \in InInterface}

\* The contracts 1 to n may redeclare one name.
Shape ==
  {<<>>, <<Var("f")>>, <<Event("e")>>}
  \cup {<<Public("f", v, o)>> : v, o \in BOOLEAN}
Shapes(n) == {Program(Plain, {}, Upto(m)) : m \in [1..n -> Shape]}

\* Several members, in any order.
Both(n) == Public(n, TRUE, TRUE)
TwoNames ==
  {Program(Plain, {}, Upto(<<a, b, c>>)) : a, b, c \in
     {<<>>, <<Both("f")>>, <<Both("g")>>, <<Both("f"), Both("g")>>,
      <<Both("g"), Both("f")>>}}

Bare == Program(Plain, {}, Upto(<<>>))

\* A pair of functions needs one heir only; with nothing inherited, or with
\* everything refused, the few programs of TwoNames are enough.
OneHeir == <<<<>>, <<1>>, <<>>, <<>>, <<>>>>
Heirs   == {g \in MemberGraphs : g[2] = <<1>> /\ g[3] # <<1, 2>>}
Related(graph) == {c \in MCContracts : c = 1 \/ graph[c] # <<>>}

MCPrograms(graph) ==
  IF graph \notin MemberGraphs THEN {Bare}
  ELSE TwoNames
         \cup (IF graph \in Heirs THEN WithInterfaces \cup Shapes(Cardinality(Related(graph)))
             ELSE {})
         \cup (IF graph = OneHeir THEN Pairs ELSE {})
=============================================================================
