--------------------------- MODULE MCScopeResolve ---------------------------
EXTENDS ScopeResolve, ScopeWalk

Id(n)     == [k |-> "id", name |-> n]
Callee(n) == [k |-> "callee", name |-> n]
Let(n, v) == [k |-> "declstmt", names |-> <<n>>, value |-> v]
Fun(n, ps, b)  == [k |-> "function", name |-> n, params |-> ps, body |-> b]
Var(n, v)      == [k |-> "statevar", name |-> n, value |-> v]
Event(n, ps)   == [k |-> "event", name |-> n, params |-> ps]
For(i, b)      == [k |-> "for", init |-> i, cond |-> <<Id("x")>>,
                   loop |-> <<Id("x")>>, body |-> b]
Contract(n, inh, ms) == [name |-> n, inherited |-> inh, members |-> ms]

UptoLen(S, n) == UNION {[1..k -> S] : k \in 0..n}

(* One contract: every kind of statement, names declared inside, outside,  *)
(* before, later, twice and never.                                         *)
Leaves == {Id("x"), Id("g"), Let("x", <<>>), Let("x", <<Id("x")>>)}
Nested ==
  {[k |-> "block", body |-> <<l>>] : l \in Leaves}
  \cup {[k |-> "while", cond |-> <<Id("x")>>, body |-> <<l>>] : l \in Leaves}
  \cup {For(<<Let("x", <<>>)>>, <<l>>) : l \in Leaves}
Bodies == UptoLen(Leaves \cup Nested, 2)
Others == {<<>>, <<Var("x", <<>>)>>, <<Var("x", <<Id("g")>>)>>,
           <<Event("g", <<"x">>)>>, <<Fun("g", <<>>, <<Id("f")>>)>>,
           <<Event("e", <<"x">>), Var("x", <<>>)>>}
OneContract ==
  {<<Contract("A", <<>>, o \o <<Fun("f", ps, b)>> \o q)>> :
     o \in Others, ps \in {<<>>, <<"x">>}, b \in Bodies,
     q \in {<<>>, <<Var("x", <<>>), Fun("g", <<>>, <<>>)>>}}

(* A base, an heir that may redeclare g, and a contract that the base      *)
(* names, in every order.                                                  *)
BaseBody == {<<Id(n)>> : n \in {"g", "A", "h"}} \cup {<<Id("g"), Id("A")>>}
Base(b)  == Contract("B", <<>>, <<Fun("f", <<>>, b), Fun("g", <<>>, <<>>)>>)
Heir(n, b, own) ==
  Contract(n, IF own THEN <<<<b, 1>>>> ELSE <<<<b, 1>>, <<b, 2>>>>,
           <<Fun(IF own THEN "g" ELSE "h", <<>>, <<Id("f")>>)>>)
Other == Contract("A", <<>>, <<>>)
\* Another base, with a member of the name of the contract.
Second == Contract("C", <<>>, <<Fun("A", <<>>, <<>>)>>)
TwoBases(c, b) == Contract("D", <<<<c, 1>>, <<b, 1>>, <<b, 2>>>>, <<>>)
Inherited ==
  UNION {{<<Base(b), Heir("D", 1, w), Other>>, <<Base(b), Other, Heir("D", 1, w)>>,
          <<Other, Base(b), Heir("D", 2, w)>>, <<Heir("D", 2, w), Base(b), Other>>,
          <<Heir("D", 3, w), Other, Base(b)>>, <<Other, Heir("D", 3, w), Base(b)>>,
          <<Base(b), Heir("D", 1, w), Heir("E", 1, ~w)>>,
          <<Other, Base(b), Second, TwoBases(3, 2)>>,
          <<Base(b), Second, TwoBases(2, 1), Other>>} :
            b \in BaseBody, w \in BOOLEAN}

(* Yul code. *)
YulLeaves == {Id("x"), Callee("f"), Let("x", <<>>), Let("x", <<Callee("f")>>)}
YulNested ==
  {Fun("f", ps, <<l>>) : ps \in {<<>>, <<"x">>}, l \in YulLeaves}
  \cup {[k |-> "asmblock", body |-> <<l>>] : l \in YulLeaves}
  \cup {[k |-> "asmblock", body |-> <<l, Fun("f", <<>>, <<>>)>>] : l \in YulLeaves}
  \cup {[k |-> "asmfor", init |-> <<Let("x", <<>>)>>, cond |-> <<Id("x")>>,
         loop |-> <<l>>, body |-> <<Callee("f")>>] : l \in YulLeaves}
  \cup {[k |-> "asmswitch", cond |-> <<l>>,
         cases |-> <<[k |-> "asmblock", body |-> <<Id("x")>>]>>] : l \in YulLeaves}
Yul ==
  {<<b>> : b \in UptoLen(YulLeaves \cup YulNested, 2)}
  \cup {<<<<a, b, c>>>> : a, c \in YulLeaves, b \in YulNested}

MCVisits ==
  {SolidityUnit(u) : u \in OneContract \cup Inherited} \cup {YulUnit(u) : u \in Yul}
MCNames  == {"x", "f", "g", "h", "e", "A", "B", "C", "D", "E"}
MCPlaces == Seq(Nat)
=============================================================================
