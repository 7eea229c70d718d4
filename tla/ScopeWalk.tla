----------------------------- MODULE ScopeWalk ------------------------------
(***************************************************************************)
(* The walk of DeclIdentifierResolver and IdentifierResolver over a source *)
(* unit, as the sequence of their calls of Sema: which constructs open a   *)
(* scope, and in which order a construct declares its names and visits its *)
(* parts.  Expressions are the identifiers in them.                        *)
(***************************************************************************)
EXTENDS Naturals, SequencesExt

Push(fun)  == [op |-> "push", fun |-> fun]
Pop        == [op |-> "pop"]
Decl(n)    == [op |-> "decl", name |-> n]
Use(n, call) == [op |-> "use", name |-> n, call |-> call]

\* Sema::SemaScope around some calls.
Scoped(calls)     == <<Push(FALSE)>> \o calls \o <<Pop>>
InFunction(calls) == <<Push(TRUE)>> \o calls \o <<Pop>>
Declare(names)    == [i \in DOMAIN names |-> Decl(names[i])]

RECURSIVE Calls1(_)

All(trees) == FlattenSeq([i \in DOMAIN trees |-> Calls1(trees[i])])

\* A block of Solidity has no scope, its HasScope being TRUE; nor has the
\* whole of a for statement.
VisitFor(t) == All(t.init) \o All(t.cond) \o All(t.loop) \o Scoped(All(t.body))

\* The variables are declared before the initial value is visited.
VisitDeclStmt(t) == Declare(t.names) \o All(t.value)

\* Functions of either language: arguments and results in a scope of their
\* own, around that of the body.
VisitFunction(t) ==
  <<Decl(t.name)>> \o Scoped(Declare(t.params) \o InFunction(All(t.body)))

VisitAsmFor(t) ==
  Scoped(All(t.init) \o All(t.cond) \o All(t.loop) \o Scoped(All(t.body)))

VisitAsmSwitch(t) == Scoped(All(t.cond) \o All(t.cases))

\* An event's parameters are declared where the event is.
VisitEvent(t) == <<Decl(t.name)>> \o Declare(t.params)

VisitStateVar(t) == <<Decl(t.name)>> \o All(t.value)

Calls1(t) ==
  CASE t.k = "id"        -> <<Use(t.name, FALSE)>>
    [] t.k = "callee"    -> <<Use(t.name, TRUE)>>
    [] t.k = "declstmt"  -> VisitDeclStmt(t)
    [] t.k = "block"     -> All(t.body)
    [] t.k = "asmblock"  -> Scoped(All(t.body))
    [] t.k = "while"     -> All(t.cond) \o Scoped(All(t.body))
    [] t.k = "for"       -> VisitFor(t)
    [] t.k = "asmfor"    -> VisitAsmFor(t)
    [] t.k = "asmswitch" -> VisitAsmSwitch(t)
    [] t.k = "function"  -> VisitFunction(t)
    [] t.k = "event"     -> VisitEvent(t)
    [] t.k = "statevar"  -> VisitStateVar(t)

-----------------------------------------------------------------------------
(* Source units.  A place is contract, member and call within the member.  *)

Located(calls, place) ==
  [k \in DOMAIN calls |->
     IF calls[k].op \in {"decl", "use"}
     THEN [at |-> Append(place, k)] @@ calls[k] ELSE calls[k]]

Member(unit, m) == Located(Calls1(unit[m[1]].members[m[2]]), m)

\* The members handed down by the bases come before those of the contract.
\* The body of an inherited function is the body of the base's declaration.
VisitContract(unit, c) ==
  LET own == [i \in DOMAIN unit[c].members |-> <<c, i>>]
      all == unit[c].inherited \o own
  IN Located(<<Decl(unit[c].name)>>, <<c, 0>>)
     \o Scoped(FlattenSeq([i \in DOMAIN all |-> Member(unit, all[i])]))

SolidityUnit(unit) ==
  Scoped(FlattenSeq([c \in DOMAIN unit |-> VisitContract(unit, c)]))

\* The code of a Yul object is an asm block.
YulUnit(codes) ==
  Scoped(FlattenSeq([c \in DOMAIN codes |->
    Located(Calls1([k |-> "asmblock", body |-> codes[c]]), <<c, 1>>)]))
=============================================================================
