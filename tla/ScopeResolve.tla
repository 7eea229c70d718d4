---------------------------- MODULE ScopeResolve ----------------------------
(***************************************************************************)
(* Scope and the part of Sema around it: what Sema::PushScope, PopScope,   *)
(* addDecl and the two visits of identifiers do to the stack of scopes.    *)
(* An identifier is bound where it is visited if an open scope declares    *)
(* it; otherwise it waits, and closing scopes pass it outwards until one   *)
(* declares it or none is left.                                            *)
(*                                                                         *)
(* `visit` is the sequence of these calls that a walk over a source unit   *)
(* makes (ScopeWalk).  Declarations and identifiers are known by the place *)
(* of their node, `at`; the body of an inherited function is visited once  *)
(* more for every heir, so a place may come more than once.                *)
(***************************************************************************)
EXTENDS Naturals, Sequences, FiniteSets

CONSTANTS
  Names,   \* names of declarations
  Places,  \* places of nodes in the source
  Visits,  \* bound: the walks considered
  NoDecl   \* no declaration

Calls ==
  [op : {"push"}, fun : BOOLEAN]
  \cup [op : {"pop"}]
  \cup [op : {"decl"}, name : Names, at : Places]
  \cup [op : {"use"}, name : Names, at : Places, call : BOOLEAN]

ASSUME VisitsAssumption == Visits \subseteq Seq(Calls)
ASSUME NoDeclAssumption == NoDecl \notin Places

\* A SemaScope, and so the walk, closes every scope that it opens.
ASSUME ScopesCloseAssumption ==
  \A v \in Visits :
    Cardinality({p \in DOMAIN v : v[p].op = "push"})
      = Cardinality({p \in DOMAIN v : v[p].op = "pop"})

VARIABLES
  visit,     \* the walk
  pos,       \* the next call of it
  scopes,    \* Scopes; the parent of a scope is the one below
  bound,     \* the place of an identifier -> the place of its declaration
  reported,  \* the identifiers of err_undeclared_var_use
  aborted    \* an assertion failed

vars == <<visit, pos, scopes, bound, reported, aborted>>

Positions(op) == {p \in DOMAIN visit : visit[p].op = op}
UsePlaces == {visit[p].at : p \in Positions("use")}

\* A scope holds positions of the walk: of the declarations that it took in
\* and of the identifiers in its two lists.
Scope(fun) ==
  [fun |-> fun, decls |-> {}, unresolved |-> {}, external |-> {}]

Here    == visit[pos]
Current == Len(scopes)

\* Decls.find
Find(i, name) == {d \in scopes[i].decls : visit[d].name = name}

\* Scope::lookupName, from the innermost scope outwards.
Innermost(S) == {q \in S : \A r \in S : r <= q}
Declaring(name) == {i \in DOMAIN scopes : Find(i, name) # {}}
Lookup(name) == UNION {Find(i, name) : i \in Innermost(Declaring(name))}

\* Nothing but a push comes when no scope is open.
Doing(op) ==
  /\ ~aborted
  /\ pos \in DOMAIN visit /\ Here.op = op
  /\ scopes = <<>> => op = "push"

Done == pos' = pos + 1 /\ UNCHANGED <<visit, aborted>>

-----------------------------------------------------------------------------
PushScope ==
  /\ Doing("push")
  /\ scopes' = Append(scopes, Scope(Here.fun))
  /\ UNCHANGED <<bound, reported>>
  /\ Done

\* try_emplace: the first declaration of a name stays, and nobody looks at
\* the result.
AddDecl ==
  /\ Doing("decl")
  /\ scopes' = [scopes EXCEPT ![Current].decls =
                  IF Find(Current, Here.name) = {} THEN @ \cup {pos} ELSE @]
  /\ UNCHANGED <<bound, reported>>
  /\ Done

Resolved(p) == bound[visit[p].at] # NoDecl

UseResolved ==
  /\ Doing("use") /\ Resolved(pos)
  /\ UNCHANGED <<scopes, bound, reported>>
  /\ Done

\* Mutant: isResolved is not asked.
UseFoundAgain ==
  /\ Doing("use")
  /\ \E d \in Lookup(Here.name) :
       bound' = [bound EXCEPT ![Here.at] = visit[d].at]
  /\ UNCHANGED <<scopes, reported>>
  /\ Done

UseFound ==
  /\ Doing("use") /\ ~Resolved(pos)
  /\ \E d \in Lookup(Here.name) :
       bound' = [bound EXCEPT ![Here.at] = visit[d].at]
  /\ UNCHANGED <<scopes, reported>>
  /\ Done

\* addUnresolved for the callee of a Yul call, addUnresolvedExternal
\* otherwise: such a name may only be declared outside the function.
UseLater ==
  /\ Doing("use") /\ ~Resolved(pos)
  /\ Lookup(Here.name) = {}
  /\ scopes' = IF Here.call
               THEN [scopes EXCEPT ![Current].unresolved = @ \cup {pos}]
               ELSE [scopes EXCEPT ![Current].external = @ \cup {pos}]
  /\ UNCHANGED <<bound, reported>>
  /\ Done

-----------------------------------------------------------------------------
(* PopScope: Scope::resolveIdentifiers, then the scope is gone. *)

Closing == scopes[Current]

Founded == {p \in Closing.unresolved : Find(Current, visit[p].name) # {}}

\* assert(!I->isResolved()): it was bound meanwhile, or it is bound by an
\* earlier element of the list.
AssertionHolds ==
  /\ \A p \in Closing.unresolved : ~Resolved(p)
  /\ \A p \in Founded, q \in Closing.unresolved :
       visit[p].at = visit[q].at => p = q

AssertionFails ==
  /\ Doing("pop") /\ ~AssertionHolds
  /\ aborted' = TRUE
  /\ UNCHANGED <<visit, pos, scopes, bound, reported>>

DeclOf(p) == visit[CHOOSE d \in Find(Current, visit[p].name) : TRUE].at

BindFounded ==
  bound' = [x \in DOMAIN bound |->
              IF \E p \in Founded : visit[p].at = x
              THEN DeclOf(CHOOSE p \in Founded : visit[p].at = x)
              ELSE bound[x]]

\* What the parent's lists get.
ToUnresolved(s) ==
  (s.unresolved \ Founded) \cup (IF s.fun THEN s.external ELSE {})
ToExternal(s) == IF s.fun THEN {} ELSE s.external

\* Mutant: what may be declared outside the function is dropped with it.
PopInnerForgets ==
  /\ Doing("pop") /\ Current > 1 /\ AssertionHolds
  /\ BindFounded
  /\ scopes' = [SubSeq(scopes, 1, Current - 1) EXCEPT
                  ![Current - 1].unresolved = @ \cup (Closing.unresolved \ Founded),
                  ![Current - 1].external = @ \cup ToExternal(Closing)]
  /\ UNCHANGED reported
  /\ Done

\* Mutant: they stay external.
PopInnerStaysExternal ==
  /\ Doing("pop") /\ Current > 1 /\ AssertionHolds
  /\ BindFounded
  /\ scopes' = [SubSeq(scopes, 1, Current - 1) EXCEPT
                  ![Current - 1].unresolved = @ \cup (Closing.unresolved \ Founded),
                  ![Current - 1].external = @ \cup Closing.external]
  /\ UNCHANGED reported
  /\ Done

PopInner ==
  /\ Doing("pop") /\ Current > 1 /\ AssertionHolds
  /\ BindFounded
  /\ scopes' = [SubSeq(scopes, 1, Current - 1) EXCEPT
                  ![Current - 1].unresolved = @ \cup ToUnresolved(Closing),
                  ![Current - 1].external = @ \cup ToExternal(Closing)]
  /\ UNCHANGED reported
  /\ Done

\* No parent: Sema::resolveIdentifiers reports what is left.
PopOutermost ==
  /\ Doing("pop") /\ Current = 1 /\ AssertionHolds
  /\ BindFounded
  /\ scopes' = <<>>
  /\ reported' = reported \cup
       {visit[p].at : p \in (Closing.unresolved \ Founded) \cup Closing.external}
  /\ Done

Over == (aborted \/ pos \notin DOMAIN visit) /\ UNCHANGED vars

-----------------------------------------------------------------------------
Init ==
  /\ visit \in Visits
  /\ pos = 1
  /\ scopes = <<>>
  /\ bound = [x \in UsePlaces |-> NoDecl]
  /\ reported = {}
  /\ aborted = FALSE

Next ==
  \/ PushScope \/ AddDecl \/ UseResolved \/ UseFound \/ UseLater
  \/ PopInner \/ PopOutermost \/ AssertionFails \/ Over

Spec == Init /\ [][Next]_vars

-----------------------------------------------------------------------------
(* Properties. *)

Walked == ~aborted /\ pos \notin DOMAIN visit

ScopeType ==
  [fun : BOOLEAN, decls : SUBSET Nat, unresolved : SUBSET Nat,
   external : SUBSET Nat]

\* The types; the lists hold what lies behind the walk, and a scope has one
\* declaration of a name at most, so that a lookup has one result.
TypeOK ==
  /\ visit \in Seq(Calls)
  /\ pos \in Nat \ {0}
  /\ scopes \in Seq(ScopeType)
  /\ \A i \in DOMAIN scopes :
       /\ scopes[i].decls \subseteq {d \in Positions("decl") : d < pos}
       /\ scopes[i].unresolved \cup scopes[i].external
            \subseteq {p \in Positions("use") : p < pos}
       /\ \A d, e \in scopes[i].decls : visit[d].name = visit[e].name => d = e
  /\ bound \in [UsePlaces -> Places \cup {NoDecl}]
  /\ reported \subseteq UsePlaces
  /\ aborted \in BOOLEAN

Waiting(p) ==
  \E i \in DOMAIN scopes : p \in scopes[i].unresolved \cup scopes[i].external

\* Every visit of an identifier is accounted for: the identifier is bound or
\* reported, or this very visit waits in a list of an open scope.  So no
\* identifier reaches code generation without a declaration unless an error
\* was reported.
NothingIsLost ==
  \A p \in Positions("use") :
    p < pos => Resolved(p) \/ visit[p].at \in reported \/ Waiting(p)

\* What an identifier means does not change once it is known; in particular
\* the heirs that visit an inherited body do not bind it to their own
\* declarations.
BindingsAreFinal ==
  [][\A x \in UsePlaces : bound[x] # NoDecl => bound'[x] = bound[x]]_vars

\* The scopes as the text has them: q is the push of a scope around p.
Encloses(q, p) ==
  /\ visit[q].op = "push" /\ q < p
  /\ \A r \in q..p : Cardinality({i \in q..r : visit[i].op = "push"})
                     > Cardinality({i \in q..r : visit[i].op = "pop"})
Around(p) == {q \in Positions("push") : Encloses(q, p)}
Earliest(S)  == {q \in S : \A r \in S : q <= r}
DeclsIn(q, name) ==
  {d \in Positions("decl") : visit[d].name = name /\ q \in Innermost(Around(d))}

Early(p) ==
  {q \in Around(p) : \E d \in DeclsIn(q, visit[p].name) : d < p}
Late(p) ==
  {q \in Around(p) :
     /\ DeclsIn(q, visit[p].name) # {}
     /\ visit[p].call \/ \E f \in Around(p) : visit[f].fun /\ q < f}

Meant(p) ==
  LET S == IF Early(p) # {} THEN Early(p) ELSE Late(p)
  IN UNION {Earliest(DeclsIn(q, visit[p].name)) : q \in Innermost(S)}

VisitedOnce ==
  \A p, q \in Positions("use") : visit[p].at = visit[q].at => p = q

\* The rule that the lists and their way outwards amount to, read off the
\* text: a name means the first declaration in the innermost scope that
\* declares it before the use; if there is none, the first in the innermost
\* scope that declares it at all, for all but Yul calls only outside of the
\* function; and if there is none either it is undeclared.
FollowsScopeRules ==
  Walked /\ VisitedOnce =>
    \A p \in Positions("use") :
      IF Meant(p) = {} THEN visit[p].at \in reported
      ELSE \E d \in Meant(p) : bound[visit[p].at] = visit[d].at

\* assert(!I->isResolved()) in Scope::resolveIdentifiers.
AssertionNeverFails == ~aborted

\* A use behind declarations of its name means the latest of those around it.
LatestDeclarationIsMeant ==
  Walked /\ VisitedOnce =>
    \A p \in Positions("use") :
      \A q \in Innermost(Early(p)) :
        \E d \in Innermost({x \in DeclsIn(q, visit[p].name) : x < p}) :
          bound[visit[p].at] = visit[d].at
=============================================================================
