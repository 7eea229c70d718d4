------------------------- MODULE ScopeResolveProofs -------------------------
(***************************************************************************)
(* What TLAPS proves about ScopeResolve for all walks.                     *)
(***************************************************************************)
EXTENDS ScopeResolve, Integers, SequenceLemmas

\* What the calls of a walk carry.
LEMMA CallFields ==
  ASSUME visit \in Seq(Calls), NEW p \in DOMAIN visit
  PROVE  /\ visit[p].op = "push" => visit[p].fun \in BOOLEAN
         /\ visit[p].op = "decl" => visit[p].name \in Names /\ visit[p].at \in Places
         /\ visit[p].op = "use" => visit[p].name \in Names /\ visit[p].at \in Places
<1>1. visit[p] \in Calls
  OBVIOUS
<1>2. QED
  BY <1>1 DEF Calls

LEMMA DomainIsNat ==
  ASSUME visit \in Seq(Calls)
  PROVE  DOMAIN visit \subseteq Nat \ {0}
  OBVIOUS

\* What a lookup finds are declarations that the walk has passed.
LEMMA LookupProps ==
  ASSUME TypeOK, NEW name, NEW d \in Lookup(name)
  PROVE  d \in Positions("decl")
  BY DEF Lookup, Declaring, Innermost, Find, TypeOK

\* The stack below the innermost scope.
LEMMA BelowProps ==
  ASSUME TypeOK, Current > 1
  PROVE  /\ SubSeq(scopes, 1, Current - 1) \in Seq(ScopeType)
         /\ DOMAIN SubSeq(scopes, 1, Current - 1) = 1..(Current - 1)
         /\ Current - 1 \in 1..(Current - 1)
         /\ Current \in DOMAIN scopes
         /\ \A i \in 1..(Current - 1) :
              i \in DOMAIN scopes /\ SubSeq(scopes, 1, Current - 1)[i] = scopes[i]
<1>. DEFINE n == Len(scopes)
<1>1. scopes \in Seq(ScopeType) /\ n \in Nat /\ n > 1
  BY DEF TypeOK, Current
<1>2. DOMAIN scopes = 1..n
  BY <1>1
<1>3. \A i \in 1..(n - 1) : scopes[i] \in ScopeType
  BY <1>1, <1>2
<1>. HIDE DEF n
<1>4. /\ SubSeq(scopes, 1, n - 1) \in Seq(ScopeType)
      /\ Len(SubSeq(scopes, 1, n - 1)) = n - 1
      /\ \A i \in 1..(n - 1) : SubSeq(scopes, 1, n - 1)[i] = scopes[i]
  BY <1>1, <1>3, SubSeqProperties
<1>5. n = Current
  BY DEF n, Current
<1>6. QED
  BY <1>1, <1>2, <1>4, <1>5, LenProperties

-----------------------------------------------------------------------------
(* Type correctness. *)

LEMMA InitTypeOK == Init => TypeOK
<1>1. SUFFICES ASSUME Init PROVE TypeOK
  OBVIOUS
<1>2. visit \in Seq(Calls)
  BY <1>1, VisitsAssumption DEF Init
<1>3. bound \in [UsePlaces -> Places \cup {NoDecl}]
  BY <1>1 DEF Init
<1>4. scopes \in Seq(ScopeType) /\ DOMAIN scopes = {}
  BY <1>1 DEF Init
<1>5. pos \in Nat \ {0}
  BY <1>1 DEF Init
<1>6. reported \subseteq UsePlaces
  BY <1>1 DEF Init
<1>7. aborted \in BOOLEAN
  BY <1>1 DEF Init
<1>8. QED
  BY <1>2, <1>3, <1>4, <1>5, <1>6, <1>7 DEF TypeOK

\* A scope that the call at pos may leave behind.
Fits(s) ==
  /\ s.decls \subseteq {d \in Positions("decl") : d <= pos}
  /\ s.unresolved \cup s.external \subseteq {p \in Positions("use") : p <= pos}
  /\ \A d, e \in s.decls : visit[d].name = visit[e].name => d = e

LEMMA OldScopesFit ==
  ASSUME TypeOK, NEW i \in DOMAIN scopes
  PROVE  scopes[i] \in ScopeType /\ Fits(scopes[i])
<1>1. scopes[i] \in ScopeType
  BY DEF TypeOK
<1>2. Positions("decl") \subseteq Nat /\ Positions("use") \subseteq Nat /\ pos \in Nat
  BY DomainIsNat DEF TypeOK, Positions
<1>3. QED
  BY <1>1, <1>2 DEF TypeOK, Fits

\* What is left to show of an action.
LEMMA StepTypeOK ==
  ASSUME TypeOK, Done, scopes' \in Seq(ScopeType),
         \A i \in DOMAIN scopes' : Fits(scopes'[i]),
         bound' \in [UsePlaces -> Places \cup {NoDecl}],
         reported' \subseteq UsePlaces
  PROVE  TypeOK'
<1>1. /\ visit' = visit /\ visit' \in Seq(Calls)
      /\ pos \in Nat /\ pos' \in Nat \ {0} /\ pos' = pos + 1
      /\ aborted' \in BOOLEAN
  BY DEF TypeOK, Done
<1>2. /\ \A op : Positions(op)' = Positions(op)
      /\ UsePlaces' = UsePlaces
  BY <1>1 DEF Positions, UsePlaces
<1>3. Positions("decl") \subseteq Nat /\ Positions("use") \subseteq Nat
  BY DomainIsNat DEF TypeOK, Positions
<1>4. \A i \in DOMAIN scopes' :
        /\ scopes'[i].decls \subseteq {d \in Positions("decl") : d < pos'}
        /\ scopes'[i].unresolved \cup scopes'[i].external
             \subseteq {p \in Positions("use") : p < pos'}
        /\ \A d, e \in scopes'[i].decls : visit[d].name = visit[e].name => d = e
  BY <1>1, <1>3 DEF Fits
<1>5. QED
  BY <1>1, <1>2, <1>4 DEF TypeOK

LEMMA PushTypeOK ==
  ASSUME TypeOK, PushScope
  PROVE  TypeOK'
<1>1. Scope(Here.fun) \in ScopeType
  BY CallFields DEF PushScope, Doing, Here, TypeOK, Scope, ScopeType
<1>2. scopes \in Seq(ScopeType) /\ scopes' = Append(scopes, Scope(Here.fun))
  BY DEF TypeOK, PushScope
<1>3. /\ scopes' \in Seq(ScopeType)
      /\ \A i \in DOMAIN scopes' : \/ i \in DOMAIN scopes /\ scopes'[i] = scopes[i]
                                   \/ scopes'[i] = Scope(Here.fun)
  BY <1>1, <1>2
<1>4. Fits(Scope(Here.fun))
  BY DEF Fits, Scope
<1>5. QED
  BY <1>3, <1>4, OldScopesFit, StepTypeOK DEF PushScope, TypeOK

\* A call other than a push has a scope to work on.
LEMMA CurrentProps ==
  ASSUME TypeOK, NEW op, op # "push", Doing(op)
  PROVE  /\ Current \in DOMAIN scopes
         /\ pos \in Positions(op) /\ Here = visit[pos]
  BY DEF TypeOK, Doing, Current, Positions, Here

\* Replacing the innermost scope.
LEMMA ReplaceCurrent ==
  ASSUME TypeOK, NEW s \in ScopeType, Current \in DOMAIN scopes, Fits(s),
         scopes' = [scopes EXCEPT ![Current] = s]
  PROVE  /\ scopes' \in Seq(ScopeType)
         /\ DOMAIN scopes' = DOMAIN scopes
         /\ scopes'[Current] = s
         /\ \A i \in DOMAIN scopes : i # Current => scopes'[i] = scopes[i]
         /\ \A i \in DOMAIN scopes' : Fits(scopes'[i])
<1>1. scopes \in Seq(ScopeType)
  BY DEF TypeOK
<1>2. /\ scopes' \in Seq(ScopeType)
      /\ DOMAIN scopes' = DOMAIN scopes
      /\ \A i \in DOMAIN scopes : scopes'[i] = IF i = Current THEN s ELSE scopes[i]
  BY <1>1
<1>3. QED
  BY <1>2, OldScopesFit

LEMMA AddDeclTypeOK ==
  ASSUME TypeOK, AddDecl
  PROVE  TypeOK'
<1>1. Current \in DOMAIN scopes /\ pos \in Positions("decl") /\ Here = visit[pos]
  BY CurrentProps DEF AddDecl
<1>. DEFINE c == scopes[Current]
            s == [c EXCEPT !.decls =
                    IF Find(Current, Here.name) = {} THEN @ \cup {pos} ELSE @]
<1>2. c \in ScopeType /\ Fits(c)
  BY <1>1, OldScopesFit
<1>3. pos \in Nat
  BY DEF TypeOK
<1>4. s \in ScopeType
  BY <1>2, <1>3 DEF ScopeType
<1>5. /\ s.unresolved = c.unresolved /\ s.external = c.external
      /\ s.decls = IF Find(Current, Here.name) = {} THEN c.decls \cup {pos}
                                                    ELSE c.decls
  BY <1>2 DEF ScopeType
<1>6. Fits(s)
  <2>1. CASE Find(Current, Here.name) = {}
    <3>1. \A d \in c.decls : visit[d].name # visit[pos].name
      BY <2>1, <1>1 DEF Find
    <3>2. QED
      BY <2>1, <3>1, <1>1, <1>2, <1>3, <1>5 DEF Fits
  <2>2. CASE Find(Current, Here.name) # {}
    BY <2>2, <1>2, <1>5 DEF Fits
  <2>3. QED
    BY <2>1, <2>2
<1>7. scopes' = [scopes EXCEPT ![Current] = s]
  BY <1>1 DEF AddDecl
<1>. HIDE DEF s
<1>8. scopes' \in Seq(ScopeType) /\ \A i \in DOMAIN scopes' : Fits(scopes'[i])
  BY <1>1, <1>4, <1>6, <1>7, ReplaceCurrent
<1>9. QED
  BY <1>8, StepTypeOK DEF AddDecl, TypeOK

LEMMA UseFoundTypeOK ==
  ASSUME TypeOK, UseFound
  PROVE  TypeOK'
<1>1. PICK d \in Lookup(Here.name) : bound' = [bound EXCEPT ![Here.at] = visit[d].at]
  BY DEF UseFound
<1>2. d \in Positions("decl")
  BY LookupProps
<1>3. visit[d].at \in Places
  BY <1>2, CallFields DEF Positions, TypeOK
<1>4. bound' \in [UsePlaces -> Places \cup {NoDecl}]
  BY <1>1, <1>3 DEF TypeOK
<1>5. QED
  BY <1>4, OldScopesFit, StepTypeOK DEF UseFound, TypeOK

LEMMA UseLaterTypeOK ==
  ASSUME TypeOK, UseLater
  PROVE  TypeOK'
<1>1. Current \in DOMAIN scopes /\ pos \in Positions("use") /\ Here = visit[pos]
  BY CurrentProps DEF UseLater
<1>. DEFINE c == scopes[Current]
            s == IF Here.call THEN [c EXCEPT !.unresolved = @ \cup {pos}]
                              ELSE [c EXCEPT !.external = @ \cup {pos}]
<1>2. c \in ScopeType /\ Fits(c) /\ pos \in Nat
  BY <1>1, OldScopesFit DEF TypeOK
<1>3. s \in ScopeType
  BY <1>2 DEF ScopeType
<1>4. /\ s.decls = c.decls
      /\ s.unresolved \cup s.external = c.unresolved \cup c.external \cup {pos}
  BY <1>2 DEF ScopeType
<1>5. scopes' = [scopes EXCEPT ![Current] = s]
  BY <1>1 DEF UseLater
<1>. HIDE DEF s
<1>6. Fits(s)
  BY <1>1, <1>2, <1>4 DEF Fits
<1>7. scopes' \in Seq(ScopeType) /\ \A i \in DOMAIN scopes' : Fits(scopes'[i])
  BY <1>1, <1>3, <1>5, <1>6, ReplaceCurrent
<1>8. QED
  BY <1>7, StepTypeOK DEF UseLater, TypeOK

\* Binding what the innermost scope declares.
LEMMA BindProps ==
  ASSUME TypeOK, Doing("pop"), BindFounded
  PROVE  /\ bound' \in [UsePlaces -> Places \cup {NoDecl}]
         /\ \A p \in Founded : bound'[visit[p].at] # NoDecl
         /\ \A x \in UsePlaces :
              (\A p \in Founded : visit[p].at # x) => bound'[x] = bound[x]
<1>1. Current \in DOMAIN scopes
  BY CurrentProps
<1>2. /\ scopes[Current].unresolved \subseteq Positions("use")
      /\ scopes[Current].decls \subseteq Positions("decl")
  BY <1>1 DEF TypeOK
<1>3. ASSUME NEW p \in Founded
      PROVE  visit[p].at \in UsePlaces /\ DeclOf(p) \in Places
  <2>1. p \in Positions("use")
    BY <1>2 DEF Founded, Closing
  <2>2. (CHOOSE d \in Find(Current, visit[p].name) : TRUE)
          \in Find(Current, visit[p].name)
    BY DEF Founded
  <2>3. QED
    BY <2>1, <2>2, <1>2, CallFields DEF Find, DeclOf, UsePlaces, Positions, TypeOK
<1>4. DOMAIN bound = UsePlaces /\ \A x \in UsePlaces : bound[x] \in Places \cup {NoDecl}
  BY DEF TypeOK
<1>5. ASSUME NEW x \in UsePlaces, \E p \in Founded : visit[p].at = x
      PROVE  bound'[x] \in Places
  <2>1. (CHOOSE p \in Founded : visit[p].at = x) \in Founded
    BY <1>5
  <2>2. bound'[x] = DeclOf(CHOOSE p \in Founded : visit[p].at = x)
    BY <1>4, <1>5 DEF BindFounded
  <2>3. QED
    BY <2>1, <2>2, <1>3
<1>6. ASSUME NEW x \in UsePlaces, \A p \in Founded : visit[p].at # x
      PROVE  bound'[x] = bound[x]
  BY <1>4, <1>6 DEF BindFounded
<1>7. DOMAIN bound' = UsePlaces /\ bound' = [x \in DOMAIN bound |-> bound'[x]]
  BY <1>4 DEF BindFounded
<1>8. QED
  BY <1>3, <1>4, <1>5, <1>6, <1>7, NoDeclAssumption

\* The scope below the one that is closed takes over what it left.
LEMMA PopInnerScopes ==
  ASSUME TypeOK, PopInner
  PROVE  /\ scopes' \in Seq(ScopeType)
         /\ DOMAIN scopes' = 1..(Current - 1) /\ Current - 1 \in DOMAIN scopes'
         /\ \A i \in DOMAIN scopes' : i \in DOMAIN scopes /\ Fits(scopes'[i])
         /\ \A i \in DOMAIN scopes' :
              scopes[i].unresolved \cup scopes[i].external
                \subseteq scopes'[i].unresolved \cup scopes'[i].external
         /\ (Closing.unresolved \cup Closing.external) \ Founded
              \subseteq scopes'[Current - 1].unresolved
                        \cup scopes'[Current - 1].external
<1>. DEFINE n == Current - 1
            below == SubSeq(scopes, 1, n)
            b == scopes[n]
            s == [b EXCEPT !.unresolved = @ \cup ToUnresolved(Closing),
                           !.external = @ \cup ToExternal(Closing)]
<1>1. /\ below \in Seq(ScopeType) /\ DOMAIN below = 1..n /\ n \in 1..n
      /\ Current \in DOMAIN scopes
      /\ \A i \in 1..n : i \in DOMAIN scopes /\ below[i] = scopes[i]
  BY BelowProps DEF PopInner
<1>2. /\ b \in ScopeType /\ Fits(b)
      /\ Closing \in ScopeType /\ Fits(Closing)
  BY <1>1, OldScopesFit DEF Closing
<1>3. Founded \subseteq Closing.unresolved
  BY DEF Founded
<1>4. /\ ToUnresolved(Closing) \cup ToExternal(Closing)
           = (Closing.unresolved \ Founded) \cup Closing.external
      /\ ToUnresolved(Closing) \in SUBSET Nat /\ ToExternal(Closing) \in SUBSET Nat
  BY <1>2 DEF ToUnresolved, ToExternal, ScopeType
<1>5. /\ s \in ScopeType
      /\ s.decls = b.decls
      /\ s.unresolved \cup s.external
           = (b.unresolved \cup b.external)
               \cup (Closing.unresolved \ Founded) \cup Closing.external
  BY <1>2, <1>4 DEF ScopeType
<1>6. scopes' = [below EXCEPT ![n] = s]
  BY <1>1 DEF PopInner
<1>. HIDE DEF s
<1>7. Fits(s)
  BY <1>2, <1>5 DEF Fits
<1>8. /\ scopes' \in Seq(ScopeType) /\ DOMAIN scopes' = 1..n
      /\ \A i \in 1..n : scopes'[i] = IF i = n THEN s ELSE scopes[i]
  <2>. HIDE DEF below, n
  <2>1. QED
    BY <1>1, <1>5, <1>6
<1>9. QED
  BY <1>1, <1>2, <1>5, <1>7, <1>8, OldScopesFit

LEMMA PopTypeOK ==
  ASSUME TypeOK, PopInner \/ PopOutermost
  PROVE  TypeOK'
<1>1. CASE PopInner
  <2>1. bound' \in [UsePlaces -> Places \cup {NoDecl}]
    BY <1>1, BindProps DEF PopInner
  <2>2. QED
    BY <1>1, <2>1, PopInnerScopes, StepTypeOK DEF PopInner, TypeOK
<1>2. CASE PopOutermost
  <2>1. bound' \in [UsePlaces -> Places \cup {NoDecl}]
    BY <1>2, BindProps DEF PopOutermost
  <2>2. Current \in DOMAIN scopes
    BY <1>2, CurrentProps DEF PopOutermost
  <2>3. Closing.unresolved \cup Closing.external \subseteq Positions("use")
    BY <2>2 DEF Closing, TypeOK
  <2>4. reported' \subseteq UsePlaces
    BY <1>2, <2>3 DEF PopOutermost, UsePlaces, TypeOK
  <2>5. scopes' \in Seq(ScopeType) /\ DOMAIN scopes' = {}
    BY <1>2 DEF PopOutermost
  <2>6. QED
    BY <1>2, <2>1, <2>4, <2>5, StepTypeOK DEF PopOutermost
<1>3. QED
  BY <1>1, <1>2

\* No step leaves the types.
LEMMA NextTypeOK ==
  ASSUME TypeOK, [Next]_vars
  PROVE  TypeOK'
<1>1. CASE UseResolved
  BY <1>1, OldScopesFit, StepTypeOK DEF UseResolved, TypeOK
<1>2. CASE AssertionFails
  BY <1>2 DEF AssertionFails, TypeOK, Positions, UsePlaces
<1>3. CASE UNCHANGED vars
  BY <1>3 DEF vars, TypeOK, Positions, UsePlaces
<1>4. QED
  BY <1>1, <1>2, <1>3, PushTypeOK, AddDeclTypeOK, UseFoundTypeOK, UseLaterTypeOK,
     PopTypeOK DEF Next, Over

\* Whatever the walk: the state has its types, and a scope one declaration of
\* a name at most.
THEOREM TypeCorrect == Spec => []TypeOK
<1>1. QED
  BY InitTypeOK, NextTypeOK, PTL DEF Spec

-----------------------------------------------------------------------------
(* No identifier gets lost. *)

\* A step that takes nothing out of the lists, or binds or reports it, and
\* accounts for the call at pos, loses nothing.
LEMMA StepLosesNothing ==
  ASSUME TypeOK, NothingIsLost, Done,
         \A x \in UsePlaces : bound[x] # NoDecl => bound'[x] # NoDecl,
         reported \subseteq reported',
         \A p \in Positions("use") : Waiting(p) =>
           Waiting(p)' \/ bound'[visit[p].at] # NoDecl \/ visit[p].at \in reported',
         \A p \in Positions("use") : p = pos =>
           Waiting(p)' \/ bound'[visit[p].at] # NoDecl
  PROVE  NothingIsLost'
<1>1. visit' = visit /\ pos' = pos + 1 /\ pos \in Nat
  BY DEF Done, TypeOK
<1>2. SUFFICES ASSUME NEW p \in Positions("use"), p < pos'
               PROVE  \/ bound'[visit[p].at] # NoDecl
                      \/ visit[p].at \in reported' \/ Waiting(p)'
  BY <1>1 DEF NothingIsLost, Positions, Resolved
<1>3. p \in Nat /\ visit[p].at \in UsePlaces
  BY DomainIsNat DEF Positions, UsePlaces, TypeOK
<1>4. CASE p < pos
  BY <1>4, <1>3 DEF NothingIsLost, Resolved
<1>5. CASE p = pos
  BY <1>5
<1>6. QED
  BY <1>1, <1>2, <1>3, <1>4, <1>5

\* The same when the lists of all scopes stay.
LEMMA KeptWait ==
  ASSUME NEW p, Waiting(p),
         \A i \in DOMAIN scopes : i \in DOMAIN scopes' /\
           scopes[i].unresolved \cup scopes[i].external
             \subseteq scopes'[i].unresolved \cup scopes'[i].external
  PROVE  Waiting(p)'
  BY DEF Waiting

LEMMA UseLosesNothing ==
  ASSUME TypeOK, NothingIsLost, UseResolved \/ UseFound \/ UseLater
  PROVE  NothingIsLost'
<1>1. pos \in Positions("use") /\ Here = visit[pos]
  BY CurrentProps DEF UseResolved, UseFound, UseLater
<1>2. Here.at \in UsePlaces /\ DOMAIN bound = UsePlaces
  BY <1>1 DEF UsePlaces, TypeOK
<1>3. CASE UseResolved
  <2>1. bound' = bound /\ scopes' = scopes /\ reported' = reported
    BY <1>3 DEF UseResolved
  <2>2. \A p \in Positions("use") : Waiting(p) => Waiting(p)'
    BY <2>1 DEF Waiting
  <2>3. bound[visit[pos].at] # NoDecl
    BY <1>3 DEF UseResolved, Resolved
  <2>4. QED
    BY <1>3, <2>1, <2>2, <2>3, StepLosesNothing DEF UseResolved
<1>4. CASE UseFound
  <2>1. PICK d \in Lookup(Here.name) :
          bound' = [bound EXCEPT ![Here.at] = visit[d].at]
    BY <1>4 DEF UseFound
  <2>2. visit[d].at \in Places
    BY LookupProps, CallFields DEF Positions, TypeOK
  <2>3. visit[d].at # NoDecl
    BY <2>2, NoDeclAssumption
  <2>4. /\ bound'[Here.at] # NoDecl
        /\ \A x \in UsePlaces : bound[x] # NoDecl => bound'[x] # NoDecl
    BY <1>2, <2>1, <2>3
  <2>5. scopes' = scopes /\ reported' = reported
    BY <1>4 DEF UseFound
  <2>6. \A p \in Positions("use") : Waiting(p) => Waiting(p)'
    BY <2>5 DEF Waiting
  <2>7. QED
    BY <1>1, <1>4, <2>4, <2>5, <2>6, StepLosesNothing DEF UseFound
<1>5. CASE UseLater
  <2>. DEFINE c == scopes[Current]
  <2>1. Current \in DOMAIN scopes /\ c \in ScopeType /\ scopes \in Seq(ScopeType)
    BY <1>5, CurrentProps DEF UseLater, TypeOK
  <2>2. /\ DOMAIN scopes' = DOMAIN scopes
        /\ \A i \in DOMAIN scopes : i # Current => scopes'[i] = scopes[i]
        /\ scopes'[Current].unresolved \cup scopes'[Current].external
             = c.unresolved \cup c.external \cup {pos}
    <3>1. CASE Here.call
      BY <1>5, <2>1, <3>1 DEF UseLater, ScopeType
    <3>2. CASE ~Here.call
      BY <1>5, <2>1, <3>2 DEF UseLater, ScopeType
    <3>3. QED
      BY <3>1, <3>2
  <2>3. ASSUME NEW p, Waiting(p) PROVE Waiting(p)'
    BY <2>1, <2>2, <2>3 DEF Waiting
  <2>4. ASSUME NEW p, p = pos PROVE Waiting(p)'
    BY <2>1, <2>2, <2>4 DEF Waiting
  <2>5. bound' = bound /\ reported' = reported
    BY <1>5 DEF UseLater
  <2>6. QED
    BY <1>5, <2>3, <2>4, <2>5, StepLosesNothing DEF UseLater
<1>6. QED
  BY <1>3, <1>4, <1>5

LEMMA ScopeLosesNothing ==
  ASSUME TypeOK, NothingIsLost, PushScope \/ AddDecl
  PROVE  NothingIsLost'
<1>1. bound' = bound /\ reported' = reported /\ Done
  BY DEF PushScope, AddDecl
<1>2. \A p \in Positions("use") : p # pos
  BY DEF PushScope, AddDecl, Doing, Here, Positions
<1>3. CASE PushScope
  <2>1. \A i \in DOMAIN scopes : i \in DOMAIN scopes' /\ scopes'[i] = scopes[i]
    BY <1>3 DEF PushScope, TypeOK
  <2>2. \A p \in Positions("use") : Waiting(p) => Waiting(p)'
    BY <2>1, KeptWait
  <2>3. QED
    BY <1>1, <1>2, <2>2, StepLosesNothing
<1>4. CASE AddDecl
  <2>1. Current \in DOMAIN scopes /\ scopes \in Seq(ScopeType)
    BY <1>4, CurrentProps DEF AddDecl, TypeOK
  <2>2. scopes[Current] \in ScopeType
    BY <2>1
  <2>3. /\ DOMAIN scopes' = DOMAIN scopes
        /\ \A i \in DOMAIN scopes :
             /\ scopes'[i].unresolved = scopes[i].unresolved
             /\ scopes'[i].external = scopes[i].external
    BY <1>4, <2>1, <2>2 DEF AddDecl, ScopeType
  <2>4. \A p \in Positions("use") : Waiting(p) => Waiting(p)'
    BY <2>3, KeptWait
  <2>5. QED
    BY <1>1, <1>2, <2>4, StepLosesNothing
<1>5. QED
  BY <1>3, <1>4

LEMMA PopLosesNothing ==
  ASSUME TypeOK, NothingIsLost, PopInner \/ PopOutermost
  PROVE  NothingIsLost'
<1>1. Done /\ BindFounded /\ Doing("pop")
  BY DEF PopInner, PopOutermost
<1>2. /\ \A p \in Founded : bound'[visit[p].at] # NoDecl
      /\ \A x \in UsePlaces :
           (\A p \in Founded : visit[p].at # x) => bound'[x] = bound[x]
  BY <1>1, BindProps
<1>3. ASSUME NEW x \in UsePlaces, bound[x] # NoDecl PROVE bound'[x] # NoDecl
  BY <1>2, <1>3
<1>4. \A p \in Positions("use") : p # pos
  BY <1>1 DEF Doing, Here, Positions
<1>5. reported \subseteq reported'
  BY DEF PopInner, PopOutermost
<1>6. ASSUME NEW p \in Positions("use"), Waiting(p)
      PROVE  \/ Waiting(p)' \/ bound'[visit[p].at] # NoDecl
             \/ visit[p].at \in reported'
  <2>1. PICK i \in DOMAIN scopes : p \in scopes[i].unresolved \cup scopes[i].external
    BY <1>6 DEF Waiting
  <2>2. CASE p \in Founded
    BY <2>2, <1>2
  <2>3. CASE p \notin Founded /\ PopInner
    <3>1. CASE i = Current
      <4>1. p \in (Closing.unresolved \cup Closing.external) \ Founded
        BY <2>1, <2>3, <3>1 DEF Closing
      <4>2. QED
        BY <2>3, <4>1, PopInnerScopes DEF Waiting
    <3>2. CASE i # Current
      <4>1. i \in 1..(Current - 1)
        BY <3>2 DEF TypeOK, Current
      <4>2. QED
        BY <2>1, <2>3, <4>1, PopInnerScopes DEF Waiting
    <3>3. QED
      BY <3>1, <3>2
  <2>4. CASE p \notin Founded /\ PopOutermost
    <3>1. i = Current
      BY <2>4 DEF PopOutermost, TypeOK, Current
    <3>2. QED
      BY <2>1, <2>4, <3>1 DEF PopOutermost, Closing
  <2>5. QED
    BY <2>2, <2>3, <2>4
<1>7. QED
  BY <1>1, <1>3, <1>4, <1>5, <1>6, StepLosesNothing

LEMMA InitLosesNothing == Init => NothingIsLost
<1>1. SUFFICES ASSUME Init, NEW p \in Positions("use"), p < pos PROVE FALSE
  BY DEF NothingIsLost
<1>2. visit \in Seq(Calls)
  BY <1>1, VisitsAssumption DEF Init
<1>3. p \in Nat \ {0}
  BY <1>1, <1>2, DomainIsNat DEF Positions
<1>4. QED
  BY <1>1, <1>3 DEF Init

LEMMA NextLosesNothing ==
  ASSUME TypeOK, NothingIsLost, [Next]_vars
  PROVE  NothingIsLost'
<1>1. CASE AssertionFails
  BY <1>1 DEF AssertionFails, NothingIsLost, Positions, Resolved, Waiting
<1>2. CASE UNCHANGED vars
  BY <1>2 DEF vars, NothingIsLost, Positions, Resolved, Waiting
<1>3. QED
  BY <1>1, <1>2, UseLosesNothing, ScopeLosesNothing, PopLosesNothing DEF Next, Over

\* Whatever the walk: an identifier that was visited is bound or reported, or
\* waits in an open scope.
THEOREM NothingEverLost == Spec => []NothingIsLost
<1>1. Init => TypeOK /\ NothingIsLost
  BY InitTypeOK, InitLosesNothing
<1>2. (TypeOK /\ NothingIsLost) /\ [Next]_vars => (TypeOK /\ NothingIsLost)'
  BY NextTypeOK, NextLosesNothing
<1>3. QED
  BY <1>1, <1>2, PTL DEF Spec

-----------------------------------------------------------------------------
(* Bindings are final. *)

LEMMA NextKeepsBindings ==
  ASSUME TypeOK, [Next]_vars, NEW x \in UsePlaces, bound[x] # NoDecl
  PROVE  bound'[x] = bound[x]
<1>1. CASE UseFound
  <2>1. x # Here.at
    BY <1>1 DEF UseFound, Resolved, Here
  <2>2. QED
    BY <1>1, <2>1 DEF UseFound, TypeOK
<1>2. CASE PopInner \/ PopOutermost
  <2>1. Doing("pop") /\ BindFounded /\ AssertionHolds
    BY <1>2 DEF PopInner, PopOutermost
  <2>2. \A p \in Founded : visit[p].at # x
    BY <2>1 DEF AssertionHolds, Founded, Resolved
  <2>3. QED
    BY <2>1, <2>2, BindProps
<1>3. CASE UNCHANGED bound
  BY <1>3
<1>4. QED
  BY <1>1, <1>2, <1>3
  DEF Next, PushScope, AddDecl, UseResolved, UseLater, AssertionFails, Over, vars

\* Whatever the walk: no step changes what an identifier is bound to, the
\* visits of an inherited body from its heirs included.
THEOREM BindingsStay == Spec => BindingsAreFinal
<1>1. TypeOK /\ [Next]_vars =>
        [\A x \in UsePlaces : bound[x] # NoDecl => bound'[x] = bound[x]]_vars
  BY NextKeepsBindings
<1>2. QED
  BY <1>1, TypeCorrect, PTL DEF Spec, BindingsAreFinal

-----------------------------------------------------------------------------
(* Names follow the text.  The nesting of the text is that of the counts   *)
(* of pushes and pops, the stack of scopes is the text up to `pos`.        *)

CallsOf(op, q, r) == {i \in q..r : visit[i].op = op}

Depth(n) ==
  Cardinality(CallsOf("push", 1, n)) - Cardinality(CallsOf("pop", 1, n))

LEMMA CallsOfFinite ==
  ASSUME NEW op, NEW q \in Nat, NEW r \in Nat
  PROVE  /\ IsFiniteSet(CallsOf(op, q, r))
         /\ Cardinality(CallsOf(op, q, r)) \in Nat
<1>1. IsFiniteSet(q..r)
  BY FS_Interval
<1>2. CallsOf(op, q, r) \in SUBSET (q..r)
  BY DEF CallsOf
<1>3. IsFiniteSet(CallsOf(op, q, r))
  BY <1>1, <1>2, FS_Subset
<1>4. QED
  BY <1>3, FS_CardinalityType

LEMMA CallsSplit ==
  ASSUME NEW op, NEW q \in Nat \ {0}, NEW r \in Nat, q <= r + 1
  PROVE  Cardinality(CallsOf(op, 1, r))
           = Cardinality(CallsOf(op, 1, q - 1)) + Cardinality(CallsOf(op, q, r))
<1>. DEFINE S == CallsOf(op, 1, q - 1)
            T == CallsOf(op, q, r)
<1>1. q - 1 \in Nat /\ 1 \in Nat
  OBVIOUS
<1>2. /\ IsFiniteSet(S) /\ IsFiniteSet(T)
      /\ Cardinality(S) \in Nat /\ Cardinality(T) \in Nat
  BY <1>1, CallsOfFinite
<1>3. CallsOf(op, 1, r) = S \cup T
  BY DEF CallsOf
<1>4. S \cap T = {}
  BY DEF CallsOf
<1>. HIDE DEF S, T
<1>5. Cardinality(S \cup T) = Cardinality(S) + Cardinality(T) - Cardinality(S \cap T)
  BY <1>2, FS_Union
<1>6. Cardinality(S \cap T) = 0
  BY <1>4, FS_EmptySet
<1>7. Cardinality(S \cup T) = Cardinality(S) + Cardinality(T)
  BY <1>2, <1>5, <1>6
<1>8. QED
  BY <1>3, <1>7 DEF S, T

LEMMA DepthInt == \A n \in Nat : Depth(n) \in Int
<1>1. TAKE n \in Nat
<1>2. 1 \in Nat
  OBVIOUS
<1>3. QED
  BY <1>2, CallsOfFinite DEF Depth

LEMMA DepthStep ==
  /\ Depth(0) = 0
  /\ \A n \in Nat \ {0} :
       /\ visit[n].op = "push" => Depth(n) = Depth(n - 1) + 1
       /\ visit[n].op = "pop" => Depth(n) = Depth(n - 1) - 1
       /\ visit[n].op \notin {"push", "pop"} => Depth(n) = Depth(n - 1)
<1>1. Depth(0) = 0
  <2>1. CallsOf("push", 1, 0) = {} /\ CallsOf("pop", 1, 0) = {}
    BY DEF CallsOf
  <2>2. QED
    BY <2>1, FS_EmptySet DEF Depth
<1>2. ASSUME NEW n \in Nat \ {0}, NEW op
      PROVE  Cardinality(CallsOf(op, 1, n))
               = Cardinality(CallsOf(op, 1, n - 1))
                   + IF visit[n].op = op THEN 1 ELSE 0
  <2>1. CallsOf(op, n, n) = IF visit[n].op = op THEN {n} ELSE {}
    BY DEF CallsOf
  <2>2. Cardinality(CallsOf(op, n, n)) = IF visit[n].op = op THEN 1 ELSE 0
    BY <2>1, FS_EmptySet, FS_Singleton
  <2>3. QED
    BY <2>2, CallsSplit
<1>3. ASSUME NEW n \in Nat \ {0}
      PROVE  /\ visit[n].op = "push" => Depth(n) = Depth(n - 1) + 1
             /\ visit[n].op = "pop" => Depth(n) = Depth(n - 1) - 1
             /\ visit[n].op \notin {"push", "pop"} => Depth(n) = Depth(n - 1)
  <2>1. /\ Cardinality(CallsOf("push", 1, n))
             = Cardinality(CallsOf("push", 1, n - 1))
                 + IF visit[n].op = "push" THEN 1 ELSE 0
        /\ Cardinality(CallsOf("pop", 1, n))
             = Cardinality(CallsOf("pop", 1, n - 1))
                 + IF visit[n].op = "pop" THEN 1 ELSE 0
    BY <1>2
  <2>2. n - 1 \in Nat /\ 1 \in Nat
    OBVIOUS
  <2>3. /\ Cardinality(CallsOf("push", 1, n - 1)) \in Nat
        /\ Cardinality(CallsOf("pop", 1, n - 1)) \in Nat
    BY <2>2, CallsOfFinite
  <2>4. QED
    BY <2>1, <2>3 DEF Depth
<1>4. QED
  BY <1>1, <1>3

\* A scope is around what the depth does not fall below its own before.
LEMMA EnclosesByDepth ==
  ASSUME NEW q \in Nat \ {0}, NEW p \in Nat
  PROVE  Encloses(q, p) <=>
           /\ visit[q].op = "push" /\ q < p
           /\ \A r \in q..p : Depth(r) >= Depth(q)
<1>1. q - 1 \in Nat /\ 1 \in Nat /\ Depth(q) \in Int /\ Depth(q - 1) \in Int
  BY DepthInt
<1>2. ASSUME NEW r \in q..p
      PROVE  Cardinality(CallsOf("push", q, r)) > Cardinality(CallsOf("pop", q, r))
               <=> Depth(r) > Depth(q - 1)
  <2>1. r \in Nat /\ q <= r + 1
    OBVIOUS
  <2>2. /\ Cardinality(CallsOf("push", 1, r))
             = Cardinality(CallsOf("push", 1, q - 1)) + Cardinality(CallsOf("push", q, r))
        /\ Cardinality(CallsOf("pop", 1, r))
             = Cardinality(CallsOf("pop", 1, q - 1)) + Cardinality(CallsOf("pop", q, r))
    BY <2>1, CallsSplit
  <2>3. \A op : /\ Cardinality(CallsOf(op, 1, q - 1)) \in Nat
                /\ Cardinality(CallsOf(op, q, r)) \in Nat
    BY <1>1, <2>1, CallsOfFinite
  <2>4. /\ Cardinality(CallsOf("push", 1, q - 1)) \in Nat
        /\ Cardinality(CallsOf("pop", 1, q - 1)) \in Nat
        /\ Cardinality(CallsOf("push", q, r)) \in Nat
        /\ Cardinality(CallsOf("pop", q, r)) \in Nat
    BY <2>3
  <2>5. QED
    BY <2>2, <2>4 DEF Depth
<1>3. visit[q].op = "push" => Depth(q) = Depth(q - 1) + 1
  BY DepthStep
<1>4. \A r \in q..p : Depth(r) \in Int
  BY DepthInt
<1>5. visit[q].op = "push" =>
        \A r \in q..p : Depth(r) > Depth(q - 1) <=> Depth(r) >= Depth(q)
  BY <1>1, <1>3, <1>4
<1>6. QED
  BY <1>2, <1>5 DEF Encloses, CallsOf

\* o gives each open scope its push.
Stack(o) ==
  /\ \A i \in DOMAIN scopes :
       /\ o[i] \in Positions("push") /\ o[i] < pos
       /\ visit[o[i]].fun = scopes[i].fun
       /\ Depth(o[i]) = i
       /\ \A r \in o[i]..(pos - 1) : Depth(r) >= i
  /\ Depth(pos - 1) = Len(scopes)
  /\ \A r \in 0..(pos - 1) : Depth(r) >= 0

\* The declarations of an open scope are the first of their name in it.
Firsts(o) ==
  \A i \in DOMAIN scopes :
    /\ \A d \in scopes[i].decls : d \in Earliest(DeclsIn(o[i], visit[d].name))
    /\ \A d \in Positions("decl") :
         d < pos /\ o[i] \in Innermost(Around(d)) => Find(i, visit[d].name) # {}

\* An identifier that waits in the scope pushed at q has no meaning further in
\* and none by an earlier declaration.
Undecided(p, o, i) ==
  /\ \A j \in 1..i : o[j] \in Around(p)
  /\ \A q \in Around(p) : q <= o[i] => \E j \in 1..i : q = o[j]
  /\ Early(p) = {}
  /\ \A q \in Late(p) : q <= o[i]

\* A declaration in the scope pushed at q may come late for p.
MayBeLate(p, q) ==
  visit[p].call \/ \E f \in Around(p) : visit[f].fun /\ q < f

Waits(o) ==
  \A i \in DOMAIN scopes :
    /\ \A p \in scopes[i].unresolved : Undecided(p, o, i) /\ MayBeLate(p, o[i])
    /\ \A p \in scopes[i].external : Undecided(p, o, i) /\ ~MayBeLate(p, o[i])

MeansBound(p) == \E d \in Meant(p) : bound[visit[p].at] = visit[d].at

\* What is decided is decided by the rules.
Decided ==
  \A p \in Positions("use") :
    /\ Resolved(p) => p < pos /\ MeansBound(p)
    /\ visit[p].at \in reported => p < pos /\ Meant(p) = {}

Follows(o) == Stack(o) /\ Firsts(o) /\ Waits(o) /\ Decided

LEMMA PositionsNat ==
  ASSUME TypeOK
  PROVE  /\ pos \in Nat \ {0} /\ DOMAIN visit \subseteq Nat \ {0}
         /\ Len(scopes) \in Nat /\ DOMAIN scopes = 1..Len(scopes)
         /\ \A op : Positions(op) \subseteq Nat \ {0}
         /\ \A p : Around(p) \subseteq Nat \ {0}
         /\ \A q, name : DeclsIn(q, name) \subseteq Nat \ {0}
<1>1. visit \in Seq(Calls) /\ scopes \in Seq(ScopeType) /\ pos \in Nat \ {0}
  BY DEF TypeOK
<1>2. DOMAIN visit \subseteq Nat \ {0}
  BY <1>1, DomainIsNat
<1>3. \A op : Positions(op) \subseteq Nat \ {0}
  BY <1>2 DEF Positions
<1>4. Len(scopes) \in Nat /\ DOMAIN scopes = 1..Len(scopes)
  BY <1>1
<1>5. QED
  BY <1>1, <1>2, <1>3, <1>4 DEF Around, DeclsIn

\* Scopes further in were opened later.
LEMMA StackGrows ==
  ASSUME TypeOK, NEW o, Stack(o),
         NEW i \in DOMAIN scopes, NEW j \in DOMAIN scopes
  PROVE  i < j <=> o[i] < o[j]
<1>1. ASSUME NEW k \in DOMAIN scopes, NEW l \in DOMAIN scopes, k < l
      PROVE  o[k] < o[l]
  <2>1. /\ o[k] \in Nat /\ o[l] \in Nat /\ k \in Nat /\ l \in Nat /\ pos \in Nat
        /\ o[k] < pos
        /\ Depth(o[k]) = k /\ \A r \in o[l]..(pos - 1) : Depth(r) >= l
    BY PositionsNat DEF Stack
  <2>2. ASSUME ~(o[k] < o[l]) PROVE FALSE
    <3>1. o[k] \in o[l]..(pos - 1)
      BY <2>1, <2>2
    <3>2. QED
      BY <1>1, <2>1, <3>1
  <2>3. QED
    BY <2>2
<1>2. i \in Nat /\ j \in Nat /\ o[i] \in Nat /\ o[j] \in Nat
  BY PositionsNat DEF Stack
<1>3. CASE i < j
  BY <1>1, <1>3
<1>4. CASE j < i
  BY <1>1, <1>2, <1>4
<1>5. CASE i = j
  BY <1>2, <1>5
<1>6. QED
  BY <1>2, <1>3, <1>4, <1>5

\* A declaration or a use at pos lies in the open scopes.
LEMMA AroundHere ==
  ASSUME TypeOK, NEW o, Stack(o), pos \in DOMAIN visit,
         visit[pos].op \notin {"push", "pop"}
  PROVE  Around(pos) = {o[i] : i \in DOMAIN scopes}
<1>1. /\ pos \in Nat \ {0} /\ Positions("push") \subseteq Nat \ {0}
      /\ DOMAIN scopes = 1..Len(scopes) /\ Len(scopes) \in Nat
  BY PositionsNat
<1>2. Depth(pos) = Len(scopes)
  BY <1>1, DepthStep DEF Stack
<1>3. ASSUME NEW i \in DOMAIN scopes PROVE o[i] \in Around(pos)
  <2>1. /\ o[i] \in Positions("push") /\ o[i] < pos /\ Depth(o[i]) = i
        /\ \A r \in o[i]..(pos - 1) : Depth(r) >= i
    BY DEF Stack
  <2>2. \A r \in o[i]..pos : r = pos \/ r \in o[i]..(pos - 1)
    BY <1>1, <2>1
  <2>3. \A r \in o[i]..pos : Depth(r) >= i
    BY <1>1, <1>2, <2>1, <2>2
  <2>4. visit[o[i]].op = "push" /\ o[i] \in Nat \ {0}
    BY <1>1, <2>1 DEF Positions
  <2>5. Encloses(o[i], pos)
    BY <1>1, <2>1, <2>3, <2>4, EnclosesByDepth
  <2>6. QED
    BY <2>1, <2>5 DEF Around
<1>4. ASSUME NEW q \in Around(pos) PROVE \E i \in DOMAIN scopes : q = o[i]
  <2>1. q \in Positions("push") /\ Encloses(q, pos)
    BY DEF Around
  <2>2. /\ q \in Nat \ {0} /\ visit[q].op = "push" /\ q < pos
        /\ \A r \in q..pos : Depth(r) >= Depth(q)
    BY <1>1, <2>1, EnclosesByDepth
  <2>3. q - 1 \in 0..(pos - 1) /\ q \in Nat /\ Depth(q) = Depth(q - 1) + 1
    BY <1>1, <2>2, DepthStep
  <2>4. Depth(q) \in Int /\ Depth(q - 1) \in Int /\ Depth(q - 1) >= 0
    BY <2>3, DepthInt DEF Stack
  <2>5. pos - 1 \in q..pos
    BY <1>1, <2>2
  <2>6. Depth(q) <= Len(scopes)
    BY <1>1, <2>2, <2>5 DEF Stack
  <2>7. Depth(q) \in DOMAIN scopes
    BY <1>1, <2>3, <2>4, <2>6
  <2>. DEFINE i == Depth(q)
  <2>8. /\ o[i] \in Nat \ {0} /\ o[i] < pos /\ Depth(o[i]) = i
        /\ visit[o[i]].op = "push"
        /\ \A r \in o[i]..(pos - 1) : Depth(r) >= i
    BY <1>1, <2>7 DEF Stack, Positions
  <2>9. Depth(o[i]) = Depth(o[i] - 1) + 1 /\ o[i] - 1 \in Nat
    BY <2>8, DepthStep
  <2>10. Depth(o[i] - 1) \in Int /\ Depth(o[i] - 1) < i
    BY <2>4, <2>8, <2>9, DepthInt
  <2>11. ASSUME q < o[i] PROVE FALSE
    <3>1. o[i] - 1 \in q..pos
      BY <1>1, <2>2, <2>8, <2>11
    <3>2. QED
      BY <2>2, <2>4, <2>10, <3>1
  <2>12. ASSUME o[i] < q PROVE FALSE
    <3>1. q - 1 \in o[i]..(pos - 1)
      BY <1>1, <2>2, <2>8, <2>12
    <3>2. QED
      BY <2>3, <2>4, <2>8, <3>1
  <2>13. q = o[i]
    BY <2>2, <2>8, <2>11, <2>12
  <2>14. QED
    BY <2>7, <2>13
<1>5. QED
  BY <1>3, <1>4

\* Of these the innermost is the current scope.
LEMMA InnermostHere ==
  ASSUME TypeOK, NEW o, Stack(o), pos \in DOMAIN visit,
         visit[pos].op \notin {"push", "pop"}, Current \in DOMAIN scopes
  PROVE  Innermost(Around(pos)) = {o[Current]}
<1>1. Around(pos) = {o[i] : i \in DOMAIN scopes}
  BY AroundHere
<1>2. /\ DOMAIN scopes = 1..Current /\ Current \in Nat
      /\ \A i \in DOMAIN scopes : o[i] \in Nat
  BY PositionsNat DEF Current, Stack
<1>3. \A i \in DOMAIN scopes : i # Current => o[i] < o[Current]
  BY <1>2, StackGrows
<1>4. \A i \in DOMAIN scopes : o[i] <= o[Current]
  BY <1>2, <1>3
<1>5. \A i \in DOMAIN scopes : o[Current] <= o[i] => o[i] = o[Current]
  BY <1>2, <1>4
<1>6. QED
  BY <1>1, <1>4, <1>5 DEF Innermost

\* What the scope closed at pos is around of lies before pos.
LEMMA ClosedHere ==
  ASSUME TypeOK, NEW o, Stack(o), pos \in DOMAIN visit, visit[pos].op = "pop",
         Current \in DOMAIN scopes,
         NEW op, op # "pop", NEW p \in Positions(op), o[Current] \in Around(p)
  PROVE  p < pos
<1>1. /\ pos \in Nat \ {0} /\ Current \in Nat /\ p \in Nat
      /\ o[Current] \in Nat \ {0} /\ o[Current] < pos
  BY PositionsNat DEF Stack, Current
<1>2. Depth(o[Current]) = Current /\ Depth(pos) = Current - 1
  BY <1>1, DepthStep DEF Stack, Current
<1>3. \A r \in o[Current]..p : Depth(r) >= Current
  BY <1>1, <1>2, EnclosesByDepth DEF Around
<1>4. p # pos
  BY DEF Positions
<1>5. ASSUME pos < p PROVE FALSE
  <2>1. pos \in o[Current]..p
    BY <1>1, <1>5
  <2>2. QED
    BY <1>1, <1>2, <1>3, <2>1
<1>6. QED
  BY <1>1, <1>4, <1>5

\* The text does not change.
LEMMA TextStays ==
  ASSUME visit' = visit
  PROVE  /\ \A op : Positions(op)' = Positions(op)
         /\ \A p : Around(p)' = Around(p)
         /\ \A q, name : DeclsIn(q, name)' = DeclsIn(q, name)
         /\ \A p : Early(p)' = Early(p) /\ Late(p)' = Late(p)
         /\ \A p : Meant(p)' = Meant(p)
         /\ \A p, q : MayBeLate(p, q)' = MayBeLate(p, q)
         /\ \A n : Depth(n)' = Depth(n)
<1>1. \A op : Positions(op)' = Positions(op)
  BY DEF Positions
<1>2. \A p : Around(p)' = Around(p)
  BY <1>1 DEF Around, Encloses
<1>3. \A q, name : DeclsIn(q, name)' = DeclsIn(q, name)
  BY <1>1, <1>2 DEF DeclsIn
<1>4. \A p : Early(p)' = Early(p) /\ Late(p)' = Late(p)
  BY <1>2, <1>3 DEF Early, Late
<1>5. \A p : Meant(p)' = Meant(p)
  BY <1>3, <1>4 DEF Meant
<1>6. \A p, q : MayBeLate(p, q)' = MayBeLate(p, q)
  BY <1>2 DEF MayBeLate
<1>7. \A n : Depth(n)' = Depth(n)
  BY DEF Depth, CallsOf
<1>8. QED
  BY <1>1, <1>2, <1>3, <1>4, <1>5, <1>6, <1>7

\* What passing a declaration or a use does to the stack.
LEMMA StackPasses ==
  ASSUME TypeOK, NEW o, Stack(o), Done, pos \in DOMAIN visit,
         visit[pos].op \notin {"push", "pop"},
         DOMAIN scopes' = DOMAIN scopes, Len(scopes') = Len(scopes),
         \A i \in DOMAIN scopes : scopes'[i].fun = scopes[i].fun
  PROVE  Stack(o)'
<1>1. pos' = pos + 1 /\ visit' = visit
  BY DEF Done
<1>2. /\ pos \in Nat \ {0} /\ Positions("push") \subseteq Nat \ {0}
      /\ DOMAIN scopes = 1..Len(scopes) /\ Len(scopes) \in Nat
  BY PositionsNat
<1>3. Depth(pos) = Len(scopes) /\ pos' - 1 = pos
  <2>1. pos' - 1 = pos
    BY <1>1, <1>2
  <2>2. Depth(pos - 1) = Len(scopes)
    BY DEF Stack
  <2>3. QED
    BY <1>2, <2>1, <2>2, DepthStep
<1>4. ASSUME NEW i \in DOMAIN scopes
      PROVE  /\ o[i] \in Positions("push") /\ o[i] < pos'
             /\ visit[o[i]].fun = scopes'[i].fun
             /\ Depth(o[i]) = i
             /\ \A r \in o[i]..(pos' - 1) : Depth(r) >= i
  <2>1. /\ o[i] \in Positions("push") /\ o[i] < pos /\ o[i] \in Nat
        /\ visit[o[i]].fun = scopes[i].fun
        /\ Depth(o[i]) = i
        /\ \A r \in o[i]..(pos - 1) : Depth(r) >= i
    BY <1>2 DEF Stack
  <2>2. Depth(pos) >= i
    BY <1>2, <1>3
  <2>3. \A r \in o[i]..(pos' - 1) : r = pos \/ r \in o[i]..(pos - 1)
    BY <1>1, <1>2, <2>1
  <2>4. QED
    BY <1>1, <1>2, <2>1, <2>2, <2>3
<1>5. \A r \in 0..(pos' - 1) : Depth(r) >= 0
  <2>1. \A r \in 0..(pos' - 1) : r = pos \/ r \in 0..(pos - 1)
    BY <1>1, <1>2
  <2>2. QED
    BY <1>2, <1>3, <2>1 DEF Stack
<1>6. QED
  BY <1>1, <1>3, <1>4, <1>5, TextStays DEF Stack

LEMMA StackPush ==
  ASSUME TypeOK, NEW o, Stack(o), PushScope, NEW u,
         u[Len(scopes) + 1] = pos, \A i \in DOMAIN scopes : u[i] = o[i]
  PROVE  Stack(u)'
<1>. DEFINE n == Len(scopes)
<1>1. pos' = pos + 1 /\ visit' = visit /\ pos \in DOMAIN visit
      /\ visit[pos].op = "push" /\ scopes' = Append(scopes, Scope(visit[pos].fun))
  BY DEF PushScope, Done, Doing, Here
<1>2. /\ pos \in Nat \ {0} /\ Positions("push") \subseteq Nat \ {0}
      /\ DOMAIN scopes = 1..n /\ n \in Nat /\ pos \in Positions("push")
  BY <1>1, PositionsNat DEF Positions
<1>3. Depth(pos) = n + 1 /\ pos' - 1 = pos
  BY <1>1, <1>2, DepthStep DEF Stack
<1>4. /\ DOMAIN scopes' = 1..(n + 1) /\ Len(scopes') = n + 1
      /\ \A i \in 1..n : scopes'[i] = scopes[i]
      /\ scopes'[n + 1].fun = visit[pos].fun
  BY <1>1, <1>2 DEF Scope, TypeOK
<1>5. ASSUME NEW i \in DOMAIN scopes'
      PROVE  /\ u[i] \in Positions("push") /\ u[i] < pos'
             /\ visit[u[i]].fun = scopes'[i].fun
             /\ Depth(u[i]) = i
             /\ \A r \in u[i]..(pos' - 1) : Depth(r) >= i
  <2>1. CASE i = n + 1
    <3>1. u[i] = pos
      BY <1>2, <2>1
    <3>2. \A r \in pos..(pos' - 1) : r = pos
      BY <1>1, <1>2
    <3>3. QED
      BY <1>1, <1>2, <1>3, <1>4, <2>1, <3>1, <3>2
  <2>2. CASE i # n + 1
    <3>1. i \in 1..n /\ u[i] = o[i] /\ i \in DOMAIN scopes
      BY <1>2, <1>4, <2>2
    <3>2. /\ o[i] \in Positions("push") /\ o[i] < pos /\ o[i] \in Nat
          /\ visit[o[i]].fun = scopes[i].fun
          /\ Depth(o[i]) = i
          /\ \A r \in o[i]..(pos - 1) : Depth(r) >= i
      BY <1>2, <3>1 DEF Stack
    <3>3. \A r \in o[i]..(pos' - 1) : r = pos \/ r \in o[i]..(pos - 1)
      BY <1>1, <1>2, <3>2
    <3>4. QED
      BY <1>1, <1>2, <1>3, <1>4, <3>1, <3>2, <3>3
  <2>3. QED
    BY <2>1, <2>2
<1>6. \A r \in 0..(pos' - 1) : Depth(r) >= 0
  <2>1. \A r \in 0..(pos' - 1) : r = pos \/ r \in 0..(pos - 1)
    BY <1>1, <1>2
  <2>2. QED
    BY <1>2, <1>3, <2>1 DEF Stack
<1>7. Depth(pos' - 1) = Len(scopes')
  BY <1>3, <1>4
<1>8. QED
  BY <1>1, <1>5, <1>6, <1>7, TextStays DEF Stack

LEMMA StackPop ==
  ASSUME TypeOK, NEW o, Stack(o), Done, pos \in DOMAIN visit,
         visit[pos].op = "pop", Current \in DOMAIN scopes,
         DOMAIN scopes' = 1..(Current - 1), Len(scopes') = Current - 1,
         \A i \in DOMAIN scopes' : scopes'[i].fun = scopes[i].fun
  PROVE  Stack(o)'
<1>1. pos' = pos + 1 /\ visit' = visit
  BY DEF Done
<1>2. /\ pos \in Nat \ {0} /\ Positions("push") \subseteq Nat \ {0}
      /\ DOMAIN scopes = 1..Current /\ Current \in Nat \ {0}
  BY PositionsNat DEF Current
<1>3. Depth(pos) = Current - 1 /\ pos' - 1 = pos
  <2>1. pos' - 1 = pos
    BY <1>1, <1>2
  <2>2. Depth(pos - 1) = Current
    BY DEF Stack, Current
  <2>3. QED
    BY <1>2, <2>1, <2>2, DepthStep
<1>4. ASSUME NEW i \in DOMAIN scopes'
      PROVE  /\ o[i] \in Positions("push") /\ o[i] < pos'
             /\ visit[o[i]].fun = scopes'[i].fun
             /\ Depth(o[i]) = i
             /\ \A r \in o[i]..(pos' - 1) : Depth(r) >= i
  <2>1. i \in DOMAIN scopes /\ i <= Current - 1 /\ i \in Nat
    BY <1>2
  <2>2. /\ o[i] \in Positions("push") /\ o[i] < pos /\ o[i] \in Nat
        /\ visit[o[i]].fun = scopes[i].fun
        /\ Depth(o[i]) = i
        /\ \A r \in o[i]..(pos - 1) : Depth(r) >= i
    BY <1>2, <2>1 DEF Stack
  <2>3. \A r \in o[i]..(pos' - 1) : r = pos \/ r \in o[i]..(pos - 1)
    BY <1>1, <1>2, <2>2
  <2>4. QED
    BY <1>1, <1>2, <1>3, <2>1, <2>2, <2>3
<1>5. \A r \in 0..(pos' - 1) : Depth(r) >= 0
  <2>1. \A r \in 0..(pos' - 1) : r = pos \/ r \in 0..(pos - 1)
    BY <1>1, <1>2
  <2>2. QED
    BY <1>2, <1>3, <2>1 DEF Stack
<1>6. QED
  BY <1>1, <1>2, <1>3, <1>4, <1>5, TextStays DEF Stack

\* A call that declares nothing; it may open a scope.
LEMMA FirstsKept ==
  ASSUME TypeOK, NEW o, Firsts(o), NEW u, Done, pos \notin Positions("decl"),
         \A i \in DOMAIN scopes' :
           \/ /\ i \in DOMAIN scopes /\ u[i] = o[i]
              /\ scopes'[i].decls = scopes[i].decls
           \/ u[i] = pos /\ scopes'[i].decls = {}
  PROVE  Firsts(u)'
<1>1. pos' = pos + 1 /\ visit' = visit
  BY DEF Done
<1>2. pos \in Nat \ {0} /\ Positions("decl") \subseteq Nat
  BY PositionsNat
<1>3. ASSUME NEW i \in DOMAIN scopes', NEW d \in scopes'[i].decls
      PROVE  d \in Earliest(DeclsIn(u[i], visit[d].name))
  BY <1>3 DEF Firsts
<1>4. ASSUME NEW i \in DOMAIN scopes', NEW d \in Positions("decl"), d < pos',
             u[i] \in Innermost(Around(d))
      PROVE  Find(i, visit[d].name)' # {}
  <2>1. d < pos
    BY <1>1, <1>2, <1>4
  <2>2. u[i] # pos
    <3>1. u[i] \in Around(d)
      BY <1>4 DEF Innermost
    <3>2. u[i] < d
      BY <3>1 DEF Around, Encloses
    <3>3. QED
      BY <1>2, <2>1, <3>2
  <2>3. /\ i \in DOMAIN scopes /\ u[i] = o[i]
        /\ scopes'[i].decls = scopes[i].decls
    BY <2>2
  <2>4. Find(i, visit[d].name) # {}
    BY <1>4, <2>1, <2>3 DEF Firsts
  <2>5. QED
    BY <1>1, <2>3, <2>4 DEF Find
<1>5. QED
  BY <1>1, <1>3, <1>4, TextStays DEF Firsts, Earliest

LEMMA FirstsDecl ==
  ASSUME TypeOK, NEW o, Stack(o), Firsts(o), AddDecl
  PROVE  Firsts(o)'
<1>1. /\ Current \in DOMAIN scopes /\ pos \in Positions("decl") /\ Here = visit[pos]
      /\ pos \in DOMAIN visit /\ visit[pos].op \notin {"push", "pop"}
      /\ Doing("decl")
  BY CurrentProps DEF AddDecl, Positions
<1>2. pos' = pos + 1 /\ visit' = visit
  BY DEF AddDecl, Done
<1>3. pos \in Nat \ {0} /\ Positions("decl") \subseteq Nat
  BY PositionsNat
<1>4. Innermost(Around(pos)) = {o[Current]}
  BY <1>1, InnermostHere
<1>0. PICK n, name : n = Current /\ name = visit[pos].name
  OBVIOUS
<1>5. scopes \in Seq(ScopeType) /\ scopes[Current] \in ScopeType
  BY <1>1 DEF TypeOK
<1>6. /\ DOMAIN scopes' = DOMAIN scopes
      /\ \A i \in DOMAIN scopes : i # Current => scopes'[i] = scopes[i]
      /\ scopes'[Current].decls = IF Find(Current, name) = {}
           THEN scopes[Current].decls \cup {pos} ELSE scopes[Current].decls
  BY <1>0, <1>1, <1>5 DEF AddDecl, ScopeType
<1>7. Find(n, name)' # {}
  <2>1. CASE Find(Current, name) = {}
    <3>1. pos \in scopes'[n].decls /\ visit'[pos].name = name
      BY <1>0, <1>2, <1>6, <2>1
    <3>2. QED
      BY <3>1 DEF Find
  <2>2. CASE Find(Current, name) # {}
    BY <1>0, <1>2, <1>6, <2>2 DEF Find
  <2>3. QED
    BY <2>1, <2>2
<1>8. ASSUME Find(Current, name) = {}
      PROVE  pos \in Earliest(DeclsIn(o[Current], name))
  <2>1. pos \in DeclsIn(o[Current], name)
    BY <1>0, <1>1, <1>4 DEF DeclsIn
  <2>2. ASSUME NEW r \in DeclsIn(o[Current], name), r < pos PROVE FALSE
    BY <1>1, <1>8, <2>2 DEF Firsts, DeclsIn
  <2>3. \A r \in DeclsIn(o[Current], name) : r \in Nat
    BY PositionsNat
  <2>4. QED
    BY <1>3, <2>1, <2>2, <2>3 DEF Earliest
<1>9. ASSUME NEW i \in DOMAIN scopes', NEW d \in scopes'[i].decls
      PROVE  d \in Earliest(DeclsIn(o[i], visit[d].name))
  <2>1. CASE d \in scopes[i].decls
    BY <1>6, <2>1 DEF Firsts
  <2>2. CASE d \notin scopes[i].decls
    BY <1>0, <1>6, <1>8, <1>9, <2>2
  <2>3. QED
    BY <2>1, <2>2
<1>10. ASSUME NEW i \in DOMAIN scopes', NEW d \in Positions("decl"), d < pos',
              o[i] \in Innermost(Around(d))
       PROVE  Find(i, visit[d].name)' # {}
  <2>1. CASE d = pos
    <3>1. o[i] = o[Current]
      BY <1>4, <1>10, <2>1
    <3>2. i = Current
      <4>1. i \in Nat /\ Current \in Nat /\ o[Current] \in Nat /\ i \in DOMAIN scopes
        BY <1>1, <1>6, PositionsNat DEF Stack
      <4>2. ~(i < Current) /\ ~(Current < i)
        BY <1>1, <3>1, <4>1, StackGrows
      <4>3. QED
        BY <4>1, <4>2
    <3>3. QED
      BY <1>0, <1>2, <1>7, <2>1, <3>2 DEF Find
  <2>2. CASE d # pos
    <3>1. d < pos
      BY <1>2, <1>3, <1>10, <2>2
    <3>2. Find(i, visit[d].name) # {}
      BY <1>6, <1>10, <3>1 DEF Firsts
    <3>3. scopes[i].decls \subseteq scopes'[i].decls
      BY <1>6
    <3>4. QED
      BY <1>2, <3>2, <3>3 DEF Find
  <2>3. QED
    BY <2>1, <2>2
<1>11. QED
  BY <1>2, <1>9, <1>10, TextStays DEF Firsts, Earliest

\* What is found in an open scope is the first declaration in its text.
LEMMA FindProps ==
  ASSUME TypeOK, NEW o, Firsts(o), NEW i \in DOMAIN scopes, NEW name
  PROVE  /\ \A d \in Find(i, name) : d \in Earliest(DeclsIn(o[i], name)) /\ d < pos
         /\ Find(i, name) = {} =>
              \A d \in DeclsIn(o[i], name) : ~(d < pos)
<1>1. ASSUME NEW d \in Find(i, name)
      PROVE  d \in Earliest(DeclsIn(o[i], name)) /\ d < pos
  BY DEF Find, Firsts, TypeOK
<1>2. ASSUME Find(i, name) = {}, NEW d \in DeclsIn(o[i], name), d < pos
      PROVE  FALSE
  BY <1>2 DEF Firsts, DeclsIn
<1>3. QED
  BY <1>1, <1>2

LEMMA UndecidedStays ==
  ASSUME visit' = visit, NEW p, NEW o, NEW i, NEW u,
         \A j \in 1..i : u[j] = o[j], i \in Nat \ {0}, Undecided(p, o, i)
  PROVE  Undecided(p, u, i)'
<1>1. u[i] = o[i]
  OBVIOUS
<1>2. QED
  BY <1>1, TextStays DEF Undecided

\* A call that leaves the lists; it may open a scope.
LEMMA WaitsKept ==
  ASSUME TypeOK, NEW o, Waits(o), NEW u, visit' = visit,
         \A i \in DOMAIN scopes' :
           \/ /\ i \in DOMAIN scopes /\ \A j \in 1..i : u[j] = o[j]
              /\ scopes'[i].unresolved = scopes[i].unresolved
              /\ scopes'[i].external = scopes[i].external
           \/ scopes'[i].unresolved = {} /\ scopes'[i].external = {}
  PROVE  Waits(u)'
<1>1. ASSUME NEW i \in DOMAIN scopes', NEW p,
             p \in scopes'[i].unresolved \cup scopes'[i].external
      PROVE  /\ i \in DOMAIN scopes /\ u[i] = o[i]
             /\ scopes'[i].unresolved = scopes[i].unresolved
             /\ scopes'[i].external = scopes[i].external
             /\ Undecided(p, u, i)'
  <2>1. /\ i \in DOMAIN scopes /\ \A j \in 1..i : u[j] = o[j]
        /\ scopes'[i].unresolved = scopes[i].unresolved
        /\ scopes'[i].external = scopes[i].external
    BY <1>1
  <2>2. i \in Nat \ {0}
    BY <2>1, PositionsNat
  <2>3. Undecided(p, o, i)
    BY <1>1, <2>1 DEF Waits
  <2>4. Undecided(p, u, i)'
    BY <2>1, <2>2, <2>3, UndecidedStays
  <2>5. QED
    BY <2>1, <2>2, <2>4
<1>2. ASSUME NEW i \in DOMAIN scopes', NEW p \in scopes'[i].unresolved
      PROVE  Undecided(p, u, i)' /\ MayBeLate(p, u[i])'
  BY <1>1, TextStays DEF Waits
<1>3. ASSUME NEW i \in DOMAIN scopes', NEW p \in scopes'[i].external
      PROVE  Undecided(p, u, i)' /\ ~MayBeLate(p, u[i])'
  BY <1>1, TextStays DEF Waits
<1>4. QED
  BY <1>2, <1>3 DEF Waits

LEMMA DecidedKept ==
  ASSUME TypeOK, Decided, visit' = visit, pos' = pos \/ pos' = pos + 1,
         bound' = bound, reported' = reported
  PROVE  Decided'
<1>1. pos \in Nat /\ Positions("use") \subseteq Nat
  BY PositionsNat
<1>2. \A p \in Positions("use") : p < pos => p < pos'
  BY <1>1
<1>3. QED
  BY <1>2, TextStays DEF Decided, Resolved, MeansBound

-----------------------------------------------------------------------------
(* A use. *)

\* The declaring scopes have an innermost one.
LEMMA InnermostExists ==
  ASSUME NEW n \in Nat, NEW S, S \subseteq 1..n, S # {}
  PROVE  \E q \in S : Innermost(S) = {q}
<1>. DEFINE T == {n - q : q \in S}
<1>1. T \subseteq Nat /\ T # {}
  <2>1. \A q \in S : n - q \in Nat
    OBVIOUS
  <2>2. PICK q \in S : TRUE
    OBVIOUS
  <2>3. n - q \in T
    OBVIOUS
  <2>4. QED
    BY <2>1, <2>3
<1>2. PICK t \in T : \A y \in T : t <= y
  BY <1>1, LeastNatural
<1>3. PICK q \in S : t = n - q
  BY <1>2
<1>4. ASSUME NEW r \in S PROVE r <= q
  <2>1. n - r \in T /\ r \in Nat /\ q \in Nat
    BY <1>4
  <2>2. n - q <= n - r
    BY <1>2, <1>3, <2>1
  <2>3. QED
    BY <2>1, <2>2
<1>5. \A r \in S : q <= r => r = q
  <2>1. TAKE r \in S
  <2>2. r <= q /\ r \in Nat /\ q \in Nat
    BY <1>4
  <2>3. QED
    BY <2>2
<1>6. QED
  BY <1>4, <1>5 DEF Innermost

\* A scope that declares a name early for the use at pos is one that declares
\* it in the stack.
LEMMA EarlyHere ==
  ASSUME TypeOK, NEW o, Stack(o), Firsts(o), pos \in DOMAIN visit,
         visit[pos].op = "use"
  PROVE  Early(pos) = {o[i] : i \in Declaring(visit[pos].name)}
<1>1. Around(pos) = {o[i] : i \in DOMAIN scopes}
  BY AroundHere
<1>2. ASSUME NEW i \in Declaring(visit[pos].name)
      PROVE  o[i] \in Early(pos)
  <2>1. i \in DOMAIN scopes /\ Find(i, visit[pos].name) # {}
    BY DEF Declaring
  <2>2. PICK d \in Find(i, visit[pos].name) : TRUE
    BY <2>1
  <2>3. d \in DeclsIn(o[i], visit[pos].name) /\ d < pos
    BY <2>1, FindProps DEF Earliest
  <2>4. QED
    BY <1>1, <2>1, <2>3 DEF Early
<1>3. ASSUME NEW q \in Early(pos)
      PROVE  \E i \in Declaring(visit[pos].name) : q = o[i]
  <2>1. PICK i \in DOMAIN scopes : q = o[i]
    BY <1>1 DEF Early
  <2>2. PICK d \in DeclsIn(o[i], visit[pos].name) : d < pos
    BY <2>1 DEF Early
  <2>3. Find(i, visit[pos].name) # {}
    BY <2>2, FindProps
  <2>4. QED
    BY <2>1, <2>3 DEF Declaring
<1>4. QED
  BY <1>2, <1>3

\* visit(Identifier) of a name that an open scope declares.
LEMMA FoundIsMeant ==
  ASSUME TypeOK, NEW o, Stack(o), Firsts(o), pos \in DOMAIN visit,
         visit[pos].op = "use", NEW d \in Lookup(visit[pos].name)
  PROVE  d \in Meant(pos)
<1>. DEFINE name == visit[pos].name
<1>1. PICK i \in Innermost(Declaring(name)) : d \in Find(i, name)
  BY DEF Lookup
<1>2. i \in Declaring(name) /\ i \in DOMAIN scopes /\ \A j \in Declaring(name) : j <= i
  BY <1>1 DEF Innermost, Declaring
<1>3. Early(pos) = {o[j] : j \in Declaring(name)}
  BY EarlyHere
<1>4. ASSUME NEW j \in Declaring(name) PROVE o[j] <= o[i]
  <2>1. j \in DOMAIN scopes /\ j <= i /\ i \in Nat /\ j \in Nat
        /\ o[i] \in Nat /\ o[j] \in Nat
    BY <1>2, PositionsNat DEF Declaring, Stack
  <2>2. i = j \/ j < i
    BY <2>1
  <2>3. QED
    BY <1>2, <2>1, <2>2, StackGrows
<1>5. o[i] \in Innermost(Early(pos)) /\ Early(pos) # {}
  BY <1>2, <1>3, <1>4 DEF Innermost
<1>6. d \in Earliest(DeclsIn(o[i], name))
  BY <1>1, <1>2, FindProps
<1>7. QED
  BY <1>5, <1>6 DEF Meant

LEMMA UseFoundDecided ==
  ASSUME TypeOK, VisitedOnce, NEW o, Stack(o), Firsts(o), Decided, UseFound
  PROVE  Decided'
<1>1. /\ pos \in Positions("use") /\ Here = visit[pos]
      /\ pos \in DOMAIN visit /\ visit[pos].op = "use"
  BY CurrentProps DEF UseFound, Positions
<1>2. /\ pos' = pos + 1 /\ visit' = visit /\ reported' = reported
      /\ pos \in Nat /\ Positions("use") \subseteq Nat
  BY PositionsNat DEF UseFound, Done
<1>3. PICK d \in Lookup(visit[pos].name) :
        bound' = [bound EXCEPT ![visit[pos].at] = visit[d].at]
  BY <1>1 DEF UseFound
<1>4. d \in Meant(pos)
  BY <1>1, <1>3, FoundIsMeant
<1>5. DOMAIN bound = UsePlaces /\ \A p \in Positions("use") : visit[p].at \in UsePlaces
  BY DEF TypeOK, UsePlaces
<1>6. bound'[visit[pos].at] = visit[d].at
  BY <1>1, <1>3, <1>5
<1>7. ASSUME NEW p \in Positions("use"), p # pos
      PROVE  bound'[visit[p].at] = bound[visit[p].at]
  <2>1. visit[p].at # visit[pos].at
    BY <1>1, <1>7 DEF VisitedOnce
  <2>2. QED
    BY <1>3, <1>5, <2>1
<1>8. ASSUME NEW p \in Positions("use")
      PROVE  /\ bound'[visit[p].at] # NoDecl =>
                  p < pos' /\ \E e \in Meant(p) : bound'[visit[p].at] = visit[e].at
             /\ visit[p].at \in reported => p < pos' /\ Meant(p) = {}
  <2>1. p < pos => p < pos'
    BY <1>2
  <2>2. visit[p].at \in reported => p < pos' /\ Meant(p) = {}
    BY <2>1 DEF Decided
  <2>3. CASE p = pos
    BY <1>2, <1>4, <1>6, <2>2, <2>3
  <2>4. CASE p # pos
    BY <1>7, <2>1, <2>2, <2>4 DEF Decided, Resolved, MeansBound
  <2>5. QED
    BY <2>3, <2>4
<1>9. QED
  BY <1>2, <1>8, TextStays DEF Decided, Resolved, MeansBound

\* A use that has to wait.
LEMMA UseLaterWaits ==
  ASSUME TypeOK, NEW o, Stack(o), Firsts(o), Waits(o), UseLater
  PROVE  Waits(o)'
<1>1. /\ Current \in DOMAIN scopes /\ pos \in Positions("use") /\ Here = visit[pos]
      /\ pos \in DOMAIN visit /\ visit[pos].op = "use"
  BY CurrentProps DEF UseLater, Positions
<1>2. visit' = visit /\ Lookup(visit[pos].name) = {}
  BY <1>1 DEF UseLater, Done
<1>3. /\ DOMAIN scopes = 1..Current /\ Current \in Nat \ {0}
      /\ \A i \in DOMAIN scopes : o[i] \in Nat
  BY <1>1, PositionsNat DEF Current, Stack
<1>4. Around(pos) = {o[i] : i \in DOMAIN scopes}
  BY <1>1, AroundHere
<1>5. Declaring(visit[pos].name) = {}
  <2>1. SUFFICES ASSUME Declaring(visit[pos].name) # {} PROVE FALSE
    OBVIOUS
  <2>2. PICK q \in Declaring(visit[pos].name) :
          Innermost(Declaring(visit[pos].name)) = {q}
    BY <1>3, <2>1, InnermostExists DEF Declaring
  <2>3. QED
    BY <1>2, <2>2 DEF Lookup, Declaring
<1>6. \A i \in DOMAIN scopes : o[i] <= o[Current]
  <2>1. TAKE i \in DOMAIN scopes
  <2>2. i = Current \/ i < Current
    BY <1>3
  <2>3. QED
    BY <1>1, <1>3, <2>2, StackGrows
<1>7. Undecided(pos, o, Current)
  <2>1. Early(pos) = {}
    BY <1>1, <1>5, EarlyHere
  <2>2. \A q \in Late(pos) : q <= o[Current]
    BY <1>4, <1>6 DEF Late
  <2>3. QED
    BY <1>3, <1>4, <2>1, <2>2 DEF Undecided
<1>8. MayBeLate(pos, o[Current]) <=> visit[pos].call
  <2>1. \A f \in Around(pos) : ~(o[Current] < f)
    BY <1>1, <1>3, <1>4, <1>6
  <2>2. QED
    BY <2>1 DEF MayBeLate
<1>9. scopes \in Seq(ScopeType) /\ scopes[Current] \in ScopeType
  BY <1>1 DEF TypeOK
<1>10. /\ DOMAIN scopes' = DOMAIN scopes
       /\ \A i \in DOMAIN scopes : i # Current => scopes'[i] = scopes[i]
       /\ IF visit[pos].call
          THEN /\ scopes'[Current].unresolved = scopes[Current].unresolved \cup {pos}
               /\ scopes'[Current].external = scopes[Current].external
          ELSE /\ scopes'[Current].unresolved = scopes[Current].unresolved
               /\ scopes'[Current].external = scopes[Current].external \cup {pos}
  <2>1. CASE visit[pos].call
    BY <1>1, <1>9, <2>1 DEF UseLater, ScopeType
  <2>2. CASE ~visit[pos].call
    BY <1>1, <1>9, <2>2 DEF UseLater, ScopeType
  <2>3. QED
    BY <2>1, <2>2
<1>11. ASSUME NEW i \in DOMAIN scopes', NEW p \in scopes'[i].unresolved
       PROVE  Undecided(p, o, i) /\ MayBeLate(p, o[i])
  <2>1. \/ p \in scopes[i].unresolved
        \/ i = Current /\ p = pos /\ visit[pos].call
    BY <1>10, <1>11
  <2>2. QED
    BY <1>7, <1>8, <1>10, <2>1 DEF Waits
<1>12. ASSUME NEW i \in DOMAIN scopes', NEW p \in scopes'[i].external
       PROVE  Undecided(p, o, i) /\ ~MayBeLate(p, o[i])
  <2>1. \/ p \in scopes[i].external
        \/ i = Current /\ p = pos /\ ~visit[pos].call
    BY <1>10, <1>12
  <2>2. QED
    BY <1>7, <1>8, <1>10, <2>1 DEF Waits
<1>13. \A p, i : Undecided(p, o, i)' = Undecided(p, o, i)
  BY <1>2, TextStays DEF Undecided
<1>14. QED
  BY <1>2, <1>11, <1>12, <1>13, TextStays DEF Waits

-----------------------------------------------------------------------------
(* The end of a scope. *)

\* What is passed on means nothing in the scope that is closed.
LEMMA PassedIsOutside ==
  ASSUME TypeOK, NEW o, Stack(o), Firsts(o), Waits(o), Doing("pop"),
         NEW p \in (Closing.unresolved \ Founded) \cup Closing.external
  PROVE  /\ Current \in DOMAIN scopes
         /\ \A q \in Late(p) : \E j \in 1..(Current - 1) : q = o[j]
         /\ \A j \in 1..Current : o[j] \in Around(p)
         /\ \A q \in Around(p) :
              q <= o[Current] => \E j \in 1..Current : q = o[j]
         /\ Early(p) = {}
<1>1. /\ Current \in DOMAIN scopes /\ pos \in DOMAIN visit
      /\ visit[pos].op = "pop"
  BY CurrentProps DEF Positions
<1>2. Undecided(p, o, Current)
  BY <1>1 DEF Waits, Closing
<1>3. Current \in Nat \ {0} /\ o[Current] \in Around(p)
  BY <1>1, <1>2, PositionsNat DEF Undecided, Current
<1>4. ASSUME o[Current] \in Late(p) PROVE FALSE
  <2>1. PICK d \in DeclsIn(o[Current], visit[p].name) : MayBeLate(p, o[Current])
    BY <1>4 DEF Late, MayBeLate
  <2>2. p \in Closing.unresolved /\ Find(Current, visit[p].name) = {}
    BY <1>1, <2>1 DEF Waits, Closing, Founded
  <2>3. d \in Positions("decl") /\ o[Current] \in Around(d)
    BY DEF DeclsIn, Innermost
  <2>4. d < pos
    BY <1>1, <2>3, ClosedHere
  <2>5. QED
    BY <1>1, <2>2, <2>4, FindProps
<1>5. ASSUME NEW q \in Late(p) PROVE \E j \in 1..(Current - 1) : q = o[j]
  <2>1. q \in Around(p) /\ q <= o[Current]
    BY <1>2 DEF Undecided, Late
  <2>2. PICK j \in 1..Current : q = o[j]
    BY <1>2, <2>1 DEF Undecided
  <2>3. j # Current
    BY <1>4, <2>2
  <2>4. j \in 1..(Current - 1)
    BY <1>3, <2>3
  <2>5. QED
    BY <2>2, <2>4
<1>6. QED
  BY <1>1, <1>2, <1>5 DEF Undecided

\* The parent's lists.
LEMMA PopInnerLists ==
  ASSUME TypeOK, PopInner
  PROVE  /\ DOMAIN scopes' = 1..(Current - 1) /\ Len(scopes') = Current - 1
         /\ Current \in DOMAIN scopes /\ Current - 1 \in DOMAIN scopes'
         /\ \A i \in DOMAIN scopes' :
              /\ i \in DOMAIN scopes
              /\ scopes'[i].fun = scopes[i].fun
              /\ scopes'[i].decls = scopes[i].decls
              /\ i # Current - 1 => scopes'[i] = scopes[i]
         /\ scopes'[Current - 1].unresolved
              = scopes[Current - 1].unresolved \cup ToUnresolved(Closing)
         /\ scopes'[Current - 1].external
              = scopes[Current - 1].external \cup ToExternal(Closing)
<1>. DEFINE n == Current - 1
            below == SubSeq(scopes, 1, n)
            b == scopes[n]
            s == [b EXCEPT !.unresolved = @ \cup ToUnresolved(Closing),
                           !.external = @ \cup ToExternal(Closing)]
<1>1. /\ below \in Seq(ScopeType) /\ DOMAIN below = 1..n /\ n \in 1..n
      /\ Current \in DOMAIN scopes
      /\ \A i \in 1..n : i \in DOMAIN scopes /\ below[i] = scopes[i]
  BY BelowProps DEF PopInner
<1>2. b \in ScopeType
  BY <1>1, OldScopesFit
<1>3. /\ s.decls = b.decls /\ s.fun = b.fun
      /\ s.unresolved = b.unresolved \cup ToUnresolved(Closing)
      /\ s.external = b.external \cup ToExternal(Closing)
  BY <1>2 DEF ScopeType
<1>4. scopes' = [below EXCEPT ![n] = s]
  BY <1>1 DEF PopInner
<1>. HIDE DEF s, below
<1>5. /\ DOMAIN scopes' = 1..n
      /\ \A i \in 1..n : scopes'[i] = IF i = n THEN s ELSE scopes[i]
  <2>. HIDE DEF n
  <2>1. QED
    BY <1>1, <1>4
<1>6. Len(scopes') = n
  <2>1. scopes' \in Seq(ScopeType) /\ n \in Nat
    BY <1>1, PopInnerScopes
  <2>2. QED
    BY <1>5, <2>1, LenProperties
<1>7. QED
  BY <1>1, <1>3, <1>5, <1>6

\* What the parent gets waits there.
LEMMA PassedWaits ==
  ASSUME TypeOK, NEW o, Stack(o), Firsts(o), Waits(o), Doing("pop"), Current > 1,
         NEW p \in (Closing.unresolved \ Founded) \cup Closing.external
  PROVE  Undecided(p, o, Current - 1)
<1>1. /\ Current \in DOMAIN scopes /\ Current - 1 \in DOMAIN scopes
      /\ DOMAIN scopes = 1..Current /\ Current \in Nat
      /\ \A j \in DOMAIN scopes : o[j] \in Nat
  BY PassedIsOutside, PositionsNat DEF Current, Stack
<1>2. /\ \A q \in Late(p) : \E j \in 1..(Current - 1) : q = o[j]
      /\ \A j \in 1..Current : o[j] \in Around(p)
      /\ \A q \in Around(p) :
           q <= o[Current] => \E j \in 1..Current : q = o[j]
      /\ Early(p) = {}
  BY PassedIsOutside
<1>3. o[Current - 1] < o[Current]
  BY <1>1, StackGrows
<1>4. \A j \in 1..(Current - 1) : j \in 1..Current
  BY <1>1
<1>5. ASSUME NEW q \in Around(p), q <= o[Current - 1]
      PROVE  \E j \in 1..(Current - 1) : q = o[j]
  <2>1. q \in Nat
    BY PositionsNat
  <2>2. q < o[Current]
    BY <1>1, <1>3, <1>5, <2>1
  <2>3. PICK j \in 1..Current : q = o[j]
    BY <1>1, <1>2, <2>1, <2>2
  <2>4. j # Current
    BY <1>1, <2>1, <2>2, <2>3
  <2>5. j \in 1..(Current - 1)
    BY <1>1, <2>4
  <2>6. QED
    BY <2>3, <2>5
<1>6. ASSUME NEW q \in Late(p) PROVE q <= o[Current - 1]
  <2>1. PICK j \in 1..(Current - 1) : q = o[j]
    BY <1>2
  <2>2. j = Current - 1 \/ j < Current - 1
    BY <1>1
  <2>3. QED
    BY <1>1, <1>4, <2>1, <2>2, StackGrows
<1>7. QED
  BY <1>2, <1>4, <1>5, <1>6 DEF Undecided

LEMMA PopInnerWaits ==
  ASSUME TypeOK, NEW o, Stack(o), Firsts(o), Waits(o), PopInner
  PROVE  Waits(o)'
<1>. DEFINE n == Current
<1>1. visit' = visit /\ Doing("pop") /\ n > 1
  BY DEF PopInner, Done
<1>2. /\ n \in DOMAIN scopes /\ n \in 1..n /\ n \in Nat /\ n - 1 \in DOMAIN scopes
      /\ DOMAIN scopes = 1..n /\ \A j \in DOMAIN scopes : o[j] \in Nat
      /\ scopes[n] = Closing
  BY PopInnerLists, PositionsNat DEF Current, Stack, Closing
<1>3. o[n - 1] < o[n]
  BY <1>1, <1>2, StackGrows
<1>4. ASSUME NEW p \in Closing.unresolved \ Founded
      PROVE  MayBeLate(p, o[n - 1])
  <2>1. MayBeLate(p, o[n])
    BY <1>2 DEF Waits
  <2>2. CASE visit[p].call
    BY <2>2 DEF MayBeLate
  <2>3. ASSUME NEW f \in Around(p), visit[f].fun, o[n] < f
        PROVE  MayBeLate(p, o[n - 1])
    <3>1. f \in Nat
      BY PositionsNat
    <3>2. o[n - 1] < f
      BY <1>2, <1>3, <2>3, <3>1
    <3>3. QED
      BY <2>3, <3>2 DEF MayBeLate
  <2>4. QED
    BY <2>1, <2>2, <2>3 DEF MayBeLate
<1>5. ASSUME NEW p \in Closing.external, Closing.fun
      PROVE  MayBeLate(p, o[n - 1])
  <2>1. o[n] \in Around(p)
    BY <1>1, <1>2, PassedIsOutside
  <2>2. visit[o[n]].fun
    BY <1>2, <1>5 DEF Stack
  <2>3. QED
    BY <1>3, <2>1, <2>2 DEF MayBeLate
<1>6. ASSUME NEW p \in Closing.external, ~Closing.fun, MayBeLate(p, o[n - 1])
      PROVE  FALSE
  <2>1. ~MayBeLate(p, o[n])
    BY <1>2 DEF Waits
  <2>2. PICK f \in Around(p) : visit[f].fun /\ o[n - 1] < f
    BY <1>6, <2>1 DEF MayBeLate
  <2>3. f \in Nat /\ ~(o[n] < f)
    BY <2>1, <2>2, PositionsNat DEF MayBeLate
  <2>4. f <= o[n]
    BY <1>2, <2>3
  <2>5. PICK j \in 1..n : f = o[j]
    BY <1>1, <2>4, PassedIsOutside
  <2>6. CASE j = n
    BY <1>2, <1>6, <2>2, <2>5, <2>6 DEF Stack
  <2>7. CASE j # n
    <3>1. j \in DOMAIN scopes /\ (j = n - 1 \/ j < n - 1)
      BY <1>2, <2>7
    <3>2. o[j] <= o[n - 1]
      BY <1>2, <3>1, StackGrows
    <3>3. QED
      BY <1>2, <2>2, <2>3, <2>5, <3>2
  <2>8. QED
    BY <2>6, <2>7
<1>7. ASSUME NEW i \in DOMAIN scopes', NEW p \in scopes'[i].unresolved
      PROVE  Undecided(p, o, i) /\ MayBeLate(p, o[i])
  <2>1. i \in DOMAIN scopes
    BY PopInnerLists
  <2>2. CASE p \in scopes[i].unresolved
    BY <2>1, <2>2 DEF Waits
  <2>3. CASE p \notin scopes[i].unresolved
    <3>1. i = n - 1 /\ p \in ToUnresolved(Closing)
      BY <1>7, <2>3, PopInnerLists
    <3>2. \/ p \in Closing.unresolved \ Founded
          \/ p \in Closing.external /\ Closing.fun
      BY <3>1 DEF ToUnresolved
    <3>3. MayBeLate(p, o[n - 1])
      BY <1>4, <1>5, <3>2
    <3>4. Undecided(p, o, n - 1)
      BY <1>1, <3>2, PassedWaits
    <3>5. QED
      BY <3>1, <3>3, <3>4
  <2>4. QED
    BY <2>2, <2>3
<1>8. ASSUME NEW i \in DOMAIN scopes', NEW p \in scopes'[i].external
      PROVE  Undecided(p, o, i) /\ ~MayBeLate(p, o[i])
  <2>1. i \in DOMAIN scopes
    BY PopInnerLists
  <2>2. CASE p \in scopes[i].external
    BY <2>1, <2>2 DEF Waits
  <2>3. CASE p \notin scopes[i].external
    <3>1. i = n - 1 /\ p \in ToExternal(Closing)
      BY <1>8, <2>3, PopInnerLists
    <3>2. p \in Closing.external /\ ~Closing.fun
      BY <3>1 DEF ToExternal
    <3>3. Undecided(p, o, n - 1)
      BY <1>1, <3>2, PassedWaits
    <3>4. QED
      BY <1>6, <3>1, <3>2, <3>3
  <2>4. QED
    BY <2>2, <2>3
<1>9. \A p, i : Undecided(p, o, i)' = Undecided(p, o, i)
  BY <1>1, TextStays DEF Undecided
<1>10. QED
  BY <1>1, <1>7, <1>8, <1>9, TextStays DEF Waits

\* What the scope binds when it is closed is what the rules say.
LEMMA FoundedIsMeant ==
  ASSUME TypeOK, NEW o, Stack(o), Firsts(o), Waits(o), Doing("pop"),
         NEW p \in Founded
  PROVE  /\ p \in Positions("use") /\ p < pos
         /\ \E d \in Meant(p) : DeclOf(p) = visit[d].at
<1>1. Current \in DOMAIN scopes /\ p \in scopes[Current].unresolved
      /\ Find(Current, visit[p].name) # {}
  BY CurrentProps DEF Founded, Closing
<1>2. p \in Positions("use") /\ p < pos
  BY <1>1 DEF TypeOK
<1>3. PICK d \in Find(Current, visit[p].name) : DeclOf(p) = visit[d].at
  BY <1>1 DEF DeclOf
<1>4. d \in Earliest(DeclsIn(o[Current], visit[p].name))
  BY <1>1, FindProps
<1>5. /\ Early(p) = {} /\ o[Current] \in Around(p)
      /\ \A q \in Late(p) : q <= o[Current] /\ MayBeLate(p, o[Current])
      /\ MayBeLate(p, o[Current])
  BY <1>1, PositionsNat DEF Waits, Undecided
<1>6. o[Current] \in Late(p)
  BY <1>4, <1>5 DEF Late, MayBeLate, Earliest
<1>7. o[Current] \in Innermost(Late(p))
  BY <1>5, <1>6 DEF Innermost
<1>8. d \in Meant(p)
  BY <1>4, <1>5, <1>7 DEF Meant
<1>9. QED
  BY <1>2, <1>3, <1>8

\* What is left at the end means nothing.
LEMMA LeftMeansNothing ==
  ASSUME TypeOK, NEW o, Stack(o), Firsts(o), Waits(o), Doing("pop"), Current = 1,
         NEW p \in (Closing.unresolved \ Founded) \cup Closing.external
  PROVE  p \in Positions("use") /\ p < pos /\ Meant(p) = {}
<1>1. Current \in DOMAIN scopes /\ Early(p) = {} /\ Late(p) = {}
  BY PassedIsOutside
<1>2. p \in Positions("use") /\ p < pos
  BY <1>1 DEF Closing, TypeOK
<1>3. QED
  BY <1>1, <1>2 DEF Meant, Innermost

LEMMA PopDecided ==
  ASSUME TypeOK, VisitedOnce, NEW o, Stack(o), Firsts(o), Waits(o), Decided,
         PopInner \/ PopOutermost
  PROVE  Decided'
<1>1. Doing("pop") /\ BindFounded /\ visit' = visit /\ pos' = pos + 1
  BY DEF PopInner, PopOutermost, Done
<1>2. pos \in Nat /\ Positions("use") \subseteq Nat
  BY PositionsNat
<1>3. \A p \in Positions("use") : p < pos => p < pos'
  BY <1>1, <1>2
<1>4. DOMAIN bound = UsePlaces /\ \A p \in Positions("use") : visit[p].at \in UsePlaces
  BY DEF TypeOK, UsePlaces
<1>5. ASSUME NEW p \in Positions("use"), bound'[visit[p].at] # NoDecl
      PROVE  p < pos' /\ \E d \in Meant(p) : bound'[visit[p].at] = visit[d].at
  <2>1. CASE p \in Founded
    <3>1. \A q \in Founded : visit[q].at = visit[p].at => q = p
      BY <1>1, <2>1, FoundedIsMeant DEF VisitedOnce
    <3>2. bound'[visit[p].at] = DeclOf(p)
      <4>1. (CHOOSE q \in Founded : visit[q].at = visit[p].at) = p
        BY <2>1, <3>1
      <4>2. QED
        BY <1>1, <1>4, <2>1, <4>1 DEF BindFounded
    <3>3. QED
      BY <1>1, <1>3, <2>1, <3>2, FoundedIsMeant
  <2>2. CASE p \notin Founded
    <3>1. \A q \in Founded : visit[q].at # visit[p].at
      BY <1>1, <2>2, FoundedIsMeant DEF VisitedOnce
    <3>2. bound'[visit[p].at] = bound[visit[p].at]
      BY <1>1, <1>4, <3>1, BindProps
    <3>3. QED
      BY <1>3, <1>5, <3>2 DEF Decided, Resolved, MeansBound
  <2>3. QED
    BY <2>1, <2>2
<1>6. ASSUME NEW p \in Positions("use"), visit[p].at \in reported'
      PROVE  p < pos' /\ Meant(p) = {}
  <2>1. CASE visit[p].at \in reported
    BY <1>3, <2>1 DEF Decided
  <2>2. CASE visit[p].at \notin reported
    <3>1. PopOutermost
      BY <1>6, <2>2 DEF PopInner
    <3>2. PICK q \in (Closing.unresolved \ Founded) \cup Closing.external :
            visit[p].at = visit[q].at
      BY <1>6, <2>2, <3>1 DEF PopOutermost
    <3>3. q \in Positions("use") /\ q < pos /\ Meant(q) = {}
      BY <3>1, LeftMeansNothing DEF PopOutermost
    <3>4. p = q
      BY <3>2, <3>3 DEF VisitedOnce
    <3>5. QED
      BY <1>3, <3>3, <3>4
  <2>3. QED
    BY <2>1, <2>2
<1>7. QED
  BY <1>1, <1>5, <1>6, TextStays DEF Decided, Resolved, MeansBound

\* The walk is passed one call at a time.
Pace == pos <= Len(visit) + 1

LEMMA InitFollows ==
  ASSUME Init, NEW o
  PROVE  Pace /\ Follows(o)
<1>1. visit \in Seq(Calls) /\ TypeOK
  BY VisitsAssumption, InitTypeOK DEF Init
<1>2. pos = 1 /\ DOMAIN scopes = {} /\ Len(scopes) = 0 /\ Len(visit) \in Nat
  BY <1>1 DEF Init
<1>3. \A r \in 0..(pos - 1) : r = 0
  BY <1>2
<1>4. Stack(o)
  BY <1>2, <1>3, DepthStep DEF Stack
<1>5. \A p \in Positions("use") : bound[visit[p].at] = NoDecl /\ reported = {}
  BY DEF Init, UsePlaces
<1>6. Decided
  BY <1>5 DEF Decided, Resolved
<1>7. QED
  BY <1>2, <1>4, <1>6 DEF Pace, Follows, Firsts, Waits

LEMMA NextPace ==
  ASSUME TypeOK, Pace, [Next]_vars
  PROVE  Pace'
<1>1. CASE Done /\ pos \in DOMAIN visit
  <2>1. visit' = visit /\ pos' = pos + 1 /\ pos \in 1..Len(visit)
        /\ Len(visit) \in Nat
    BY <1>1 DEF Done, TypeOK
  <2>2. QED
    BY <2>1 DEF Pace
<1>2. CASE visit' = visit /\ pos' = pos
  BY <1>2 DEF Pace
<1>3. QED
  BY <1>1, <1>2 DEF Next, PushScope, AddDecl, UseResolved, UseFound, UseLater,
     PopInner, PopOutermost, AssertionFails, Over, Doing, vars

\* Calls that leave the scopes.
LEMMA SameScopesFollow ==
  ASSUME TypeOK, NEW o, Follows(o), scopes' = scopes, visit' = visit,
         \/ pos' = pos
         \/ /\ Done /\ pos \in DOMAIN visit
            /\ visit[pos].op \notin {"push", "pop", "decl"}
  PROVE  Stack(o)' /\ Firsts(o)' /\ Waits(o)'
<1>1. Waits(o)'
  BY WaitsKept DEF Follows
<1>2. CASE pos' = pos
  <2>1. Stack(o)'
    BY <1>2, TextStays DEF Follows, Stack
  <2>2. \A i, name : Find(i, name)' = Find(i, name)
    BY DEF Find
  <2>3. Firsts(o)'
    BY <1>2, <2>2, TextStays DEF Follows, Firsts, Earliest
  <2>4. QED
    BY <1>1, <2>1, <2>3
<1>3. CASE /\ Done /\ pos \in DOMAIN visit
           /\ visit[pos].op \notin {"push", "pop", "decl"}
  <2>1. Stack(o)'
    BY <1>3, StackPasses DEF Follows
  <2>2. pos \notin Positions("decl")
    BY <1>3 DEF Positions
  <2>3. Firsts(o)'
    BY <1>3, <2>2, FirstsKept DEF Follows
  <2>4. QED
    BY <1>1, <2>1, <2>3
<1>4. QED
  BY <1>2, <1>3

LEMMA PushFollows ==
  ASSUME TypeOK, NEW o, Follows(o), PushScope
  PROVE  \E u : Follows(u)'
<1>1. PICK n, at : n \in Nat /\ n = Len(scopes) /\ at = pos
  BY DEF TypeOK
<1>2. PICK u : u = [i \in 1..(n + 1) |-> IF i = n + 1 THEN at ELSE o[i]]
  OBVIOUS
<1>3. /\ DOMAIN scopes = 1..n /\ u[n + 1] = pos
      /\ \A i \in DOMAIN scopes : u[i] = o[i]
  BY <1>1, <1>2, PositionsNat
<1>4. /\ Done /\ visit' = visit /\ pos \in DOMAIN visit /\ visit[pos].op = "push"
      /\ bound' = bound /\ reported' = reported
      /\ pos' = pos + 1 /\ scopes' = Append(scopes, Scope(visit[pos].fun))
  BY DEF PushScope, Done, Doing, Here
<1>5. Stack(u)'
  BY <1>1, <1>3, StackPush DEF Follows
<1>6. /\ DOMAIN scopes' = 1..(n + 1)
      /\ \A i \in 1..n : i \in DOMAIN scopes /\ scopes'[i] = scopes[i]
      /\ scopes'[n + 1] = Scope(visit[pos].fun)
  BY <1>1, <1>4 DEF TypeOK
<1>7. \A i \in DOMAIN scopes' : i \in 1..n \/ i = n + 1
  BY <1>1, <1>6
<1>8. Firsts(u)'
  <2>1. pos \notin Positions("decl")
    BY <1>4 DEF Positions
  <2>2. QED
    BY <1>1, <1>3, <1>4, <1>6, <1>7, <2>1, FirstsKept DEF Follows, Scope
<1>9. Waits(u)'
  <2>1. \A i \in 1..n : \A j \in 1..i : j \in 1..n
    BY <1>1
  <2>2. QED
    BY <1>3, <1>4, <1>6, <1>7, <2>1, WaitsKept DEF Follows, Scope
<1>10. Decided'
  BY <1>4, DecidedKept DEF Follows
<1>11. QED
  BY <1>5, <1>8, <1>9, <1>10 DEF Follows

LEMMA AddDeclFollows ==
  ASSUME TypeOK, NEW o, Follows(o), AddDecl
  PROVE  Follows(o)'
<1>1. /\ Current \in DOMAIN scopes /\ pos \in DOMAIN visit /\ visit[pos].op = "decl"
      /\ Done /\ visit' = visit /\ pos' = pos + 1
      /\ bound' = bound /\ reported' = reported
  BY CurrentProps DEF AddDecl, Done, Positions
<1>2. scopes \in Seq(ScopeType) /\ scopes[Current] \in ScopeType
  BY <1>1 DEF TypeOK
<1>3. /\ DOMAIN scopes' = DOMAIN scopes /\ Len(scopes') = Len(scopes)
      /\ \A i \in DOMAIN scopes :
           /\ scopes'[i].fun = scopes[i].fun
           /\ scopes'[i].unresolved = scopes[i].unresolved
           /\ scopes'[i].external = scopes[i].external
  BY <1>1, <1>2 DEF AddDecl, ScopeType
<1>4. Stack(o)'
  BY <1>1, <1>3, StackPasses DEF Follows
<1>5. Firsts(o)'
  BY FirstsDecl DEF Follows
<1>6. Waits(o)'
  BY <1>1, <1>3, WaitsKept DEF Follows
<1>7. Decided'
  BY <1>1, DecidedKept DEF Follows
<1>8. QED
  BY <1>4, <1>5, <1>6, <1>7 DEF Follows

LEMMA UseFollows ==
  ASSUME TypeOK, VisitedOnce, NEW o, Follows(o), UseResolved \/ UseFound \/ UseLater
  PROVE  Follows(o)'
<1>1. /\ Current \in DOMAIN scopes /\ pos \in DOMAIN visit /\ visit[pos].op = "use"
      /\ Done /\ visit' = visit /\ pos' = pos + 1 /\ reported' = reported
  BY CurrentProps DEF UseResolved, UseFound, UseLater, Done, Positions
<1>2. CASE UseResolved \/ UseFound
  <2>1. scopes' = scopes
    BY <1>2 DEF UseResolved, UseFound
  <2>2. Stack(o)' /\ Firsts(o)' /\ Waits(o)'
    BY <1>1, <2>1, SameScopesFollow
  <2>3. CASE UseResolved
    BY <1>1, <2>2, <2>3, DecidedKept DEF UseResolved, Follows
  <2>4. CASE UseFound
    BY <2>2, <2>4, UseFoundDecided DEF Follows
  <2>5. QED
    BY <1>2, <2>3, <2>4
<1>3. CASE UseLater
  <2>1. bound' = bound
    BY <1>3 DEF UseLater
  <2>2. scopes \in Seq(ScopeType) /\ scopes[Current] \in ScopeType
    BY <1>1 DEF TypeOK
  <2>3. /\ DOMAIN scopes' = DOMAIN scopes /\ Len(scopes') = Len(scopes)
        /\ \A i \in DOMAIN scopes :
             scopes'[i].fun = scopes[i].fun /\ scopes'[i].decls = scopes[i].decls
    <3>1. CASE Here.call
      BY <1>1, <1>3, <2>2, <3>1 DEF UseLater, ScopeType
    <3>2. CASE ~Here.call
      BY <1>1, <1>3, <2>2, <3>2 DEF UseLater, ScopeType
    <3>3. QED
      BY <3>1, <3>2
  <2>4. Stack(o)'
    BY <1>1, <2>3, StackPasses DEF Follows
  <2>5. Firsts(o)'
    <3>1. pos \notin Positions("decl")
      BY <1>1 DEF Positions
    <3>2. QED
      BY <1>1, <2>3, <3>1, FirstsKept DEF Follows
  <2>6. Waits(o)'
    BY <1>3, UseLaterWaits DEF Follows
  <2>7. Decided'
    BY <1>1, <2>1, DecidedKept DEF Follows
  <2>8. QED
    BY <2>4, <2>5, <2>6, <2>7 DEF Follows
<1>4. QED
  BY <1>2, <1>3

LEMMA PopFollows ==
  ASSUME TypeOK, VisitedOnce, NEW o, Follows(o), PopInner \/ PopOutermost
  PROVE  Follows(o)'
<1>1. /\ Current \in DOMAIN scopes /\ pos \in DOMAIN visit /\ visit[pos].op = "pop"
      /\ Done /\ visit' = visit /\ pos \notin Positions("decl")
  BY CurrentProps DEF PopInner, PopOutermost, Done, Positions
<1>2. Decided'
  BY PopDecided DEF Follows
<1>3. CASE PopInner
  <2>1. Stack(o)'
    BY <1>1, <1>3, PopInnerLists, StackPop DEF Follows
  <2>2. Firsts(o)'
    BY <1>1, <1>3, PopInnerLists, FirstsKept DEF Follows
  <2>3. Waits(o)'
    BY <1>3, PopInnerWaits DEF Follows
  <2>4. QED
    BY <1>2, <2>1, <2>2, <2>3 DEF Follows
<1>4. CASE PopOutermost
  <2>1. DOMAIN scopes' = {} /\ Len(scopes') = 0 /\ Current = 1
    BY <1>4 DEF PopOutermost
  <2>2. DOMAIN scopes' = 1..(Current - 1)
    BY <2>1
  <2>3. Stack(o)'
    BY <1>1, <2>1, <2>2, StackPop DEF Follows
  <2>4. Firsts(o)' /\ Waits(o)'
    BY <2>1 DEF Firsts, Waits
  <2>5. QED
    BY <1>2, <2>3, <2>4 DEF Follows
<1>5. QED
  BY <1>3, <1>4

LEMMA NextFollows ==
  ASSUME TypeOK, VisitedOnce, NEW o, Follows(o), [Next]_vars
  PROVE  \E u : Follows(u)'
<1>1. CASE AssertionFails \/ UNCHANGED vars
  <2>1. /\ scopes' = scopes /\ visit' = visit /\ pos' = pos
        /\ bound' = bound /\ reported' = reported
    BY <1>1 DEF AssertionFails, vars
  <2>2. Stack(o)' /\ Firsts(o)' /\ Waits(o)'
    BY <2>1, SameScopesFollow
  <2>3. Decided'
    BY <2>1, DecidedKept DEF Follows
  <2>4. QED
    BY <2>2, <2>3 DEF Follows
<1>2. CASE PushScope
  BY <1>2, PushFollows
<1>3. CASE AddDecl
  BY <1>3, AddDeclFollows
<1>4. CASE UseResolved \/ UseFound \/ UseLater
  BY <1>4, UseFollows
<1>5. CASE PopInner \/ PopOutermost
  BY <1>5, PopFollows
<1>6. QED
  BY <1>1, <1>2, <1>3, <1>4, <1>5 DEF Next, Over

\* The inductive invariant: the walk is one of those considered, and if it
\* visits no identifier twice the stack of scopes mirrors the text behind it.
FollowsInv ==
  /\ visit \in Visits /\ Pace
  /\ VisitedOnce => \E o : Follows(o)

LEMMA NextFollowsInv ==
  ASSUME TypeOK, FollowsInv, [Next]_vars
  PROVE  FollowsInv'
<1>1. visit' = visit
  BY DEF Next, PushScope, AddDecl, UseResolved, UseFound, UseLater, PopInner,
     PopOutermost, AssertionFails, Over, Done, vars
<1>2. VisitedOnce' => VisitedOnce
  BY <1>1 DEF VisitedOnce, Positions
<1>3. QED
  BY <1>1, <1>2, NextPace, NextFollows DEF FollowsInv

\* When the walk is over no scope is open, and the rules have been followed.
LEMMA InvFollowsScopeRules ==
  ASSUME TypeOK, NothingIsLost, FollowsInv
  PROVE  FollowsScopeRules
<1>1. SUFFICES ASSUME Walked, VisitedOnce, NEW p \in Positions("use")
               PROVE  IF Meant(p) = {} THEN visit[p].at \in reported
                      ELSE MeansBound(p)
  BY DEF FollowsScopeRules, MeansBound
<1>2. PICK o : Follows(o)
  BY <1>1 DEF FollowsInv
<1>3. /\ visit \in Seq(Calls) /\ Len(visit) \in Nat /\ pos = Len(visit) + 1
      /\ DOMAIN visit = 1..Len(visit)
  BY <1>1 DEF TypeOK, FollowsInv, Pace, Walked
<1>4. \A op : CallsOf(op, 1, Len(visit)) = {i \in DOMAIN visit : visit[i].op = op}
  BY <1>3 DEF CallsOf
<1>5. Depth(Len(visit)) = 0
  <2>1. Cardinality(CallsOf("push", 1, Len(visit)))
          = Cardinality(CallsOf("pop", 1, Len(visit)))
    BY <1>4, ScopesCloseAssumption DEF FollowsInv
  <2>2. 1 \in Nat
    OBVIOUS
  <2>3. Cardinality(CallsOf("pop", 1, Len(visit))) \in Nat
    BY <1>3, <2>2, CallsOfFinite
  <2>4. QED
    BY <2>1, <2>3 DEF Depth
<1>6. Len(scopes) = 0
  <2>1. pos - 1 = Len(visit)
    BY <1>3
  <2>2. QED
    BY <1>2, <1>5, <2>1 DEF Follows, Stack
<1>7. ~Waiting(p)
  BY <1>6, PositionsNat DEF Waiting
<1>8. p < pos
  BY <1>3 DEF Positions
<1>9. Resolved(p) \/ visit[p].at \in reported
  BY <1>7, <1>8 DEF NothingIsLost
<1>10. /\ Resolved(p) => MeansBound(p)
       /\ visit[p].at \in reported => Meant(p) = {}
  BY <1>2 DEF Follows, Decided
<1>11. QED
  BY <1>9, <1>10 DEF MeansBound

\* Whatever the walk, if it visits no identifier twice: at its end every
\* identifier is bound to what the rules of scoping, read off the text, say,
\* and is reported when they give it no meaning.
THEOREM ScopeRulesFollowed == Spec => []FollowsScopeRules
<1>1. Init => FollowsInv
  BY InitFollows DEF FollowsInv, Init
<1>2. TypeOK /\ FollowsInv /\ [Next]_vars => FollowsInv'
  BY NextFollowsInv
<1>3. TypeOK /\ NothingIsLost /\ FollowsInv => FollowsScopeRules
  BY InvFollowsScopeRules
<1>4. QED
  BY <1>1, <1>2, <1>3, TypeCorrect, NothingEverLost, PTL DEF Spec
=============================================================================
