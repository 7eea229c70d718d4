--------------------------- MODULE Linearization ---------------------------
(***************************************************************************)
(* InheritGraphSolver of lib/Sema/SemaResolveInherit.cpp: the C3           *)
(* linearisation of the base contracts, by depth-first search from the     *)
(* contracts nobody inherits from.  `work` is the stack of generator()     *)
(* calls in progress, each with the merge of its MergeHelper.              *)
(*                                                                         *)
(* The graph is any graph: nothing before this pass rejects a cycle.       *)
(***************************************************************************)
EXTENDS Naturals, SequencesExt

CONSTANTS
  Contracts,  \* the contracts of the source unit
  Graphs      \* bound: the base lists considered, rightmost base first

ASSUME GraphsAssumption ==
  \A g \in Graphs : g \in [Contracts -> Seq(Contracts)]

VARIABLES
  bases,     \* Bases
  roots,     \* the contracts with Indegree 0 that solve() has not reached
  resolved,  \* ResolvedBaseList, <<>> where it has no entry
  topo,      \* ToplogicOrderContracts
  work,      \* generator() calls, innermost last
  diags,     \* the contracts of err_c3_algorithm_fail, in order
  pc         \* "solve", then what solve() returns: "ok" or "refused"

vars == <<bases, roots, resolved, topo, work, diags, pc>>

Top == work[Len(work)]

\* A call: the base it looks at next, the candidate lists joined so far
\* (what Idx has passed is cut off) and MergeHelper::Result.
Call(c) == [cont |-> c, next |-> 1, lists |-> <<>>, out |-> <<>>]

Become(frame) == work' = Append(Front(work), frame)

-----------------------------------------------------------------------------
(* solve() and the descent of generator() *)

\* Indegree[c] is not 0.
HasHeir(c) == \E d \in Contracts : c \in ToSet(bases[d])

Enter(c) ==
  /\ resolved' = [resolved EXCEPT ![c] = <<c>>]
  /\ work' = Append(work, Call(c))

\* The map is keyed by pointers: its order is any order.
NextRoot ==
  /\ pc = "solve" /\ work = <<>>
  /\ \E c \in roots :
       /\ roots' = roots \ {c}
       /\ IF resolved[c] = <<>> THEN Enter(c) ELSE UNCHANGED <<resolved, work>>
  /\ UNCHANGED <<bases, topo, diags, pc>>

Searching == work # <<>> /\ Top.next <= Len(bases[Top.cont])
Base == bases[Top.cont][Top.next]

Descend ==
  /\ Searching /\ resolved[Base] = <<>>
  /\ Enter(Base)
  /\ UNCHANGED <<bases, roots, topo, diags, pc>>

\* Mh.join(ResolvedBaseList[Base]): whatever the list holds by now.
JoinBase ==
  /\ Searching /\ resolved[Base] # <<>>
  /\ Become([Top EXCEPT !.next = @ + 1, !.lists = Append(@, resolved[Base])])
  /\ UNCHANGED <<bases, roots, resolved, topo, diags, pc>>

\* Mutant: the own list of bases is not joined.
JoinNoOwnBases ==
  /\ work # <<>> /\ Top.next = Len(bases[Top.cont]) + 1
  /\ Become([Top EXCEPT !.next = @ + 1])
  /\ UNCHANGED <<bases, roots, resolved, topo, diags, pc>>

\* Mh.join(Bases[Cont])
JoinOwnBases ==
  /\ work # <<>> /\ Top.next = Len(bases[Top.cont]) + 1
  /\ Become([Top EXCEPT !.next = @ + 1, !.lists = Append(@, bases[Top.cont])])
  /\ UNCHANGED <<bases, roots, resolved, topo, diags, pc>>

-----------------------------------------------------------------------------
(* MergeHelper::merge *)

Merging == work # <<>> /\ Top.next = Len(bases[Top.cont]) + 2

Left(ls) == {i \in DOMAIN ls : ls[i] # <<>>}

\* Mutant: the search starts at Idx, not behind it.
GoodWholeLists(ls) ==
  {i \in Left(ls) : \A j \in Left(ls) : Head(ls[i]) \notin ToSet(ls[j])}

\* The lists whose first element stands in the tail of no list.
Good(ls) ==
  {i \in Left(ls) : \A j \in Left(ls) : Head(ls[i]) \notin ToSet(Tail(ls[j]))}

\* findNext, and the indices that pass the element it found.
Take ==
  /\ Merging
  /\ \E i \in Good(Top.lists) :
       /\ \A j \in Good(Top.lists) : i <= j
       /\ LET ls == Top.lists  c == Head(ls[i])
          IN Become([Top EXCEPT
                       !.out = Append(@, c),
                       !.lists = [k \in DOMAIN ls |->
                                    IF k \in Left(ls) /\ Head(ls[k]) = c
                                    THEN Tail(ls[k]) ELSE ls[k]]])
  /\ UNCHANGED <<bases, roots, resolved, topo, diags, pc>>

\* Mutant: the result of findNext is ignored.
StuckSpins ==
  /\ Merging /\ Good(Top.lists) = {} /\ Left(Top.lists) # {}
  /\ UNCHANGED vars

\* err_c3_algorithm_fail: every caller returns false at once.
Stuck ==
  /\ Merging /\ Good(Top.lists) = {} /\ Left(Top.lists) # {}
  /\ diags' = Append(diags, Top.cont)
  /\ work' = <<>>
  /\ UNCHANGED <<bases, roots, resolved, topo, pc>>

\* Mutant: a contract is put before those already solved.
MergedFirst ==
  /\ Merging /\ Left(Top.lists) = {}
  /\ resolved' = [resolved EXCEPT ![Top.cont] = @ \o Top.out]
  /\ topo' = <<Top.cont>> \o topo
  /\ work' = Front(work)
  /\ UNCHANGED <<bases, roots, diags, pc>>

Merged ==
  /\ Merging /\ Left(Top.lists) = {}
  /\ resolved' = [resolved EXCEPT ![Top.cont] = @ \o Top.out]
  /\ topo' = Append(topo, Top.cont)
  /\ work' = Front(work)
  /\ UNCHANGED <<bases, roots, diags, pc>>

Solved ==
  /\ pc = "solve" /\ work = <<>> /\ roots = {}
  /\ pc' = IF diags = <<>> THEN "ok" ELSE "refused"
  /\ UNCHANGED <<bases, roots, resolved, topo, work, diags>>

Finished == pc # "solve" /\ UNCHANGED vars

Init ==
  /\ bases \in Graphs
  /\ roots = {c \in Contracts : bases[c] # <<>> /\ ~HasHeir(c)}
  /\ resolved = [c \in Contracts |-> <<>>]
  /\ topo = <<>> /\ work = <<>> /\ diags = <<>>
  /\ pc = "solve"

Next ==
  \/ NextRoot \/ Descend \/ JoinBase \/ JoinOwnBases
  \/ Take \/ Stuck \/ Merged \/ Solved \/ Finished

Spec == Init /\ [][Next]_vars /\ WF_vars(Next)

-----------------------------------------------------------------------------
(* Properties. *)

\* c and all that it inherits from, directly or not.
Closed(S) == \A c \in S : ToSet(bases[c]) \subseteq S
Lineage(c) ==
  {x \in Contracts : \A S \in SUBSET Contracts : c \in S /\ Closed(S) => x \in S}

Roots   == {c \in Contracts : bases[c] # <<>> /\ ~HasHeir(c)}
Reached == UNION {Lineage(c) : c \in Roots}

CycleReached ==
  \E c \in Reached : \E b \in ToSet(bases[c]) : c \in Lineage(b)

Once(s) == \A i, j \in DOMAIN s : s[i] = s[j] => i = j
Before(s, x, y) == \E i, j \in DOMAIN s : i < j /\ s[i] = x /\ s[j] = y

\* The lists whose order a linearisation of c has to keep.
Constraints(c) == {resolved[b] : b \in ToSet(bases[c])} \cup {bases[c]}

\* Each of these contracts would have to come after another of them.
Unorderable(lists) ==
  \E S \in (SUBSET Contracts) \ {{}} :
    \A y \in S : \E x \in S, l \in lists : Before(l, x, y)

\* An accepted graph has a linearisation for each contract that takes part:
\* the contract, then all it inherits from, each once, in an order that
\* keeps the linearisation of every base and its own list of bases.
LinearizationsAreC3 ==
  pc = "ok" =>
    \A c \in ToSet(topo) :
      /\ Head(resolved[c]) = c
      /\ ToSet(resolved[c]) = Lineage(c)
      /\ Once(resolved[c])
      /\ \A l \in Constraints(c) : \A x, y \in Contracts :
           Before(l, x, y) => Before(resolved[c], x, y)

\* resolveInherit walks ToplogicOrderContracts to hand out the inherited
\* members: every contract that takes part is in it, once, behind its bases.
\* In particular no cycle that the search met was accepted, although it
\* reads the list of a contract that is still in progress.
BasesComeFirst ==
  pc = "ok" =>
    /\ ToSet(topo) = Reached
    /\ Once(topo)
    /\ \A i \in DOMAIN topo : \A b \in ToSet(bases[topo[i]]) :
         Before(topo, b, topo[i])

\* A graph is refused because it has a cycle or because a contract that was
\* reported has no order at all, whatever order the roots are taken in.
RefusalsHaveReason ==
  pc = "refused" =>
    \/ CycleReached
    \/ \E c \in ToSet(diags) :
         /\ ToSet(bases[c]) \subseteq ToSet(topo)
         /\ Unorderable(Constraints(c))

\* The recursion ends on every graph, the cyclic ones included.
SolveTerminates == <>(pc # "solve")
=============================================================================
