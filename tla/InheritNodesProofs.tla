------------------------- MODULE InheritNodesProofs -------------------------
(***************************************************************************)
(* What TLAPS proves about resolveInherit, for every set of contracts and  *)
(* every inheritance graph, cyclic or not.  First the linearisation:       *)
(* BasesComeFirst, LinearizationsAreC3 and RefusalsHaveReason; then the    *)
(* members that are handed out, the checks that are made on the way, and   *)
(* the unique names.                                                       *)
(***************************************************************************)
EXTENDS InheritNodes, SequenceLemmas

-----------------------------------------------------------------------------
(* The inductive invariant. *)

FrameType ==
  [cont : Contracts, next : Nat \ {0}, lists : Seq(Seq(Contracts)),
   out : Seq(Contracts)]

Types ==
  /\ bases \in [Contracts -> Seq(Contracts)]
  /\ roots \subseteq Contracts
  /\ resolved \in [Contracts -> Seq(Contracts)]
  /\ topo \in Seq(Contracts)
  /\ work \in Seq(FrameType)
  /\ diags \in Seq(Contracts)
  /\ pc \in {"solve", "ok", "refused"}

\* What solve() returns is said when everything was searched.
Phases ==
  /\ roots \subseteq Roots
  /\ pc # "solve" => work = <<>> /\ roots = {}
  /\ pc = "ok" => diags = <<>>
  /\ pc = "refused" => diags # <<>>

\* The stack is a path from a root; nobody is on it twice, or on it and done.
Path ==
  /\ \A i \in 1..(Len(work) - 1) :
       /\ work[i].next \in DOMAIN bases[work[i].cont]
       /\ bases[work[i].cont][work[i].next] = work[i + 1].cont
  /\ work # <<>> => work[1].cont \in Roots
  /\ \A i, j \in DOMAIN work : work[i].cont = work[j].cont => i = j
  /\ \A i \in DOMAIN work :
       /\ work[i].cont \notin ToSet(topo)
       /\ resolved[work[i].cont] = <<work[i].cont>>
  /\ Once(topo)
  /\ \A c \in ToSet(topo) : resolved[c] # <<>> /\ resolved[c][1] = c

\* x is in the lists of the call f, or was taken from them.
Has(f, x) == x \in ToSet(f.out) \/ \E j \in DOMAIN f.lists : x \in ToSet(f.lists[j])

\* Whatever is searched, listed or put behind a contract is of its lineage.
OfLineage ==
  /\ \A c \in Contracts :
       /\ resolved[c] # <<>> => c \in Reached
       /\ ToSet(resolved[c]) \subseteq Lineage(c)
  /\ \A i \in DOMAIN work :
       /\ \A x \in Contracts : Has(work[i], x) => x \in Lineage(work[i].cont)
       /\ \A j \in i..Len(work) : work[j].cont \in Lineage(work[i].cont)

\* The list that the call f joined in the j-th place.
Joint(f, j) ==
  IF j <= Len(bases[f.cont]) THEN resolved[bases[f.cont][j]] ELSE bases[f.cont]

\* All of l but the rest was taken, in the order of l.
Partly(l, rest, out) ==
  LET n == Len(l) - Len(rest)
  IN /\ n \in Nat
     /\ \A p \in DOMAIN rest : rest[p] = l[n + p]
     /\ \A p \in 1..n : l[p] \in ToSet(out)
     /\ \A p, q \in 1..n : p < q => Before(out, l[p], l[q])

\* A merge in progress.
MergeOK(f) ==
  /\ f.next <= Len(bases[f.cont]) + 2
  /\ Len(f.lists) = f.next - 1
  /\ f.next # Len(bases[f.cont]) + 2 => f.out = <<>>
  /\ Once(f.out)
  /\ \A x \in ToSet(f.out) : \A j \in DOMAIN f.lists : x \notin ToSet(f.lists[j])
  /\ \A x \in ToSet(f.out) : \E j \in DOMAIN f.lists : x \in ToSet(Joint(f, j))
  /\ \A j \in DOMAIN f.lists : Partly(Joint(f, j), f.lists[j], f.out)

\* The bases that the i-th call has joined are done or further out, unless a
\* refusal left them behind: their lists do not change before it returns.
Settled(i) ==
  \A j \in DOMAIN work[i].lists : j <= Len(bases[work[i].cont]) =>
    LET b == bases[work[i].cont][j]
    IN resolved[b] # <<>> /\ \A k \in DOMAIN work : work[k].cont = b => k <= i

Merges == \A i \in DOMAIN work : MergeOK(work[i]) /\ Settled(i)

\* m has the elements of l in the order of l.
Keeps(l, m) ==
  /\ ToSet(l) \subseteq ToSet(m)
  /\ \A x, y \in Contracts : Before(l, x, y) => Before(m, x, y)

\* Done contracts keep the order of their bases, and of those lists of theirs
\* that were finished.
Kept ==
  \A d \in ToSet(topo) :
    /\ \A b \in ToSet(bases[d]) : Before(topo, b, d) => Keeps(resolved[b], resolved[d])
    /\ Keeps(bases[d], resolved[d])
    /\ \A i, j \in 2..Len(resolved[d]) : resolved[d][i] = resolved[d][j] => i = j

BasesBefore == \A d \in ToSet(topo) : \A e \in ToSet(bases[d]) : Before(topo, e, d)

\* As long as bases come first, a linearisation is complete and without
\* repetition.
Complete ==
  BasesBefore =>
    \A d \in ToSet(topo) :
      /\ ToSet(resolved[d]) \subseteq ToSet(topo)
      /\ Closed(ToSet(resolved[d]))
      /\ \A i \in 2..Len(resolved[d]) : resolved[d][i] # d

\* d has joined the list of its base e.
Joined(d, e) ==
  \/ d \in ToSet(topo) /\ e \in ToSet(bases[d])
  \/ \E i \in DOMAIN work :
       /\ work[i].cont = d
       /\ \E j \in DOMAIN bases[d] : j < work[i].next /\ bases[d][j] = e

\* What is not refused so far was searched as solve() means to.
Searched ==
  /\ \A c \in Contracts : resolved[c] # <<>> =>
       c \in ToSet(topo) \/ \E i \in DOMAIN work : work[i].cont = c
  /\ \A c \in Roots : c \in roots \/ resolved[c] # <<>>
  /\ \A d, e \in Contracts : Joined(d, e) => resolved[e] # <<>>

\* The contract of the k-th call is on its way back to it.
Returns(k) ==
  \/ \E m \in k..Len(work) : Has(work[m], work[k].cont)
  \/ Searching /\ work[k].cont \in ToSet(resolved[Base])

\* A list with a repetition is merged or about to be, which cannot succeed.
Doomed ==
  \/ \E m \in DOMAIN work : \E j \in DOMAIN work[m].lists : ~Once(work[m].lists[j])
  \/ Searching /\ ~Once(resolved[Base])

\* A contract that joined the list of one in progress, whose list is then
\* just the contract itself, sends that contract back along the stack, until
\* it stands twice in its own linearisation.
Cycles ==
  \A d, e \in Contracts : Joined(d, e) =>
    /\ \A k \in DOMAIN work : work[k].cont = e => Returns(k)
    /\ d \in ToSet(topo) /\ e \in ToSet(topo) /\ ~Before(topo, e, d) => Doomed

Reason ==
  \/ CycleReached
  \/ \E c \in ToSet(diags) :
       /\ ToSet(bases[c]) \subseteq ToSet(topo)
       /\ Unorderable(Constraints(c))

SolverInv ==
  /\ Types /\ Phases /\ Path /\ OfLineage /\ Merges /\ Kept /\ Complete
  /\ diags = <<>> => Searched /\ Cycles
  /\ diags # <<>> => Reason

-----------------------------------------------------------------------------
(* Lineages. *)

LEMMA LineageOfItself ==
  ASSUME NEW c \in Contracts
  PROVE  c \in Lineage(c)
BY DEF Lineage

LEMMA LineageTransitive ==
  ASSUME NEW c, NEW x \in Lineage(c), NEW y \in Lineage(x)
  PROVE  y \in Lineage(c)
BY DEF Lineage

LEMMA BasesOfLineage ==
  ASSUME Types, NEW c, NEW x \in Lineage(c), NEW b \in ToSet(bases[x])
  PROVE  b \in Lineage(c)
<1>1. b \in Contracts
  BY DEF Types, Lineage, ToSet
<1>2. QED
  BY <1>1 DEF Lineage, Closed

LEMMA LineageInClosed ==
  ASSUME NEW S \in SUBSET Contracts, Closed(S), NEW c \in S
  PROVE  Lineage(c) \subseteq S
BY DEF Lineage

LEMMA BasesReached ==
  ASSUME Types, NEW x \in Reached, NEW b \in ToSet(bases[x])
  PROVE  b \in Reached
BY BasesOfLineage DEF Reached

-----------------------------------------------------------------------------
(* The calls. *)

LEMMA TopFrame ==
  ASSUME Types, work # <<>>
  PROVE  /\ Len(work) \in Nat \ {0} /\ DOMAIN work = 1..Len(work)
         /\ Top = work[Len(work)] /\ Top \in FrameType
         /\ bases[Top.cont] \in Seq(Contracts)
         /\ Len(bases[Top.cont]) \in Nat
         /\ DOMAIN bases[Top.cont] = 1..Len(bases[Top.cont])
<1>1. Len(work) \in Nat \ {0} /\ DOMAIN work = 1..Len(work)
  BY EmptySeq, LenProperties DEF Types
<1>2. Top = work[Len(work)] /\ Top \in FrameType
  BY <1>1, ElementOfSeq DEF Types, Top
<1>3. bases[Top.cont] \in Seq(Contracts)
  BY <1>2 DEF Types, FrameType
<1>4. QED
  BY <1>1, <1>2, <1>3, LenProperties

LEMMA Frames ==
  ASSUME Types, NEW i \in DOMAIN work
  PROVE  /\ i \in 1..Len(work) /\ Len(work) \in Nat /\ i \in Nat \ {0}
         /\ work[i] \in FrameType
         /\ work[i].cont \in Contracts /\ work[i].next \in Nat \ {0}
         /\ bases[work[i].cont] \in Seq(Contracts)
         /\ Len(bases[work[i].cont]) \in Nat
         /\ DOMAIN bases[work[i].cont] = 1..Len(bases[work[i].cont])
<1>1. i \in 1..Len(work) /\ Len(work) \in Nat /\ work[i] \in FrameType
  BY ElementOfSeq, LenProperties DEF Types
<1>2. work[i].cont \in Contracts /\ work[i].next \in Nat \ {0}
  BY <1>1 DEF FrameType
<1>3. bases[work[i].cont] \in Seq(Contracts)
  BY <1>2 DEF Types
<1>4. QED
  BY <1>1, <1>2, <1>3, LenProperties

\* A call is made.
LEMMA Entered ==
  ASSUME Types, NEW c \in Contracts, Enter(c)
  PROVE  /\ resolved' \in [Contracts -> Seq(Contracts)]
         /\ resolved'[c] = <<c>>
         /\ \A x \in Contracts : x # c => resolved'[x] = resolved[x]
         /\ work' \in Seq(FrameType)
         /\ Len(work) \in Nat /\ Len(work') = Len(work) + 1
         /\ \A i \in 1..Len(work) : work'[i] = work[i]
         /\ work'[Len(work) + 1] = Call(c)
         /\ DOMAIN work = 1..Len(work) /\ DOMAIN work' = 1..(Len(work) + 1)
<1>1. Call(c) \in FrameType
  BY DEF Call, FrameType
<1>2. <<c>> \in Seq(Contracts)
  OBVIOUS
<1>3. QED
  BY <1>1, <1>2, AppendProperties, LenProperties DEF Enter, Types

\* The innermost call goes on.
LEMMA WentOn ==
  ASSUME Types, work # <<>>, NEW f \in FrameType, Become(f)
  PROVE  /\ work' \in Seq(FrameType) /\ work' # <<>>
         /\ Len(work') = Len(work)
         /\ \A i \in 1..(Len(work) - 1) : work'[i] = work[i]
         /\ work'[Len(work)] = f /\ Top' = f
         /\ DOMAIN work = 1..Len(work) /\ DOMAIN work' = DOMAIN work
<1>1. Len(work) \in Nat \ {0} /\ DOMAIN work = 1..Len(work)
  BY TopFrame
<1>2. /\ Front(work) \in Seq(FrameType)
      /\ Len(Front(work)) = Len(work) - 1
      /\ \A i \in 1..(Len(work) - 1) : Front(work)[i] = work[i]
  BY FrontProps DEF Types
<1>3. /\ work' \in Seq(FrameType) /\ work' # <<>>
      /\ Len(work') = Len(work)
      /\ \A i \in 1..(Len(work) - 1) : work'[i] = work[i]
      /\ work'[Len(work)] = f
  <2>. DEFINE s == Front(work)
  <2>1. s \in Seq(FrameType) /\ Len(s) = Len(work) - 1 /\ work' = Append(s, f)
        /\ \A i \in 1..(Len(work) - 1) : s[i] = work[i]
    BY <1>2 DEF Become
  <2>. HIDE DEF s
  <2>2. /\ Append(s, f) \in Seq(FrameType)
        /\ Append(s, f) # <<>>
        /\ Len(Append(s, f)) = Len(s) + 1
        /\ \A i \in 1..Len(s) : Append(s, f)[i] = s[i]
        /\ Append(s, f)[Len(s) + 1] = f
    BY <2>1, AppendProperties
  <2>3. Len(work) - 1 + 1 = Len(work)
    BY <1>1
  <2>4. QED
    BY <2>1, <2>2, <2>3
<1>4. QED
  BY <1>1, <1>3, LenProperties DEF Top

\* The innermost call returns.
LEMMA Returned ==
  ASSUME Types, work # <<>>, work' = Front(work)
  PROVE  /\ work' \in Seq(FrameType)
         /\ Len(work) \in Nat \ {0}
         /\ Len(work') = Len(work) - 1
         /\ \A i \in 1..(Len(work) - 1) : work'[i] = work[i]
         /\ DOMAIN work = 1..Len(work) /\ DOMAIN work' = 1..(Len(work) - 1)
<1>1. Len(work) \in Nat \ {0} /\ DOMAIN work = 1..Len(work)
  BY TopFrame
<1>2. QED
  BY <1>1, FrontProps, LenProperties DEF Types


\* l is joined to the lists of the innermost call.
LEMMA ListJoined ==
  ASSUME Types, work # <<>>, NEW l \in Seq(Contracts),
         Become([Top EXCEPT !.next = @ + 1, !.lists = Append(@, l)])
  PROVE  /\ work' \in Seq(FrameType) /\ work' # <<>>
         /\ Len(work') = Len(work) /\ DOMAIN work' = DOMAIN work
         /\ \A i \in 1..(Len(work) - 1) : work'[i] = work[i]
         /\ Top' = work'[Len(work)]
         /\ Top'.cont = Top.cont /\ Top'.next = Top.next + 1 /\ Top'.out = Top.out
         /\ Len(Top'.lists) = Len(Top.lists) + 1
         /\ \A j \in 1..Len(Top.lists) : Top'.lists[j] = Top.lists[j]
         /\ Top'.lists[Len(Top.lists) + 1] = l
         /\ Len(Top.lists) \in Nat
<1>. DEFINE f == [Top EXCEPT !.next = @ + 1, !.lists = Append(@, l)]
<1>1. Top \in FrameType
  BY TopFrame
<1>2. /\ Append(Top.lists, l) \in Seq(Seq(Contracts))
      /\ Len(Append(Top.lists, l)) = Len(Top.lists) + 1
      /\ \A j \in 1..Len(Top.lists) : Append(Top.lists, l)[j] = Top.lists[j]
      /\ Append(Top.lists, l)[Len(Top.lists) + 1] = l
      /\ Len(Top.lists) \in Nat
  BY <1>1, AppendProperties, LenProperties DEF FrameType
<1>3. /\ f \in FrameType
      /\ f.cont = Top.cont /\ f.next = Top.next + 1 /\ f.out = Top.out
      /\ f.lists = Append(Top.lists, l)
  <2>1. Top.next + 1 \in Nat \ {0}
    BY <1>1 DEF FrameType
  <2>2. QED
    BY <1>1, <1>2, <2>1 DEF FrameType
<1>. HIDE DEF f
<1>4. Become(f)
  BY DEF f
<1>5. /\ work' \in Seq(FrameType) /\ work' # <<>>
      /\ Len(work') = Len(work) /\ DOMAIN work' = DOMAIN work
      /\ \A i \in 1..(Len(work) - 1) : work'[i] = work[i]
      /\ work'[Len(work)] = f /\ Top' = f
  BY <1>3, <1>4, WentOn
<1>6. QED
  BY <1>2, <1>3, <1>5

\* The heads of the lists that begin with c are taken.
Without(ls, c) ==
  [k \in DOMAIN ls |-> IF k \in Left(ls) /\ Head(ls[k]) = c THEN Tail(ls[k]) ELSE ls[k]]

LEMMA HeadsTaken ==
  ASSUME Types, Take
  PROVE  \E c \in Contracts :
           /\ work # <<>>
           /\ work' \in Seq(FrameType) /\ work' # <<>>
           /\ Len(work') = Len(work) /\ DOMAIN work' = DOMAIN work
           /\ \A i \in 1..(Len(work) - 1) : work'[i] = work[i]
           /\ Top' = work'[Len(work)]
           /\ Top'.cont = Top.cont /\ Top'.next = Top.next
           /\ Top'.out = Append(Top.out, c)
           /\ Top'.lists = Without(Top.lists, c)
           /\ \E i \in Left(Top.lists) : Head(Top.lists[i]) = c
           /\ \A j \in Left(Top.lists) : c \notin ToSet(Tail(Top.lists[j]))
<1>1. work # <<>>
  BY DEF Take, Merging
<1>2. Top \in FrameType
  BY <1>1, TopFrame
<1>3. PICK i \in Good(Top.lists) :
        Become([Top EXCEPT !.out = Append(@, Head(Top.lists[i])),
                           !.lists = Without(Top.lists, Head(Top.lists[i]))])
  BY DEF Take, Without
<1>. DEFINE c == Head(Top.lists[i])
            f == [Top EXCEPT !.out = Append(@, c), !.lists = Without(Top.lists, c)]
<1>4. /\ i \in Left(Top.lists)
      /\ \A j \in Left(Top.lists) : c \notin ToSet(Tail(Top.lists[j]))
  BY <1>3 DEF Good
<1>5. /\ Top.lists \in Seq(Seq(Contracts)) /\ Top.out \in Seq(Contracts)
      /\ \A j \in DOMAIN Top.lists : Top.lists[j] \in Seq(Contracts)
  BY <1>2, ElementOfSeq, LenProperties DEF FrameType
<1>6. c \in Contracts
  BY <1>4, <1>5, TailElements DEF Left
<1>. HIDE DEF c
<1>7. Without(Top.lists, c) \in Seq(Seq(Contracts))
  <2>1. \A j \in DOMAIN Top.lists : Without(Top.lists, c)[j] \in Seq(Contracts)
    BY <1>5, TailElements DEF Without, Left
  <2>2. /\ DOMAIN Without(Top.lists, c) = 1..Len(Top.lists) /\ Len(Top.lists) \in Nat
        /\ DOMAIN Top.lists = 1..Len(Top.lists)
        /\ Without(Top.lists, c) = [k \in 1..Len(Top.lists) |-> Without(Top.lists, c)[k]]
    BY <1>5, LenProperties DEF Without
  <2>3. QED
    BY <2>1, <2>2, IsASeq
<1>8. Append(Top.out, c) \in Seq(Contracts)
  BY <1>5, <1>6, AppendProperties
<1>9. /\ f \in FrameType
      /\ f.cont = Top.cont /\ f.next = Top.next
      /\ f.out = Append(Top.out, c) /\ f.lists = Without(Top.lists, c)
  BY <1>2, <1>7, <1>8 DEF FrameType
<1>. HIDE DEF f
<1>10. Become(f)
  BY <1>3 DEF f, c
<1>11. /\ work' \in Seq(FrameType) /\ work' # <<>>
       /\ Len(work') = Len(work) /\ DOMAIN work' = DOMAIN work
       /\ \A j \in 1..(Len(work) - 1) : work'[j] = work[j]
       /\ work'[Len(work)] = f /\ Top' = f
  BY <1>1, <1>9, <1>10, WentOn
<1>12. Head(Top.lists[i]) = c
  BY DEF c
<1>13. QED
  BY <1>1, <1>4, <1>6, <1>9, <1>11, <1>12

LEMMA BaseType ==
  ASSUME Types, Searching
  PROVE  /\ work # <<>> /\ Base \in Contracts
         /\ Top.next \in DOMAIN bases[Top.cont] /\ Base = bases[Top.cont][Top.next]
         /\ Base \in ToSet(bases[Top.cont])
<1>1. work # <<>> /\ Top.next <= Len(bases[Top.cont])
  BY DEF Searching
<1>2. Top.next \in DOMAIN bases[Top.cont]
  BY <1>1, TopFrame DEF FrameType
<1>3. QED
  BY <1>1, <1>2, TopFrame, ElementOfSeq DEF Base, ToSet

\* The result of the innermost call.
LEMMA MergedLists ==
  ASSUME Types, Path, Merged
  PROVE  /\ work # <<>> /\ work' = Front(work)
         /\ Top.cont \in Contracts /\ Top.out \in Seq(Contracts)
         /\ resolved' \in [Contracts -> Seq(Contracts)]
         /\ \A x \in Contracts : x # Top.cont => resolved'[x] = resolved[x]
         /\ Len(resolved'[Top.cont]) = Len(Top.out) + 1
         /\ resolved'[Top.cont] # <<>>
         /\ resolved'[Top.cont][1] = Top.cont
         /\ \A i \in 1..Len(Top.out) : resolved'[Top.cont][i + 1] = Top.out[i]
         /\ ToSet(resolved'[Top.cont]) = ToSet(Top.out) \cup {Top.cont}
         /\ topo' \in Seq(Contracts)
         /\ Len(topo) \in Nat /\ DOMAIN topo = 1..Len(topo)
         /\ Len(topo') = Len(topo) + 1 /\ DOMAIN topo' = 1..(Len(topo) + 1)
         /\ \A i \in 1..Len(topo) : topo'[i] = topo[i]
         /\ topo'[Len(topo) + 1] = Top.cont
         /\ ToSet(topo') = ToSet(topo) \cup {Top.cont}
<1>1. work # <<>> /\ work' = Front(work)
  BY DEF Merged, Merging
<1>2. Top.cont \in Contracts /\ Top.out \in Seq(Contracts)
  BY <1>1, TopFrame DEF FrameType
<1>3. resolved[Top.cont] = <<Top.cont>>
  <2>1. Len(work) \in DOMAIN work /\ Top = work[Len(work)]
    BY <1>1, TopFrame
  <2>2. QED
    BY <2>1 DEF Path
<1>. DEFINE r == <<Top.cont>> \o Top.out
<1>4. /\ r \in Seq(Contracts) /\ Len(r) = Len(Top.out) + 1
      /\ r[1] = Top.cont
      /\ \A i \in 1..Len(Top.out) : r[i + 1] = Top.out[i]
      /\ ToSet(r) = ToSet(Top.out) \cup {Top.cont}
  BY <1>2, ConsElements
<1>6. resolved' = [resolved EXCEPT ![Top.cont] = r]
  BY <1>3 DEF Merged
<1>. HIDE DEF r
<1>7. /\ resolved' \in [Contracts -> Seq(Contracts)] /\ resolved'[Top.cont] = r
      /\ \A x \in Contracts : x # Top.cont => resolved'[x] = resolved[x]
  BY <1>2, <1>4, <1>6 DEF Types
<1>8. r # <<>>
  BY <1>2, <1>4, LenProperties
<1>9. topo' = Append(topo, Top.cont) /\ topo \in Seq(Contracts)
  BY DEF Merged, Types
<1>10. Len(topo) \in Nat /\ DOMAIN topo = 1..Len(topo)
  BY <1>9, LenProperties
<1>11. /\ topo' \in Seq(Contracts)
       /\ Len(topo') = Len(topo) + 1
       /\ \A i \in 1..Len(topo) : topo'[i] = topo[i]
       /\ topo'[Len(topo) + 1] = Top.cont
       /\ ToSet(topo') = ToSet(topo) \cup {Top.cont}
  BY <1>2, <1>9, AppendElements
<1>12. DOMAIN topo' = 1..(Len(topo) + 1)
  BY <1>10, <1>11, LenProperties
<1>13. QED
  BY <1>1, <1>2, <1>4, <1>7, <1>8, <1>10, <1>11, <1>12

-----------------------------------------------------------------------------
(* Types, Phases and Path. *)

LEMMA SameLineage ==
  ASSUME bases' = bases
  PROVE  /\ Roots' = Roots /\ Reached' = Reached
         /\ CycleReached' = CycleReached
         /\ \A c : Lineage(c)' = Lineage(c)
<1>1. \A c : Lineage(c)' = Lineage(c)
  BY DEF Lineage, Closed
<1>2. Roots' = Roots
  BY DEF Roots, HasHeir
<1>3. Reached' = Reached
  BY <1>1, <1>2 DEF Reached
<1>4. CycleReached' = CycleReached
  BY <1>1, <1>3 DEF CycleReached
<1>5. QED
  BY <1>1, <1>2, <1>3, <1>4

\* The graph is given.
LEMMA SameGraph ==
  ASSUME [Next]_vars
  PROVE  /\ bases' = bases /\ Roots' = Roots /\ Reached' = Reached
         /\ CycleReached' = CycleReached
         /\ \A c : Lineage(c)' = Lineage(c)
<1>1. bases' = bases
  BY DEF Next, vars, NextRoot, Descend, JoinBase, JoinOwnBases, Take, Stuck,
         Merged, Solved, Finished
<1>2. QED
  BY <1>1, SameLineage

\* A contract that is searched has no list but itself.
LEMMA InProgress ==
  ASSUME Types, Path, NEW i \in DOMAIN work
  PROVE  /\ work[i].cont \in Contracts /\ work[i].cont \notin ToSet(topo)
         /\ resolved[work[i].cont] = <<work[i].cont>>
         /\ resolved[work[i].cont] # <<>>
<1>1. /\ work[i].cont \notin ToSet(topo)
      /\ resolved[work[i].cont] = <<work[i].cont>>
  BY DEF Path
<1>2. QED
  BY <1>1, Frames

LEMMA TopInProgress ==
  ASSUME Types, Path, work # <<>>
  PROVE  /\ Len(work) \in DOMAIN work /\ Top = work[Len(work)]
         /\ Top.cont \in Contracts /\ Top.cont \notin ToSet(topo)
         /\ resolved[Top.cont] = <<Top.cont>> /\ resolved[Top.cont] # <<>>
<1>1. Len(work) \in DOMAIN work /\ Top = work[Len(work)]
  BY TopFrame
<1>2. QED
  BY <1>1, InProgress

LEMMA TypesKept ==
  ASSUME Types, Path, [Next]_vars
  PROVE  Types'
<1>1. CASE NextRoot
  BY <1>1, Entered DEF NextRoot, Types
<1>2. CASE Descend
  BY <1>2, Entered, BaseType DEF Descend, Types
<1>3. CASE JoinBase
  <2>1. resolved[Base] \in Seq(Contracts) /\ work # <<>>
    BY <1>3, BaseType DEF JoinBase, Types
  <2>2. work' \in Seq(FrameType)
    BY <1>3, <2>1, ListJoined DEF JoinBase
  <2>3. QED
    BY <1>3, <2>2 DEF JoinBase, Types
<1>4. CASE JoinOwnBases
  <2>1. bases[Top.cont] \in Seq(Contracts) /\ work # <<>>
    BY <1>4, TopFrame DEF JoinOwnBases
  <2>2. work' \in Seq(FrameType)
    BY <1>4, <2>1, ListJoined DEF JoinOwnBases
  <2>3. QED
    BY <1>4, <2>2 DEF JoinOwnBases, Types
<1>5. CASE Take
  BY <1>5, HeadsTaken DEF Take, Types
<1>6. CASE Stuck
  <2>1. Top.cont \in Contracts
    BY <1>6, TopFrame DEF Stuck, Merging, FrameType
  <2>2. diags' \in Seq(Contracts)
    BY <1>6, <2>1, AppendProperties DEF Stuck, Types
  <2>3. work' \in Seq(FrameType)
    BY <1>6 DEF Stuck
  <2>4. QED
    BY <1>6, <2>2, <2>3 DEF Stuck, Types
<1>7. CASE Merged
  <2>1. work' \in Seq(FrameType)
    BY <1>7, MergedLists, Returned
  <2>2. QED
    BY <1>7, <2>1, MergedLists DEF Merged, Types
<1>8. CASE Solved
  BY <1>8 DEF Solved, Types
<1>9. CASE Finished \/ UNCHANGED vars
  BY <1>9 DEF Finished, vars, Types
<1>10. QED
  BY <1>1, <1>2, <1>3, <1>4, <1>5, <1>6, <1>7, <1>8, <1>9 DEF Next

LEMMA PhasesKept ==
  ASSUME Types, Path, Phases, [Next]_vars
  PROVE  Phases'
<1>1. Roots' = Roots
  BY SameGraph
<1>2. CASE NextRoot
  BY <1>1, <1>2 DEF NextRoot, Phases
<1>3. CASE Descend \/ JoinBase \/ JoinOwnBases \/ Take \/ Merged
  <2>1. /\ work # <<>> /\ roots' = roots /\ pc' = pc /\ diags' = diags
    BY <1>3 DEF Descend, JoinBase, JoinOwnBases, Take, Merged, Searching, Merging
  <2>2. QED
    BY <1>1, <2>1 DEF Phases
<1>4. CASE Stuck
  BY <1>1, <1>4 DEF Stuck, Merging, Phases
<1>5. CASE Solved
  BY <1>1, <1>5 DEF Solved, Phases
<1>6. CASE Finished \/ UNCHANGED vars
  BY <1>1, <1>6 DEF Finished, vars, Phases
<1>7. QED
  BY <1>2, <1>3, <1>4, <1>5, <1>6 DEF Next

\* A call is made for a contract that was not visited: the first one for a
\* root, the next for the base that the innermost call looks at.
LEMMA EnterKeepsPath ==
  ASSUME Types, Path, NEW c \in Contracts, resolved[c] = <<>>, Enter(c),
         topo' = topo, bases' = bases,
         IF work = <<>> THEN c \in Roots ELSE Searching /\ c = Base
  PROVE  Path'
<1>1. /\ resolved'[c] = <<c>>
      /\ \A x \in Contracts : x # c => resolved'[x] = resolved[x]
      /\ Len(work) \in Nat /\ Len(work') = Len(work) + 1
      /\ \A i \in 1..Len(work) : work'[i] = work[i]
      /\ work'[Len(work) + 1] = Call(c)
      /\ DOMAIN work = 1..Len(work) /\ DOMAIN work' = 1..(Len(work) + 1)
  BY Entered
<1>2. Call(c).cont = c
  BY DEF Call
<1>3. \A i \in DOMAIN work : work[i].cont # c /\ work[i].cont \in Contracts
  <2>1. ASSUME NEW i \in DOMAIN work PROVE work[i].cont # c /\ work[i].cont \in Contracts
    <3>1. work[i].cont \in Contracts
      BY Frames
    <3>2. resolved[work[i].cont] = <<work[i].cont>>
      BY DEF Path
    <3>3. QED
      BY <3>1, <3>2
  <2>2. QED
    BY <2>1
<1>4. c \notin ToSet(topo) /\ ToSet(topo) \subseteq Contracts
  BY DEF Path, Types, ToSet
<1>5. \A i \in 1..(Len(work') - 1) :
        /\ work'[i].next \in DOMAIN bases'[work'[i].cont]
        /\ bases'[work'[i].cont][work'[i].next] = work'[i + 1].cont
  <2>1. SUFFICES ASSUME NEW i \in 1..Len(work)
        PROVE  /\ work[i].next \in DOMAIN bases[work[i].cont]
               /\ bases[work[i].cont][work[i].next] = work'[i + 1].cont
    BY <1>1
  <2>2. CASE i = Len(work)
    <3>1. work # <<>>
      BY <2>2
    <3>2. Searching /\ c = Base
      BY <3>1
    <3>3. QED
      BY <1>1, <1>2, <2>2, <3>2, BaseType, TopFrame
  <2>3. CASE i # Len(work)
    <3>1. i \in 1..(Len(work) - 1) /\ i + 1 \in 1..Len(work)
      BY <1>1, <2>3
    <3>2. QED
      BY <1>1, <3>1 DEF Path
  <2>4. QED
    BY <2>2, <2>3
<1>6. work'[1].cont \in Roots'
  <2>1. Roots' = Roots
    BY DEF Roots, HasHeir
  <2>2. CASE work = <<>>
    BY <1>1, <1>2, <2>1, <2>2
  <2>3. CASE work # <<>>
    <3>1. 1 \in 1..Len(work)
      BY <2>3, TopFrame
    <3>2. QED
      BY <1>1, <2>1, <2>3, <3>1 DEF Path
  <2>4. QED
    BY <2>2, <2>3
<1>7. \A i, j \in DOMAIN work' : work'[i].cont = work'[j].cont => i = j
  BY <1>1, <1>2, <1>3 DEF Path
<1>8. \A i \in DOMAIN work' :
        /\ work'[i].cont \notin ToSet(topo')
        /\ resolved'[work'[i].cont] = <<work'[i].cont>>
  <2>1. ASSUME NEW i \in DOMAIN work'
        PROVE  /\ work'[i].cont \notin ToSet(topo)
               /\ resolved'[work'[i].cont] = <<work'[i].cont>>
    <3>1. CASE i = Len(work) + 1
      BY <1>1, <1>2, <1>4, <3>1
    <3>2. CASE i # Len(work) + 1
      <4>1. i \in DOMAIN work /\ work'[i] = work[i]
        BY <1>1, <3>2
      <4>2. /\ work[i].cont \notin ToSet(topo)
            /\ resolved[work[i].cont] = <<work[i].cont>>
        BY <4>1 DEF Path
      <4>3. work[i].cont \in Contracts /\ work[i].cont # c
        BY <1>3, <4>1
      <4>4. resolved'[work[i].cont] = resolved[work[i].cont]
        BY <1>1, <4>3
      <4>5. QED
        BY <4>1, <4>2, <4>4
    <3>3. QED
      BY <3>1, <3>2
  <2>2. QED
    BY <2>1
<1>9. Once(topo') /\ \A x \in ToSet(topo') : resolved'[x] # <<>> /\ resolved'[x][1] = x
  BY <1>1, <1>4 DEF Path
<1>10. QED
  BY <1>5, <1>6, <1>7, <1>8, <1>9 DEF Path

\* The innermost call goes on.
LEMMA SameConts ==
  ASSUME Types, Path, work # <<>>, work' # <<>>,
         Len(work') = Len(work), DOMAIN work' = DOMAIN work,
         \A i \in 1..(Len(work) - 1) : work'[i] = work[i],
         Top' = work'[Len(work)], Top'.cont = Top.cont,
         bases' = bases, resolved' = resolved, topo' = topo
  PROVE  Path' /\ \A i \in DOMAIN work : work'[i].cont = work[i].cont
<1>1. Len(work) \in Nat \ {0} /\ DOMAIN work = 1..Len(work) /\ Top = work[Len(work)]
  BY TopFrame
<1>2. \A i \in DOMAIN work : work'[i].cont = work[i].cont
  <2>1. ASSUME NEW i \in DOMAIN work PROVE work'[i].cont = work[i].cont
    <3>1. i = Len(work) \/ i \in 1..(Len(work) - 1)
      BY <1>1
    <3>2. QED
      BY <1>1, <3>1
  <2>2. QED
    BY <2>1
<1>3. Roots' = Roots
  BY DEF Roots, HasHeir
<1>4. \A i \in 1..(Len(work) - 1) : i \in DOMAIN work /\ i + 1 \in DOMAIN work
  BY <1>1
<1>5. 1 \in DOMAIN work
  BY <1>1
<1>6. \A i \in 1..(Len(work') - 1) :
        /\ work'[i].next \in DOMAIN bases'[work'[i].cont]
        /\ bases'[work'[i].cont][work'[i].next] = work'[i + 1].cont
  BY <1>2, <1>4 DEF Path
<1>7. /\ work'[1].cont \in Roots'
      /\ \A i, j \in DOMAIN work' : work'[i].cont = work'[j].cont => i = j
  BY <1>2, <1>3, <1>5 DEF Path
<1>8. /\ \A i \in DOMAIN work' :
           /\ work'[i].cont \notin ToSet(topo')
           /\ resolved'[work'[i].cont] = <<work'[i].cont>>
      /\ Once(topo')
      /\ \A c \in ToSet(topo') : resolved'[c] # <<>> /\ resolved'[c][1] = c
  BY <1>2 DEF Path
<1>9. QED
  BY <1>2, <1>6, <1>7, <1>8 DEF Path

LEMMA MergedKeepsPath ==
  ASSUME Types, Path, Merged
  PROVE  Path'
<1>1. /\ work # <<>> /\ work' = Front(work) /\ bases' = bases
  BY MergedLists DEF Merged
<1>2. /\ Len(work) \in Nat \ {0} /\ Len(work') = Len(work) - 1
      /\ \A i \in 1..(Len(work) - 1) : work'[i] = work[i]
      /\ DOMAIN work = 1..Len(work) /\ DOMAIN work' = 1..(Len(work) - 1)
      /\ Top = work[Len(work)]
  BY <1>1, Returned, TopFrame
<1>3. Roots' = Roots
  BY <1>1 DEF Roots, HasHeir
<1>4. \A i \in DOMAIN work' :
        i \in DOMAIN work /\ work'[i] = work[i] /\ work[i].cont # Top.cont
        /\ work[i].cont \in Contracts
  <2>1. ASSUME NEW i \in DOMAIN work'
        PROVE  /\ i \in DOMAIN work /\ work'[i] = work[i]
               /\ work[i].cont # Top.cont /\ work[i].cont \in Contracts
    <3>1. i \in DOMAIN work /\ Len(work) \in DOMAIN work /\ i # Len(work)
      BY <1>2
    <3>2. QED
      BY <1>2, <3>1, Frames DEF Path
  <2>2. QED
    BY <2>1
<1>5. \A i \in 1..(Len(work') - 1) :
        /\ work'[i].next \in DOMAIN bases'[work'[i].cont]
        /\ bases'[work'[i].cont][work'[i].next] = work'[i + 1].cont
  <2>1. ASSUME NEW i \in 1..(Len(work') - 1)
        PROVE  i \in 1..(Len(work) - 1) /\ work'[i] = work[i] /\ work'[i + 1] = work[i + 1]
    BY <1>2
  <2>2. QED
    BY <1>1, <2>1 DEF Path
<1>6. work' # <<>> => work'[1].cont \in Roots'
  <2>1. ASSUME work' # <<>> PROVE 1 \in 1..(Len(work) - 1)
    <3>1. work' \in Seq(FrameType)
      BY <1>1, Returned
    <3>2. Len(work') \in Nat \ {0}
      BY <2>1, <3>1, EmptySeq, LenProperties
    <3>3. QED
      BY <1>2, <3>2
  <2>2. QED
    BY <1>1, <1>2, <1>3, <2>1 DEF Path
<1>7. Top.cont \notin ToSet(topo)
  <2>1. Len(work) \in DOMAIN work
    BY <1>2
  <2>2. QED
    BY <1>2, <2>1 DEF Path
<1>. DEFINE c == Top.cont
<1>8. /\ \A x \in Contracts : x # c => resolved'[x] = resolved[x]
      /\ resolved'[c] # <<>> /\ resolved'[c][1] = c
      /\ DOMAIN topo = 1..Len(topo) /\ DOMAIN topo' = 1..(Len(topo) + 1)
      /\ Len(topo) \in Nat
      /\ \A i \in 1..Len(topo) : topo'[i] = topo[i]
      /\ topo'[Len(topo) + 1] = c
      /\ ToSet(topo') = ToSet(topo) \cup {c}
  BY MergedLists
<1>. HIDE DEF c
<1>9. Once(topo')
  <2>1. \A i \in 1..Len(topo) : topo'[i] # c
    BY <1>7, <1>8 DEF ToSet, c
  <2>2. Once(topo)
    BY DEF Path
  <2>3. QED
    BY <1>8, <2>1, <2>2 DEF Once
<1>10. /\ \A i \in DOMAIN work' :
            /\ work'[i].cont \notin ToSet(topo')
            /\ resolved'[work'[i].cont] = <<work'[i].cont>>
       /\ \A x \in ToSet(topo') : resolved'[x] # <<>> /\ resolved'[x][1] = x
  <2>1. ASSUME NEW i \in DOMAIN work'
        PROVE  /\ work'[i].cont \notin ToSet(topo')
               /\ resolved'[work'[i].cont] = <<work'[i].cont>>
    <3>1. /\ i \in DOMAIN work /\ work'[i] = work[i]
          /\ work[i].cont # c /\ work[i].cont \in Contracts
      BY <1>4 DEF c
    <3>2. /\ work[i].cont \notin ToSet(topo)
          /\ resolved[work[i].cont] = <<work[i].cont>>
      BY <3>1 DEF Path
    <3>3. QED
      BY <1>8, <3>1, <3>2
  <2>2. ASSUME NEW x \in ToSet(topo')
        PROVE  resolved'[x] # <<>> /\ resolved'[x][1] = x
    <3>1. CASE x = c
      BY <1>8, <3>1
    <3>2. CASE x # c
      <4>1. x \in ToSet(topo)
        BY <1>8, <2>2, <3>2
      <4>2. x \in Contracts
        BY <4>1 DEF Types, ToSet
      <4>3. QED
        BY <1>8, <3>2, <4>1, <4>2 DEF Path
    <3>3. QED
      BY <3>1, <3>2
  <2>3. QED
    BY <2>1, <2>2
<1>11. \A i, j \in DOMAIN work' : work'[i].cont = work'[j].cont => i = j
  BY <1>4 DEF Path
<1>12. QED
  BY <1>5, <1>6, <1>9, <1>10, <1>11 DEF Path

LEMMA PathKept ==
  ASSUME Types, Path, Phases, [Next]_vars
  PROVE  Path'
<1>1. bases' = bases
  BY SameGraph
<1>2. CASE NextRoot
  <2>1. PICK c \in roots :
          IF resolved[c] = <<>> THEN Enter(c) ELSE UNCHANGED <<resolved, work>>
    BY <1>2 DEF NextRoot
  <2>2. c \in Contracts /\ c \in Roots /\ work = <<>> /\ topo' = topo
    BY <1>2, <2>1 DEF NextRoot, Types, Phases
  <2>3. CASE resolved[c] = <<>>
    BY <1>1, <2>1, <2>2, <2>3, EnterKeepsPath
  <2>4. CASE resolved[c] # <<>>
    BY <1>1, <2>1, <2>2, <2>4 DEF Path, Roots, HasHeir
  <2>5. QED
    BY <2>3, <2>4
<1>3. CASE Descend
  BY <1>1, <1>3, BaseType, EnterKeepsPath DEF Descend
<1>4. CASE JoinBase
  <2>1. resolved[Base] \in Seq(Contracts) /\ work # <<>>
    BY <1>4, BaseType DEF JoinBase, Types
  <2>2. QED
    BY <1>1, <1>4, <2>1, ListJoined, SameConts DEF JoinBase
<1>5. CASE JoinOwnBases
  <2>1. bases[Top.cont] \in Seq(Contracts) /\ work # <<>>
    BY <1>5, TopFrame DEF JoinOwnBases
  <2>2. QED
    BY <1>1, <1>5, <2>1, ListJoined, SameConts DEF JoinOwnBases
<1>6. CASE Take
  BY <1>1, <1>6, HeadsTaken, SameConts DEF Take
<1>7. CASE Stuck
  BY <1>1, <1>7 DEF Stuck, Path, Roots, HasHeir
<1>8. CASE Merged
  BY <1>8, MergedKeepsPath
<1>9. CASE Solved \/ Finished \/ UNCHANGED vars
  BY <1>1, <1>9 DEF Solved, Finished, vars, Path, Roots, HasHeir
<1>10. QED
  BY <1>2, <1>3, <1>4, <1>5, <1>6, <1>7, <1>8, <1>9 DEF Next

-----------------------------------------------------------------------------
(* OfLineage. *)

LEMMA ListJoinedHas ==
  ASSUME Types, work # <<>>, NEW l \in Seq(Contracts),
         Become([Top EXCEPT !.next = @ + 1, !.lists = Append(@, l)])
  PROVE  \A x : Has(Top', x) <=> Has(Top, x) \/ x \in ToSet(l)
<1>1. /\ Top'.out = Top.out
      /\ Len(Top'.lists) = Len(Top.lists) + 1 /\ Len(Top.lists) \in Nat
      /\ \A j \in 1..Len(Top.lists) : Top'.lists[j] = Top.lists[j]
      /\ Top'.lists[Len(Top.lists) + 1] = l
      /\ work' \in Seq(FrameType) /\ Top' = work'[Len(work)]
      /\ DOMAIN work' = DOMAIN work
  BY ListJoined
<1>2. Len(work) \in DOMAIN work /\ Top \in FrameType
  BY TopFrame
<1>3. Top' \in FrameType
  BY <1>1, <1>2, ElementOfSeq, LenProperties
<1>4. DOMAIN Top.lists = 1..Len(Top.lists) /\ DOMAIN Top'.lists = 1..(Len(Top.lists) + 1)
  BY <1>1, <1>2, <1>3, LenProperties DEF FrameType
<1>5. QED
  BY <1>1, <1>4 DEF Has

LEMMA HeadsTakenHas ==
  ASSUME Types, Take
  PROVE  \A x : Has(Top', x) <=> Has(Top, x)
<1>1. PICK c \in Contracts :
           /\ work # <<>>
           /\ Top'.out = Append(Top.out, c)
           /\ Top'.lists = Without(Top.lists, c)
           /\ \E i \in Left(Top.lists) : Head(Top.lists[i]) = c
  BY HeadsTaken
<1>2. /\ Top.out \in Seq(Contracts)
      /\ \A j \in DOMAIN Top.lists : Top.lists[j] \in Seq(Contracts)
  BY <1>1, TopFrame, ElementOfSeq, LenProperties DEF FrameType
<1>3. ToSet(Top'.out) = ToSet(Top.out) \cup {c}
  BY <1>1, <1>2, AppendElements
<1>4. DOMAIN Top'.lists = DOMAIN Top.lists
  BY <1>1 DEF Without
<1>5. \A j \in DOMAIN Top.lists : \A x :
        /\ x \in ToSet(Top'.lists[j]) => x \in ToSet(Top.lists[j])
        /\ x \in ToSet(Top.lists[j]) => x \in ToSet(Top'.lists[j]) \/ x = c
  <2>1. ASSUME NEW j \in DOMAIN Top.lists, NEW x
        PROVE  /\ x \in ToSet(Top'.lists[j]) => x \in ToSet(Top.lists[j])
               /\ x \in ToSet(Top.lists[j]) => x \in ToSet(Top'.lists[j]) \/ x = c
    <3>1. CASE j \in Left(Top.lists) /\ Head(Top.lists[j]) = c
      <4>1. Top'.lists[j] = Tail(Top.lists[j]) /\ Top.lists[j] # <<>>
        BY <1>1, <3>1 DEF Without, Left
      <4>2. ToSet(Top.lists[j]) = ToSet(Tail(Top.lists[j])) \cup {c}
        BY <1>2, <3>1, <4>1, TailElements
      <4>3. QED
        BY <4>1, <4>2
    <3>2. CASE ~(j \in Left(Top.lists) /\ Head(Top.lists[j]) = c)
      BY <1>1, <3>2 DEF Without
    <3>3. QED
      BY <3>1, <3>2
  <2>2. QED
    BY <2>1
<1>6. \E j \in DOMAIN Top.lists : c \in ToSet(Top.lists[j])
  <2>1. PICK i \in Left(Top.lists) : Head(Top.lists[i]) = c
    BY <1>1
  <2>2. i \in DOMAIN Top.lists /\ c \in ToSet(Top.lists[i])
    BY <1>2, <2>1, TailElements DEF Left
  <2>3. QED
    BY <2>2
<1>7. QED
  BY <1>3, <1>4, <1>5, <1>6 DEF Has

LEMMA EnterKeepsLineage ==
  ASSUME Types, Path, OfLineage, NEW c \in Contracts, Enter(c), bases' = bases,
         IF work = <<>> THEN c \in Roots ELSE Searching /\ c = Base
  PROVE  OfLineage'
<1>1. /\ resolved'[c] = <<c>>
      /\ \A x \in Contracts : x # c => resolved'[x] = resolved[x]
      /\ Len(work) \in Nat /\ Len(work') = Len(work) + 1
      /\ \A i \in 1..Len(work) : work'[i] = work[i]
      /\ work'[Len(work) + 1] = Call(c)
      /\ DOMAIN work = 1..Len(work) /\ DOMAIN work' = 1..(Len(work) + 1)
  BY Entered
<1>2. Call(c).cont = c /\ \A x : ~Has(Call(c), x)
  BY DEF Call, Has, ToSet
<1>3. \A i \in DOMAIN work : c \in Lineage(work[i].cont)
  <2>1. ASSUME NEW i \in DOMAIN work PROVE c \in Lineage(work[i].cont)
    <3>1. Searching /\ c = Base
      BY <1>1, <2>1, EmptySeq
    <3>2. c \in ToSet(bases[Top.cont])
      BY <3>1, BaseType
    <3>3. Top = work[Len(work)] /\ Len(work) \in i..Len(work)
      BY <1>1 DEF Top
    <3>4. Top.cont \in Lineage(work[i].cont)
      BY <3>3 DEF OfLineage
    <3>5. QED
      BY <3>2, <3>4, BasesOfLineage
  <2>2. QED
    BY <2>1
<1>4. c \in Reached
  <2>1. CASE work = <<>>
    BY <2>1, LineageOfItself DEF Reached
  <2>2. CASE work # <<>>
    <3>1. c \in ToSet(bases[Top.cont])
      BY <2>2, BaseType
    <3>2. Len(work) \in DOMAIN work /\ Top = work[Len(work)] /\ Top.cont \in Contracts
      BY <2>2, TopFrame DEF FrameType
    <3>3. resolved[Top.cont] # <<>>
      BY <2>2, TopInProgress
    <3>4. QED
      BY <3>1, <3>2, <3>3, BasesReached DEF OfLineage
  <2>3. QED
    BY <2>1, <2>2
<1>5. ToSet(<<c>>) = {c} /\ c \in Lineage(c)
  BY LineageOfItself DEF ToSet
<1>6. Reached' = Reached /\ \A x : Lineage(x)' = Lineage(x)
  BY SameLineage
<1>7. \A x \in Contracts :
        /\ resolved'[x] # <<>> => x \in Reached
        /\ ToSet(resolved'[x]) \subseteq Lineage(x)
  BY <1>1, <1>4, <1>5 DEF OfLineage
<1>8. \A i \in DOMAIN work' :
        /\ \A x \in Contracts : Has(work'[i], x) => x \in Lineage(work'[i].cont)
        /\ \A j \in i..Len(work') : work'[j].cont \in Lineage(work'[i].cont)
  <2>1. ASSUME NEW i \in DOMAIN work', i # Len(work) + 1
        PROVE  /\ i \in DOMAIN work /\ work'[i] = work[i]
               /\ \A x \in Contracts : Has(work'[i], x) => x \in Lineage(work'[i].cont)
    BY <1>1, <2>1 DEF OfLineage
  <2>2. ASSUME NEW i \in DOMAIN work', NEW j \in i..Len(work')
        PROVE  work'[j].cont \in Lineage(work'[i].cont)
    <3>1. CASE i = Len(work) + 1
      <4>1. j = i
        BY <1>1, <3>1
      <4>2. QED
        BY <1>1, <1>2, <1>5, <3>1, <4>1
    <3>2. CASE i # Len(work) + 1 /\ j = Len(work) + 1
      BY <1>1, <1>2, <1>3, <2>1, <3>2
    <3>3. CASE i # Len(work) + 1 /\ j # Len(work) + 1
      <4>1. j \in i..Len(work) /\ work'[j] = work[j]
        BY <1>1, <2>1, <3>3
      <4>2. QED
        BY <2>1, <3>3, <4>1 DEF OfLineage
    <3>4. QED
      BY <3>1, <3>2, <3>3
  <2>3. ASSUME NEW i \in DOMAIN work', NEW x \in Contracts, Has(work'[i], x)
        PROVE  x \in Lineage(work'[i].cont)
    BY <1>1, <1>2, <2>1, <2>3
  <2>4. QED
    BY <2>2, <2>3
<1>9. QED
  BY <1>6, <1>7, <1>8 DEF OfLineage

LEMMA GoneOnKeepsLineage ==
  ASSUME Types, Path, OfLineage, work # <<>>, work' # <<>>,
         Len(work') = Len(work), DOMAIN work' = DOMAIN work,
         \A i \in 1..(Len(work) - 1) : work'[i] = work[i],
         Top' = work'[Len(work)], Top'.cont = Top.cont,
         bases' = bases, resolved' = resolved, topo' = topo,
         \A x \in Contracts : Has(Top', x) => x \in Lineage(Top.cont)
  PROVE  OfLineage'
<1>1. \A i \in DOMAIN work : work'[i].cont = work[i].cont
  BY SameConts
<1>2. Len(work) \in Nat \ {0} /\ DOMAIN work = 1..Len(work)
  BY TopFrame
<1>3. Reached' = Reached /\ \A x : Lineage(x)' = Lineage(x)
  BY SameLineage
<1>4. ASSUME NEW i \in DOMAIN work, NEW x \in Contracts, Has(work'[i], x)
      PROVE  x \in Lineage(work[i].cont)
  <2>1. CASE i = Len(work)
    BY <1>4, <2>1 DEF Top
  <2>2. CASE i # Len(work)
    <3>1. i \in 1..(Len(work) - 1)
      BY <1>2, <2>2
    <3>2. QED
      BY <1>4, <3>1 DEF OfLineage
  <2>3. QED
    BY <2>1, <2>2
<1>5. ASSUME NEW i \in DOMAIN work, NEW j \in i..Len(work)
      PROVE  work'[j].cont \in Lineage(work[i].cont)
  <2>1. j \in DOMAIN work
    BY <1>2
  <2>2. QED
    BY <1>1, <2>1 DEF OfLineage
<1>6. QED
  BY <1>1, <1>3, <1>4, <1>5 DEF OfLineage

LEMMA OfLineageKept ==
  ASSUME Types, Path, Phases, OfLineage, [Next]_vars
  PROVE  OfLineage'
<1>1. bases' = bases /\ Reached' = Reached /\ \A x : Lineage(x)' = Lineage(x)
  BY SameGraph
<1>2. CASE NextRoot
  <2>1. PICK c \in roots :
          IF resolved[c] = <<>> THEN Enter(c) ELSE UNCHANGED <<resolved, work>>
    BY <1>2 DEF NextRoot
  <2>2. c \in Contracts /\ c \in Roots /\ work = <<>>
    BY <1>2, <2>1 DEF NextRoot, Types, Phases
  <2>3. CASE resolved[c] = <<>>
    BY <1>1, <2>1, <2>2, <2>3, EnterKeepsLineage
  <2>4. CASE resolved[c] # <<>>
    BY <1>1, <2>1, <2>2, <2>4 DEF OfLineage
  <2>5. QED
    BY <2>3, <2>4
<1>3. CASE Descend
  BY <1>1, <1>3, BaseType, EnterKeepsLineage DEF Descend
<1>4. CASE JoinBase
  <2>1. work # <<>> /\ Base \in Contracts /\ Base \in ToSet(bases[Top.cont])
    BY <1>4, BaseType DEF JoinBase
  <2>2. resolved[Base] \in Seq(Contracts)
    BY <2>1 DEF Types
  <2>3. Len(work) \in DOMAIN work /\ Top = work[Len(work)] /\ Top.cont \in Contracts
    BY <2>1, TopFrame DEF FrameType
  <2>4. \A x \in ToSet(resolved[Base]) : x \in Lineage(Top.cont)
    <3>1. Base \in Lineage(Top.cont)
      BY <2>1, <2>3, LineageOfItself, BasesOfLineage
    <3>2. QED
      BY <2>1, <3>1, LineageTransitive DEF OfLineage
  <2>5. \A x \in Contracts : Has(Top', x) => x \in Lineage(Top.cont)
    <3>1. \A x : Has(Top', x) <=> Has(Top, x) \/ x \in ToSet(resolved[Base])
      BY <1>4, <2>1, <2>2, ListJoinedHas DEF JoinBase
    <3>2. QED
      BY <2>3, <2>4, <3>1 DEF OfLineage
  <2>6. QED
    BY <1>1, <1>4, <2>1, <2>2, <2>5, ListJoined, GoneOnKeepsLineage DEF JoinBase
<1>5. CASE JoinOwnBases
  <2>1. bases[Top.cont] \in Seq(Contracts) /\ work # <<>>
    BY <1>5, TopFrame DEF JoinOwnBases
  <2>2. Len(work) \in DOMAIN work /\ Top = work[Len(work)] /\ Top.cont \in Contracts
    BY <2>1, TopFrame DEF FrameType
  <2>3. \A x \in ToSet(bases[Top.cont]) : x \in Lineage(Top.cont)
    BY <2>2, LineageOfItself, BasesOfLineage
  <2>4. \A x \in Contracts : Has(Top', x) => x \in Lineage(Top.cont)
    <3>1. \A x : Has(Top', x) <=> Has(Top, x) \/ x \in ToSet(bases[Top.cont])
      BY <1>5, <2>1, ListJoinedHas DEF JoinOwnBases
    <3>2. QED
      BY <2>2, <2>3, <3>1 DEF OfLineage
  <2>5. QED
    BY <1>1, <1>5, <2>1, <2>4, ListJoined, GoneOnKeepsLineage DEF JoinOwnBases
<1>6. CASE Take
  <2>1. work # <<>>
    BY <1>6 DEF Take, Merging
  <2>2. Len(work) \in DOMAIN work /\ Top = work[Len(work)]
    BY <2>1, TopFrame
  <2>3. \A x \in Contracts : Has(Top', x) => x \in Lineage(Top.cont)
    BY <1>6, <2>2, HeadsTakenHas DEF OfLineage
  <2>4. QED
    BY <1>1, <1>6, <2>1, <2>3, HeadsTaken, GoneOnKeepsLineage DEF Take
<1>7. CASE Stuck
  BY <1>1, <1>7 DEF Stuck, OfLineage
<1>8. CASE Merged
  <2>1. work # <<>> /\ work' = Front(work)
    BY <1>8, MergedLists DEF Merged
  <2>2. /\ Len(work) \in Nat \ {0} /\ Len(work') = Len(work) - 1
        /\ \A i \in 1..(Len(work) - 1) : work'[i] = work[i]
        /\ DOMAIN work = 1..Len(work) /\ DOMAIN work' = 1..(Len(work) - 1)
        /\ Top = work[Len(work)]
    BY <2>1, Returned, TopFrame
  <2>3. Len(work) \in DOMAIN work
    BY <2>2
  <2>4. /\ Top.cont \in Contracts /\ Top.out \in Seq(Contracts)
        /\ \A x \in Contracts : x # Top.cont => resolved'[x] = resolved[x]
        /\ ToSet(resolved'[Top.cont]) = ToSet(Top.out) \cup {Top.cont}
    BY <1>8, MergedLists
  <2>5. ToSet(resolved'[Top.cont]) \subseteq Lineage(Top.cont)
    <3>1. ToSet(Top.out) \subseteq Contracts
      BY <2>4 DEF ToSet
    <3>2. ToSet(Top.out) \subseteq Lineage(Top.cont)
      BY <2>2, <2>3, <3>1 DEF OfLineage, Has
    <3>3. QED
      BY <2>4, <3>2, LineageOfItself
  <2>6. Top.cont \in Reached
    <3>1. resolved[Top.cont] # <<>>
      BY <2>1, TopInProgress
    <3>2. QED
      BY <2>4, <3>1 DEF OfLineage
  <2>7. \A x \in Contracts :
          /\ resolved'[x] # <<>> => x \in Reached
          /\ ToSet(resolved'[x]) \subseteq Lineage(x)
    BY <2>4, <2>5, <2>6 DEF OfLineage
  <2>8. \A i \in DOMAIN work' :
          /\ i \in DOMAIN work /\ work'[i] = work[i]
          /\ \A j \in i..Len(work') : j \in i..Len(work) /\ work'[j] = work[j]
    BY <2>2
  <2>9. QED
    BY <1>1, <2>7, <2>8 DEF OfLineage
<1>9. CASE Solved \/ Finished \/ UNCHANGED vars
  BY <1>1, <1>9 DEF Solved, Finished, vars, OfLineage
<1>10. QED
  BY <1>2, <1>3, <1>4, <1>5, <1>6, <1>7, <1>8, <1>9 DEF Next

-----------------------------------------------------------------------------
(* Merges. *)

LEMMA BeforeGrows ==
  ASSUME NEW s \in Seq(Contracts), NEW c \in Contracts
  PROVE  /\ \A x, y : Before(s, x, y) => Before(Append(s, c), x, y)
         /\ \A x \in ToSet(s) : Before(Append(s, c), x, c)
         /\ \A x \in ToSet(s) : x \in ToSet(Append(s, c))
         /\ c \in ToSet(Append(s, c))
<1>. DEFINE t == Append(s, c)
<1>1. /\ Len(s) \in Nat /\ DOMAIN s = 1..Len(s)
      /\ t \in Seq(Contracts) /\ Len(t) = Len(s) + 1
      /\ \A i \in 1..Len(s) : t[i] = s[i]
      /\ t[Len(s) + 1] = c /\ ToSet(t) = ToSet(s) \cup {c}
  BY AppendElements, LenProperties
<1>. HIDE DEF t
<1>2. DOMAIN t = 1..(Len(s) + 1)
  BY <1>1, LenProperties
<1>3. \A x, y : Before(s, x, y) => Before(t, x, y)
  BY <1>1, <1>2 DEF Before
<1>4. ASSUME NEW x \in ToSet(s) PROVE Before(t, x, c)
  <2>1. PICK i \in 1..Len(s) : s[i] = x
    BY <1>1 DEF ToSet
  <2>2. i \in DOMAIN t /\ Len(s) + 1 \in DOMAIN t /\ i < Len(s) + 1 /\ t[i] = x
    BY <1>1, <1>2, <2>1
  <2>3. QED
    BY <1>1, <2>2 DEF Before
<1>5. QED
  BY <1>1, <1>3, <1>4 DEF t

\* An element that is taken from some of the lists.
LEMMA PartlyTaken ==
  ASSUME NEW l \in Seq(Contracts), NEW rest \in Seq(Contracts),
         NEW out \in Seq(Contracts), NEW c \in Contracts, Partly(l, rest, out)
  PROVE  /\ Partly(l, rest, Append(out, c))
         /\ rest # <<>> /\ Head(rest) = c => Partly(l, Tail(rest), Append(out, c))
<1>. DEFINE n == Len(l) - Len(rest)  t == Append(out, c)
<1>1. /\ n \in Nat /\ Len(l) \in Nat /\ Len(rest) \in Nat
      /\ DOMAIN rest = 1..Len(rest)
      /\ \A p \in DOMAIN rest : rest[p] = l[n + p]
      /\ \A p \in 1..n : l[p] \in ToSet(out)
      /\ \A p, q \in 1..n : p < q => Before(out, l[p], l[q])
  BY LenProperties DEF Partly
<1>2. /\ \A x, y : Before(out, x, y) => Before(t, x, y)
      /\ \A x \in ToSet(out) : Before(t, x, c) /\ x \in ToSet(t)
      /\ c \in ToSet(t)
  BY BeforeGrows
<1>. HIDE DEF n, t
<1>3. /\ \A p \in 1..n : l[p] \in ToSet(t)
      /\ \A p, q \in 1..n : p < q => Before(t, l[p], l[q])
  BY <1>1, <1>2
<1>4. Partly(l, rest, t)
  BY <1>1, <1>3 DEF Partly, n
<1>5. ASSUME rest # <<>>, Head(rest) = c PROVE Partly(l, Tail(rest), t)
  <2>1. /\ rest[1] = c /\ Len(rest) \in Nat \ {0}
        /\ Tail(rest) \in Seq(Contracts)
        /\ Len(Tail(rest)) = Len(rest) - 1
        /\ \A i \in 1..Len(Tail(rest)) : Tail(rest)[i] = rest[i + 1]
    BY <1>5, TailElements
  <2>2. Len(l) - Len(Tail(rest)) = n + 1 /\ n + 1 \in Nat
    BY <1>1, <2>1 DEF n
  <2>3. DOMAIN Tail(rest) = 1..(Len(rest) - 1)
    BY <2>1, LenProperties
  <2>4. \A p \in DOMAIN Tail(rest) : Tail(rest)[p] = l[n + 1 + p]
    <3>1. ASSUME NEW p \in DOMAIN Tail(rest) PROVE Tail(rest)[p] = l[n + 1 + p]
      <4>1. p \in 1..Len(Tail(rest)) /\ p + 1 \in DOMAIN rest
        BY <1>1, <2>1, <2>3
      <4>2. Tail(rest)[p] = l[n + (p + 1)]
        BY <1>1, <2>1, <4>1
      <4>3. n + (p + 1) = n + 1 + p
        BY <1>1, <4>1
      <4>4. QED
        BY <4>2, <4>3
    <3>2. QED
      BY <3>1
  <2>5. l[n + 1] = c
    BY <1>1, <2>1
  <2>6. \A p \in 1..(n + 1) : p = n + 1 \/ p \in 1..n
    BY <1>1
  <2>7. \A p \in 1..(n + 1) : l[p] \in ToSet(t)
    BY <1>2, <1>3, <2>5, <2>6
  <2>8. \A p, q \in 1..(n + 1) : p < q => Before(t, l[p], l[q])
    <3>1. ASSUME NEW p \in 1..(n + 1), NEW q \in 1..(n + 1), p < q
          PROVE  Before(t, l[p], l[q])
      <4>1. p \in 1..n
        BY <1>1, <3>1
      <4>2. CASE q = n + 1
        BY <1>1, <1>2, <2>5, <4>1, <4>2
      <4>3. CASE q \in 1..n
        BY <1>3, <3>1, <4>1, <4>3
      <4>4. QED
        BY <2>6, <4>2, <4>3
    <3>2. QED
      BY <3>1
  <2>9. QED
    BY <2>2, <2>4, <2>7, <2>8 DEF Partly
<1>6. QED
  BY <1>4, <1>5 DEF t

\* Nothing is taken yet.
LEMMA PartlyAll ==
  ASSUME NEW l \in Seq(Contracts)
  PROVE  Partly(l, l, <<>>)
BY LenProperties DEF Partly

LEMMA SameMerge ==
  ASSUME bases' = bases, resolved' = resolved
  PROVE  \A f : MergeOK(f)' <=> MergeOK(f)
BY DEF MergeOK, Joint

LEMMA CallMerges ==
  ASSUME Types, NEW c \in Contracts
  PROVE  MergeOK(Call(c))
<1>1. Len(bases[c]) \in Nat
  BY LenProperties DEF Types
<1>2. QED
  BY <1>1 DEF MergeOK, Call, Once, ToSet

\* The lists that a call has joined did not change.
LEMMA MergeKept ==
  ASSUME Types, Path, NEW i \in DOMAIN work, MergeOK(work[i]), bases' = bases,
         \A j \in DOMAIN work[i].lists : j <= Len(bases[work[i].cont]) =>
           resolved'[bases[work[i].cont][j]] = resolved[bases[work[i].cont][j]],
         work'[i] = work[i]
  PROVE  MergeOK(work[i])'
<1>1. \A j \in DOMAIN work[i].lists : Joint(work[i], j)' = Joint(work[i], j)
  BY DEF Joint
<1>2. QED
  BY <1>1 DEF MergeOK

\* The bases that a call has joined.
LEMMA JoinedBases ==
  ASSUME Types, NEW i \in DOMAIN work, MergeOK(work[i])
  PROVE  /\ DOMAIN work[i].lists = 1..(work[i].next - 1)
         /\ \A j \in DOMAIN work[i].lists : j <= Len(bases[work[i].cont]) =>
              /\ j \in DOMAIN bases[work[i].cont]
              /\ bases[work[i].cont][j] \in Contracts
<1>1. work[i] \in FrameType /\ bases[work[i].cont] \in Seq(Contracts)
      /\ Len(bases[work[i].cont]) \in Nat
      /\ DOMAIN bases[work[i].cont] = 1..Len(bases[work[i].cont])
  BY Frames
<1>2. DOMAIN work[i].lists = 1..(work[i].next - 1)
  BY <1>1, LenProperties DEF FrameType, MergeOK
<1>3. work[i].next \in Nat \ {0}
  BY <1>1 DEF FrameType
<1>4. QED
  BY <1>1, <1>2, <1>3, ElementOfSeq

LEMMA EnterKeepsMerges ==
  ASSUME Types, Path, Merges, NEW c \in Contracts, resolved[c] = <<>>, Enter(c),
         bases' = bases
  PROVE  Merges'
<1>1. /\ \A x \in Contracts : x # c => resolved'[x] = resolved[x]
      /\ Len(work) \in Nat
      /\ \A i \in 1..Len(work) : work'[i] = work[i]
      /\ work'[Len(work) + 1] = Call(c)
      /\ DOMAIN work = 1..Len(work) /\ DOMAIN work' = 1..(Len(work) + 1)
  BY Entered
<1>2. ASSUME NEW i \in DOMAIN work PROVE MergeOK(work[i])' /\ Settled(i)'
  <2>1. MergeOK(work[i]) /\ Settled(i)
    BY DEF Merges
  <2>2. work'[i] = work[i]
    BY <1>1
  <2>3. \A j \in DOMAIN work[i].lists : j <= Len(bases[work[i].cont]) =>
          LET b == bases[work[i].cont][j]
          IN /\ b \in Contracts /\ b # c /\ resolved'[b] = resolved[b]
             /\ resolved[b] # <<>>
             /\ \A k \in DOMAIN work : work[k].cont = b => k <= i
    BY <1>1, <2>1, JoinedBases DEF Settled
  <2>4. MergeOK(work[i])'
    BY <2>1, <2>2, <2>3, MergeKept
  <2>5. Call(c).cont = c
    BY DEF Call
  <2>6. Settled(i)'
    BY <1>1, <2>2, <2>3, <2>5 DEF Settled
  <2>7. QED
    BY <2>4, <2>6
<1>3. ASSUME NEW i \in DOMAIN work', i = Len(work) + 1
      PROVE  MergeOK(work[i])' /\ Settled(i)'
  <2>1. work'[i] = Call(c)
    BY <1>1, <1>3
  <2>2. MergeOK(Call(c))
    BY CallMerges
  <2>3. Len(bases[c]) \in Nat /\ Call(c).next = 1 /\ Call(c).lists = <<>>
        /\ Call(c).out = <<>> /\ Call(c).cont = c
    BY LenProperties DEF Types, Call
  <2>4. MergeOK(work[i])'
    BY <2>1, <2>2, <2>3 DEF MergeOK, Joint, ToSet
  <2>5. Settled(i)'
    BY <2>1, <2>3 DEF Settled
  <2>6. QED
    BY <2>4, <2>5
<1>4. \A i \in DOMAIN work' : i \in DOMAIN work \/ i = Len(work) + 1
  BY <1>1
<1>5. \A i \in DOMAIN work' : MergeOK(work[i])' /\ Settled(i)'
  BY <1>2, <1>3, <1>4
<1>6. QED
  BY <1>5 DEF Merges

LEMMA GoneOnKeepsMerges ==
  ASSUME Types, Path, Merges, work # <<>>, work' # <<>>,
         Len(work') = Len(work), DOMAIN work' = DOMAIN work,
         \A i \in 1..(Len(work) - 1) : work'[i] = work[i],
         Top' = work'[Len(work)], Top'.cont = Top.cont,
         bases' = bases, resolved' = resolved, topo' = topo,
         MergeOK(Top'),
         \A j \in DOMAIN Top'.lists : j <= Len(bases[Top.cont]) =>
            resolved[bases[Top.cont][j]] # <<>>
  PROVE  Merges'
<1>1. \A i \in DOMAIN work : work'[i].cont = work[i].cont
  BY SameConts
<1>2. Len(work) \in Nat \ {0} /\ DOMAIN work = 1..Len(work)
  BY TopFrame
<1>3. \A f : MergeOK(f)' <=> MergeOK(f)
  BY SameMerge
<1>4. ASSUME NEW i \in DOMAIN work PROVE MergeOK(work'[i]) /\ Settled(i)'
  <2>1. CASE i = Len(work)
    <3>1. \A k \in DOMAIN work : k <= i
      BY <1>2, <2>1
    <3>2. work'[i] = Top' /\ work'[i].cont = Top.cont
      BY <2>1
    <3>3. QED
      BY <1>1, <3>1, <3>2 DEF Settled
  <2>2. CASE i # Len(work)
    <3>1. work'[i] = work[i]
      BY <1>2, <2>2
    <3>2. MergeOK(work[i]) /\ Settled(i)
      BY DEF Merges
    <3>3. QED
      BY <1>1, <3>1, <3>2 DEF Settled
  <2>3. QED
    BY <2>1, <2>2
<1>5. ASSUME NEW i \in DOMAIN work PROVE MergeOK(work[i])' /\ Settled(i)'
  BY <1>3, <1>4
<1>6. QED
  BY <1>5 DEF Merges

\* A list is joined.
LEMMA JoinKeepsMerges ==
  ASSUME Types, Path, Merges, work # <<>>, NEW l \in Seq(Contracts),
         Become([Top EXCEPT !.next = @ + 1, !.lists = Append(@, l)]),
         bases' = bases, resolved' = resolved, topo' = topo,
         Top.next <= Len(bases[Top.cont]) + 1,
         IF Top.next <= Len(bases[Top.cont])
         THEN l = resolved[bases[Top.cont][Top.next]] /\ l # <<>>
         ELSE l = bases[Top.cont]
  PROVE  Merges'
<1>1. /\ work' \in Seq(FrameType) /\ work' # <<>>
      /\ Len(work') = Len(work) /\ DOMAIN work' = DOMAIN work
      /\ \A i \in 1..(Len(work) - 1) : work'[i] = work[i]
      /\ Top' = work'[Len(work)]
      /\ Top'.cont = Top.cont /\ Top'.next = Top.next + 1 /\ Top'.out = Top.out
      /\ Len(Top'.lists) = Len(Top.lists) + 1
      /\ \A j \in 1..Len(Top.lists) : Top'.lists[j] = Top.lists[j]
      /\ Top'.lists[Len(Top.lists) + 1] = l
      /\ Len(Top.lists) \in Nat
  BY ListJoined
<1>2. /\ Len(work) \in DOMAIN work /\ Top = work[Len(work)]
      /\ Top \in FrameType /\ Top.next \in Nat \ {0}
      /\ bases[Top.cont] \in Seq(Contracts) /\ Len(bases[Top.cont]) \in Nat
  BY TopFrame DEF FrameType
<1>3. MergeOK(Top) /\ Settled(Len(work))
  BY <1>2 DEF Merges
<1>4. Top'.lists \in Seq(Seq(Contracts)) /\ Top.lists \in Seq(Seq(Contracts))
  <2>1. Top' \in FrameType
    BY <1>1, <1>2, ElementOfSeq, LenProperties
  <2>2. QED
    BY <1>2, <2>1 DEF FrameType
<1>5. /\ Len(Top.lists) = Top.next - 1
      /\ DOMAIN Top.lists = 1..Len(Top.lists)
      /\ DOMAIN Top'.lists = 1..(Len(Top.lists) + 1)
      /\ Top.out = <<>>
  BY <1>1, <1>2, <1>3, <1>4, LenProperties DEF MergeOK
<1>6. \A j \in DOMAIN Top'.lists : j \in DOMAIN Top.lists \/ j = Top.next
  BY <1>2, <1>5
<1>7. Joint(Top', Top.next) = l
  BY <1>1 DEF Joint
<1>8. \A j \in DOMAIN Top'.lists :
        /\ Partly(Joint(Top', j), Top'.lists[j], Top'.out)
        /\ j <= Len(bases[Top.cont]) => resolved[bases[Top.cont][j]] # <<>>
  <2>1. ASSUME NEW j \in DOMAIN Top.lists
        PROVE  /\ Partly(Joint(Top', j), Top'.lists[j], Top'.out)
               /\ j <= Len(bases[Top.cont]) => resolved[bases[Top.cont][j]] # <<>>
    <3>1. Joint(Top', j) = Joint(Top, j) /\ Top'.lists[j] = Top.lists[j]
      BY <1>1, <1>5 DEF Joint
    <3>2. Partly(Joint(Top, j), Top.lists[j], Top.out)
      BY <1>3 DEF MergeOK
    <3>3. j <= Len(bases[Top.cont]) => resolved[bases[Top.cont][j]] # <<>>
      BY <1>2, <1>3 DEF Settled
    <3>4. QED
      BY <1>1, <3>1, <3>2, <3>3
  <2>2. /\ Partly(Joint(Top', Top.next), Top'.lists[Top.next], Top'.out)
        /\ Top.next <= Len(bases[Top.cont]) => resolved[bases[Top.cont][Top.next]] # <<>>
    <3>1. Top'.lists[Top.next] = l
      BY <1>1, <1>2, <1>5
    <3>2. QED
      BY <1>1, <1>5, <1>7, <3>1, PartlyAll
  <2>3. QED
    BY <1>6, <2>1, <2>2
<1>9. MergeOK(Top')
  <2>1. /\ Top'.next <= Len(bases[Top'.cont]) + 2
        /\ Len(Top'.lists) = Top'.next - 1
        /\ Top'.out = <<>>
    <3>1. Top'.next - 1 = Top.next /\ Len(Top'.lists) = Top.next - 1 + 1
      BY <1>1, <1>2, <1>5
    <3>2. Top.next - 1 + 1 = Top.next
      BY <1>2
    <3>3. Top'.next <= Len(bases[Top'.cont]) + 2
      BY <1>1, <1>2
    <3>4. QED
      BY <1>1, <1>5, <3>1, <3>2, <3>3
  <2>2. Once(Top'.out) /\ \A x \in ToSet(Top'.out) : FALSE
    BY <2>1 DEF Once, ToSet
  <2>3. QED
    BY <1>8, <2>1, <2>2 DEF MergeOK
<1>10. QED
  BY <1>1, <1>8, <1>9, GoneOnKeepsMerges

\* An element is taken.
LEMMA TakeKeepsMerges ==
  ASSUME Types, Path, Merges, Take
  PROVE  Merges'
<1>1. PICK c \in Contracts :
           /\ work # <<>>
           /\ work' \in Seq(FrameType) /\ work' # <<>>
           /\ Len(work') = Len(work) /\ DOMAIN work' = DOMAIN work
           /\ \A i \in 1..(Len(work) - 1) : work'[i] = work[i]
           /\ Top' = work'[Len(work)]
           /\ Top'.cont = Top.cont /\ Top'.next = Top.next
           /\ Top'.out = Append(Top.out, c)
           /\ Top'.lists = Without(Top.lists, c)
           /\ \E i \in Left(Top.lists) : Head(Top.lists[i]) = c
           /\ \A j \in Left(Top.lists) : c \notin ToSet(Tail(Top.lists[j]))
  BY HeadsTaken
<1>2. bases' = bases /\ resolved' = resolved /\ topo' = topo
      /\ Top.next = Len(bases[Top.cont]) + 2
  BY DEF Take, Merging
<1>3. /\ Len(work) \in DOMAIN work /\ Top = work[Len(work)]
      /\ Top \in FrameType /\ Top.out \in Seq(Contracts)
      /\ Top.lists \in Seq(Seq(Contracts))
      /\ bases[Top.cont] \in Seq(Contracts) /\ Len(bases[Top.cont]) \in Nat
  BY <1>1, TopFrame DEF FrameType
<1>4. MergeOK(Top) /\ Settled(Len(work))
  BY <1>3 DEF Merges
<1>5. /\ DOMAIN Top.lists = 1..(Top.next - 1)
      /\ \A j \in DOMAIN Top.lists : j <= Len(bases[Top.cont]) =>
           bases[Top.cont][j] \in Contracts
  BY <1>3, <1>4, JoinedBases
<1>6. DOMAIN Top'.lists = DOMAIN Top.lists /\ Len(Top'.lists) = Len(Top.lists)
  <2>1. Top' \in FrameType
    BY <1>1, <1>3, ElementOfSeq, LenProperties
  <2>2. Top'.lists \in Seq(Seq(Contracts))
    BY <2>1 DEF FrameType
  <2>3. DOMAIN Top'.lists = DOMAIN Top.lists
    BY <1>1 DEF Without
  <2>4. /\ Len(Top.lists) \in Nat /\ DOMAIN Top.lists = 1..Len(Top.lists)
        /\ Len(Top'.lists) \in Nat /\ DOMAIN Top'.lists = 1..Len(Top'.lists)
    BY <1>3, <2>2, LenProperties
  <2>5. QED
    BY <2>3, <2>4
<1>7. \A j \in DOMAIN Top.lists :
        /\ Top.lists[j] \in Seq(Contracts) /\ Joint(Top, j) \in Seq(Contracts)
        /\ Joint(Top', j) = Joint(Top, j)
  <2>1. ASSUME NEW j \in DOMAIN Top.lists
        PROVE  Top.lists[j] \in Seq(Contracts) /\ Joint(Top, j) \in Seq(Contracts)
    BY <1>3, <1>5, ElementOfSeq, LenProperties DEF Joint, Types
  <2>2. QED
    BY <1>1, <2>1 DEF Joint
<1>8. ToSet(Top'.out) = ToSet(Top.out) \cup {c}
  BY <1>1, <1>3, AppendElements
<1>9. \A j \in DOMAIN Top.lists :
        /\ Partly(Joint(Top, j), Top'.lists[j], Top'.out)
        /\ c \notin ToSet(Top'.lists[j])
        /\ ToSet(Top'.lists[j]) \subseteq ToSet(Top.lists[j])
  <2>1. SUFFICES ASSUME NEW j \in DOMAIN Top.lists
        PROVE  /\ Partly(Joint(Top, j), Top'.lists[j], Top'.out)
               /\ c \notin ToSet(Top'.lists[j])
               /\ ToSet(Top'.lists[j]) \subseteq ToSet(Top.lists[j])
    OBVIOUS
  <2>2. Partly(Joint(Top, j), Top.lists[j], Top.out)
    BY <1>4 DEF MergeOK
  <2>3. /\ Partly(Joint(Top, j), Top.lists[j], Top'.out)
        /\ Top.lists[j] # <<>> /\ Head(Top.lists[j]) = c =>
             Partly(Joint(Top, j), Tail(Top.lists[j]), Top'.out)
    BY <1>1, <1>3, <1>7, <2>2, PartlyTaken
  <2>4. CASE Top.lists[j] = <<>>
    <3>1. Top'.lists[j] = Top.lists[j]
      BY <1>1, <2>4 DEF Without, Left
    <3>2. QED
      BY <2>3, <2>4, <3>1 DEF ToSet
  <2>5. CASE Top.lists[j] # <<>>
    <3>1. j \in Left(Top.lists)
      BY <2>5 DEF Left
    <3>2. /\ c \notin ToSet(Tail(Top.lists[j]))
          /\ Head(Top.lists[j]) = Top.lists[j][1]
          /\ ToSet(Top.lists[j]) = ToSet(Tail(Top.lists[j])) \cup {Top.lists[j][1]}
      BY <1>1, <1>7, <2>5, <3>1, TailElements
    <3>3. CASE Head(Top.lists[j]) = c
      <4>1. Top'.lists[j] = Tail(Top.lists[j])
        BY <1>1, <3>1, <3>3 DEF Without
      <4>2. QED
        BY <2>3, <2>5, <3>2, <3>3, <4>1
    <3>4. CASE Head(Top.lists[j]) # c
      <4>1. Top'.lists[j] = Top.lists[j]
        BY <1>1, <3>4 DEF Without
      <4>2. QED
        BY <2>3, <3>2, <3>4, <4>1
    <3>5. QED
      BY <3>3, <3>4
  <2>6. QED
    BY <2>4, <2>5
<1>10. PICK i \in DOMAIN Top.lists : c \in ToSet(Top.lists[i])
  <2>1. PICK i \in Left(Top.lists) : Head(Top.lists[i]) = c
    BY <1>1
  <2>2. i \in DOMAIN Top.lists /\ c \in ToSet(Top.lists[i])
    BY <1>7, <2>1, TailElements DEF Left
  <2>3. QED
    BY <2>2
<1>11. c \in ToSet(Joint(Top, i))
  <2>1. Partly(Joint(Top, i), Top.lists[i], Top.out)
    BY <1>4, <1>10 DEF MergeOK
  <2>. DEFINE n == Len(Joint(Top, i)) - Len(Top.lists[i])
  <2>2. PICK p \in DOMAIN Top.lists[i] : Top.lists[i][p] = c
    BY <1>10 DEF ToSet
  <2>3. n \in Nat /\ Joint(Top, i)[n + p] = c
    BY <2>1, <2>2 DEF Partly
  <2>4. /\ Len(Top.lists[i]) \in Nat /\ p \in 1..Len(Top.lists[i])
        /\ Len(Joint(Top, i)) \in Nat
        /\ DOMAIN Joint(Top, i) = 1..Len(Joint(Top, i))
    BY <1>7, <1>10, <2>2, LenProperties
  <2>5. n + p \in DOMAIN Joint(Top, i)
    BY <2>3, <2>4
  <2>6. QED
    BY <2>3, <2>5 DEF ToSet
<1>12. c \notin ToSet(Top.out)
  BY <1>4, <1>10 DEF MergeOK
<1>13. Once(Top'.out)
  <2>1. Once(Top.out)
    BY <1>4 DEF MergeOK
  <2>2. /\ Len(Top.out) \in Nat /\ DOMAIN Top.out = 1..Len(Top.out)
        /\ Top'.out \in Seq(Contracts) /\ Len(Top'.out) = Len(Top.out) + 1
        /\ \A k \in 1..Len(Top.out) : Top'.out[k] = Top.out[k]
        /\ Top'.out[Len(Top.out) + 1] = c
    BY <1>1, <1>3, AppendElements, LenProperties
  <2>3. DOMAIN Top'.out = 1..(Len(Top.out) + 1)
    BY <2>2, LenProperties
  <2>4. \A k \in 1..Len(Top.out) : Top'.out[k] # c
    BY <1>12, <2>2 DEF ToSet
  <2>5. QED
    BY <2>1, <2>2, <2>3, <2>4 DEF Once
<1>14. MergeOK(Top')
  <2>1. /\ Top'.next <= Len(bases[Top'.cont]) + 2
        /\ Len(Top'.lists) = Top'.next - 1
        /\ Top'.next = Len(bases[Top'.cont]) + 2
    BY <1>1, <1>2, <1>4, <1>6 DEF MergeOK
  <2>2. \A x \in ToSet(Top'.out) : \A j \in DOMAIN Top'.lists :
          x \notin ToSet(Top'.lists[j])
    BY <1>4, <1>6, <1>8, <1>9 DEF MergeOK
  <2>3. \A x \in ToSet(Top'.out) : \E j \in DOMAIN Top'.lists :
          x \in ToSet(Joint(Top', j))
    BY <1>4, <1>6, <1>7, <1>8, <1>10, <1>11 DEF MergeOK
  <2>4. \A j \in DOMAIN Top'.lists : Partly(Joint(Top', j), Top'.lists[j], Top'.out)
    BY <1>6, <1>7, <1>9
  <2>5. QED
    BY <1>13, <2>1, <2>2, <2>3, <2>4 DEF MergeOK
<1>15. \A j \in DOMAIN Top'.lists : j <= Len(bases[Top.cont]) =>
         resolved[bases[Top.cont][j]] # <<>>
  BY <1>3, <1>4, <1>6 DEF Settled
<1>16. QED
  BY <1>1, <1>2, <1>14, <1>15, GoneOnKeepsMerges

LEMMA MergedKeepsMerges ==
  ASSUME Types, Path, Merges, Merged
  PROVE  Merges'
<1>1. /\ work # <<>> /\ work' = Front(work) /\ bases' = bases
      /\ \A x \in Contracts : x # Top.cont => resolved'[x] = resolved[x]
  BY MergedLists DEF Merged
<1>2. /\ Len(work) \in Nat \ {0}
      /\ \A i \in 1..(Len(work) - 1) : work'[i] = work[i]
      /\ DOMAIN work = 1..Len(work) /\ DOMAIN work' = 1..(Len(work) - 1)
      /\ Top = work[Len(work)] /\ Len(work) \in DOMAIN work
  BY <1>1, Returned, TopInProgress
<1>3. ASSUME NEW i \in DOMAIN work' PROVE MergeOK(work[i])' /\ Settled(i)'
  <2>1. i \in DOMAIN work /\ work'[i] = work[i] /\ ~(Len(work) <= i)
    BY <1>2
  <2>2. MergeOK(work[i]) /\ Settled(i)
    BY <2>1 DEF Merges
  <2>3. \A j \in DOMAIN work[i].lists : j <= Len(bases[work[i].cont]) =>
          LET b == bases[work[i].cont][j]
          IN /\ b \in Contracts /\ b # Top.cont /\ resolved'[b] = resolved[b]
             /\ resolved[b] # <<>>
             /\ \A k \in DOMAIN work : work[k].cont = b => k <= i
    BY <1>1, <1>2, <2>1, <2>2, JoinedBases DEF Settled
  <2>4. MergeOK(work[i])'
    BY <1>1, <2>1, <2>2, <2>3, MergeKept
  <2>5. \A k \in DOMAIN work' : k \in DOMAIN work /\ work'[k] = work[k]
    BY <1>2
  <2>6. Settled(i)'
    BY <1>1, <2>1, <2>3, <2>5 DEF Settled
  <2>7. QED
    BY <2>4, <2>6
<1>4. QED
  BY <1>3 DEF Merges

LEMMA MergesKept ==
  ASSUME Types, Path, Phases, Merges, [Next]_vars
  PROVE  Merges'
<1>1. bases' = bases
  BY SameGraph
<1>2. ASSUME resolved' = resolved, work' = work PROVE Merges'
  BY <1>1, <1>2, SameMerge DEF Merges, Settled
<1>3. CASE NextRoot
  <2>1. PICK c \in roots :
          IF resolved[c] = <<>> THEN Enter(c) ELSE UNCHANGED <<resolved, work>>
    BY <1>3 DEF NextRoot
  <2>2. c \in Contracts
    BY DEF Types
  <2>3. QED
    BY <1>1, <1>2, <2>1, <2>2, EnterKeepsMerges
<1>4. CASE Descend
  BY <1>1, <1>4, BaseType, EnterKeepsMerges DEF Descend
<1>5. CASE JoinBase
  <2>1. /\ work # <<>> /\ Base \in Contracts /\ Base = bases[Top.cont][Top.next]
        /\ Top.next <= Len(bases[Top.cont])
    BY <1>5, BaseType DEF JoinBase, Searching
  <2>2. resolved[Base] \in Seq(Contracts) /\ resolved[Base] # <<>>
    BY <1>5, <2>1 DEF Types, JoinBase
  <2>3. Len(bases[Top.cont]) \in Nat /\ Top.next \in Nat
    BY <2>1, TopFrame DEF FrameType
  <2>4. Top.next <= Len(bases[Top.cont]) + 1
    BY <2>1, <2>3
  <2>5. QED
    BY <1>1, <1>5, <2>1, <2>2, <2>4, JoinKeepsMerges DEF JoinBase
<1>6. CASE JoinOwnBases
  <2>1. /\ bases[Top.cont] \in Seq(Contracts) /\ work # <<>>
        /\ Len(bases[Top.cont]) \in Nat /\ Top.next = Len(bases[Top.cont]) + 1
    BY <1>6, TopFrame DEF JoinOwnBases
  <2>2. Top.next <= Len(bases[Top.cont]) + 1 /\ ~(Top.next <= Len(bases[Top.cont]))
    BY <2>1
  <2>3. QED
    BY <1>1, <1>6, <2>1, <2>2, JoinKeepsMerges DEF JoinOwnBases
<1>7. CASE Take
  BY <1>7, TakeKeepsMerges
<1>8. CASE Stuck
  BY <1>8 DEF Stuck, Merges
<1>9. CASE Merged
  BY <1>9, MergedKeepsMerges
<1>10. CASE Solved \/ Finished \/ UNCHANGED vars
  BY <1>2, <1>10 DEF Solved, Finished, vars
<1>11. QED
  BY <1>3, <1>4, <1>5, <1>6, <1>7, <1>8, <1>9, <1>10 DEF Next

-----------------------------------------------------------------------------
(* Kept and Complete. *)

LEMMA PartlyDone ==
  ASSUME NEW l \in Seq(Contracts), NEW out \in Seq(Contracts), Partly(l, <<>>, out)
  PROVE  Keeps(l, out)
<1>1. Len(l) \in Nat /\ DOMAIN l = 1..Len(l) /\ Len(l) - Len(<<>>) = Len(l)
  BY LenProperties
<1>2. /\ \A p \in 1..Len(l) : l[p] \in ToSet(out)
      /\ \A p, q \in 1..Len(l) : p < q => Before(out, l[p], l[q])
  BY <1>1 DEF Partly
<1>3. ToSet(l) \subseteq ToSet(out)
  BY <1>1, <1>2 DEF ToSet
<1>4. ASSUME NEW x, NEW y, Before(l, x, y) PROVE Before(out, x, y)
  <2>1. PICK i \in DOMAIN l, j \in DOMAIN l : i < j /\ l[i] = x /\ l[j] = y
    BY <1>4 DEF Before
  <2>2. QED
    BY <1>1, <1>2, <2>1
<1>5. QED
  BY <1>3, <1>4 DEF Keeps

\* What a finished merge has made of the lists.
LEMMA MergeDone ==
  ASSUME Types, Path, Merges, Merged
  PROVE  /\ Once(Top.out)
         /\ Keeps(bases[Top.cont], Top.out)
         /\ \A b \in ToSet(bases[Top.cont]) : Keeps(resolved[b], Top.out)
         /\ \A x \in ToSet(Top.out) :
              \/ x \in ToSet(bases[Top.cont])
              \/ \E b \in ToSet(bases[Top.cont]) : x \in ToSet(resolved[b])
<1>1. work # <<>> /\ Top.next = Len(bases[Top.cont]) + 2 /\ Left(Top.lists) = {}
  BY DEF Merged, Merging
<1>2. /\ Len(work) \in DOMAIN work /\ Top = work[Len(work)]
      /\ Top \in FrameType /\ Top.out \in Seq(Contracts)
      /\ bases[Top.cont] \in Seq(Contracts) /\ Len(bases[Top.cont]) \in Nat
      /\ DOMAIN bases[Top.cont] = 1..Len(bases[Top.cont])
  BY <1>1, TopFrame DEF FrameType
<1>3. MergeOK(Top)
  BY <1>2 DEF Merges
<1>4. DOMAIN Top.lists = 1..(Len(bases[Top.cont]) + 1)
  BY <1>1, <1>2, <1>3, JoinedBases
<1>5. \A j \in DOMAIN Top.lists : Partly(Joint(Top, j), <<>>, Top.out)
  <2>1. \A j \in DOMAIN Top.lists : Top.lists[j] = <<>>
    BY <1>1 DEF Left
  <2>2. QED
    BY <1>3, <2>1 DEF MergeOK
<1>6. Keeps(bases[Top.cont], Top.out)
  <2>1. /\ Len(bases[Top.cont]) + 1 \in DOMAIN Top.lists
        /\ ~(Len(bases[Top.cont]) + 1 <= Len(bases[Top.cont]))
    BY <1>2, <1>4
  <2>2. Joint(Top, Len(bases[Top.cont]) + 1) = bases[Top.cont]
    BY <2>1 DEF Joint
  <2>3. QED
    BY <1>2, <1>5, <2>1, <2>2, PartlyDone
<1>7. ASSUME NEW j \in DOMAIN bases[Top.cont]
      PROVE  /\ j \in DOMAIN Top.lists
             /\ Joint(Top, j) = resolved[bases[Top.cont][j]]
             /\ resolved[bases[Top.cont][j]] \in Seq(Contracts)
  BY <1>2, <1>4, ElementOfSeq DEF Joint, Types
<1>8. ASSUME NEW b \in ToSet(bases[Top.cont]) PROVE Keeps(resolved[b], Top.out)
  <2>1. PICK j \in DOMAIN bases[Top.cont] : bases[Top.cont][j] = b
    BY DEF ToSet
  <2>2. QED
    BY <1>2, <1>5, <1>7, <2>1, PartlyDone
<1>9. ASSUME NEW x \in ToSet(Top.out)
      PROVE  \/ x \in ToSet(bases[Top.cont])
             \/ \E b \in ToSet(bases[Top.cont]) : x \in ToSet(resolved[b])
  <2>1. PICK j \in DOMAIN Top.lists : x \in ToSet(Joint(Top, j))
    BY <1>3 DEF MergeOK
  <2>2. CASE j <= Len(bases[Top.cont])
    <3>1. j \in DOMAIN bases[Top.cont]
      BY <1>2, <1>4, <2>2
    <3>2. bases[Top.cont][j] \in ToSet(bases[Top.cont])
      BY <3>1 DEF ToSet
    <3>3. QED
      BY <1>7, <2>1, <3>1, <3>2
  <2>3. CASE ~(j <= Len(bases[Top.cont]))
    BY <2>1, <2>3 DEF Joint
  <2>4. QED
    BY <2>2, <2>3
<1>10. Once(Top.out)
  BY <1>3 DEF MergeOK
<1>11. QED
  BY <1>6, <1>8, <1>9, <1>10

LEMMA TopoGrows ==
  ASSUME Types, Path, Merged
  PROVE  \A x, y : Before(topo', x, y) <=>
                     Before(topo, x, y) \/ (x \in ToSet(topo) /\ y = Top.cont)
<1>1. /\ Len(topo) \in Nat /\ DOMAIN topo = 1..Len(topo)
      /\ DOMAIN topo' = 1..(Len(topo) + 1)
      /\ \A i \in 1..Len(topo) : topo'[i] = topo[i]
      /\ topo'[Len(topo) + 1] = Top.cont
  BY MergedLists
<1>2. ASSUME NEW x, NEW y, Before(topo', x, y)
      PROVE  Before(topo, x, y) \/ (x \in ToSet(topo) /\ y = Top.cont)
  <2>1. PICK i \in DOMAIN topo', j \in DOMAIN topo' :
          i < j /\ topo'[i] = x /\ topo'[j] = y
    BY <1>2 DEF Before
  <2>2. i \in DOMAIN topo /\ topo[i] = x
    BY <1>1, <2>1
  <2>3. CASE j = Len(topo) + 1
    BY <1>1, <2>1, <2>2, <2>3 DEF ToSet
  <2>4. CASE j # Len(topo) + 1
    <3>1. j \in DOMAIN topo /\ topo[j] = y
      BY <1>1, <2>1, <2>4
    <3>2. QED
      BY <2>1, <2>2, <3>1 DEF Before
  <2>5. QED
    BY <2>3, <2>4
<1>3. ASSUME NEW x, NEW y, Before(topo, x, y) PROVE Before(topo', x, y)
  BY <1>1, <1>3 DEF Before
<1>4. ASSUME NEW x \in ToSet(topo) PROVE Before(topo', x, Top.cont)
  <2>1. PICK i \in DOMAIN topo : topo[i] = x
    BY DEF ToSet
  <2>2. /\ i \in DOMAIN topo' /\ Len(topo) + 1 \in DOMAIN topo'
        /\ i < Len(topo) + 1 /\ topo'[i] = x
    BY <1>1, <2>1
  <2>3. QED
    BY <1>1, <2>2 DEF Before
<1>5. QED
  BY <1>2, <1>3, <1>4

LEMMA BeforeElements ==
  ASSUME NEW s, NEW x, NEW y, Before(s, x, y)
  PROVE  x \in ToSet(s) /\ y \in ToSet(s)
BY DEF Before, ToSet

\* The result of a merge keeps what its lists say.
LEMMA ConsKeeps ==
  ASSUME NEW l, NEW out \in Seq(Contracts), NEW r \in Seq(Contracts),
         Len(r) = Len(out) + 1, \A i \in 1..Len(out) : r[i + 1] = out[i],
         ToSet(out) \subseteq ToSet(r), Keeps(l, out)
  PROVE  Keeps(l, r)
<1>1. Len(out) \in Nat /\ DOMAIN out = 1..Len(out) /\ DOMAIN r = 1..(Len(out) + 1)
  BY LenProperties
<1>2. ASSUME NEW x, NEW y, Before(out, x, y) PROVE Before(r, x, y)
  <2>1. PICK i \in DOMAIN out, j \in DOMAIN out : i < j /\ out[i] = x /\ out[j] = y
    BY <1>2 DEF Before
  <2>2. /\ i + 1 \in DOMAIN r /\ j + 1 \in DOMAIN r /\ i + 1 < j + 1
        /\ r[i + 1] = x /\ r[j + 1] = y
    BY <1>1, <2>1
  <2>3. QED
    BY <2>2 DEF Before
<1>3. QED
  BY <1>2 DEF Keeps

\* A step that adds no contract to those that are done.
LEMMA SameDone ==
  ASSUME Types, Path, Phases, [Next]_vars, ~Merged
  PROVE  /\ topo' = topo
         /\ \A d \in Contracts : resolved[d] # <<>> => resolved'[d] = resolved[d]
<1>1. ASSUME NEW c \in Contracts, resolved[c] = <<>>, Enter(c)
      PROVE  \A d \in Contracts : resolved[d] # <<>> => resolved'[d] = resolved[d]
  BY <1>1, Entered
<1>2. CASE NextRoot
  BY <1>1, <1>2 DEF NextRoot, Types
<1>3. CASE Descend
  BY <1>1, <1>3, BaseType DEF Descend
<1>4. CASE JoinBase \/ JoinOwnBases \/ Take \/ Stuck \/ Solved \/ Finished
            \/ UNCHANGED vars
  BY <1>4 DEF JoinBase, JoinOwnBases, Take, Stuck, Solved, Finished, vars
<1>5. QED
  BY <1>2, <1>3, <1>4 DEF Next

\* The done contracts.
LEMMA DoneType ==
  ASSUME Types, Path
  PROVE  /\ ToSet(topo) \subseteq Contracts
         /\ \A d \in ToSet(topo) :
              /\ resolved[d] \in Seq(Contracts) /\ bases[d] \in Seq(Contracts)
              /\ resolved[d] # <<>> /\ resolved[d][1] = d /\ d \in ToSet(resolved[d])
<1>1. ToSet(topo) \subseteq Contracts
  BY DEF Types, ToSet
<1>2. ASSUME NEW d \in ToSet(topo)
      PROVE  /\ resolved[d] \in Seq(Contracts) /\ bases[d] \in Seq(Contracts)
             /\ resolved[d] # <<>> /\ resolved[d][1] = d /\ d \in ToSet(resolved[d])
  <2>1. resolved[d] \in Seq(Contracts) /\ bases[d] \in Seq(Contracts)
    BY <1>1 DEF Types
  <2>2. resolved[d] # <<>> /\ resolved[d][1] = d
    BY DEF Path
  <2>3. 1 \in DOMAIN resolved[d]
    BY <2>1, <2>2, EmptySeq, LenProperties
  <2>4. QED
    BY <2>1, <2>2, <2>3 DEF ToSet
<1>3. QED
  BY <1>1, <1>2

LEMMA KeptKept ==
  ASSUME Types, Path, Phases, Merges, Kept, [Next]_vars
  PROVE  Kept'
<1>1. bases' = bases
  BY SameGraph
<1>2. CASE ~Merged
  <2>1. /\ topo' = topo
        /\ \A d \in ToSet(topo) : d \in Contracts /\ resolved'[d] = resolved[d]
    BY <1>2, SameDone, DoneType
  <2>2. QED
    BY <1>1, <2>1, BeforeElements DEF Kept
<1>3. CASE Merged
  <2>. DEFINE c == Top.cont  out == Top.out  r == resolved'[c]
  <2>1. /\ c \in Contracts /\ out \in Seq(Contracts) /\ r \in Seq(Contracts)
        /\ \A x \in Contracts : x # c => resolved'[x] = resolved[x]
        /\ Len(r) = Len(out) + 1
        /\ \A i \in 1..Len(out) : r[i + 1] = out[i]
        /\ ToSet(r) = ToSet(out) \cup {c}
        /\ ToSet(topo') = ToSet(topo) \cup {c}
    BY <1>3, MergedLists
  <2>2. c \notin ToSet(topo) /\ ToSet(topo) \subseteq Contracts
    BY <1>3, TopInProgress, DoneType DEF Merged, Merging
  <2>3. /\ Once(out) /\ Keeps(bases[c], out)
        /\ \A b \in ToSet(bases[c]) : Keeps(resolved[b], out)
    BY <1>3, MergeDone
  <2>4. \A x, y : Before(topo', x, y) <=>
                    Before(topo, x, y) \/ (x \in ToSet(topo) /\ y = c)
    BY <1>3, TopoGrows
  <2>. HIDE DEF c, out, r
  <2>5. ASSUME NEW d \in ToSet(topo)
        PROVE  /\ \A b \in ToSet(bases[d]) :
                    Before(topo', b, d) => Keeps(resolved'[b], resolved'[d])
               /\ Keeps(bases[d], resolved'[d])
               /\ \A i, j \in 2..Len(resolved'[d]) :
                    resolved'[d][i] = resolved'[d][j] => i = j
    <3>1. d # c /\ resolved'[d] = resolved[d]
      BY <2>1, <2>2
    <3>2. ASSUME NEW b, Before(topo', b, d)
          PROVE  Before(topo, b, d) /\ resolved'[b] = resolved[b]
      BY <2>1, <2>2, <2>4, <3>1, <3>2, BeforeElements
    <3>3. QED
      BY <3>1, <3>2 DEF Kept
  <2>6. Keeps(bases[c], r)
    BY <2>1, <2>3, ConsKeeps
  <2>7. ASSUME NEW b \in ToSet(bases[c]), Before(topo', b, c)
        PROVE  Keeps(resolved'[b], r)
    <3>1. b \in ToSet(topo)
      BY <2>2, <2>4, <2>7, BeforeElements
    <3>2. resolved'[b] = resolved[b]
      BY <2>1, <2>2, <3>1
    <3>3. QED
      BY <2>1, <2>3, <3>2, ConsKeeps
  <2>8. ASSUME NEW i \in 2..Len(r), NEW j \in 2..Len(r), r[i] = r[j] PROVE i = j
    <3>1. /\ Len(out) \in Nat /\ DOMAIN out = 1..Len(out)
      BY <2>1, LenProperties
    <3>2. /\ i - 1 \in DOMAIN out /\ j - 1 \in DOMAIN out
          /\ i - 1 + 1 = i /\ j - 1 + 1 = j
      BY <2>1, <3>1
    <3>3. r[i] = out[i - 1] /\ r[j] = out[j - 1]
      BY <2>1, <3>1, <3>2
    <3>4. i - 1 = j - 1
      BY <2>3, <2>8, <3>2, <3>3 DEF Once
    <3>5. QED
      BY <3>2, <3>4
  <2>9. \A d \in ToSet(topo') :
          /\ \A b \in ToSet(bases[d]) :
               Before(topo', b, d) => Keeps(resolved'[b], resolved'[d])
          /\ Keeps(bases[d], resolved'[d])
          /\ \A i, j \in 2..Len(resolved'[d]) :
               resolved'[d][i] = resolved'[d][j] => i = j
    BY <2>1, <2>5, <2>6, <2>7, <2>8 DEF r
  <2>10. QED
    BY <1>1, <2>9 DEF Kept
<1>4. QED
  BY <1>2, <1>3

LEMMA CompleteKept ==
  ASSUME Types, Path, Phases, Merges, Complete, [Next]_vars
  PROVE  Complete'
<1>1. bases' = bases
  BY SameGraph
<1>2. CASE ~Merged
  <2>1. /\ topo' = topo
        /\ \A d \in ToSet(topo) : d \in Contracts /\ resolved'[d] = resolved[d]
    BY <1>2, SameDone, DoneType
  <2>2. QED
    BY <1>1, <2>1 DEF Complete, BasesBefore, Closed
<1>3. CASE Merged
  <2>1. SUFFICES ASSUME BasesBefore'
        PROVE  \A d \in ToSet(topo') :
                 /\ ToSet(resolved'[d]) \subseteq ToSet(topo')
                 /\ Closed(ToSet(resolved'[d]))
                 /\ \A i \in 2..Len(resolved'[d]) : resolved'[d][i] # d
    BY <1>1 DEF Complete, Closed
  <2>. DEFINE c == Top.cont  out == Top.out  r == resolved'[c]
  <2>2. /\ c \in Contracts /\ out \in Seq(Contracts) /\ r \in Seq(Contracts)
        /\ \A x \in Contracts : x # c => resolved'[x] = resolved[x]
        /\ Len(r) = Len(out) + 1
        /\ \A i \in 1..Len(out) : r[i + 1] = out[i]
        /\ ToSet(r) = ToSet(out) \cup {c}
        /\ ToSet(topo') = ToSet(topo) \cup {c}
    BY <1>3, MergedLists
  <2>3. c \notin ToSet(topo) /\ ToSet(topo) \subseteq Contracts
    BY <1>3, TopInProgress, DoneType DEF Merged, Merging
  <2>4. /\ Keeps(bases[c], out)
        /\ \A b \in ToSet(bases[c]) : Keeps(resolved[b], out)
        /\ \A x \in ToSet(out) :
              \/ x \in ToSet(bases[c])
              \/ \E b \in ToSet(bases[c]) : x \in ToSet(resolved[b])
    BY <1>3, MergeDone
  <2>5. \A x, y : Before(topo', x, y) <=>
                    Before(topo, x, y) \/ (x \in ToSet(topo) /\ y = c)
    BY <1>3, TopoGrows
  <2>. HIDE DEF c, out, r
  <2>6. \A d \in ToSet(topo') : \A e \in ToSet(bases[d]) : Before(topo', e, d)
    BY <1>1, <2>1 DEF BasesBefore
  <2>7. BasesBefore
    BY <2>2, <2>3, <2>5, <2>6 DEF BasesBefore
  <2>8. \A d \in ToSet(topo) :
          /\ resolved'[d] = resolved[d] /\ d # c
          /\ ToSet(resolved[d]) \subseteq ToSet(topo)
          /\ Closed(ToSet(resolved[d]))
          /\ \A i \in 2..Len(resolved[d]) : resolved[d][i] # d
    BY <2>2, <2>3, <2>7 DEF Complete
  <2>9. ToSet(bases[c]) \subseteq ToSet(topo)
    BY <2>2, <2>3, <2>5, <2>6, BeforeElements
  <2>10. ToSet(out) \subseteq ToSet(topo)
    BY <2>4, <2>8, <2>9
  <2>11. Closed(ToSet(r))
    <3>1. ToSet(bases[c]) \subseteq ToSet(out)
      BY <2>4 DEF Keeps
    <3>2. ASSUME NEW x \in ToSet(out) PROVE ToSet(bases[x]) \subseteq ToSet(out)
      <4>1. PICK b \in ToSet(bases[c]) : x \in ToSet(resolved[b])
        BY <2>4, <2>9, DoneType
      <4>2. ToSet(bases[x]) \subseteq ToSet(resolved[b])
        BY <2>8, <2>9, <4>1 DEF Closed
      <4>3. QED
        BY <2>4, <4>2 DEF Keeps
    <3>3. QED
      BY <2>2, <3>1, <3>2 DEF Closed
  <2>12. ASSUME NEW i \in 2..Len(r) PROVE r[i] # c
    <3>1. Len(out) \in Nat /\ DOMAIN out = 1..Len(out)
      BY <2>2, LenProperties
    <3>2. i - 1 \in 1..Len(out) /\ i - 1 + 1 = i
      BY <2>2, <3>1
    <3>3. r[i] = out[i - 1]
      BY <2>2, <3>2
    <3>4. QED
      BY <2>3, <2>10, <3>1, <3>2, <3>3 DEF ToSet
  <2>13. /\ ToSet(r) \subseteq ToSet(topo')
         /\ Closed(ToSet(r))
         /\ \A i \in 2..Len(r) : r[i] # c
    BY <2>2, <2>10, <2>11, <2>12
  <2>14. QED
    BY <2>2, <2>8, <2>13 DEF r
<1>4. QED
  BY <1>2, <1>3

-----------------------------------------------------------------------------
(* Searched. *)

\* A list that is there stays there.
LEMMA ResolvedGrows ==
  ASSUME Types, Path, Phases, [Next]_vars
  PROVE  \A x \in Contracts : resolved[x] # <<>> => resolved'[x] # <<>>
<1>1. CASE Merged
  <2>1. /\ \A x \in Contracts : x # Top.cont => resolved'[x] = resolved[x]
        /\ resolved'[Top.cont] # <<>>
    BY <1>1, MergedLists
  <2>2. QED
    BY <2>1
<1>2. CASE ~Merged
  BY <1>2, SameDone
<1>3. QED
  BY <1>1, <1>2

\* No call looks at more bases than before.
LEMMA SameJoined ==
  ASSUME bases' = bases, topo' = topo,
         \A i \in DOMAIN work' :
           /\ i \in DOMAIN work /\ work'[i].cont = work[i].cont
           /\ \A j \in DOMAIN bases[work[i].cont] :
                j < work'[i].next => j < work[i].next
  PROVE  \A d, e \in Contracts : Joined(d, e)' => Joined(d, e)
<1>1. ASSUME NEW d \in Contracts, NEW e \in Contracts, Joined(d, e)', d \notin ToSet(topo)
      PROVE  Joined(d, e)
  <2>1. PICK i \in DOMAIN work' :
          work'[i].cont = d /\ \E j \in DOMAIN bases[d] : j < work'[i].next /\ bases[d][j] = e
    BY <1>1 DEF Joined
  <2>2. PICK j \in DOMAIN bases[d] : j < work'[i].next /\ bases[d][j] = e
    BY <2>1
  <2>3. i \in DOMAIN work /\ work[i].cont = d /\ j < work[i].next
    BY <2>1, <2>2
  <2>4. QED
    BY <2>2, <2>3 DEF Joined
<1>2. QED
  BY <1>1 DEF Joined

\* The innermost call goes on.
LEMMA GoneOnJoined ==
  ASSUME Types, Path, work # <<>>, work' # <<>>,
         Len(work') = Len(work), DOMAIN work' = DOMAIN work,
         \A i \in 1..(Len(work) - 1) : work'[i] = work[i],
         Top' = work'[Len(work)], Top'.cont = Top.cont,
         bases' = bases, resolved' = resolved, topo' = topo,
         \A j \in DOMAIN bases[Top.cont] : j < Top'.next => j < Top.next
  PROVE  \A d, e \in Contracts : Joined(d, e)' => Joined(d, e)
<1>1. \A i \in DOMAIN work : work'[i].cont = work[i].cont
  BY SameConts
<1>2. Len(work) \in Nat \ {0} /\ DOMAIN work = 1..Len(work) /\ Top = work[Len(work)]
  BY TopFrame
<1>3. \A i \in DOMAIN work : \A j \in DOMAIN bases[work[i].cont] :
        j < work'[i].next => j < work[i].next
  <2>1. ASSUME NEW i \in DOMAIN work, NEW j \in DOMAIN bases[work[i].cont],
               j < work'[i].next
        PROVE  j < work[i].next
    <3>1. CASE i = Len(work)
      BY <1>2, <2>1, <3>1
    <3>2. CASE i # Len(work)
      <4>1. work'[i] = work[i]
        BY <1>2, <3>2
      <4>2. QED
        BY <2>1, <4>1
    <3>3. QED
      BY <3>1, <3>2
  <2>2. QED
    BY <2>1
<1>4. QED
  BY <1>1, <1>3, SameJoined

LEMMA EnterJoined ==
  ASSUME Types, NEW c \in Contracts, Enter(c), bases' = bases, topo' = topo
  PROVE  \A d, e \in Contracts : Joined(d, e)' => Joined(d, e)
<1>1. /\ Len(work) \in Nat /\ Len(work') = Len(work) + 1
      /\ \A i \in 1..Len(work) : work'[i] = work[i]
      /\ work'[Len(work) + 1] = Call(c)
      /\ DOMAIN work = 1..Len(work) /\ DOMAIN work' = 1..(Len(work) + 1)
  BY Entered
<1>2. ASSUME NEW d \in Contracts, NEW e \in Contracts, Joined(d, e)', d \notin ToSet(topo)
      PROVE  Joined(d, e)
  <2>1. PICK i \in DOMAIN work' :
          work'[i].cont = d /\ \E j \in DOMAIN bases[d] : j < work'[i].next /\ bases[d][j] = e
    BY <1>2 DEF Joined
  <2>2. PICK j \in DOMAIN bases[d] : j < work'[i].next /\ bases[d][j] = e
    BY <2>1
  <2>3. j \in Nat \ {0}
    <3>1. bases[d] \in Seq(Contracts)
      BY DEF Types
    <3>2. QED
      BY <3>1, <2>2, LenProperties
  <2>4. CASE i = Len(work) + 1
    BY <1>1, <2>2, <2>3, <2>4 DEF Call
  <2>5. CASE i # Len(work) + 1
    <3>1. i \in DOMAIN work /\ work'[i] = work[i]
      BY <1>1, <2>5
    <3>2. QED
      BY <2>1, <2>2, <3>1 DEF Joined
  <2>6. QED
    BY <2>4, <2>5
<1>3. QED
  BY <1>2 DEF Joined, ToSet

\* What is joined is the base that is looked at.
LEMMA JoinedGrows ==
  ASSUME Types, Path, Phases, Merges, [Next]_vars
  PROVE  \A d, e \in Contracts :
           Joined(d, e)' => Joined(d, e) \/ (JoinBase /\ d = Top.cont /\ e = Base)
<1>1. bases' = bases
  BY SameGraph
<1>2. ASSUME work' = work, topo' = topo
      PROVE  \A d, e \in Contracts : Joined(d, e)' => Joined(d, e)
  BY <1>1, <1>2 DEF Joined
<1>3. CASE NextRoot
  <2>1. PICK c \in roots :
          IF resolved[c] = <<>> THEN Enter(c) ELSE UNCHANGED <<resolved, work>>
    BY <1>3 DEF NextRoot
  <2>2. c \in Contracts /\ topo' = topo
    BY <1>3 DEF Types, NextRoot
  <2>3. QED
    BY <1>1, <1>2, <2>1, <2>2, EnterJoined
<1>4. CASE Descend
  BY <1>1, <1>4, BaseType, EnterJoined DEF Descend
<1>5. CASE JoinBase
  <2>1. /\ work # <<>> /\ Base \in Contracts /\ Base = bases[Top.cont][Top.next]
        /\ topo' = topo /\ resolved' = resolved
    BY <1>5, BaseType DEF JoinBase
  <2>2. resolved[Base] \in Seq(Contracts)
    BY <2>1 DEF Types
  <2>3. /\ work' # <<>> /\ Len(work') = Len(work) /\ DOMAIN work' = DOMAIN work
        /\ \A i \in 1..(Len(work) - 1) : work'[i] = work[i]
        /\ Top' = work'[Len(work)]
        /\ Top'.cont = Top.cont /\ Top'.next = Top.next + 1
    BY <1>5, <2>1, <2>2, ListJoined DEF JoinBase
  <2>4. \A i \in DOMAIN work : work'[i].cont = work[i].cont
    BY <1>1, <2>1, <2>3, SameConts
  <2>5. /\ Len(work) \in Nat \ {0} /\ DOMAIN work = 1..Len(work) /\ Top = work[Len(work)]
        /\ Top.next \in Nat /\ DOMAIN bases[Top.cont] = 1..Len(bases[Top.cont])
        /\ Len(bases[Top.cont]) \in Nat
    BY <2>1, TopFrame DEF FrameType
  <2>6. ASSUME NEW d \in Contracts, NEW e \in Contracts, Joined(d, e)',
               d \notin ToSet(topo)
        PROVE  Joined(d, e) \/ (d = Top.cont /\ e = Base)
    <3>1. PICK i \in DOMAIN work' :
            work'[i].cont = d
            /\ \E j \in DOMAIN bases[d] : j < work'[i].next /\ bases[d][j] = e
      BY <1>1, <2>1, <2>6 DEF Joined
    <3>2. PICK j \in DOMAIN bases[d] : j < work'[i].next /\ bases[d][j] = e
      BY <3>1
    <3>3. i \in DOMAIN work /\ work[i].cont = d
      BY <2>3, <2>4, <3>1
    <3>4. CASE i = Len(work)
      <4>1. d = Top.cont /\ j < Top.next + 1 /\ j \in Nat
        BY <2>3, <2>5, <3>2, <3>3, <3>4
      <4>2. CASE j = Top.next
        BY <2>1, <3>2, <4>1, <4>2
      <4>3. CASE j # Top.next
        <5>1. j < work[i].next
          BY <2>5, <3>4, <4>1, <4>3
        <5>2. QED
          BY <3>2, <3>3, <5>1 DEF Joined
      <4>4. QED
        BY <4>2, <4>3
    <3>5. CASE i # Len(work)
      <4>1. work'[i] = work[i]
        BY <2>3, <2>5, <3>3, <3>5
      <4>2. QED
        BY <3>2, <3>3, <4>1 DEF Joined
    <3>6. QED
      BY <3>4, <3>5
  <2>7. ASSUME NEW d \in Contracts, NEW e \in Contracts, Joined(d, e)',
               d \in ToSet(topo)
        PROVE  Joined(d, e)
    <3>1. CASE e \in ToSet(bases[d])
      BY <2>7, <3>1 DEF Joined
    <3>2. CASE e \notin ToSet(bases[d])
      BY <1>1, <2>7, <3>2 DEF Joined, ToSet
    <3>3. QED
      BY <3>1, <3>2
  <2>8. QED
    BY <1>5, <2>6, <2>7
<1>6. CASE JoinOwnBases
  <2>1. /\ bases[Top.cont] \in Seq(Contracts) /\ work # <<>>
        /\ Len(bases[Top.cont]) \in Nat /\ Top.next = Len(bases[Top.cont]) + 1
        /\ DOMAIN bases[Top.cont] = 1..Len(bases[Top.cont])
        /\ topo' = topo /\ resolved' = resolved
    BY <1>6, TopFrame DEF JoinOwnBases
  <2>2. \A j \in DOMAIN bases[Top.cont] : j < Top.next
    BY <2>1
  <2>3. QED
    BY <1>1, <1>6, <2>1, <2>2, ListJoined, GoneOnJoined DEF JoinOwnBases
<1>7. CASE Take
  <2>1. work # <<>> /\ topo' = topo /\ resolved' = resolved
    BY <1>7 DEF Take, Merging
  <2>2. /\ work' # <<>> /\ Len(work') = Len(work) /\ DOMAIN work' = DOMAIN work
        /\ \A i \in 1..(Len(work) - 1) : work'[i] = work[i]
        /\ Top' = work'[Len(work)]
        /\ Top'.cont = Top.cont /\ Top'.next = Top.next
    BY <1>7, HeadsTaken
  <2>3. QED
    BY <1>1, <2>1, <2>2, GoneOnJoined
<1>8. CASE Stuck
  BY <1>1, <1>8, SameJoined DEF Stuck
<1>9. CASE Merged
  <2>1. /\ work # <<>> /\ work' = Front(work) /\ Top.next = Len(bases[Top.cont]) + 2
    BY <1>9 DEF Merged, Merging
  <2>2. /\ Len(work) \in Nat \ {0}
        /\ \A i \in 1..(Len(work) - 1) : work'[i] = work[i]
        /\ DOMAIN work = 1..Len(work) /\ DOMAIN work' = 1..(Len(work) - 1)
        /\ Top = work[Len(work)] /\ Len(work) \in DOMAIN work
        /\ Len(bases[Top.cont]) \in Nat
        /\ DOMAIN bases[Top.cont] = 1..Len(bases[Top.cont])
    BY <2>1, Returned, TopFrame
  <2>3. ToSet(topo') = ToSet(topo) \cup {Top.cont}
    BY <1>9, MergedLists
  <2>4. \A i \in DOMAIN work' : i \in DOMAIN work /\ work'[i] = work[i]
    BY <2>2
  <2>5. ASSUME NEW e \in ToSet(bases[Top.cont]) PROVE Joined(Top.cont, e)
    <3>1. PICK j \in DOMAIN bases[Top.cont] : bases[Top.cont][j] = e
      BY DEF ToSet
    <3>2. j < work[Len(work)].next
      BY <2>1, <2>2
    <3>3. QED
      BY <2>2, <3>1, <3>2 DEF Joined
  <2>6. QED
    BY <1>1, <2>3, <2>4, <2>5 DEF Joined
<1>10. CASE Solved \/ Finished \/ UNCHANGED vars
  BY <1>2, <1>10 DEF Solved, Finished, vars
<1>11. QED
  BY <1>3, <1>4, <1>5, <1>6, <1>7, <1>8, <1>9, <1>10 DEF Next

\* Without a new refusal.
LEMMA NotRefused ==
  ASSUME Types, Path, [Next]_vars, diags' = <<>>
  PROVE  ~Stuck /\ diags = <<>>
<1>1. ASSUME Stuck PROVE FALSE
  <2>1. diags' = Append(diags, Top.cont) /\ Top.cont \in Contracts
    BY <1>1, TopInProgress DEF Stuck, Merging
  <2>2. diags \in Seq(Contracts)
    BY DEF Types
  <2>3. Append(diags, Top.cont) # <<>>
    BY <2>1, <2>2, AppendProperties
  <2>4. QED
    BY <2>1, <2>3
<1>2. diags' = diags
  BY <1>1 DEF Next, NextRoot, Descend, JoinBase, JoinOwnBases, Take, Merged,
              Solved, Finished, vars
<1>3. QED
  BY <1>1, <1>2

LEMMA SearchedKept ==
  ASSUME Types, Path, Phases, Merges, Searched, [Next]_vars, diags' = <<>>
  PROVE  Searched'
<1>1. bases' = bases /\ Roots' = Roots /\ ~Stuck
  BY SameGraph, NotRefused
<1>2. \A x \in Contracts : resolved[x] # <<>> => resolved'[x] # <<>>
  BY ResolvedGrows
<1>3. ASSUME NEW d \in Contracts, NEW e \in Contracts, Joined(d, e)'
      PROVE  resolved'[e] # <<>>
  <2>1. Joined(d, e) \/ (JoinBase /\ d = Top.cont /\ e = Base)
    BY <1>3, JoinedGrows
  <2>2. CASE Joined(d, e)
    BY <1>2, <2>2 DEF Searched
  <2>3. CASE JoinBase /\ e = Base
    BY <1>2, <2>3 DEF JoinBase
  <2>4. QED
    BY <2>1, <2>2, <2>3
<1>4. \A c \in Roots : c \in roots' \/ resolved'[c] # <<>>
  <2>1. Roots \subseteq Contracts
    BY DEF Roots
  <2>2. CASE NextRoot
    <3>1. PICK c \in roots :
            /\ roots' = roots \ {c}
            /\ IF resolved[c] = <<>> THEN Enter(c) ELSE UNCHANGED <<resolved, work>>
      BY <2>2 DEF NextRoot
    <3>2. c \in Contracts
      BY DEF Types
    <3>3. resolved'[c] # <<>>
      <4>1. CASE resolved[c] = <<>>
        <5>1. resolved'[c] = <<c>>
          BY <3>1, <3>2, <4>1, Entered
        <5>2. QED
          BY <5>1
      <4>2. CASE resolved[c] # <<>>
        BY <3>1, <4>2
      <4>3. QED
        BY <4>1, <4>2
    <3>4. QED
      BY <1>2, <2>1, <3>1, <3>3 DEF Searched
  <2>3. CASE ~NextRoot
    <3>1. roots' = roots
      BY <2>3 DEF Next, Descend, JoinBase, JoinOwnBases, Take, Stuck, Merged,
                  Solved, Finished, vars
    <3>2. QED
      BY <1>2, <2>1, <3>1 DEF Searched
  <2>4. QED
    BY <2>2, <2>3
<1>5. \A c \in Contracts : resolved'[c] # <<>> =>
        c \in ToSet(topo') \/ \E i \in DOMAIN work' : work'[i].cont = c
  <2>1. ASSUME NEW b \in Contracts, Enter(b), topo' = topo
        PROVE  \A c \in Contracts : resolved'[c] # <<>> =>
                 c \in ToSet(topo') \/ \E i \in DOMAIN work' : work'[i].cont = c
    <3>1. /\ \A x \in Contracts : x # b => resolved'[x] = resolved[x]
          /\ Len(work) \in Nat
          /\ \A i \in 1..Len(work) : work'[i] = work[i]
          /\ work'[Len(work) + 1] = Call(b)
          /\ DOMAIN work = 1..Len(work) /\ DOMAIN work' = 1..(Len(work) + 1)
      BY <2>1, Entered
    <3>2. Len(work) + 1 \in DOMAIN work' /\ work'[Len(work) + 1].cont = b
      BY <3>1 DEF Call
    <3>3. \A i \in DOMAIN work : i \in DOMAIN work' /\ work'[i] = work[i]
      BY <3>1
    <3>4. QED
      BY <2>1, <3>1, <3>2, <3>3 DEF Searched
  <2>2. ASSUME resolved' = resolved, topo' = topo, DOMAIN work' = DOMAIN work,
               \A i \in DOMAIN work : work'[i].cont = work[i].cont
        PROVE  \A c \in Contracts : resolved'[c] # <<>> =>
                 c \in ToSet(topo') \/ \E i \in DOMAIN work' : work'[i].cont = c
    BY <2>2 DEF Searched
  <2>3. CASE NextRoot
    <3>1. PICK c \in roots :
            IF resolved[c] = <<>> THEN Enter(c) ELSE UNCHANGED <<resolved, work>>
      BY <2>3 DEF NextRoot
    <3>2. c \in Contracts /\ topo' = topo
      BY <2>3 DEF Types, NextRoot
    <3>3. QED
      BY <2>1, <2>2, <3>1, <3>2
  <2>4. CASE Descend
    BY <2>1, <2>4, BaseType DEF Descend
  <2>5. CASE JoinBase
    <3>1. work # <<>> /\ resolved[Base] \in Seq(Contracts)
      BY <2>5, BaseType DEF JoinBase, Types
    <3>2. DOMAIN work' = DOMAIN work /\ \A i \in DOMAIN work : work'[i].cont = work[i].cont
      BY <1>1, <2>5, <3>1, ListJoined, SameConts DEF JoinBase
    <3>3. QED
      BY <2>2, <2>5, <3>2 DEF JoinBase
  <2>6. CASE JoinOwnBases
    <3>1. bases[Top.cont] \in Seq(Contracts) /\ work # <<>>
      BY <2>6, TopFrame DEF JoinOwnBases
    <3>2. DOMAIN work' = DOMAIN work /\ \A i \in DOMAIN work : work'[i].cont = work[i].cont
      BY <1>1, <2>6, <3>1, ListJoined, SameConts DEF JoinOwnBases
    <3>3. QED
      BY <2>2, <2>6, <3>2 DEF JoinOwnBases
  <2>7. CASE Take
    <3>1. DOMAIN work' = DOMAIN work /\ \A i \in DOMAIN work : work'[i].cont = work[i].cont
      BY <1>1, <2>7, HeadsTaken, SameConts DEF Take
    <3>2. QED
      BY <2>2, <2>7, <3>1 DEF Take
  <2>8. CASE Merged
    <3>1. /\ \A x \in Contracts : x # Top.cont => resolved'[x] = resolved[x]
          /\ ToSet(topo') = ToSet(topo) \cup {Top.cont}
          /\ work # <<>> /\ work' = Front(work)
      BY <2>8, MergedLists
    <3>2. /\ \A i \in 1..(Len(work) - 1) : work'[i] = work[i]
          /\ Len(work) \in Nat
          /\ DOMAIN work = 1..Len(work) /\ DOMAIN work' = 1..(Len(work) - 1)
          /\ Top = work[Len(work)]
      BY <3>1, Returned, TopFrame
    <3>3. \A i \in DOMAIN work : i = Len(work) \/ (i \in DOMAIN work' /\ work'[i] = work[i])
      BY <3>2
    <3>4. QED
      BY <3>1, <3>2, <3>3 DEF Searched
  <2>9. CASE Solved \/ Finished \/ UNCHANGED vars
    BY <2>2, <2>9 DEF Solved, Finished, vars
  <2>10. QED
    BY <1>1, <2>3, <2>4, <2>5, <2>6, <2>7, <2>8, <2>9 DEF Next
<1>6. QED
  BY <1>1, <1>3, <1>4, <1>5 DEF Searched

-----------------------------------------------------------------------------
(* Cycles. *)

\* The innermost call goes on.
LEMMA GoneOnKeepsCycles ==
  ASSUME Types, Path, Cycles, work # <<>>, work' # <<>>,
         Len(work') = Len(work), DOMAIN work' = DOMAIN work,
         \A i \in 1..(Len(work) - 1) : work'[i] = work[i],
         Top' = work'[Len(work)], Top'.cont = Top.cont,
         bases' = bases, resolved' = resolved, topo' = topo,
         \A x : Has(Top, x) => Has(Top', x),
         Searching => \A x \in ToSet(resolved[Base]) : Has(Top', x),
         (\E j \in DOMAIN Top.lists : ~Once(Top.lists[j])) =>
            \E j \in DOMAIN Top'.lists : ~Once(Top'.lists[j]),
         Searching /\ ~Once(resolved[Base]) =>
            \E j \in DOMAIN Top'.lists : ~Once(Top'.lists[j]),
         \A d, e \in Contracts : Joined(d, e)' =>
            \/ Joined(d, e)
            \/ /\ d = Top.cont
               /\ \A k \in DOMAIN work : work[k].cont = e => Has(Top', e)
  PROVE  Cycles'
<1>1. \A i \in DOMAIN work : work'[i].cont = work[i].cont
  BY SameConts
<1>2. /\ Len(work) \in Nat \ {0} /\ DOMAIN work = 1..Len(work)
      /\ Top = work[Len(work)] /\ Len(work) \in DOMAIN work
      /\ Top.cont \notin ToSet(topo)
  BY TopInProgress, TopFrame
<1>3. ASSUME NEW k \in DOMAIN work, NEW x, \E m \in k..Len(work) : Has(work[m], x)
      PROVE  \E m \in k..Len(work') : Has(work'[m], x)
  <2>1. PICK m \in k..Len(work) : Has(work[m], x)
    BY <1>3
  <2>2. Has(work'[m], x)
    <3>1. CASE m = Len(work)
      BY <1>2, <2>1, <3>1
    <3>2. CASE m # Len(work)
      <4>1. ASSUME NEW n \in Nat, n = Len(work) PROVE m \in 1..(n - 1)
        <5>1. k \in 1..n /\ m \in k..n /\ m # n
          BY <1>2, <3>2, <4>1
        <5>2. QED
          BY <5>1
      <4>2. m \in 1..(Len(work) - 1)
        BY <1>2, <4>1
      <4>3. QED
        BY <2>1, <4>2
    <3>3. QED
      BY <3>1, <3>2
  <2>3. QED
    BY <2>2
<1>4. ASSUME NEW k \in DOMAIN work, NEW x, Has(Top', x)
      PROVE  \E m \in k..Len(work') : Has(work'[m], x)
  <2>1. Len(work) \in k..Len(work')
    BY <1>2
  <2>2. QED
    BY <1>4, <2>1
<1>5. ASSUME NEW k \in DOMAIN work, Returns(k)
      PROVE  \E m \in k..Len(work') : Has(work'[m], work'[k].cont)
  <2>1. work'[k].cont = work[k].cont
    BY <1>1
  <2>2. CASE \E m \in k..Len(work) : Has(work[m], work[k].cont)
    BY <1>3, <2>1, <2>2
  <2>3. CASE Searching /\ work[k].cont \in ToSet(resolved[Base])
    BY <1>4, <2>1, <2>3
  <2>4. QED
    BY <1>5, <2>2, <2>3 DEF Returns
<1>6. ASSUME Doomed
      PROVE  \E m \in DOMAIN work' : \E j \in DOMAIN work'[m].lists :
                ~Once(work'[m].lists[j])
  <2>1. CASE \E j \in DOMAIN Top'.lists : ~Once(Top'.lists[j])
    BY <1>2, <2>1
  <2>2. CASE \E m \in DOMAIN work : m # Len(work)
                /\ \E j \in DOMAIN work[m].lists : ~Once(work[m].lists[j])
    <3>1. PICK m \in DOMAIN work : m # Len(work)
                /\ \E j \in DOMAIN work[m].lists : ~Once(work[m].lists[j])
      BY <2>2
    <3>2. work'[m] = work[m]
      BY <1>2, <3>1
    <3>3. QED
      BY <3>1, <3>2
  <2>3. QED
    BY <1>2, <1>6, <2>1, <2>2 DEF Doomed
<1>7. ASSUME NEW d \in Contracts, NEW e \in Contracts, Joined(d, e)'
      PROVE  /\ \A k \in DOMAIN work' : work'[k].cont = e =>
                  \E m \in k..Len(work') : Has(work'[m], work'[k].cont)
             /\ d \in ToSet(topo) /\ e \in ToSet(topo) /\ ~Before(topo, e, d) =>
                  \E m \in DOMAIN work' : \E j \in DOMAIN work'[m].lists :
                     ~Once(work'[m].lists[j])
  <2>1. CASE Joined(d, e)
    <3>1. \A k \in DOMAIN work : work[k].cont = e => Returns(k)
      BY <2>1 DEF Cycles
    <3>2. d \in ToSet(topo) /\ e \in ToSet(topo) /\ ~Before(topo, e, d) => Doomed
      BY <2>1 DEF Cycles
    <3>3. QED
      BY <1>1, <1>5, <1>6, <3>1, <3>2
  <2>2. CASE d = Top.cont /\ \A k \in DOMAIN work : work[k].cont = e => Has(Top', e)
    BY <1>1, <1>2, <1>4, <2>2
  <2>3. QED
    BY <1>7, <2>1, <2>2
<1>8. QED
  BY <1>7 DEF Cycles, Returns, Doomed

\* A call is made.
LEMMA EnterKeepsCycles ==
  ASSUME Types, Path, Merges, Searched, Cycles, NEW c \in Contracts,
         resolved[c] = <<>>, Enter(c), bases' = bases, topo' = topo,
         Searching => c = Base
  PROVE  Cycles'
<1>1. /\ Len(work) \in Nat /\ Len(work') = Len(work) + 1
      /\ \A i \in 1..Len(work) : work'[i] = work[i]
      /\ work'[Len(work) + 1] = Call(c)
      /\ DOMAIN work = 1..Len(work) /\ DOMAIN work' = 1..(Len(work) + 1)
  BY Entered
<1>2. Searching => ToSet(resolved[Base]) = {} /\ Once(resolved[Base])
  BY DEF ToSet, Once
<1>3. Call(c).cont = c
  BY DEF Call
<1>4. ASSUME NEW d \in Contracts, NEW e \in Contracts, Joined(d, e)'
      PROVE  /\ \A k \in DOMAIN work' : work'[k].cont = e =>
                  \E m \in k..Len(work') : Has(work'[m], work'[k].cont)
             /\ d \in ToSet(topo) /\ e \in ToSet(topo) /\ ~Before(topo, e, d) =>
                  \E m \in DOMAIN work' : \E j \in DOMAIN work'[m].lists :
                     ~Once(work'[m].lists[j])
  <2>1. Joined(d, e)
    BY <1>4, EnterJoined
  <2>2. e # c
    BY <2>1 DEF Searched
  <2>3. ASSUME NEW k \in DOMAIN work', work'[k].cont = e
        PROVE  \E m \in k..Len(work') : Has(work'[m], work'[k].cont)
    <3>1. k \in DOMAIN work /\ work'[k] = work[k]
      BY <1>1, <1>3, <2>2, <2>3
    <3>2. Returns(k)
      BY <2>1, <2>3, <3>1 DEF Cycles
    <3>3. PICK m \in k..Len(work) : Has(work[m], work[k].cont)
      BY <1>2, <3>2 DEF Returns
    <3>4. m \in k..Len(work') /\ work'[m] = work[m]
      BY <1>1, <3>1
    <3>5. QED
      BY <3>1, <3>3, <3>4
  <2>4. ASSUME d \in ToSet(topo), e \in ToSet(topo), ~Before(topo, e, d)
        PROVE  \E m \in DOMAIN work' : \E j \in DOMAIN work'[m].lists :
                  ~Once(work'[m].lists[j])
    <3>1. Doomed
      BY <2>1, <2>4 DEF Cycles
    <3>2. PICK m \in DOMAIN work : \E j \in DOMAIN work[m].lists : ~Once(work[m].lists[j])
      BY <1>2, <3>1 DEF Doomed
    <3>3. m \in DOMAIN work' /\ work'[m] = work[m]
      BY <1>1
    <3>4. QED
      BY <3>2, <3>3
  <2>5. QED
    BY <2>3, <2>4
<1>5. QED
  BY <1>4 DEF Cycles, Returns, Doomed

\* A repetition outlives the heads that are taken.
LEMMA TailRepeats ==
  ASSUME NEW s \in Seq(Contracts), s # <<>>, ~Once(s), Head(s) \notin ToSet(Tail(s))
  PROVE  ~Once(Tail(s))
<1>1. /\ Head(s) = s[1] /\ Tail(s) \in Seq(Contracts)
      /\ Len(Tail(s)) = Len(s) - 1 /\ Len(s) \in Nat \ {0}
      /\ \A i \in 1..Len(Tail(s)) : Tail(s)[i] = s[i + 1]
  BY TailElements
<1>2. DOMAIN s = 1..Len(s) /\ DOMAIN Tail(s) = 1..(Len(s) - 1)
  BY <1>1, LenProperties
<1>3. \A i \in DOMAIN s : i # 1 =>
        i - 1 \in DOMAIN Tail(s) /\ Tail(s)[i - 1] = s[i]
  <2>1. ASSUME NEW i \in DOMAIN s, i # 1
        PROVE  i - 1 \in DOMAIN Tail(s) /\ Tail(s)[i - 1] = s[i]
    <3>1. i - 1 \in 1..Len(Tail(s)) /\ i - 1 + 1 = i
      BY <1>1, <1>2, <2>1
    <3>2. QED
      BY <1>1, <1>2, <3>1
  <2>2. QED
    BY <2>1
<1>4. PICK i \in DOMAIN s, j \in DOMAIN s : s[i] = s[j] /\ i # j
  BY DEF Once
<1>5. i # 1 /\ j # 1
  BY <1>1, <1>3, <1>4 DEF ToSet
<1>6. i - 1 # j - 1
  BY <1>2, <1>4
<1>7. QED
  BY <1>3, <1>4, <1>5, <1>6 DEF Once

LEMMA TakeKeepsCycles ==
  ASSUME Types, Path, Phases, Merges, Cycles, Take, [Next]_vars
  PROVE  Cycles'
<1>1. PICK c \in Contracts :
           /\ work # <<>>
           /\ work' \in Seq(FrameType) /\ work' # <<>>
           /\ Len(work') = Len(work) /\ DOMAIN work' = DOMAIN work
           /\ \A i \in 1..(Len(work) - 1) : work'[i] = work[i]
           /\ Top' = work'[Len(work)]
           /\ Top'.cont = Top.cont
           /\ Top'.lists = Without(Top.lists, c)
           /\ \A j \in Left(Top.lists) : c \notin ToSet(Tail(Top.lists[j]))
  BY HeadsTaken
<1>2. bases' = bases /\ resolved' = resolved /\ topo' = topo
      /\ Top.next = Len(bases[Top.cont]) + 2
  BY DEF Take, Merging
<1>3. /\ Len(bases[Top.cont]) \in Nat
      /\ \A j \in DOMAIN Top.lists : Top.lists[j] \in Seq(Contracts)
  BY <1>1, TopFrame, ElementOfSeq, LenProperties DEF FrameType
<1>4. ~Searching
  BY <1>2, <1>3 DEF Searching
<1>5. ASSUME NEW j \in DOMAIN Top.lists, ~Once(Top.lists[j])
      PROVE  j \in DOMAIN Top'.lists /\ ~Once(Top'.lists[j])
  <2>1. j \in DOMAIN Top'.lists
    BY <1>1 DEF Without
  <2>2. CASE j \in Left(Top.lists) /\ Head(Top.lists[j]) = c
    <3>1. Top'.lists[j] = Tail(Top.lists[j]) /\ Top.lists[j] # <<>>
      BY <1>1, <2>2 DEF Without, Left
    <3>2. QED
      BY <1>1, <1>3, <1>5, <2>1, <2>2, <3>1, TailRepeats
  <2>3. CASE ~(j \in Left(Top.lists) /\ Head(Top.lists[j]) = c)
    BY <1>1, <1>5, <2>1, <2>3 DEF Without
  <2>4. QED
    BY <2>2, <2>3
<1>6. \A x : Has(Top, x) => Has(Top', x)
  BY HeadsTakenHas
<1>7. \A d, e \in Contracts : Joined(d, e)' => Joined(d, e)
  <2>1. ~JoinBase
    BY <1>4 DEF JoinBase
  <2>2. QED
    BY <2>1, JoinedGrows
<1>8. QED
  BY <1>1, <1>2, <1>4, <1>5, <1>6, <1>7, GoneOnKeepsCycles

LEMMA JoinKeepsCycles ==
  ASSUME Types, Path, Phases, Merges, Cycles, JoinBase, [Next]_vars
  PROVE  Cycles'
<1>1. /\ work # <<>> /\ Base \in Contracts
      /\ topo' = topo /\ resolved' = resolved /\ bases' = bases
      /\ Become([Top EXCEPT !.next = @ + 1, !.lists = Append(@, resolved[Base])])
  BY BaseType DEF JoinBase
<1>2. resolved[Base] \in Seq(Contracts)
  BY <1>1 DEF Types
<1>3. /\ work' # <<>> /\ Len(work') = Len(work) /\ DOMAIN work' = DOMAIN work
      /\ work' \in Seq(FrameType)
      /\ \A i \in 1..(Len(work) - 1) : work'[i] = work[i]
      /\ Top' = work'[Len(work)]
      /\ Top'.cont = Top.cont
      /\ Len(Top'.lists) = Len(Top.lists) + 1
      /\ \A j \in 1..Len(Top.lists) : Top'.lists[j] = Top.lists[j]
      /\ Top'.lists[Len(Top.lists) + 1] = resolved[Base]
      /\ Len(Top.lists) \in Nat
  BY <1>1, <1>2, ListJoined
<1>4. DOMAIN Top.lists = 1..Len(Top.lists) /\ DOMAIN Top'.lists = 1..(Len(Top.lists) + 1)
  <2>1. Top \in FrameType /\ Len(work) \in DOMAIN work
    BY <1>1, TopFrame
  <2>2. Top' \in FrameType
    BY <1>3, <2>1, ElementOfSeq, LenProperties
  <2>3. QED
    BY <1>3, <2>1, <2>2, LenProperties DEF FrameType
<1>5. \A x : Has(Top', x) <=> Has(Top, x) \/ x \in ToSet(resolved[Base])
  BY <1>1, <1>2, ListJoinedHas
<1>6. ASSUME NEW j \in DOMAIN Top.lists, ~Once(Top.lists[j])
      PROVE  j \in DOMAIN Top'.lists /\ ~Once(Top'.lists[j])
  BY <1>3, <1>4, <1>6
<1>7. ASSUME ~Once(resolved[Base])
      PROVE  \E j \in DOMAIN Top'.lists : ~Once(Top'.lists[j])
  <2>1. Len(Top.lists) + 1 \in DOMAIN Top'.lists
    BY <1>3, <1>4
  <2>2. QED
    BY <1>3, <1>7, <2>1
<1>8. \A k \in DOMAIN work : work[k].cont = Base => Has(Top', Base)
  <2>1. ASSUME NEW k \in DOMAIN work, work[k].cont = Base PROVE Has(Top', Base)
    <3>1. resolved[Base] = <<Base>>
      BY <2>1, InProgress
    <3>2. 1 \in DOMAIN resolved[Base] /\ resolved[Base][1] = Base
      BY <3>1
    <3>3. QED
      BY <1>5, <3>2 DEF ToSet
  <2>2. QED
    BY <2>1
<1>9. \A d, e \in Contracts : Joined(d, e)' =>
            \/ Joined(d, e)
            \/ /\ d = Top.cont
               /\ \A k \in DOMAIN work : work[k].cont = e => Has(Top', e)
  BY <1>8, JoinedGrows
<1>10. QED
  BY <1>1, <1>3, <1>5, <1>6, <1>7, <1>9, GoneOnKeepsCycles

LEMMA JoinOwnKeepsCycles ==
  ASSUME Types, Path, Phases, Merges, Cycles, JoinOwnBases, [Next]_vars
  PROVE  Cycles'
<1>1. /\ work # <<>> /\ bases[Top.cont] \in Seq(Contracts)
      /\ topo' = topo /\ resolved' = resolved /\ bases' = bases
      /\ Top.next = Len(bases[Top.cont]) + 1 /\ Len(bases[Top.cont]) \in Nat
      /\ Become([Top EXCEPT !.next = @ + 1, !.lists = Append(@, bases[Top.cont])])
  BY TopFrame DEF JoinOwnBases
<1>2. ~Searching
  BY <1>1 DEF Searching
<1>3. /\ work' # <<>> /\ Len(work') = Len(work) /\ DOMAIN work' = DOMAIN work
      /\ work' \in Seq(FrameType)
      /\ \A i \in 1..(Len(work) - 1) : work'[i] = work[i]
      /\ Top' = work'[Len(work)]
      /\ Top'.cont = Top.cont
      /\ Len(Top'.lists) = Len(Top.lists) + 1
      /\ \A j \in 1..Len(Top.lists) : Top'.lists[j] = Top.lists[j]
      /\ Len(Top.lists) \in Nat
  BY <1>1, ListJoined
<1>4. DOMAIN Top.lists = 1..Len(Top.lists) /\ DOMAIN Top'.lists = 1..(Len(Top.lists) + 1)
  <2>1. Top \in FrameType /\ Len(work) \in DOMAIN work
    BY <1>1, TopFrame
  <2>2. Top' \in FrameType
    BY <1>3, <2>1, ElementOfSeq, LenProperties
  <2>3. QED
    BY <1>3, <2>1, <2>2, LenProperties DEF FrameType
<1>5. \A x : Has(Top, x) => Has(Top', x)
  BY <1>1, ListJoinedHas
<1>6. ASSUME NEW j \in DOMAIN Top.lists, ~Once(Top.lists[j])
      PROVE  j \in DOMAIN Top'.lists /\ ~Once(Top'.lists[j])
  BY <1>3, <1>4, <1>6
<1>7. \A d, e \in Contracts : Joined(d, e)' => Joined(d, e)
  <2>1. ~JoinBase
    BY <1>2 DEF JoinBase
  <2>2. QED
    BY <2>1, JoinedGrows
<1>8. QED
  BY <1>1, <1>2, <1>3, <1>5, <1>6, <1>7, GoneOnKeepsCycles

\* A call returns.
LEMMA MergedKeepsCycles ==
  ASSUME Types, Path, Phases, Merges, Cycles, Merged, [Next]_vars
  PROVE  Cycles'
<1>. DEFINE c == Top.cont  out == Top.out  r == resolved'[c]  n == Len(work)
<1>1. /\ work # <<>> /\ work' = Front(work) /\ bases' = bases
      /\ Top.next = Len(bases[c]) + 2 /\ Left(Top.lists) = {}
  BY MergedLists DEF Merged, Merging
<1>2. /\ n \in Nat \ {0} /\ Len(work') = n - 1
      /\ \A i \in 1..(n - 1) : work'[i] = work[i]
      /\ DOMAIN work = 1..n /\ DOMAIN work' = 1..(n - 1)
      /\ Top = work[n] /\ n \in DOMAIN work
      /\ c \in Contracts /\ c \notin ToSet(topo)
  BY <1>1, Returned, TopInProgress
<1>3. ~Searching
  <2>1. Len(bases[c]) \in Nat
    BY <1>1, TopFrame
  <2>2. QED
    BY <1>1, <2>1 DEF Searching
<1>4. /\ out \in Seq(Contracts) /\ r \in Seq(Contracts)
      /\ \A x \in Contracts : x # c => resolved'[x] = resolved[x]
      /\ Len(r) = Len(out) + 1 /\ r[1] = c
      /\ \A i \in 1..Len(out) : r[i + 1] = out[i]
      /\ ToSet(r) = ToSet(out) \cup {c}
      /\ ToSet(topo') = ToSet(topo) \cup {c}
  BY <1>2, MergedLists DEF Types
<1>5. /\ \A x : Has(Top, x) => x \in ToSet(out)
      /\ \A j \in DOMAIN Top.lists : Once(Top.lists[j])
  <2>1. \A j \in DOMAIN Top.lists : Top.lists[j] = <<>>
    BY <1>1 DEF Left
  <2>2. \A x : x \notin ToSet(<<>>)
    BY DEF ToSet
  <2>3. QED
    BY <2>1, <2>2 DEF Has, Once
<1>6. \A x, y : Before(topo', x, y) <=>
                  Before(topo, x, y) \/ (x \in ToSet(topo) /\ y = c)
  BY TopoGrows
<1>7. \A d, e \in Contracts : Joined(d, e)' => Joined(d, e)
  <2>1. ~JoinBase
    BY <1>3 DEF JoinBase
  <2>2. QED
    BY <2>1, JoinedGrows
<1>8. n = 1 \/ (Searching' /\ Base' = c)
  <2>1. SUFFICES ASSUME n # 1 PROVE Searching' /\ Base' = c
    OBVIOUS
  <2>2. n - 1 \in 1..(n - 1) /\ n - 1 + 1 = n
    BY <1>2, <2>1
  <2>3. /\ work[n - 1].next \in DOMAIN bases[work[n - 1].cont]
        /\ bases[work[n - 1].cont][work[n - 1].next] = c
    <3>1. /\ work[n - 1].next \in DOMAIN bases[work[n - 1].cont]
          /\ bases[work[n - 1].cont][work[n - 1].next] = work[n - 1 + 1].cont
      BY <2>2 DEF Path
    <3>2. QED
      BY <1>2, <2>2, <3>1
  <2>4. Top' = work[n - 1] /\ work' # <<>>
    <3>1. Top' = work'[Len(work')]
      BY DEF Top
    <3>2. work' # <<>>
      BY <1>2, <2>2
    <3>3. QED
      BY <1>2, <2>2, <3>1, <3>2
  <2>5. n - 1 \in DOMAIN work
    BY <1>2, <2>2
  <2>6. /\ Len(bases[work[n - 1].cont]) \in Nat
        /\ DOMAIN bases[work[n - 1].cont] = 1..Len(bases[work[n - 1].cont])
    BY <2>5, Frames
  <2>7. work[n - 1].next <= Len(bases[work[n - 1].cont])
    BY <2>3, <2>6
  <2>8. QED
    BY <1>1, <2>3, <2>4, <2>7 DEF Searching, Base
<1>. HIDE DEF out, r, n
<1>9. ASSUME NEW d \in Contracts, NEW e \in Contracts, Joined(d, e)
      PROVE  \A k \in DOMAIN work' : work'[k].cont = e => Returns(k)'
  <2>1. SUFFICES ASSUME NEW k \in DOMAIN work', work'[k].cont = e PROVE Returns(k)'
    OBVIOUS
  <2>2. k \in DOMAIN work /\ work'[k] = work[k] /\ n # 1
    BY <1>2, <2>1
  <2>3. Returns(k)
    BY <1>9, <2>1, <2>2 DEF Cycles
  <2>4. PICK m \in k..n : Has(work[m], work[k].cont)
    BY <1>3, <2>3 DEF Returns, n
  <2>5. CASE m = n
    <3>1. work[k].cont \in ToSet(out)
      BY <1>2, <1>5, <2>4, <2>5
    <3>2. work'[k].cont \in ToSet(resolved'[Base'])
      BY <1>4, <1>8, <2>2, <3>1 DEF r
    <3>3. QED
      BY <1>8, <2>2, <3>2 DEF Returns
  <2>6. CASE m # n
    <3>1. m \in k..Len(work') /\ work'[m] = work[m]
      BY <1>2, <2>1, <2>6
    <3>2. QED
      BY <2>2, <2>4, <3>1 DEF Returns
  <2>7. QED
    BY <2>5, <2>6
<1>10. ASSUME Doomed PROVE Doomed'
  <2>1. PICK m \in DOMAIN work : \E j \in DOMAIN work[m].lists : ~Once(work[m].lists[j])
    BY <1>3, <1>10 DEF Doomed
  <2>2. m # n
    BY <1>2, <1>5, <2>1
  <2>3. m \in DOMAIN work' /\ work'[m] = work[m]
    BY <1>2, <2>2
  <2>4. QED
    BY <2>1, <2>3 DEF Doomed
<1>11. ASSUME NEW d \in Contracts, Joined(d, c) PROVE Doomed'
  <2>1. Returns(n)
    BY <1>2, <1>11 DEF Cycles
  <2>2. c \in ToSet(out)
    <3>1. PICK m \in n..n : Has(work[m], work[n].cont)
      BY <1>3, <2>1 DEF Returns, n
    <3>2. m = n
      BY <1>2
    <3>3. QED
      BY <1>2, <1>5, <3>1, <3>2
  <2>3. ~Once(r)
    <3>1. PICK i \in DOMAIN out : out[i] = c
      BY <2>2 DEF ToSet
    <3>2. i \in 1..Len(out) /\ Len(out) \in Nat /\ DOMAIN r = 1..(Len(out) + 1)
      BY <1>4, LenProperties
    <3>3. 1 \in DOMAIN r /\ i + 1 \in DOMAIN r /\ r[i + 1] = r[1] /\ i + 1 # 1
      BY <1>4, <3>1, <3>2
    <3>4. QED
      BY <3>3 DEF Once
  <2>4. n # 1
    <3>1. c \in ToSet(bases[d])
      BY <1>11 DEF Joined, ToSet
    <3>2. c \notin Roots
      BY <3>1 DEF Roots, HasHeir
    <3>3. work[1].cont \in Roots
      BY <1>1 DEF Path
    <3>4. QED
      BY <1>2, <3>2, <3>3
  <2>5. QED
    BY <1>8, <2>3, <2>4 DEF Doomed, r
<1>12. ASSUME NEW d \in Contracts, NEW e \in Contracts, Joined(d, e),
              d \in ToSet(topo'), e \in ToSet(topo'), ~Before(topo', e, d)
       PROVE  Doomed'
  <2>1. CASE e = c
    BY <1>11, <1>12, <2>1
  <2>2. CASE e # c
    <3>1. e \in ToSet(topo) /\ d \in ToSet(topo) /\ ~Before(topo, e, d)
      BY <1>4, <1>6, <1>12, <2>2
    <3>2. QED
      BY <1>10, <1>12, <3>1 DEF Cycles
  <2>3. QED
    BY <2>1, <2>2
<1>13. QED
  BY <1>7, <1>9, <1>12 DEF Cycles

-----------------------------------------------------------------------------
(* Reason. *)

\* Nothing can be taken: the heads of the lists wait for each other, or a
\* base is in progress.
LEMMA StuckReason ==
  ASSUME Types, Path, OfLineage, Merges, Searched, Stuck
  PROVE  Reason'
<1>. DEFINE c == Top.cont  ls == Top.lists  n == Len(bases[c])
<1>1. /\ work # <<>> /\ Top.next = n + 2 /\ Good(ls) = {} /\ Left(ls) # {}
      /\ diags' = Append(diags, c)
      /\ bases' = bases /\ resolved' = resolved /\ topo' = topo
  BY DEF Stuck, Merging
<1>2. /\ Len(work) \in DOMAIN work /\ Top = work[Len(work)] /\ Len(work) \in Nat
      /\ c \in Contracts /\ resolved[c] # <<>>
      /\ bases[c] \in Seq(Contracts) /\ n \in Nat /\ DOMAIN bases[c] = 1..n
      /\ \A j \in DOMAIN ls : ls[j] \in Seq(Contracts)
      /\ DOMAIN work = 1..Len(work)
  BY <1>1, TopInProgress, TopFrame, ElementOfSeq, LenProperties DEF FrameType
<1>3. c \in ToSet(diags')
  BY <1>1, <1>2, AppendElements DEF Types
<1>4. MergeOK(Top)
  BY <1>2 DEF Merges
<1>5. DOMAIN ls = 1..(n + 1)
  BY <1>1, <1>2, <1>4, JoinedBases
<1>6. CASE ~(ToSet(bases[c]) \subseteq ToSet(topo))
  <2>1. PICK b \in ToSet(bases[c]) : b \notin ToSet(topo)
    BY <1>6
  <2>2. PICK j \in DOMAIN bases[c] : bases[c][j] = b
    BY DEF ToSet
  <2>3. b \in Contracts
    BY <1>2, <2>2, ElementOfSeq
  <2>4. j < work[Len(work)].next
    BY <1>1, <1>2
  <2>5. Joined(c, b)
    BY <1>2, <2>2, <2>4 DEF Joined
  <2>6. PICK k \in DOMAIN work : work[k].cont = b
    BY <1>2, <2>1, <2>3, <2>5 DEF Searched
  <2>7. Len(work) \in k..Len(work)
    BY <1>2
  <2>8. c \in Lineage(b)
    BY <1>2, <2>6, <2>7 DEF OfLineage
  <2>9. c \in Reached
    BY <1>2 DEF OfLineage
  <2>10. CycleReached
    BY <2>8, <2>9 DEF CycleReached
  <2>11. CycleReached'
    BY <1>1, <2>10, SameLineage
  <2>12. QED
    BY <2>11 DEF Reason
<1>7. CASE ToSet(bases[c]) \subseteq ToSet(topo)
  <2>. DEFINE S == {Head(ls[i]) : i \in Left(ls)}
  <2>1. \A i \in Left(ls) : i \in DOMAIN ls /\ ls[i] # <<>>
    BY DEF Left
  <2>2. S \in (SUBSET Contracts) \ {{}}
    <3>1. \A i \in Left(ls) : Head(ls[i]) \in Contracts
      BY <1>2, <2>1, TailElements
    <3>2. QED
      BY <1>1, <3>1
  <2>3. ASSUME NEW i \in Left(ls)
        PROVE  \E x \in S, l \in Constraints(c) : Before(l, x, Head(ls[i]))
    <3>1. PICK j \in Left(ls) : Head(ls[i]) \in ToSet(Tail(ls[j]))
      BY <1>1 DEF Good
    <3>. DEFINE l == Joint(Top, j)  m == Len(l) - Len(ls[j])
    <3>2. /\ j \in DOMAIN ls /\ ls[j] # <<>> /\ ls[j] \in Seq(Contracts)
          /\ Len(ls[j]) \in Nat /\ DOMAIN ls[j] = 1..Len(ls[j])
      BY <1>2, <2>1, LenProperties
    <3>3. l \in Constraints(c) /\ l \in Seq(Contracts)
      <4>1. CASE j <= n
        <5>1. j \in DOMAIN bases[c]
          BY <1>2, <1>5, <3>2, <4>1
        <5>2. bases[c][j] \in ToSet(bases[c]) /\ bases[c][j] \in Contracts
          BY <1>2, <5>1, ElementOfSeq DEF ToSet
        <5>3. l = resolved[bases[c][j]]
          BY <4>1 DEF Joint
        <5>4. QED
          BY <5>2, <5>3 DEF Constraints, Types
      <4>2. CASE ~(j <= n)
        BY <1>2, <4>2 DEF Joint, Constraints
      <4>3. QED
        BY <4>1, <4>2
    <3>4. Partly(l, ls[j], Top.out)
      BY <1>4, <3>2 DEF MergeOK
    <3>5. /\ Head(ls[j]) = ls[j][1] /\ Tail(ls[j]) \in Seq(Contracts)
          /\ Len(Tail(ls[j])) = Len(ls[j]) - 1 /\ Len(ls[j]) \in Nat \ {0}
          /\ \A q \in 1..Len(Tail(ls[j])) : Tail(ls[j])[q] = ls[j][q + 1]
      BY <3>2, TailElements
    <3>6. PICK q \in 1..Len(Tail(ls[j])) : Tail(ls[j])[q] = Head(ls[i])
      BY <3>1, <3>5, LenProperties DEF ToSet
    <3>7. /\ ls[j][q + 1] = Head(ls[i]) /\ q \in Nat \ {0}
          /\ 1 \in DOMAIN ls[j] /\ q + 1 \in DOMAIN ls[j]
      BY <3>2, <3>5, <3>6
    <3>8. /\ m \in Nat /\ l[m + 1] = Head(ls[j]) /\ l[m + (q + 1)] = Head(ls[i])
      BY <3>4, <3>5, <3>7 DEF Partly
    <3>9. Len(l) \in Nat /\ DOMAIN l = 1..Len(l) /\ Len(l) = m + Len(ls[j])
      BY <3>2, <3>3, LenProperties
    <3>. HIDE DEF l, m
    <3>10. m + 1 \in DOMAIN l /\ m + (q + 1) \in DOMAIN l /\ m + 1 < m + (q + 1)
      BY <3>2, <3>7, <3>8, <3>9
    <3>11. Before(l, Head(ls[j]), Head(ls[i]))
      BY <3>8, <3>10 DEF Before
    <3>12. QED
      BY <3>1, <3>3, <3>11
  <2>4. Unorderable(Constraints(c))
    <3>. HIDE DEF S
    <3>1. \A y \in S : \E x \in S, l \in Constraints(c) : Before(l, x, y)
      BY <2>3 DEF S
    <3>2. QED
      BY <2>2, <3>1 DEF Unorderable
  <2>. HIDE DEF c
  <2>5. ASSUME NEW d \in Contracts, d = c
        PROVE  /\ ToSet(bases'[d]) \subseteq ToSet(topo')
               /\ Unorderable(Constraints(d)')
    <3>1. Constraints(d)' = Constraints(d)
      BY <1>1 DEF Constraints
    <3>2. QED
      BY <1>1, <1>7, <2>4, <2>5, <3>1
  <2>6. QED
    BY <1>2, <1>3, <2>5 DEF Reason
<1>8. QED
  BY <1>6, <1>7

LEMMA ReasonKept ==
  ASSUME Types, Path, Phases, Reason, [Next]_vars
  PROVE  Reason'
<1>1. bases' = bases /\ CycleReached' = CycleReached
  BY SameGraph
<1>2. ToSet(diags) \subseteq ToSet(diags') /\ ToSet(diags) \subseteq Contracts
  <2>1. ToSet(diags) \subseteq Contracts
    BY DEF Types, ToSet
  <2>2. CASE Stuck
    <3>1. diags' = Append(diags, Top.cont) /\ Top.cont \in Contracts
      BY <2>2, TopInProgress DEF Stuck, Merging
    <3>2. QED
      BY <2>1, <3>1, AppendElements DEF Types
  <2>3. CASE ~Stuck
    <3>1. diags' = diags
      BY <2>3 DEF Next, NextRoot, Descend, JoinBase, JoinOwnBases, Take, Merged,
                  Solved, Finished, vars
    <3>2. QED
      BY <2>1, <3>1
  <2>4. QED
    BY <2>2, <2>3
<1>3. /\ ToSet(topo) \subseteq ToSet(topo')
      /\ \A b \in ToSet(topo) : resolved'[b] = resolved[b]
  <2>1. CASE Merged
    <3>1. /\ \A x \in Contracts : x # Top.cont => resolved'[x] = resolved[x]
          /\ ToSet(topo') = ToSet(topo) \cup {Top.cont}
      BY <2>1, MergedLists
    <3>2. Top.cont \notin ToSet(topo) /\ ToSet(topo) \subseteq Contracts
      BY <2>1, TopInProgress, DoneType DEF Merged, Merging
    <3>3. QED
      BY <3>1, <3>2
  <2>2. CASE ~Merged
    BY <2>2, SameDone, DoneType
  <2>3. QED
    BY <2>1, <2>2
<1>4. ASSUME NEW c \in ToSet(diags), ToSet(bases[c]) \subseteq ToSet(topo)
      PROVE  Constraints(c)' = Constraints(c)
  BY <1>1, <1>3, <1>4 DEF Constraints
<1>5. CASE CycleReached
  BY <1>1, <1>5 DEF Reason
<1>6. CASE ~CycleReached
  <2>1. PICK c \in ToSet(diags) :
          ToSet(bases[c]) \subseteq ToSet(topo) /\ Unorderable(Constraints(c))
    BY <1>6 DEF Reason
  <2>2. Constraints(c)' = Constraints(c)
    BY <1>4, <2>1
  <2>3. c \in ToSet(diags') /\ ToSet(bases'[c]) \subseteq ToSet(topo')
    BY <1>1, <1>2, <1>3, <2>1
  <2>4. QED
    BY <2>1, <2>2, <2>3 DEF Reason
<1>7. QED
  BY <1>5, <1>6

-----------------------------------------------------------------------------
(* The invariant. *)

LEMMA CyclesKept ==
  ASSUME Types, Path, Phases, Merges, Searched, Cycles, [Next]_vars, diags' = <<>>
  PROVE  Cycles'
<1>1. bases' = bases /\ ~Stuck
  BY SameGraph, NotRefused
<1>2. ASSUME UNCHANGED <<resolved, topo, work>> PROVE Cycles'
  BY <1>1, <1>2 DEF Cycles, Joined, Returns, Doomed, Searching, Base, Top
<1>3. CASE NextRoot
  <2>1. PICK c \in roots :
          IF resolved[c] = <<>> THEN Enter(c) ELSE UNCHANGED <<resolved, work>>
    BY <1>3 DEF NextRoot
  <2>2. c \in Contracts /\ topo' = topo /\ ~Searching
    BY <1>3 DEF Types, NextRoot, Searching
  <2>3. QED
    BY <1>1, <1>2, <2>1, <2>2, EnterKeepsCycles
<1>4. CASE Descend
  <2>1. Base \in Contracts /\ topo' = topo /\ resolved[Base] = <<>> /\ Enter(Base)
    BY <1>4, BaseType DEF Descend
  <2>2. QED
    BY <1>1, <2>1, EnterKeepsCycles
<1>5. CASE JoinBase
  BY <1>5, JoinKeepsCycles
<1>6. CASE JoinOwnBases
  BY <1>6, JoinOwnKeepsCycles
<1>7. CASE Take
  BY <1>7, TakeKeepsCycles
<1>8. CASE Merged
  BY <1>8, MergedKeepsCycles
<1>9. CASE Solved \/ Finished \/ UNCHANGED vars
  BY <1>2, <1>9 DEF Solved, Finished, vars
<1>10. QED
  BY <1>1, <1>3, <1>4, <1>5, <1>6, <1>7, <1>8, <1>9 DEF Next

LEMMA SolverInvInit ==
  ASSUME Init
  PROVE  SolverInv
<1>1. /\ bases \in [Contracts -> Seq(Contracts)] /\ roots = Roots
      /\ \A c \in Contracts : resolved[c] = <<>>
      /\ resolved \in [Contracts -> Seq(Contracts)]
      /\ topo = <<>> /\ work = <<>> /\ diags = <<>> /\ pc = "solve"
  BY GraphsAssumption DEF Init, Roots, HasHeir
<1>2. ToSet(<<>>) = {}
  BY DEF ToSet
<1>3. Types /\ Phases
  BY <1>1 DEF Types, Phases, Roots
<1>4. Path /\ Merges
  BY <1>1, <1>2 DEF Path, Merges, Once
<1>5. OfLineage
  BY <1>1, <1>2 DEF OfLineage
<1>6. Kept /\ Complete
  BY <1>1, <1>2 DEF Kept, Complete
<1>7. \A d, e \in Contracts : ~Joined(d, e)
  BY <1>1, <1>2 DEF Joined
<1>8. Searched /\ Cycles
  BY <1>1, <1>7 DEF Searched, Cycles
<1>9. QED
  BY <1>1, <1>3, <1>4, <1>5, <1>6, <1>8 DEF SolverInv

LEMMA SolverInvKept ==
  ASSUME SolverInv, [Next]_vars
  PROVE  SolverInv'
<1>1. Types /\ Phases /\ Path /\ OfLineage /\ Merges /\ Kept /\ Complete
  BY DEF SolverInv
<1>2. Types' /\ Phases' /\ Path' /\ OfLineage' /\ Merges' /\ Kept' /\ Complete'
  BY <1>1, TypesKept, PhasesKept, PathKept, OfLineageKept, MergesKept, KeptKept,
     CompleteKept
<1>3. ASSUME diags' = <<>> PROVE Searched' /\ Cycles'
  <2>1. diags = <<>>
    BY <1>1, <1>3, NotRefused
  <2>2. Searched /\ Cycles
    BY <2>1 DEF SolverInv
  <2>3. QED
    BY <1>1, <1>3, <2>2, SearchedKept, CyclesKept
<1>4. ASSUME diags' # <<>> PROVE Reason'
  <2>1. CASE diags # <<>>
    BY <1>1, <2>1, ReasonKept DEF SolverInv
  <2>2. CASE diags = <<>>
    <3>1. Stuck
      BY <1>4, <2>2 DEF Next, NextRoot, Descend, JoinBase, JoinOwnBases, Take,
                        Merged, Solved, Finished, vars
    <3>2. Searched
      BY <2>2 DEF SolverInv
    <3>3. QED
      BY <1>1, <3>1, <3>2, StuckReason
  <2>3. QED
    BY <2>1, <2>2
<1>5. QED
  BY <1>2, <1>3, <1>4 DEF SolverInv

-----------------------------------------------------------------------------
(* What the invariant says of the result. *)

\* An accepted graph was searched as far as it is reached, bases first.
LEMMA SolvedInOrder ==
  ASSUME SolverInv, pc = "ok"
  PROVE  BasesBefore /\ \A c \in Roots : c \in ToSet(topo)
<1>1. /\ Types /\ Searched /\ Cycles
      /\ work = <<>> /\ roots = {}
  BY DEF SolverInv, Phases
<1>2. \A c \in Contracts : resolved[c] # <<>> => c \in ToSet(topo)
  BY <1>1 DEF Searched
<1>3. ASSUME NEW d \in ToSet(topo), NEW e \in ToSet(bases[d]) PROVE Before(topo, e, d)
  <2>1. d \in Contracts /\ e \in Contracts
    BY <1>1 DEF Types, ToSet
  <2>2. Joined(d, e)
    BY DEF Joined
  <2>3. e \in ToSet(topo)
    BY <1>1, <1>2, <2>1, <2>2 DEF Searched
  <2>4. ~Doomed
    BY <1>1 DEF Doomed, Searching
  <2>5. QED
    BY <1>1, <2>1, <2>2, <2>3, <2>4 DEF Cycles
<1>4. ASSUME NEW c \in Roots PROVE c \in ToSet(topo)
  BY <1>1, <1>2 DEF Searched, Roots
<1>5. QED
  BY <1>3, <1>4 DEF BasesBefore

LEMMA InvGivesOrder ==
  ASSUME SolverInv
  PROVE  BasesComeFirst
<1>1. SUFFICES ASSUME pc = "ok"
      PROVE  /\ ToSet(topo) = Reached
             /\ Once(topo)
             /\ \A i \in DOMAIN topo : \A b \in ToSet(bases[topo[i]]) :
                  Before(topo, b, topo[i])
  BY DEF BasesComeFirst
<1>2. Types /\ Path /\ OfLineage
  BY DEF SolverInv
<1>3. BasesBefore /\ \A c \in Roots : c \in ToSet(topo)
  BY <1>1, SolvedInOrder
<1>4. ToSet(topo) \subseteq Reached
  BY <1>2, DoneType DEF OfLineage
<1>5. Closed(ToSet(topo)) /\ ToSet(topo) \in SUBSET Contracts
  BY <1>2, <1>3, DoneType, BeforeElements DEF BasesBefore, Closed
<1>6. Reached \subseteq ToSet(topo)
  <2>1. \A c \in Roots : Lineage(c) \subseteq ToSet(topo)
    BY <1>3, <1>5, LineageInClosed
  <2>2. QED
    BY <2>1 DEF Reached
<1>7. Once(topo)
  BY <1>2 DEF Path
<1>8. \A i \in DOMAIN topo : \A b \in ToSet(bases[topo[i]]) : Before(topo, b, topo[i])
  BY <1>3 DEF BasesBefore, ToSet
<1>9. QED
  BY <1>4, <1>6, <1>7, <1>8

LEMMA InvGivesC3 ==
  ASSUME SolverInv
  PROVE  LinearizationsAreC3
<1>1. SUFFICES ASSUME pc = "ok", NEW c \in ToSet(topo)
      PROVE  /\ Head(resolved[c]) = c
             /\ ToSet(resolved[c]) = Lineage(c)
             /\ Once(resolved[c])
             /\ \A l \in Constraints(c) : \A x, y \in Contracts :
                  Before(l, x, y) => Before(resolved[c], x, y)
  BY DEF LinearizationsAreC3
<1>2. Types /\ Path /\ OfLineage /\ Kept /\ Complete
  BY DEF SolverInv
<1>3. BasesBefore
  BY <1>1, SolvedInOrder
<1>4. /\ c \in Contracts /\ resolved[c] \in Seq(Contracts)
      /\ resolved[c] # <<>> /\ resolved[c][1] = c /\ c \in ToSet(resolved[c])
  BY <1>2, DoneType
<1>5. Head(resolved[c]) = c
  BY <1>4, TailElements
<1>6. ToSet(resolved[c]) = Lineage(c)
  <2>1. ToSet(resolved[c]) \subseteq Lineage(c)
    BY <1>2, <1>4 DEF OfLineage
  <2>2. Closed(ToSet(resolved[c]))
    BY <1>2, <1>3 DEF Complete
  <2>3. ToSet(resolved[c]) \in SUBSET Contracts
    BY <1>4 DEF ToSet
  <2>4. Lineage(c) \subseteq ToSet(resolved[c])
    BY <1>4, <2>2, <2>3, LineageInClosed
  <2>5. QED
    BY <2>1, <2>4
<1>7. Once(resolved[c])
  <2>1. Len(resolved[c]) \in Nat /\ DOMAIN resolved[c] = 1..Len(resolved[c])
    BY <1>4, LenProperties
  <2>2. \A i, j \in 2..Len(resolved[c]) : resolved[c][i] = resolved[c][j] => i = j
    BY <1>2 DEF Kept
  <2>3. \A i \in 2..Len(resolved[c]) : resolved[c][i] # c
    BY <1>2, <1>3 DEF Complete
  <2>4. \A i \in DOMAIN resolved[c] : i = 1 \/ i \in 2..Len(resolved[c])
    BY <2>1
  <2>5. QED
    BY <1>4, <2>2, <2>3, <2>4 DEF Once
<1>8. ASSUME NEW l \in Constraints(c) PROVE Keeps(l, resolved[c])
  <2>1. Keeps(bases[c], resolved[c])
    BY <1>2 DEF Kept
  <2>2. \A b \in ToSet(bases[c]) : Keeps(resolved[b], resolved[c])
    BY <1>2, <1>3 DEF Kept, BasesBefore
  <2>3. QED
    BY <2>1, <2>2 DEF Constraints
<1>9. QED
  BY <1>5, <1>6, <1>7, <1>8 DEF Keeps

LEMMA InvGivesReason ==
  ASSUME SolverInv
  PROVE  RefusalsHaveReason
BY DEF SolverInv, Phases, Reason, RefusalsHaveReason

-----------------------------------------------------------------------------
(* The theorems. *)

\* The pass as a whole takes the steps of the solver or leaves it alone.
LEMMA NodesSolve ==
  ASSUME [NextNodes]_ivars
  PROVE  [Next]_vars
<1>1. CASE Solve
  BY <1>1 DEF Solve, Next
<1>2. CASE UNCHANGED vars
  BY <1>2
<1>3. ASSUME ~Solve PROVE UNCHANGED vars
  BY <1>3 DEF NextNodes, ivars, Resolve, CheckKinds, NextContract, InjectNew,
     InjectOverride, OverrideByOther, InjectOverVar, InjectBeside, EndContract,
     Injected, NameMembers, Named, Over, AppendTo
<1>4. QED
  BY <1>1, <1>2, <1>3

LEMMA SolverInvariant == SpecNodes => []SolverInv
<1>1. InitNodes => SolverInv
  BY SolverInvInit DEF InitNodes
<1>2. SolverInv /\ [NextNodes]_ivars => SolverInv'
  BY SolverInvKept, NodesSolve
<1>3. QED
  BY <1>1, <1>2, PTL DEF SpecNodes

\* Whatever the graph, an accepted unit hands out the members of every
\* contract that takes part, once, and of bases before those of their heirs.
THEOREM InheritanceInOrder == SpecNodes => []BasesComeFirst
<1>1. SolverInv => BasesComeFirst
  BY InvGivesOrder
<1>2. QED
  BY <1>1, SolverInvariant, PTL

\* Whatever the graph, an accepted linearisation is one as C3 defines it.
THEOREM InheritanceIsC3 == SpecNodes => []LinearizationsAreC3
<1>1. SolverInv => LinearizationsAreC3
  BY InvGivesC3
<1>2. QED
  BY <1>1, SolverInvariant, PTL

\* Whatever the graph, a refused one has a cycle or a contract without order.
THEOREM InheritanceRefusedForAReason == SpecNodes => []RefusalsHaveReason
<1>1. SolverInv => RefusalsHaveReason
  BY InvGivesReason
<1>2. QED
  BY <1>1, SolverInvariant, PTL

-----------------------------------------------------------------------------
(* Orders in a list without repetition. *)

LEMMA BeforeOrders ==
  ASSUME NEW S, NEW s \in Seq(S), Once(s)
  PROVE  /\ \A x, y \in ToSet(s) : x # y => Before(s, x, y) \/ Before(s, y, x)
         /\ \A x, y : Before(s, x, y) =>
              x \in ToSet(s) /\ y \in ToSet(s) /\ x # y /\ ~Before(s, y, x)
         /\ \A x, y, z : Before(s, x, y) /\ Before(s, y, z) => Before(s, x, z)
<1>1. DOMAIN s \subseteq Nat
  BY LenProperties
<1>2. ASSUME NEW x \in ToSet(s), NEW y \in ToSet(s), x # y
      PROVE  Before(s, x, y) \/ Before(s, y, x)
  <2>1. PICK i \in DOMAIN s, j \in DOMAIN s : s[i] = x /\ s[j] = y
    BY DEF ToSet
  <2>2. i < j \/ j < i
    BY <1>1, <1>2, <2>1
  <2>3. QED
    BY <2>1, <2>2 DEF Before
<1>3. ASSUME NEW x, NEW y, Before(s, x, y)
      PROVE  x \in ToSet(s) /\ y \in ToSet(s) /\ x # y /\ ~Before(s, y, x)
  <2>1. PICK i \in DOMAIN s, j \in DOMAIN s : i < j /\ s[i] = x /\ s[j] = y
    BY <1>3 DEF Before
  <2>2. i \in Nat /\ j \in Nat
    BY <1>1
  <2>3. x # y
    BY <2>1, <2>2 DEF Once
  <2>4. ASSUME NEW k \in DOMAIN s, NEW l \in DOMAIN s, k < l, s[k] = y, s[l] = x
        PROVE  FALSE
    <3>1. k = j /\ l = i
      BY <2>1, <2>4 DEF Once
    <3>2. QED
      BY <2>1, <2>2, <2>4, <3>1
  <2>5. QED
    BY <2>1, <2>3, <2>4 DEF Before, ToSet
<1>4. ASSUME NEW x, NEW y, NEW z, Before(s, x, y), Before(s, y, z)
      PROVE  Before(s, x, z)
  <2>1. PICK i \in DOMAIN s, j \in DOMAIN s : i < j /\ s[i] = x /\ s[j] = y
    BY <1>4 DEF Before
  <2>2. PICK k \in DOMAIN s, l \in DOMAIN s : k < l /\ s[k] = y /\ s[l] = z
    BY <1>4 DEF Before
  <2>3. j = k
    BY <2>1, <2>2 DEF Once
  <2>4. i < l
    BY <1>1, <2>1, <2>2, <2>3
  <2>5. QED
    BY <2>1, <2>2, <2>4 DEF Before
<1>5. QED
  BY <1>2, <1>3, <1>4

\* The first element comes before all others.
LEMMA HeadComesFirst ==
  ASSUME NEW S, NEW s \in Seq(S), s # <<>>, NEW x \in ToSet(s), x # Head(s)
  PROVE  Before(s, Head(s), x)
<1>1. DOMAIN s = 1..Len(s) /\ Len(s) \in Nat \ {0} /\ Head(s) = s[1]
  BY EmptySeq, LenProperties
<1>2. PICK i \in DOMAIN s : s[i] = x
  BY DEF ToSet
<1>3. 1 < i /\ 1 \in DOMAIN s
  BY <1>1, <1>2
<1>4. QED
  BY <1>1, <1>2, <1>3 DEF Before

\* Of the elements in T one comes first.
LEMMA FirstOf ==
  ASSUME NEW S, NEW s \in Seq(S), NEW T, T \subseteq ToSet(s), T # {}
  PROVE  \E t \in T : \A y \in T : y # t => Before(s, t, y)
<1>. DEFINE P == {i \in DOMAIN s : s[i] \in T}
<1>1. P \subseteq Nat /\ P # {}
  BY LenProperties DEF ToSet
<1>2. PICK i \in P : \A j \in P : i <= j
  BY <1>1, LeastNatural
<1>3. ASSUME NEW y \in T, y # s[i] PROVE Before(s, s[i], y)
  <2>1. PICK j \in DOMAIN s : s[j] = y
    BY DEF ToSet
  <2>2. i \in Nat /\ j \in Nat /\ j \in P /\ i <= j /\ i # j
    BY <1>1, <1>2, <1>3, <2>1
  <2>3. i < j
    BY <2>2
  <2>4. QED
    BY <2>1, <2>3 DEF Before
<1>4. QED
  BY <1>3

-----------------------------------------------------------------------------
(* The members. *)

\* The program is one of those considered.
Text == bases \in Graphs /\ prog \in Programs(bases)

LEMMA MemberProps ==
  ASSUME Text
  PROVE  /\ \A c \in Contracts : /\ SubNodes(c) \in Seq(Members)
                                 /\ \A m : m \in ToSet(SubNodes(c)) <=>
                                             m \in Members /\ m[1] = c
         /\ \A m \in Members : Member(m) \in Decls /\ m[1] \in Contracts
<1>1. prog.members \in [Contracts -> Seq(Decls)]
  BY ProgramsAssumption DEF Text
<1>2. \A c \in Contracts : /\ prog.members[c] \in Seq(Decls)
                           /\ DOMAIN SubNodes(c) = DOMAIN prog.members[c]
                           /\ \A i \in DOMAIN SubNodes(c) : SubNodes(c)[i] = <<c, i>>
  BY <1>1 DEF SubNodes
<1>3. ASSUME NEW c \in Contracts, NEW m
      PROVE  m \in ToSet(SubNodes(c)) <=> m \in Members /\ m[1] = c
  <2>1. ASSUME NEW d \in Contracts, NEW i \in DOMAIN SubNodes(d), m = SubNodes(d)[i]
        PROVE  m[1] = d
    BY <1>2, <2>1
  <2>2. QED
    BY <2>1 DEF Members, ToSet
<1>4. ASSUME NEW c \in Contracts PROVE SubNodes(c) \in Seq(Members)
  <2>1. \A i \in DOMAIN SubNodes(c) : SubNodes(c)[i] \in Members
    BY DEF Members, ToSet
  <2>2. DOMAIN SubNodes(c) = 1..Len(prog.members[c]) /\ Len(prog.members[c]) \in Nat
    BY <1>2, LenProperties
  <2>3. SubNodes(c) = [i \in 1..Len(prog.members[c]) |-> SubNodes(c)[i]]
    BY <2>2 DEF SubNodes
  <2>4. QED
    BY <2>1, <2>2, <2>3
<1>5. ASSUME NEW m \in Members
      PROVE  Member(m) \in Decls /\ m[1] \in Contracts
  <2>1. PICK c \in Contracts : \E i \in DOMAIN SubNodes(c) : m = <<c, i>>
    BY <1>2 DEF Members, ToSet
  <2>2. PICK i \in DOMAIN SubNodes(c) : m = <<c, i>>
    BY <2>1
  <2>3. prog.members[c] \in Seq(Decls) /\ i \in DOMAIN prog.members[c]
    BY <1>2
  <2>4. QED
    BY <2>2, <2>3, ElementOfSeq DEF Member
<1>6. QED
  BY <1>3, <1>4, <1>5

LEMMA DeclProps ==
  ASSUME NEW d \in Decls
  PROVE  /\ d.kind \in {"fun", "var", "event"} /\ d.name \in Names
         /\ d.kind = "fun" =>
              /\ d.virtual \in BOOLEAN /\ d.override \in BOOLEAN
              /\ d.vis \in {"external", "public", "internal", "private"}
              /\ d.mut \in {"nonpayable", "view", "pure", "payable"}
BY DEF Decls

\* The linearisations of an accepted unit.
LEMMA LineProps ==
  ASSUME SolverInv, pc = "ok", NEW c \in Contracts
  PROVE  /\ LineOf(c) \in Seq(Contracts) /\ LineOf(c) # <<>> /\ Once(LineOf(c))
         /\ Head(LineOf(c)) = c /\ c \in ToSet(LineOf(c))
         /\ c \in ToSet(topo) => LineOf(c) = resolved[c]
<1>1. /\ Types /\ Searched /\ Path /\ work = <<>>
  BY DEF SolverInv, Phases
<1>2. CASE c \in ToSet(topo)
  <2>1. Head(resolved[c]) = c /\ Once(resolved[c])
    BY <1>2, InvGivesC3 DEF LinearizationsAreC3
  <2>2. resolved[c] \in Seq(Contracts) /\ resolved[c] # <<>> /\ c \in ToSet(resolved[c])
    BY <1>1, <1>2, DoneType
  <2>3. QED
    BY <2>1, <2>2 DEF LineOf
<1>3. CASE c \notin ToSet(topo)
  <2>1. LineOf(c) = <<c>>
    BY <1>1, <1>3 DEF LineOf, Searched
  <2>2. QED
    BY <1>3, <2>1 DEF Once, ToSet
<1>4. QED
  BY <1>2, <1>3

-----------------------------------------------------------------------------
(* The invariant. *)

\* What has been injected into the contract at work.
Arrived == Declared(cont) \ ToSet(todo)

\* Of the declarations in P those that an heir c sees.
Shown(c, P) ==
  {m \in P : m[1] # c /\ \A x \in P : x # m /\ Same(m, x) => Nearer(c, m, x)}

\* The declarations in a list of members are those in V, of different names.
Holds(nodes, V) ==
  /\ {nodes[i] : i \in Solid(nodes)} = V
  /\ \A i, j \in Solid(nodes) : Same(nodes[i], nodes[j]) => i = j

Inherited(nodes, c, P) == Holds(nodes, Shown(c, P))

Lawful(c, P) == \A m, p \in P : Redeclares(c, m, p) => Licensed(p, m)

NodeTypes ==
  /\ topoLeft \in Seq(Contracts) /\ ToSet(topoLeft) \subseteq ToSet(topo)
  /\ cont \in Contracts \cup {NoContract}
  /\ todo \in Seq(Members) /\ result \in Seq(Members)
  /\ inherit \in [Contracts -> Seq(Members)]
  /\ unnamed \subseteq Contracts
  /\ uname \in [Members -> Contracts \cup {NoContract}]

Stages ==
  /\ stage # "solve" => pc # "solve"
  /\ stage \in {"kinds", "inject"} => pc = "ok"
  /\ stage = "solve" => topoLeft = <<>>
  /\ stage \in {"solve", "kinds"} =>
       /\ errs = {} /\ virt = {m \in Functions : Member(m).virtual}
       /\ \A c \in Contracts : inherit[c] = <<>>
  /\ stage \in {"names", "done"} => topoLeft = <<>>
  /\ stage # "inject" /\ stage # "undefined" => cont = NoContract
  /\ cont = NoContract => todo = <<>>
  /\ stage = "inject" => virt = {m \in Functions : IsVirtual(m)}
  /\ pc = "ok" => \A c \in Contracts : c \notin ToSet(topo) => inherit[c] = <<>>

\* The most basic declarations come first.
TodoOK ==
  stage = "inject" /\ cont # NoContract =>
    /\ cont \in ToSet(topo)
    /\ Once(todo)
    /\ \A m \in ToSet(todo) : m[1] \in ToSet(LineOf(cont))
    /\ \A i, j \in DOMAIN todo : i < j =>
         todo[i][1] = todo[j][1] \/ Nearer(cont, todo[j], todo[i])
    /\ \A x \in ToSet(todo), m \in Arrived :
         m[1] = x[1] \/ Nearer(cont, x, m)

\* As long as there is no error, the members collected are the most derived of
\* those injected, and these redeclare each other as they may.
ResultOK ==
  stage = "inject" /\ cont # NoContract /\ errs = {} /\ NamesApart =>
    Inherited(result, cont, Arrived) /\ Lawful(cont, Arrived)

DoneOK ==
  stage \in {"inject", "names", "done"} /\ pc = "ok" /\ errs = {} /\ NamesApart =>
    \A c \in ToSet(topo) :
      \/ c \in ToSet(topoLeft) \/ c = cont
      \/ Inherited(inherit[c], c, Declared(c)) /\ Lawful(c, Declared(c))

\* There is an error if and only if there is a reason.
ErrsOK ==
  stage \in {"inject", "names", "done"} /\ pc = "ok" /\ NamesApart =>
    /\ errs = {} => SoundKinds
    /\ errs # {} => ~SoundKinds \/ \E c \in ToSet(topo) : ~Lawful(c, Declared(c))

\* A name is the contract of the last visit.
NamesOK ==
  /\ stage \notin {"names", "done"} =>
       unnamed = Contracts /\ \A m \in Members : uname[m] = NoContract
  /\ \A m \in Members :
       /\ uname[m] # NoContract => m \in ToSet(Visible(uname[m]))
       /\ m[1] \notin unnamed => uname[m] # NoContract
  /\ stage = "done" => \A c \in unnamed : Visible(c) = <<>>

NodesInv ==
  /\ SolverInv /\ Text /\ NodeTypes /\ Stages
  /\ TodoOK /\ ResultOK /\ DoneOK /\ ErrsOK /\ NamesOK

-----------------------------------------------------------------------------
(* What does not change. *)

LEMMA TextStays ==
  ASSUME UNCHANGED <<vars, prog>>
  PROVE  /\ Members' = Members /\ Functions' = Functions /\ Interfaces' = Interfaces
         /\ \A m : Member(m)' = Member(m) /\ IsVirtual(m)' = IsVirtual(m)
         /\ \A c : /\ SubNodes(c)' = SubNodes(c) /\ LineOf(c)' = LineOf(c)
                   /\ Declared(c)' = Declared(c)
         /\ \A m, x : Same(m, x)' = Same(m, x) /\ Licensed(m, x)' = Licensed(m, x)
         /\ \A c, m, x : /\ Nearer(c, m, x)' = Nearer(c, m, x)
                         /\ Redeclares(c, m, x)' = Redeclares(c, m, x)
         /\ \A nodes : Solid(nodes)' = Solid(nodes)
         /\ NamesApart' = NamesApart /\ SoundKinds' = SoundKinds
         /\ \A nodes, c, P : Inherited(nodes, c, P)' = Inherited(nodes, c, P)
         /\ \A c, P : Lawful(c, P)' = Lawful(c, P)
<1>1. /\ bases' = bases /\ resolved' = resolved /\ prog' = prog
  BY DEF vars
<1>2. /\ \A m : Member(m)' = Member(m)
      /\ \A c : SubNodes(c)' = SubNodes(c)
      /\ Interfaces' = Interfaces
  BY <1>1 DEF Member, SubNodes, Interfaces
<1>3. Members' = Members
  BY <1>2 DEF Members
<1>4. Functions' = Functions
  BY <1>2, <1>3 DEF Functions
<1>5. \A c : LineOf(c)' = LineOf(c)
  BY <1>1 DEF LineOf
<1>6. \A c : Declared(c)' = Declared(c)
  BY <1>2, <1>3, <1>5 DEF Declared
<1>7. \A m : IsVirtual(m)' = IsVirtual(m)
  BY <1>2 DEF IsVirtual
<1>8. \A m, x : Same(m, x)' = Same(m, x) /\ Licensed(m, x)' = Licensed(m, x)
  BY <1>2, <1>7 DEF Same, Licensed
<1>9. \A c, m, x : Nearer(c, m, x)' = Nearer(c, m, x)
  BY <1>5 DEF Nearer
<1>10. \A c, m, x : Redeclares(c, m, x)' = Redeclares(c, m, x)
  BY <1>6, <1>8, <1>9 DEF Redeclares
<1>11. \A nodes : Solid(nodes)' = Solid(nodes)
  BY <1>2 DEF Solid
<1>12. NamesApart' = NamesApart
  BY <1>2, <1>3, <1>8 DEF NamesApart
<1>13. SoundKinds' = SoundKinds
  <2>1. \A c : SoundInterface(c)' = SoundInterface(c)
    BY <1>1, <1>2, <1>3, <1>4 DEF SoundInterface
  <2>2. QED
    BY <1>2, <1>4, <1>7, <2>1 DEF SoundKinds
<1>14. \A nodes, c, P : Inherited(nodes, c, P)' = Inherited(nodes, c, P)
  <2>1. \A c, P : Shown(c, P)' = Shown(c, P)
    BY <1>8, <1>9 DEF Shown
  <2>2. \A nodes, V : Holds(nodes, V)' = Holds(nodes, V)
    BY <1>8, <1>11 DEF Holds
  <2>3. QED
    BY <2>1, <2>2 DEF Inherited
<1>15. \A c, P : Lawful(c, P)' = Lawful(c, P)
  BY <1>8, <1>10 DEF Lawful
<1>16. QED
  BY <1>2, <1>3, <1>4, <1>5, <1>6, <1>7, <1>8, <1>9, <1>10, <1>11, <1>12, <1>13,
     <1>14, <1>15

\* The search is over.
LEMMA SolvedStays ==
  ASSUME NodesInv, pc # "solve"
  PROVE  ~Solve
<1>1. work = <<>>
  BY DEF NodesInv, SolverInv, Phases
<1>2. QED
  BY <1>1 DEF Solve, NextRoot, Descend, JoinBase, JoinOwnBases, Take, Stuck, Merged,
     Solved, Searching, Merging

-----------------------------------------------------------------------------
(* The declarations of a linearisation. *)

LEMMA NearerProps ==
  ASSUME SolverInv, pc = "ok", NEW c \in Contracts
  PROVE  /\ \A m, x : Nearer(c, m, x) => m[1] # x[1] /\ ~Nearer(c, x, m)
         /\ \A m, x, y : Nearer(c, m, x) /\ Nearer(c, x, y) => Nearer(c, m, y)
         /\ \A m, x : /\ m[1] \in ToSet(LineOf(c)) /\ x[1] \in ToSet(LineOf(c))
                      /\ m[1] # x[1]
                      => Nearer(c, m, x) \/ Nearer(c, x, m)
         /\ \A m, x : m[1] = c /\ x[1] \in ToSet(LineOf(c)) /\ x[1] # c
                      => Nearer(c, m, x)
         /\ \A m, x : Nearer(c, m, x) => x[1] # c
<1>1. /\ LineOf(c) \in Seq(Contracts) /\ LineOf(c) # <<>> /\ Once(LineOf(c))
      /\ Head(LineOf(c)) = c
  BY LineProps
<1>2. /\ \A x, y \in ToSet(LineOf(c)) :
           x # y => Before(LineOf(c), x, y) \/ Before(LineOf(c), y, x)
      /\ \A x, y : Before(LineOf(c), x, y) =>
           /\ x \in ToSet(LineOf(c)) /\ y \in ToSet(LineOf(c)) /\ x # y
           /\ ~Before(LineOf(c), y, x)
      /\ \A x, y, z : Before(LineOf(c), x, y) /\ Before(LineOf(c), y, z) =>
           Before(LineOf(c), x, z)
  BY <1>1, BeforeOrders
<1>3. \A x \in ToSet(LineOf(c)) : x # c => Before(LineOf(c), c, x)
  BY <1>1, HeadComesFirst
<1>4. QED
  BY <1>2, <1>3 DEF Nearer

LEMMA SameProps ==
  /\ \A m, x : Same(m, x) => Same(x, m)
  /\ \A m, x, y : Same(m, x) /\ Same(x, y) => Same(m, y)
BY DEF Same

\* x is the next to be injected into c, which has P so far.
Comes(c, P, x) ==
  /\ P \subseteq Declared(c) /\ x \in Declared(c) \ P
  /\ \A m \in P : m[1] = x[1] \/ Nearer(c, x, m)
  /\ \A m \in Declared(c) \ (P \cup {x}) : m[1] = x[1] \/ Nearer(c, m, x)

\* x comes over p.
Nearest(c, P, x, p) ==
  /\ p \in P /\ Same(x, p)
  /\ \A m \in P : Same(x, m) /\ m # p => Nearer(c, p, m)

LEMMA ComesProps ==
  ASSUME SolverInv, pc = "ok", NamesApart, NEW c \in Contracts, NEW P, NEW x,
         Comes(c, P, x)
  PROVE  /\ \A m \in P : Same(x, m) => Nearer(c, x, m) /\ m[1] # c
         /\ \A m \in Declared(c) \ (P \cup {x}) : Same(x, m) => Nearer(c, m, x)
<1>1. \A m, y \in Declared(c) : Same(m, y) /\ m[1] = y[1] => m = y
  BY DEF Declared, NamesApart
<1>2. \A m \in P : Same(x, m) => Nearer(c, x, m)
  BY <1>1 DEF Comes
<1>3. \A m \in Declared(c) \ (P \cup {x}) : Same(x, m) => Nearer(c, m, x)
  BY <1>1 DEF Comes
<1>4. QED
  BY <1>2, <1>3, NearerProps

\* What an heir sees with x, which replaces what it comes over.
LEMMA ShownGrows ==
  ASSUME SolverInv, pc = "ok", NamesApart, NEW c \in Contracts, NEW P, NEW x,
         Comes(c, P, x)
  PROVE  Shown(c, P \cup {x}) =
           {m \in Shown(c, P) : ~Same(x, m)} \cup (IF x[1] # c THEN {x} ELSE {})
<1>1. \A m \in P : Same(x, m) => Nearer(c, x, m) /\ m[1] # c
  BY ComesProps
<1>2. \A m, y : Nearer(c, m, y) => ~Nearer(c, y, m)
  BY NearerProps
<1>3. x \notin P
  BY DEF Comes
<1>4. ASSUME NEW m
      PROVE  m \in Shown(c, P \cup {x}) <=>
               m \in {y \in Shown(c, P) : ~Same(x, y)}
                     \cup (IF x[1] # c THEN {x} ELSE {})
  <2>1. CASE m = x
    BY <1>1, <1>3, <2>1, SameProps DEF Shown
  <2>2. CASE m # x /\ m \in P /\ Same(x, m)
    <3>1. ~Nearer(c, m, x) /\ Same(m, x)
      BY <1>1, <1>2, <2>2, SameProps
    <3>2. QED
      BY <2>2, <3>1 DEF Shown
  <2>3. CASE m # x /\ m \in P /\ ~Same(x, m)
    <3>1. ~Same(m, x)
      BY <2>3, SameProps
    <3>2. QED
      BY <2>3, <3>1 DEF Shown
  <2>4. CASE m # x /\ m \notin P
    BY <2>4 DEF Shown
  <2>5. QED
    BY <2>1, <2>2, <2>3, <2>4
<1>5. QED
  BY <1>4

\* What x comes over is among the members collected.
LEMMA NearestIsShown ==
  ASSUME SolverInv, pc = "ok", NamesApart, NEW c \in Contracts, NEW P, NEW x,
         Comes(c, P, x)
  PROVE  /\ \A p \in Shown(c, P) : Same(x, p) => Nearest(c, P, x, p)
         /\ (\E m \in P : Same(x, m)) => \E p \in Shown(c, P) : Same(x, p)
<1>1. \A m \in P : Same(x, m) => Nearer(c, x, m) /\ m[1] # c
  BY ComesProps
<1>2. ASSUME NEW p \in Shown(c, P), Same(x, p) PROVE Nearest(c, P, x, p)
  <2>1. \A m \in P : Same(x, m) => Same(p, m)
    BY <1>2, SameProps
  <2>2. QED
    BY <1>2, <2>1 DEF Nearest, Shown
<1>3. ASSUME NEW m \in P, Same(x, m) PROVE \E p \in Shown(c, P) : Same(x, p)
  <2>. DEFINE M == {y \in P : Same(x, y)}
              T == {y[1] : y \in M}
  <2>1. T \subseteq ToSet(LineOf(c)) /\ T # {}
    BY <1>3 DEF Comes, Declared
  <2>2. LineOf(c) \in Seq(Contracts)
    BY LineProps
  <2>3. PICK t \in T : \A y \in T : y # t => Before(LineOf(c), t, y)
    BY <2>1, <2>2, FirstOf
  <2>4. PICK p \in M : p[1] = t
    BY <2>3
  <2>5. ASSUME NEW y \in P, p # y, Same(p, y) PROVE Nearer(c, p, y)
    <3>1. Same(x, y)
      BY <2>4, <2>5, SameProps
    <3>2. p[1] # y[1]
      BY <2>4, <2>5 DEF Comes, Declared, NamesApart
    <3>3. QED
      BY <2>3, <2>4, <3>1, <3>2 DEF Nearer
  <2>6. p \in Shown(c, P) /\ Same(x, p)
    BY <1>1, <2>4, <2>5 DEF Shown
  <2>7. QED
    BY <2>6
<1>4. QED
  BY <1>2, <1>3

\* Without a declaration to come over, x redeclares nothing.
LEMMA LawfulNew ==
  ASSUME SolverInv, pc = "ok", NamesApart, NEW c \in Contracts, NEW P, NEW x,
         Comes(c, P, x), \A m \in P : ~Same(x, m)
  PROVE  Lawful(c, P) => Lawful(c, P \cup {x})
<1>1. \A m \in P \cup {x} : Same(x, m) \/ Same(m, x) => m = x
  BY SameProps
<1>2. \A m : ~Nearer(c, m, m)
  BY NearerProps
<1>3. QED
  BY <1>1, <1>2 DEF Lawful, Redeclares

\* Otherwise it redeclares the nearest one.
LEMMA LawfulOver ==
  ASSUME SolverInv, pc = "ok", NamesApart, NEW c \in Contracts, NEW P, NEW x,
         Comes(c, P, x), NEW p, Nearest(c, P, x, p)
  PROVE  /\ Redeclares(c, x, p)
         /\ Lawful(c, P) /\ Licensed(p, x) => Lawful(c, P \cup {x})
<1>1. \A m \in P : Same(x, m) => Nearer(c, x, m) /\ m[1] # c
  BY ComesProps
<1>2. /\ \A m, y : Nearer(c, m, y) => m[1] # y[1] /\ ~Nearer(c, y, m)
      /\ \A m, y, z : Nearer(c, m, y) /\ Nearer(c, y, z) => Nearer(c, m, z)
  BY NearerProps
<1>3. p \in P /\ Same(x, p) /\ Nearer(c, x, p) /\ p \in Declared(c)
  BY <1>1 DEF Nearest, Comes
<1>4. ASSUME NEW y \in Declared(c), Same(x, y), Nearer(c, x, y), Nearer(c, y, p)
      PROVE  FALSE
  <2>1. y # x /\ y # p
    BY <1>2, <1>4
  <2>2. y \in P
    BY <1>2, <1>4, <2>1, ComesProps
  <2>3. Nearer(c, p, y)
    BY <1>4, <2>1, <2>2 DEF Nearest
  <2>4. QED
    BY <1>2, <1>4, <2>3
<1>5. Redeclares(c, x, p)
  BY <1>3, <1>4 DEF Redeclares
<1>6. ASSUME Lawful(c, P), Licensed(p, x),
             NEW m \in P \cup {x}, NEW q \in P \cup {x}, Redeclares(c, m, q)
      PROVE  Licensed(q, m)
  <2>1. Same(m, q) /\ Nearer(c, m, q)
    BY <1>6 DEF Redeclares
  <2>2. CASE m \in P /\ q \in P
    BY <1>6, <2>2 DEF Lawful
  <2>3. CASE m = x
    <3>1. q \in P
      BY <1>2, <1>6, <2>1, <2>3
    <3>2. CASE q = p
      BY <1>6, <2>3, <3>2
    <3>3. CASE q # p
      <4>1. Nearer(c, p, q)
        BY <2>1, <2>3, <3>1, <3>3 DEF Nearest
      <4>2. QED
        BY <1>3, <1>6, <2>3, <4>1 DEF Redeclares
    <3>4. QED
      BY <3>2, <3>3
  <2>4. CASE q = x /\ m \in P
    BY <1>1, <1>2, <2>1, <2>4, SameProps
  <2>5. QED
    BY <2>2, <2>3, <2>4
<1>7. QED
  BY <1>5, <1>6 DEF Lawful

-----------------------------------------------------------------------------
(* The list of the members collected. *)

LEMMA HoldsEvent ==
  ASSUME NEW nodes \in Seq(Members), NEW x \in Members, Member(x).kind = "event",
         NEW V, Holds(nodes, V)
  PROVE  Holds(Append(nodes, x), V)
<1>. DEFINE n == Append(nodes, x)
<1>1. /\ Len(nodes) \in Nat /\ DOMAIN nodes = 1..Len(nodes)
      /\ n \in Seq(Members) /\ Len(n) = Len(nodes) + 1
      /\ \A i \in 1..Len(nodes) : n[i] = nodes[i]
      /\ n[Len(nodes) + 1] = x
  BY AppendElements, LenProperties
<1>2. DOMAIN n = 1..(Len(nodes) + 1)
  BY <1>1, LenProperties
<1>. HIDE DEF n
<1>3. Solid(n) = Solid(nodes) /\ \A i \in Solid(nodes) : n[i] = nodes[i]
  BY <1>1, <1>2 DEF Solid
<1>4. QED
  BY <1>3 DEF Holds, n

LEMMA HoldsMore ==
  ASSUME NEW nodes \in Seq(Members), NEW x \in Members, Member(x).kind # "event",
         NEW V, Holds(nodes, V), \A m \in V : ~Same(x, m)
  PROVE  Holds(Append(nodes, x), V \cup {x})
<1>. DEFINE n == Append(nodes, x)
            k == Len(nodes) + 1
<1>1. /\ Len(nodes) \in Nat /\ DOMAIN nodes = 1..Len(nodes)
      /\ n \in Seq(Members) /\ Len(n) = k
      /\ \A i \in 1..Len(nodes) : n[i] = nodes[i]
      /\ n[k] = x
  BY AppendElements, LenProperties
<1>2. DOMAIN n = 1..k
  BY <1>1, LenProperties
<1>. HIDE DEF n
<1>3. /\ Solid(n) = Solid(nodes) \cup {k} /\ k \notin Solid(nodes)
      /\ \A i \in Solid(nodes) : n[i] = nodes[i] /\ nodes[i] \in V
  BY <1>1, <1>2 DEF Solid, Holds
<1>4. {n[i] : i \in Solid(n)} = V \cup {x}
  BY <1>1, <1>3 DEF Holds
<1>5. \A i \in Solid(nodes) : ~Same(n[i], n[k]) /\ ~Same(n[k], n[i])
  BY <1>1, <1>3, SameProps
<1>6. \A i, j \in Solid(n) : Same(n[i], n[j]) => i = j
  BY <1>3, <1>5 DEF Holds
<1>7. QED
  BY <1>4, <1>6 DEF Holds, n

LEMMA HoldsLess ==
  ASSUME NEW nodes \in Seq(Members), NEW V, Holds(nodes, V), NEW k \in Solid(nodes),
         NEW x, Same(x, nodes[k])
  PROVE  /\ RemoveAt(nodes, k) \in Seq(Members)
         /\ Holds(RemoveAt(nodes, k), {m \in V : ~Same(x, m)})
<1>. DEFINE n == RemoveAt(nodes, k)
            up(i) == IF i < k THEN i ELSE i + 1
            down(j) == IF j < k THEN j ELSE j - 1
<1>1. k \in DOMAIN nodes /\ DOMAIN nodes \subseteq Nat
  BY LenProperties DEF Solid
<1>2. /\ n \in Seq(Members)
      /\ \A i \in DOMAIN n : up(i) \in DOMAIN nodes /\ up(i) # k /\ n[i] = nodes[up(i)]
      /\ \A j \in DOMAIN nodes : j # k => down(j) \in DOMAIN n /\ n[down(j)] = nodes[j]
  BY <1>1, RemoveAtProps
<1>3. DOMAIN n \subseteq Nat
  BY <1>2, LenProperties
<1>4. \A i, j \in DOMAIN n : up(i) = up(j) => i = j
  BY <1>1, <1>3
<1>. HIDE DEF n, up, down
<1>5. \A i \in Solid(n) : up(i) \in Solid(nodes) /\ up(i) # k /\ n[i] = nodes[up(i)]
  BY <1>2 DEF Solid
<1>6. \A j \in Solid(nodes) : j # k => down(j) \in Solid(n) /\ n[down(j)] = nodes[j]
  BY <1>2 DEF Solid
<1>7. \A i, j \in Solid(n) : Same(n[i], n[j]) => i = j
  <2>1. \A i \in Solid(n) : i \in DOMAIN n
    BY DEF Solid
  <2>2. QED
    BY <1>4, <1>5, <2>1 DEF Holds
<1>8. \A j \in Solid(nodes) : j # k <=> ~Same(x, nodes[j])
  <2>1. \A j \in Solid(nodes) : Same(x, nodes[j]) => Same(nodes[k], nodes[j])
    BY SameProps
  <2>2. QED
    BY <2>1 DEF Holds
<1>9. {n[i] : i \in Solid(n)} = {m \in V : ~Same(x, m)}
  <2>1. ASSUME NEW i \in Solid(n) PROVE n[i] \in V /\ ~Same(x, n[i])
    BY <1>5, <1>8 DEF Holds
  <2>2. ASSUME NEW m \in V, ~Same(x, m) PROVE \E i \in Solid(n) : n[i] = m
    <3>1. PICK j \in Solid(nodes) : nodes[j] = m
      BY DEF Holds
    <3>2. QED
      BY <1>6, <1>8, <2>2, <3>1
  <2>3. QED
    BY <2>1, <2>2
<1>10. QED
  BY <1>2, <1>7, <1>9 DEF Holds, n

-----------------------------------------------------------------------------
(* The member at the head of the list. *)

LEMMA ChildProps ==
  ASSUME NodesInv, stage = "inject", todo # <<>>
  PROVE  /\ pc = "ok" /\ cont \in Contracts /\ cont # NoContract
         /\ cont \in ToSet(topo)
         /\ Child \in Members /\ Child[1] \in ToSet(LineOf(cont))
         /\ Tail(todo) \in Seq(Members) /\ Once(Tail(todo))
         /\ ToSet(todo) = ToSet(Tail(todo)) \cup {Child} /\ Child \notin ToSet(Tail(todo))
         /\ \A m \in ToSet(Tail(todo)) : m[1] = Child[1] \/ Nearer(cont, m, Child)
         /\ \A i, j \in DOMAIN Tail(todo) : i < j =>
              Tail(todo)[i][1] = Tail(todo)[j][1]
                \/ Nearer(cont, Tail(todo)[j], Tail(todo)[i])
<1>1. /\ pc = "ok" /\ cont # NoContract /\ cont \in Contracts
      /\ todo \in Seq(Members)
  BY DEF NodesInv, Stages, NodeTypes
<1>2. /\ cont \in ToSet(topo) /\ Once(todo)
      /\ \A m \in ToSet(todo) : m[1] \in ToSet(LineOf(cont))
      /\ \A i, j \in DOMAIN todo : i < j =>
           todo[i][1] = todo[j][1] \/ Nearer(cont, todo[j], todo[i])
  BY <1>1 DEF NodesInv, TodoOK
<1>. DEFINE t == Tail(todo)
<1>3. /\ Child = todo[1] /\ todo[1] \in Members /\ t \in Seq(Members)
      /\ Len(t) = Len(todo) - 1 /\ Len(todo) \in Nat \ {0}
      /\ \A i \in 1..Len(t) : t[i] = todo[i + 1]
      /\ ToSet(todo) = ToSet(t) \cup {Child}
  BY <1>1, TailElements DEF Child
<1>4. DOMAIN t = 1..Len(t) /\ DOMAIN todo = 1..Len(todo)
  BY <1>1, <1>3, LenProperties
<1>. HIDE DEF t
<1>5. \A i \in DOMAIN t : /\ i \in Nat /\ i + 1 \in DOMAIN todo /\ t[i] = todo[i + 1]
                          /\ 1 \in DOMAIN todo /\ 1 < i + 1
  BY <1>3, <1>4
<1>6. Once(t)
  <2>1. ASSUME NEW i \in DOMAIN t, NEW j \in DOMAIN t, t[i] = t[j] PROVE i = j
    <3>1. i + 1 = j + 1
      BY <1>2, <1>5, <2>1 DEF Once
    <3>2. QED
      BY <1>5, <3>1
  <2>2. QED
    BY <2>1 DEF Once
<1>7. ASSUME NEW m \in ToSet(t)
      PROVE  m # Child /\ (m[1] = Child[1] \/ Nearer(cont, m, Child))
  <2>1. PICK i \in DOMAIN t : t[i] = m
    BY DEF ToSet
  <2>2. 1 # i + 1
    BY <1>5
  <2>3. QED
    BY <1>2, <1>3, <1>5, <2>1, <2>2 DEF Once
<1>8. ASSUME NEW i \in DOMAIN t, NEW j \in DOMAIN t, i < j
      PROVE  t[i][1] = t[j][1] \/ Nearer(cont, t[j], t[i])
  <2>1. i + 1 < j + 1
    BY <1>5, <1>8
  <2>2. QED
    BY <1>2, <1>5, <2>1
<1>9. Child[1] \in ToSet(LineOf(cont))
  BY <1>2, <1>3
<1>10. QED
  BY <1>1, <1>2, <1>3, <1>6, <1>7, <1>8, <1>9 DEF t

\* What is injected with it.
After == Declared(cont) \ ToSet(Tail(todo))

LEMMA ChildComes ==
  ASSUME NodesInv, stage = "inject", todo # <<>>
  PROVE  /\ Member(Child).kind = "event" => After = Arrived
         /\ Member(Child).kind # "event" =>
              After = Arrived \cup {Child} /\ Comes(cont, Arrived, Child)
<1>1. /\ Child \in Members /\ Child[1] \in ToSet(LineOf(cont)) /\ cont # NoContract
      /\ ToSet(todo) = ToSet(Tail(todo)) \cup {Child} /\ Child \notin ToSet(Tail(todo))
      /\ \A m \in ToSet(Tail(todo)) : m[1] = Child[1] \/ Nearer(cont, m, Child)
  BY ChildProps
<1>2. Child \in Declared(cont) <=> Member(Child).kind # "event"
  BY <1>1 DEF Declared
<1>3. \A m \in Arrived : m[1] = Child[1] \/ Nearer(cont, Child, m)
  BY <1>1 DEF NodesInv, TodoOK
<1>4. \A m \in Declared(cont) \ (Arrived \cup {Child}) : m \in ToSet(Tail(todo))
  BY <1>1 DEF Arrived
<1>5. QED
  BY <1>1, <1>2, <1>3, <1>4 DEF After, Arrived, Comes

\* The parent is the one among the members collected that the child comes over.
LEMMA ParentProps ==
  ASSUME NodesInv, stage = "inject", todo # <<>>
  PROVE  /\ \A i \in SameName : i \in DOMAIN result /\ result[i] \in Members
                                /\ Same(Child, result[i])
         /\ \A i \in DOMAIN result : Same(Child, result[i]) => i \in SameName
         /\ SameName # {} => Min(SameName) \in SameName /\ Parent \in Members
<1>1. result \in Seq(Members)
  BY DEF NodesInv, NodeTypes
<1>2. \A i \in DOMAIN result : result[i] \in Members
  BY <1>1, LenProperties, ElementOfSeq
<1>3. SameName \subseteq DOMAIN result /\ DOMAIN result \subseteq Nat
  BY <1>1, LenProperties DEF SameName
<1>4. ASSUME SameName # {} PROVE Min(SameName) \in SameName
  <2>1. \E x \in SameName : \A y \in SameName : x <= y
    BY <1>3, <1>4, LeastNatural
  <2>2. QED
    BY <2>1 DEF Min
<1>5. QED
  BY <1>2, <1>3, <1>4 DEF SameName, Same, Parent

-----------------------------------------------------------------------------
(* Injecting a member keeps the invariant. *)

LEMMA TextKept ==
  ASSUME NodesInv, UNCHANGED <<vars, prog>>
  PROVE  SolverInv' /\ Text'
<1>1. SolverInv'
  BY SolverInvKept DEF NodesInv
<1>2. Text'
  BY DEF NodesInv, Text, vars
<1>3. QED
  BY <1>1, <1>2

\* The names do not change before the last stage.
LEMMA NamesKept ==
  ASSUME NodesInv, UNCHANGED <<vars, prog, unnamed, uname, inherit>>,
         stage \notin {"names", "done"}, stage' # "done"
  PROVE  NamesOK'
<1>1. /\ Members' = Members /\ \A c : SubNodes(c)' = SubNodes(c)
  BY TextStays
<1>2. \A c : Visible(c)' = Visible(c)
  BY <1>1 DEF Visible
<1>3. NamesOK
  BY DEF NodesInv
<1>4. QED
  BY <1>1, <1>2, <1>3 DEF NamesOK

LEMMA AppendToType ==
  ASSUME NodesInv, stage = "inject", todo # <<>>, NEW nodes \in Seq(Members),
         AppendTo(nodes)
  PROVE  result' \in Seq(Members)
BY ChildProps, AppendProperties DEF AppendTo

LEMMA AppendToTodo ==
  ASSUME NodesInv, stage = "inject", todo # <<>>, NEW nodes, AppendTo(nodes)
  PROVE  TodoOK' /\ Arrived' = After
<1>1. /\ UNCHANGED <<vars, prog, cont, stage>> /\ todo' = Tail(todo)
  BY DEF AppendTo
<1>2. /\ \A c : LineOf(c)' = LineOf(c) /\ Declared(c)' = Declared(c)
      /\ \A c, m, x : Nearer(c, m, x)' = Nearer(c, m, x)
  BY <1>1, TextStays
<1>3. Arrived' = After
  BY <1>1, <1>2 DEF Arrived, After
<1>4. /\ cont \in ToSet(topo) /\ cont \in Contracts /\ pc = "ok"
      /\ Child[1] \in ToSet(LineOf(cont))
      /\ Tail(todo) \in Seq(Members) /\ Once(Tail(todo))
      /\ ToSet(todo) = ToSet(Tail(todo)) \cup {Child} /\ Child \notin ToSet(Tail(todo))
      /\ \A m \in ToSet(Tail(todo)) : m[1] = Child[1] \/ Nearer(cont, m, Child)
      /\ \A i, j \in DOMAIN Tail(todo) : i < j =>
           Tail(todo)[i][1] = Tail(todo)[j][1]
             \/ Nearer(cont, Tail(todo)[j], Tail(todo)[i])
  BY ChildProps
<1>5. /\ \A m \in ToSet(todo) : m[1] \in ToSet(LineOf(cont))
      /\ \A x \in ToSet(todo), m \in Arrived :
           m[1] = x[1] \/ Nearer(cont, x, m)
  BY ChildProps DEF NodesInv, TodoOK
<1>6. \A x \in ToSet(Tail(todo)), m \in After :
        m[1] = x[1] \/ Nearer(cont, x, m)
  <2>1. \A m \in After : m \in Arrived \/ m = Child
    BY <1>4 DEF After, Arrived
  <2>2. QED
    BY <1>4, <1>5, <2>1
<1>7. Once(todo')
  BY <1>1, <1>4
<1>8. topo' = topo
  BY <1>1 DEF vars
<1>9. QED
  BY <1>1, <1>2, <1>3, <1>4, <1>5, <1>6, <1>7, <1>8 DEF TodoOK, Once

LEMMA InjectStep ==
  ASSUME NodesInv, stage = "inject", todo # <<>>, NEW nodes \in Seq(Members),
         AppendTo(nodes), errs \subseteq errs',
         NamesApart /\ errs = {} =>
           IF errs' = {} THEN Inherited(result', cont, After) /\ Lawful(cont, After)
                         ELSE ~Lawful(cont, Declared(cont))
  PROVE  NodesInv'
<1>1. /\ UNCHANGED <<vars, prog, virt, topoLeft, cont, inherit, unnamed, uname, stage>>
      /\ todo' = Tail(todo)
  BY DEF AppendTo
<1>2. /\ pc' = pc /\ topo' = topo
  BY <1>1 DEF vars
<1>3. /\ Members' = Members /\ Functions' = Functions /\ \A m : IsVirtual(m)' = IsVirtual(m)
      /\ \A c : Declared(c)' = Declared(c)
      /\ NamesApart' = NamesApart /\ SoundKinds' = SoundKinds
      /\ \A l, c, P : Inherited(l, c, P)' = Inherited(l, c, P)
      /\ \A c, P : Lawful(c, P)' = Lawful(c, P)
  BY <1>1, TextStays
<1>4. SolverInv' /\ Text'
  BY <1>1, TextKept
<1>5. /\ cont \in ToSet(topo) /\ cont # NoContract /\ pc = "ok"
      /\ Tail(todo) \in Seq(Members)
  BY ChildProps
<1>6. NodeTypes'
  <2>1. result' \in Seq(Members)
    BY AppendToType
  <2>2. QED
    BY <1>1, <1>2, <1>3, <1>5, <2>1 DEF NodesInv, NodeTypes
<1>7. Stages'
  BY <1>1, <1>2, <1>3, <1>5 DEF NodesInv, Stages
<1>8. TodoOK' /\ Arrived' = After
  BY AppendToTodo
<1>9. ResultOK'
  <2>1. SUFFICES ASSUME errs' = {}, NamesApart
                 PROVE  Inherited(result, cont, Arrived)' /\ Lawful(cont, Arrived)'
    BY <1>3 DEF ResultOK
  <2>2. Inherited(result', cont, After) /\ Lawful(cont, After)
    BY <2>1
  <2>3. QED
    BY <1>1, <1>3, <1>8, <2>2
<1>10. DoneOK'
  <2>1. errs' = {} => errs = {}
    OBVIOUS
  <2>2. QED
    BY <1>1, <1>2, <1>3, <2>1 DEF NodesInv, DoneOK
<1>11. ErrsOK'
  BY <1>1, <1>2, <1>3, <1>5 DEF NodesInv, ErrsOK
<1>12. NamesOK'
  BY <1>1, NamesKept
<1>13. QED
  BY <1>4, <1>6, <1>7, <1>8, <1>9, <1>10, <1>11, <1>12 DEF NodesInv

\* The list with the child, if it is not a member of the contract itself.
LEMMA AppendedHolds ==
  ASSUME NodesInv, stage = "inject", todo # <<>>, NEW nodes \in Seq(Members),
         AppendTo(nodes), Member(Child).kind # "event", NamesApart,
         Holds(nodes, {m \in Shown(cont, Arrived) : ~Same(Child, m)})
  PROVE  Inherited(result', cont, After)
<1>1. /\ SolverInv /\ pc = "ok" /\ cont \in Contracts /\ Child \in Members
  BY ChildProps DEF NodesInv
<1>2. After = Arrived \cup {Child} /\ Comes(cont, Arrived, Child)
  BY ChildComes
<1>3. Shown(cont, After) = {m \in Shown(cont, Arrived) : ~Same(Child, m)}
                             \cup (IF Child[1] # cont THEN {Child} ELSE {})
  BY <1>1, <1>2, ShownGrows
<1>4. CASE Child[1] # cont
  <2>1. result' = Append(nodes, Child)
    BY <1>4 DEF AppendTo
  <2>2. Holds(Append(nodes, Child),
              {m \in Shown(cont, Arrived) : ~Same(Child, m)} \cup {Child})
    BY <1>1, HoldsMore
  <2>3. QED
    BY <1>3, <1>4, <2>1, <2>2 DEF Inherited
<1>5. CASE Child[1] = cont
  <2>1. result' = nodes
    BY <1>5 DEF AppendTo
  <2>2. QED
    BY <1>3, <1>5, <2>1 DEF Inherited
<1>6. QED
  BY <1>4, <1>5

\* An event changes nothing that is seen.
LEMMA EventHolds ==
  ASSUME NodesInv, stage = "inject", todo # <<>>, AppendTo(result),
         Member(Child).kind = "event", NamesApart, errs = {}
  PROVE  Inherited(result', cont, After) /\ Lawful(cont, After)
<1>1. Inherited(result, cont, Arrived) /\ Lawful(cont, Arrived)
  BY ChildProps DEF NodesInv, ResultOK
<1>2. After = Arrived
  BY ChildComes
<1>3. result \in Seq(Members) /\ Child \in Members
  BY ChildProps DEF NodesInv, NodeTypes
<1>4. Holds(Append(result, Child), Shown(cont, Arrived))
  BY <1>1, <1>3, HoldsEvent DEF Inherited
<1>5. QED
  BY <1>1, <1>2, <1>4 DEF AppendTo, Inherited

LEMMA InjectNewKept ==
  ASSUME NodesInv, InjectNew
  PROVE  NodesInv'
<1>1. stage = "inject" /\ todo # <<>> /\ AppendTo(result) /\ errs' = errs
  BY DEF InjectNew, Injecting
<1>2. SameName = {}
  <2>1. SUFFICES ASSUME SameName # {} PROVE FALSE
    OBVIOUS
  <2>2. Parent \in Members /\ Member(Parent).kind = "none"
    BY <1>1, <2>1, ParentProps DEF InjectNew, Injecting
  <2>3. QED
    BY <2>2, MemberProps, DeclProps DEF NodesInv
<1>3. result \in Seq(Members)
  BY DEF NodesInv, NodeTypes
<1>4. ASSUME NamesApart, errs = {}
      PROVE  Inherited(result', cont, After) /\ Lawful(cont, After)
  <2>1. Inherited(result, cont, Arrived) /\ Lawful(cont, Arrived)
    BY <1>1, <1>4, ChildProps DEF NodesInv, ResultOK
  <2>2. CASE Member(Child).kind = "event"
    BY <1>1, <1>4, <2>2, EventHolds
  <2>3. CASE Member(Child).kind # "event"
    <3>1. \A i \in DOMAIN result : ~Same(Child, result[i])
      BY <1>1, <1>2, ParentProps
    <3>2. \A m \in Shown(cont, Arrived) : ~Same(Child, m)
      BY <2>1, <3>1 DEF Inherited, Holds, Solid
    <3>3. Holds(result, {m \in Shown(cont, Arrived) : ~Same(Child, m)})
      <4>1. {m \in Shown(cont, Arrived) : ~Same(Child, m)} = Shown(cont, Arrived)
        BY <3>2
      <4>2. QED
        BY <2>1, <4>1 DEF Inherited
    <3>4. Inherited(result', cont, After)
      BY <1>1, <1>3, <1>4, <2>3, <3>3, AppendedHolds
    <3>5. /\ After = Arrived \cup {Child} /\ Comes(cont, Arrived, Child)
          /\ SolverInv /\ pc = "ok" /\ cont \in Contracts
      BY <1>1, <2>3, ChildComes, ChildProps DEF NodesInv
    <3>6. \A m \in Arrived : ~Same(Child, m)
      BY <1>4, <3>2, <3>5, NearestIsShown
    <3>7. Lawful(cont, After)
      BY <1>4, <2>1, <3>5, <3>6, LawfulNew
    <3>8. QED
      BY <3>4, <3>7
  <2>4. QED
    BY <2>2, <2>3
<1>5. QED
  BY <1>1, <1>3, <1>4, InjectStep

LEMMA InjectBesideKept ==
  ASSUME NodesInv, InjectBeside
  PROVE  NodesInv'
<1>1. stage = "inject" /\ todo # <<>> /\ AppendTo(result) /\ errs' = errs
  BY DEF InjectBeside, Injecting
<1>2. SameName # {} /\ Member(Parent).kind = "event"
  BY DEF InjectBeside, Injecting
<1>3. result \in Seq(Members)
  BY DEF NodesInv, NodeTypes
<1>4. ASSUME NamesApart, errs = {}
      PROVE  Inherited(result', cont, After) /\ Lawful(cont, After)
  <2>1. Same(Child, Parent) /\ Parent \in Members /\ Child \in Members
    BY <1>1, <1>2, ParentProps, ChildProps DEF Parent
  <2>2. Member(Child).kind = "event"
    BY <1>2, <1>4, <2>1 DEF NamesApart
  <2>3. QED
    BY <1>1, <1>4, <2>2, EventHolds
<1>5. QED
  BY <1>1, <1>3, <1>4, InjectStep

\* The child that meets a declaration redeclares it.
LEMMA ParentIsRedeclared ==
  ASSUME NodesInv, stage = "inject", todo # <<>>, NamesApart, errs = {},
         SameName # {}, Member(Parent).kind # "event"
  PROVE  /\ Member(Child).kind # "event" /\ Comes(cont, Arrived, Child)
         /\ After = Arrived \cup {Child}
         /\ Min(SameName) \in Solid(result) /\ Same(Child, Parent)
         /\ Nearest(cont, Arrived, Child, Parent)
         /\ Redeclares(cont, Child, Parent)
         /\ Parent \in Declared(cont) /\ Child \in Declared(cont)
<1>1. /\ Same(Child, Parent) /\ Parent \in Members /\ Child \in Members
      /\ Min(SameName) \in DOMAIN result
  BY ParentProps, ChildProps DEF Parent
<1>2. Member(Child).kind # "event"
  BY <1>1 DEF NamesApart
<1>3. /\ After = Arrived \cup {Child} /\ Comes(cont, Arrived, Child)
      /\ SolverInv /\ pc = "ok" /\ cont \in Contracts
  BY <1>2, ChildComes, ChildProps DEF NodesInv
<1>4. Min(SameName) \in Solid(result)
  BY <1>1 DEF Solid, Parent
<1>5. Inherited(result, cont, Arrived)
  BY ChildProps DEF NodesInv, ResultOK
<1>6. Parent \in Shown(cont, Arrived)
  BY <1>4, <1>5 DEF Inherited, Holds, Parent
<1>7. Nearest(cont, Arrived, Child, Parent)
  BY <1>1, <1>3, <1>6, NearestIsShown
<1>8. Redeclares(cont, Child, Parent)
  BY <1>3, <1>7, LawfulOver
<1>9. Parent \in Declared(cont) /\ Child \in Declared(cont)
  BY <1>3, <1>7 DEF Nearest, Comes
<1>10. QED
  BY <1>1, <1>2, <1>3, <1>4, <1>7, <1>8, <1>9

LEMMA InjectOverVarKept ==
  ASSUME NodesInv, InjectOverVar
  PROVE  NodesInv'
<1>1. /\ stage = "inject" /\ todo # <<>> /\ AppendTo(result)
      /\ errs \subseteq errs' /\ errs' # {}
  BY DEF InjectOverVar, Injecting
<1>2. SameName # {} /\ Member(Parent).kind = "var"
  BY DEF InjectOverVar, Injecting
<1>3. result \in Seq(Members)
  BY DEF NodesInv, NodeTypes
<1>4. ASSUME NamesApart, errs = {} PROVE ~Lawful(cont, Declared(cont))
  <2>1. /\ Redeclares(cont, Child, Parent)
        /\ Parent \in Declared(cont) /\ Child \in Declared(cont)
    BY <1>1, <1>2, <1>4, ParentIsRedeclared
  <2>2. ~Licensed(Parent, Child)
    BY <1>2 DEF Licensed
  <2>3. QED
    BY <2>1, <2>2 DEF Lawful
<1>5. QED
  BY <1>1, <1>3, <1>4, InjectStep

\* The checks of an override find what it lacks.
LEMMA OverrideChecks ==
  ASSUME NodesInv, InjectOverride, SameName # {}
  PROVE  errs' = {} <=> errs = {} /\ Licensed(Parent, Child)
<1>1. stage = "inject" /\ todo # <<>>
  BY DEF InjectOverride, Injecting
<1>. DEFINE p == Member(Parent)
            c == Member(Child)
<1>2. p.kind = "fun" /\ c.kind = "fun"
  BY DEF InjectOverride, Injecting
<1>3. Parent \in Members /\ Child \in Members
  BY <1>1, ParentProps, ChildProps
<1>4. p \in Decls /\ c \in Decls
  BY <1>3, MemberProps DEF NodesInv
<1>5. /\ c.override \in BOOLEAN
      /\ p.mut \in {"nonpayable", "view", "pure", "payable"}
      /\ c.mut \in {"nonpayable", "view", "pure", "payable"}
  BY <1>2, <1>4, DeclProps
<1>6. Parent \in virt <=> IsVirtual(Parent)
  BY <1>1, <1>2, <1>3 DEF NodesInv, Stages, Functions
<1>7. c.mut \in MayBecome[p.mut] <=>
        \/ p.mut = c.mut
        \/ p.mut # "payable" /\ c.mut = "pure"
        \/ p.mut = "nonpayable" /\ c.mut = "view"
  BY <1>5 DEF MayBecome
<1>8. errs' = errs \cup If(~c.override, Error("override_missing", Child))
                 \cup If(Parent \notin virt, Error("virtual_missing", Parent))
                 \cup If(~VisibilityMatches(p.vis, c.vis), Error("visibility", Child))
                 \cup If(c.mut \notin MayBecome[p.mut], Error("mutability", Child))
  BY DEF InjectOverride
<1>9. /\ If(~c.override, Error("override_missing", Child)) = {} <=> c.override
      /\ If(Parent \notin virt, Error("virtual_missing", Parent)) = {} <=> Parent \in virt
      /\ If(~VisibilityMatches(p.vis, c.vis), Error("visibility", Child)) = {}
            <=> VisibilityMatches(p.vis, c.vis)
      /\ If(c.mut \notin MayBecome[p.mut], Error("mutability", Child)) = {}
            <=> c.mut \in MayBecome[p.mut]
  BY DEF If
<1>10. Licensed(Parent, Child) <=>
         /\ IsVirtual(Parent) /\ c.override /\ VisibilityMatches(p.vis, c.vis)
         /\ \/ p.mut = c.mut
            \/ p.mut # "payable" /\ c.mut = "pure"
            \/ p.mut = "nonpayable" /\ c.mut = "view"
  BY <1>2 DEF Licensed, VisibilityMatches
<1>. HIDE DEF p, c
<1>11. QED
  BY <1>6, <1>7, <1>8, <1>9, <1>10

LEMMA InjectOverrideKept ==
  ASSUME NodesInv, InjectOverride
  PROVE  NodesInv'
<1>. DEFINE k == Min(SameName)
            nodes == RemoveAt(result, k)
<1>1. /\ stage = "inject" /\ todo # <<>> /\ AppendTo(nodes)
      /\ errs \subseteq errs'
  BY DEF InjectOverride, Injecting
<1>2. SameName # {} /\ Member(Parent).kind = "fun"
  BY DEF InjectOverride, Injecting
<1>3. /\ result \in Seq(Members) /\ k \in DOMAIN result /\ nodes \in Seq(Members)
  BY <1>1, <1>2, ParentProps, RemoveAtProps DEF NodesInv, NodeTypes
<1>4. errs' = {} <=> errs = {} /\ Licensed(Parent, Child)
  BY <1>2, OverrideChecks
<1>5. ASSUME NamesApart, errs = {}
      PROVE  IF errs' = {} THEN Inherited(result', cont, After) /\ Lawful(cont, After)
                           ELSE ~Lawful(cont, Declared(cont))
  <2>1. /\ Member(Child).kind # "event" /\ Comes(cont, Arrived, Child)
        /\ After = Arrived \cup {Child}
        /\ k \in Solid(result) /\ Same(Child, Parent)
        /\ Nearest(cont, Arrived, Child, Parent)
        /\ Redeclares(cont, Child, Parent)
        /\ Parent \in Declared(cont) /\ Child \in Declared(cont)
    BY <1>1, <1>2, <1>5, ParentIsRedeclared
  <2>2. /\ Inherited(result, cont, Arrived) /\ Lawful(cont, Arrived)
        /\ SolverInv /\ pc = "ok" /\ cont \in Contracts
    BY <1>1, <1>5, ChildProps DEF NodesInv, ResultOK
  <2>3. Holds(nodes, {m \in Shown(cont, Arrived) : ~Same(Child, m)})
    BY <1>3, <2>1, <2>2, HoldsLess DEF Inherited, Parent
  <2>4. Inherited(result', cont, After)
    BY <1>1, <1>3, <1>5, <2>1, <2>3, AppendedHolds
  <2>5. CASE errs' = {}
    <3>1. Lawful(cont, After)
      BY <1>4, <1>5, <2>1, <2>2, <2>5, LawfulOver
    <3>2. QED
      BY <2>4, <2>5, <3>1
  <2>6. CASE errs' # {}
    BY <1>4, <1>5, <2>1, <2>6 DEF Lawful
  <2>7. QED
    BY <2>5, <2>6
<1>. HIDE DEF nodes
<1>6. QED
  BY <1>1, <1>3, <1>5, InjectStep

-----------------------------------------------------------------------------
(* The loop around it. *)

\* The members of a linearisation, those of the most basic contract first.
LEMMA CollectedProps ==
  ASSUME Text, SolverInv, pc = "ok", NEW c \in ToSet(topo), c \in Contracts, NEW t,
         t = FlattenSeq([i \in DOMAIN resolved[c] |-> SubNodes(Reverse(resolved[c])[i])])
  PROVE  /\ t \in Seq(Members) /\ Once(t)
         /\ \A m : m \in ToSet(t) <=> m \in Members /\ m[1] \in ToSet(LineOf(c))
         /\ \A i, j \in DOMAIN t : i < j =>
              t[i][1] = t[j][1] \/ Nearer(c, t[j], t[i])
<1>. DEFINE l == LineOf(c)
            r == Reverse(l)
            n == Len(l)
            ss == [i \in DOMAIN l |-> SubNodes(r[i])]
<1>1. l \in Seq(Contracts) /\ l # <<>> /\ Once(l) /\ l = resolved[c]
  BY LineProps
<1>2. n \in Nat \ {0} /\ DOMAIN l = 1..n /\ \A i \in 1..n : l[i] \in Contracts
  BY <1>1, EmptySeq, LenProperties, ElementOfSeq
<1>3. \A i \in 1..n : r[i] = l[n - i + 1] /\ n - i + 1 \in 1..n
  BY <1>2 DEF Reverse
<1>4. \A i \in 1..n : ss[i] = SubNodes(r[i]) /\ ss[i] \in Seq(Members) /\ r[i] \in Contracts
  BY <1>2, <1>3, MemberProps
<1>5. ss \in Seq(Seq(Members)) /\ ss # <<>> /\ Len(ss) = n
  <2>1. ss = [i \in 1..n |-> ss[i]]
    BY <1>2
  <2>2. ss \in Seq(Seq(Members)) /\ Len(ss) = n
    BY <1>2, <1>4, <2>1
  <2>3. QED
    BY <1>2, <2>2
<1>6. t = FlattenSeq(ss)
  BY <1>1
<1>. HIDE DEF l, r, n, ss
<1>7. t \in Seq(Members) /\ \E w : Joins(ss, n, t, w)
  BY <1>5, <1>6, FlattenProps
<1>8. PICK w : Joins(ss, n, t, w)
  BY <1>7
<1>9. DOMAIN t \subseteq Nat
  BY <1>7, LenProperties
<1>10. ASSUME NEW k \in 1..n, NEW j \in DOMAIN ss[k]
       PROVE  ss[k][j] = <<r[k], j>> /\ j \in Nat
  <2>1. ss[k] = SubNodes(r[k]) /\ ss[k] \in Seq(Members)
    BY <1>4
  <2>2. j \in Nat
    BY <2>1, LenProperties
  <2>3. QED
    BY <2>1, <2>2 DEF SubNodes
<1>11. \A i \in DOMAIN t : /\ w[i][1] \in 1..n /\ w[i][2] \in DOMAIN ss[w[i][1]]
                           /\ t[i] = <<r[w[i][1]], w[i][2]>> /\ w[i][2] \in Nat
  BY <1>8, <1>10 DEF Joins
<1>12. ASSUME NEW i \in DOMAIN t, NEW j \in DOMAIN t, i < j
       PROVE  /\ t[i] # t[j]
              /\ t[i][1] = t[j][1] \/ Nearer(c, t[j], t[i])
  <2>1. CASE w[i][1] < w[j][1]
    <3>1. /\ t[i][1] = l[n - w[i][1] + 1] /\ t[j][1] = l[n - w[j][1] + 1]
          /\ n - w[i][1] + 1 \in DOMAIN l /\ n - w[j][1] + 1 \in DOMAIN l
      BY <1>2, <1>3, <1>11
    <3>2. n - w[j][1] + 1 < n - w[i][1] + 1
      BY <1>2, <1>11, <2>1
    <3>3. Nearer(c, t[j], t[i])
      BY <3>1, <3>2 DEF Nearer, Before, l
    <3>4. QED
      BY <3>3, NearerProps
  <2>2. CASE w[i][1] = w[j][1] /\ w[i][2] < w[j][2]
    <3>1. w[i][2] # w[j][2]
      BY <1>11, <2>2
    <3>2. QED
      BY <1>11, <2>2, <3>1
  <2>3. QED
    BY <1>8, <1>12, <2>1, <2>2 DEF Joins
<1>13. Once(t)
  <2>1. \A i, j \in DOMAIN t : i = j \/ i < j \/ j < i
    BY <1>9
  <2>2. QED
    BY <1>12, <2>1 DEF Once
<1>14. ASSUME NEW m \in ToSet(t)
       PROVE  m \in Members /\ m[1] \in ToSet(LineOf(c))
  <2>1. PICK i \in DOMAIN t : t[i] = m
    BY DEF ToSet
  <2>2. m \in Members
    BY <1>7, <2>1, LenProperties
  <2>3. w[i][1] \in 1..n /\ m[1] = r[w[i][1]]
    BY <1>11, <2>1
  <2>4. \E k \in DOMAIN l : m[1] = l[k]
    BY <1>2, <1>3, <2>3
  <2>5. QED
    BY <2>2, <2>4 DEF ToSet, l
<1>15. ASSUME NEW m \in Members, m[1] \in ToSet(LineOf(c))
       PROVE  m \in ToSet(t)
  <2>1. PICK k \in 1..n : l[k] = m[1]
    BY <1>2, <1>15 DEF ToSet, l
  <2>2. n - k + 1 \in 1..n /\ r[n - k + 1] = m[1]
    <3>1. n - k + 1 \in 1..n /\ n - (n - k + 1) + 1 = k
      BY <1>2
    <3>2. QED
      BY <1>3, <2>1, <3>1
  <2>3. m[1] \in Contracts /\ m \in ToSet(SubNodes(m[1]))
    BY MemberProps
  <2>4. PICK j \in DOMAIN ss[n - k + 1] : ss[n - k + 1][j] = m
    BY <1>4, <2>2, <2>3 DEF ToSet
  <2>5. PICK i \in DOMAIN t : w[i][1] = n - k + 1 /\ w[i][2] = j
    BY <1>8, <2>2 DEF Joins
  <2>6. t[i] = m
    BY <1>8, <2>4, <2>5 DEF Joins
  <2>7. QED
    BY <2>6 DEF ToSet
<1>16. QED
  BY <1>7, <1>12, <1>13, <1>14, <1>15

LEMMA NextContractKept ==
  ASSUME NodesInv, NextContract
  PROVE  NodesInv'
<1>1. /\ stage = "inject" /\ cont = NoContract /\ topoLeft # <<>>
      /\ cont' = Head(topoLeft) /\ topoLeft' = Tail(topoLeft) /\ result' = <<>>
      /\ todo' = FlattenSeq([i \in DOMAIN resolved[cont'] |->
                               SubNodes(Reverse(resolved[cont'])[i])])
      /\ UNCHANGED <<vars, prog, virt, errs, inherit, unnamed, uname, stage>>
  BY DEF NextContract
<1>2. /\ pc' = pc /\ topo' = topo
  BY <1>1 DEF vars
<1>3. /\ Members' = Members /\ Functions' = Functions /\ \A m : IsVirtual(m)' = IsVirtual(m)
      /\ \A c : Declared(c)' = Declared(c) /\ LineOf(c)' = LineOf(c)
      /\ \A c, m, x : Nearer(c, m, x)' = Nearer(c, m, x)
      /\ NamesApart' = NamesApart /\ SoundKinds' = SoundKinds
      /\ \A l, c, P : Inherited(l, c, P)' = Inherited(l, c, P)
      /\ \A c, P : Lawful(c, P)' = Lawful(c, P)
  BY <1>1, TextStays
<1>4. SolverInv' /\ Text'
  BY <1>1, TextKept
<1>5. /\ topoLeft' \in Seq(Contracts) /\ cont' \in Contracts
      /\ ToSet(topoLeft) = ToSet(topoLeft') \cup {cont'}
      /\ ToSet(topoLeft) \subseteq ToSet(topo)
  BY <1>1, TailElements DEF NodesInv, NodeTypes
<1>6. pc = "ok" /\ SolverInv /\ Text
  BY <1>1 DEF NodesInv, Stages
<1>7. /\ todo' \in Seq(Members) /\ Once(todo')
      /\ \A m : m \in ToSet(todo') <=> m \in Members /\ m[1] \in ToSet(LineOf(cont'))
      /\ \A i, j \in DOMAIN todo' : i < j =>
           todo'[i][1] = todo'[j][1] \/ Nearer(cont', todo'[j], todo'[i])
  <2>1. PICK c : c = cont'
    OBVIOUS
  <2>2. PICK t : t = todo'
    OBVIOUS
  <2>3. /\ c \in ToSet(topo) /\ c \in Contracts
        /\ t = FlattenSeq([i \in DOMAIN resolved[c] |->
                             SubNodes(Reverse(resolved[c])[i])])
    BY <1>1, <1>5, <2>1, <2>2
  <2>4. /\ t \in Seq(Members) /\ Once(t)
        /\ \A m : m \in ToSet(t) <=> m \in Members /\ m[1] \in ToSet(LineOf(c))
        /\ \A i, j \in DOMAIN t : i < j =>
             t[i][1] = t[j][1] \/ Nearer(c, t[j], t[i])
    BY <1>6, <2>3, CollectedProps
  <2>5. QED
    BY <2>1, <2>2, <2>4
<1>8. Arrived' = {}
  BY <1>3, <1>7 DEF Arrived, Declared
<1>9. NodeTypes'
  BY <1>1, <1>2, <1>3, <1>5, <1>7 DEF NodesInv, NodeTypes
<1>10. Stages'
  <2>1. cont' # NoContract
    BY <1>5, NoContractAssumption
  <2>2. QED
    BY <1>1, <1>2, <1>3, <1>6, <2>1 DEF NodesInv, Stages
<1>11. TodoOK'
  BY <1>2, <1>3, <1>5, <1>7, <1>8 DEF TodoOK, Once
<1>12. ResultOK'
  <2>1. Shown(cont', {}) = {} /\ Solid(<<>>) = {}
    BY DEF Shown, Solid
  <2>2. Inherited(<<>>, cont', {})
    BY <2>1 DEF Inherited, Holds
  <2>3. Lawful(cont', {})
    BY DEF Lawful
  <2>4. QED
    BY <1>1, <1>3, <1>8, <2>2, <2>3 DEF ResultOK
<1>13. DoneOK'
  <2>1. NoContract \notin ToSet(topo)
    BY <1>6, NoContractAssumption DEF SolverInv, Types, ToSet
  <2>2. QED
    BY <1>1, <1>2, <1>3, <1>5, <2>1 DEF NodesInv, DoneOK
<1>14. ErrsOK'
  BY <1>1, <1>2, <1>3 DEF NodesInv, ErrsOK
<1>15. NamesOK'
  BY <1>1, NamesKept
<1>16. QED
  BY <1>4, <1>9, <1>10, <1>11, <1>12, <1>13, <1>14, <1>15 DEF NodesInv

LEMMA EndContractKept ==
  ASSUME NodesInv, EndContract
  PROVE  NodesInv'
<1>1. /\ stage = "inject" /\ cont # NoContract /\ todo = <<>> /\ cont' = NoContract
      /\ inherit' = [inherit EXCEPT ![cont] = result]
      /\ UNCHANGED <<vars, prog, virt, errs, topoLeft, todo, result, unnamed, uname, stage>>
  BY DEF EndContract
<1>2. /\ pc' = pc /\ topo' = topo
  BY <1>1 DEF vars
<1>3. /\ Members' = Members /\ Functions' = Functions /\ \A m : IsVirtual(m)' = IsVirtual(m)
      /\ \A c : Declared(c)' = Declared(c)
      /\ NamesApart' = NamesApart /\ SoundKinds' = SoundKinds
      /\ \A l, c, P : Inherited(l, c, P)' = Inherited(l, c, P)
      /\ \A c, P : Lawful(c, P)' = Lawful(c, P)
  BY <1>1, TextStays
<1>4. SolverInv' /\ Text'
  BY <1>1, TextKept
<1>5. /\ inherit \in [Contracts -> Seq(Members)] /\ result \in Seq(Members)
      /\ cont \in Contracts /\ cont \in ToSet(topo) /\ pc = "ok"
  BY <1>1 DEF NodesInv, NodeTypes, Stages, TodoOK
<1>6. NodeTypes'
  BY <1>1, <1>2, <1>3, <1>5 DEF NodesInv, NodeTypes
<1>7. \A c \in Contracts : inherit'[c] = IF c = cont THEN result ELSE inherit[c]
  BY <1>1, <1>5
<1>8. Stages'
  BY <1>1, <1>2, <1>3, <1>5, <1>7 DEF NodesInv, Stages
<1>9. TodoOK' /\ ResultOK'
  BY <1>1 DEF TodoOK, ResultOK
<1>10. Arrived = Declared(cont)
  BY <1>1 DEF Arrived, ToSet
<1>11. DoneOK'
  <2>1. SUFFICES ASSUME errs = {}, NamesApart, NEW c \in ToSet(topo)
                 PROVE  \/ c \in ToSet(topoLeft)
                        \/ Inherited(inherit'[c], c, Declared(c)) /\ Lawful(c, Declared(c))
    BY <1>1, <1>2, <1>3 DEF DoneOK
  <2>2. c \in Contracts
    BY DEF NodesInv, SolverInv, Types, ToSet
  <2>3. CASE c = cont
    BY <1>1, <1>7, <1>10, <2>1, <2>2, <2>3 DEF NodesInv, ResultOK
  <2>4. CASE c # cont
    BY <1>1, <1>5, <1>7, <2>1, <2>2, <2>4 DEF NodesInv, DoneOK
  <2>5. QED
    BY <2>3, <2>4
<1>12. ErrsOK'
  BY <1>1, <1>2, <1>3 DEF NodesInv, ErrsOK
<1>13. NamesOK'
  BY <1>1, <1>3 DEF NodesInv, NamesOK
<1>14. QED
  BY <1>4, <1>6, <1>8, <1>9, <1>11, <1>12, <1>13 DEF NodesInv

-----------------------------------------------------------------------------
(* The other steps. *)

LEMMA ResolveKept ==
  ASSUME NodesInv, Resolve
  PROVE  NodesInv'
<1>1. /\ stage = "solve" /\ pc # "solve"
      /\ stage' = IF pc = "ok" THEN "kinds" ELSE "names"
      /\ UNCHANGED <<vars, prog, virt, errs, topoLeft, cont, todo, result, inherit,
                     unnamed, uname>>
  BY DEF Resolve
<1>2. /\ pc' = pc /\ topo' = topo
  BY <1>1 DEF vars
<1>3. /\ Members' = Members /\ Functions' = Functions /\ \A m : Member(m)' = Member(m)
  BY <1>1, TextStays
<1>4. SolverInv' /\ Text'
  BY <1>1, TextKept
<1>5. NodeTypes'
  BY <1>1, <1>2, <1>3 DEF NodesInv, NodeTypes
<1>6. Stages'
  BY <1>1, <1>2, <1>3 DEF NodesInv, Stages
<1>7. TodoOK' /\ ResultOK' /\ DoneOK' /\ ErrsOK'
  BY <1>1, <1>2 DEF TodoOK, ResultOK, DoneOK, ErrsOK
<1>8. NamesOK'
  BY <1>1, NamesKept
<1>9. QED
  BY <1>4, <1>5, <1>6, <1>7, <1>8 DEF NodesInv

\* DeclContractKindChecker finds what is unsound.
LEMMA KindsChecks ==
  ASSUME NodesInv, CheckKinds
  PROVE  /\ virt' = {m \in Functions : IsVirtual(m)}
         /\ errs' = {} <=> SoundKinds
<1>. DEFINE own == {m \in Functions : m[1] \in Interfaces}
            v   == virt \cup own
            A1 == {d \in Interfaces : ~(ToSet(bases[d]) \subseteq Interfaces)}
            A2 == {f \in own : Member(f).vis # "external"}
            A3 == Interfaces \cap prog.ctors
            A4 == {x \in Members : x[1] \in Interfaces /\ Member(x).kind = "var"}
            A5 == {f \in v : Member(f).vis = "private"}
<1>1. errs = {} /\ virt = {m \in Functions : Member(m).virtual}
  BY DEF CheckKinds, NodesInv, Stages
<1>2. v = {m \in Functions : IsVirtual(m)}
  BY <1>1 DEF IsVirtual
<1>3. virt' = v
  BY DEF CheckKinds
<1>4. errs' = {Error("interface_base", <<c, 0>>) : c \in A1}
          \cup {Error("interface_not_external", m) : m \in A2}
          \cup {Error("interface_ctor", <<c, 0>>) : c \in A3}
          \cup {Error("interface_var", m) : m \in A4}
          \cup {Error("private_virtual", m) : m \in A5}
  BY <1>1 DEF CheckKinds
<1>5. errs' = {} <=> A1 = {} /\ A2 = {} /\ A3 = {} /\ A4 = {} /\ A5 = {}
  <2>. HIDE DEF A1, A2, A3, A4, A5
  <2>1. QED
    BY <1>4
<1>6. SoundKinds <=> A1 = {} /\ A2 = {} /\ A3 = {} /\ A4 = {} /\ A5 = {}
  <2>1. A5 = {} <=> \A m \in Functions : Member(m).vis = "private" => ~IsVirtual(m)
    BY <1>2
  <2>2. (\A c \in Interfaces : SoundInterface(c)) <=>
          A1 = {} /\ A2 = {} /\ A3 = {} /\ A4 = {}
    BY DEF SoundInterface
  <2>3. QED
    BY <2>1, <2>2 DEF SoundKinds
<1>7. QED
  BY <1>2, <1>3, <1>5, <1>6

LEMMA CheckKindsKept ==
  ASSUME NodesInv, CheckKinds
  PROVE  NodesInv'
<1>1. /\ stage = "kinds" /\ stage' = "inject" /\ topoLeft' = topo
      /\ UNCHANGED <<vars, prog, cont, todo, result, inherit, unnamed, uname>>
  BY DEF CheckKinds
<1>2. /\ pc' = pc /\ topo' = topo
  BY <1>1 DEF vars
<1>3. /\ Members' = Members /\ Functions' = Functions /\ \A m : IsVirtual(m)' = IsVirtual(m)
      /\ NamesApart' = NamesApart /\ SoundKinds' = SoundKinds
  BY <1>1, TextStays
<1>4. SolverInv' /\ Text'
  BY <1>1, TextKept
<1>5. pc = "ok" /\ cont = NoContract /\ topo \in Seq(Contracts)
  BY <1>1 DEF NodesInv, Stages, SolverInv, Types
<1>6. NodeTypes'
  BY <1>1, <1>2, <1>3, <1>5 DEF NodesInv, NodeTypes
<1>7. Stages'
  BY <1>1, <1>2, <1>3, <1>5, KindsChecks DEF NodesInv, Stages
<1>8. TodoOK' /\ ResultOK'
  BY <1>1, <1>5 DEF TodoOK, ResultOK
<1>9. DoneOK'
  BY <1>1, <1>2 DEF DoneOK
<1>10. ErrsOK'
  BY <1>1, <1>3, KindsChecks DEF ErrsOK
<1>11. NamesOK'
  BY <1>1, NamesKept
<1>12. QED
  BY <1>4, <1>6, <1>7, <1>8, <1>9, <1>10, <1>11 DEF NodesInv

LEMMA InjectedKept ==
  ASSUME NodesInv, Injected
  PROVE  NodesInv'
<1>1. /\ stage = "inject" /\ cont = NoContract /\ topoLeft = <<>> /\ stage' = "names"
      /\ UNCHANGED <<vars, prog, virt, errs, topoLeft, cont, todo, result, inherit,
                     unnamed, uname>>
  BY DEF Injected
<1>2. /\ pc' = pc /\ topo' = topo
  BY <1>1 DEF vars
<1>3. /\ Members' = Members /\ \A c : Declared(c)' = Declared(c)
      /\ NamesApart' = NamesApart /\ SoundKinds' = SoundKinds
      /\ \A l, c, P : Inherited(l, c, P)' = Inherited(l, c, P)
      /\ \A c, P : Lawful(c, P)' = Lawful(c, P)
  BY <1>1, TextStays
<1>4. SolverInv' /\ Text'
  BY <1>1, TextKept
<1>5. NodeTypes'
  BY <1>1, <1>2, <1>3 DEF NodesInv, NodeTypes
<1>6. Stages'
  BY <1>1, <1>2 DEF NodesInv, Stages
<1>7. TodoOK' /\ ResultOK'
  BY <1>1 DEF TodoOK, ResultOK
<1>8. DoneOK' /\ ErrsOK'
  BY <1>1, <1>2, <1>3 DEF NodesInv, DoneOK, ErrsOK
<1>9. NamesOK'
  BY <1>1, NamesKept
<1>10. QED
  BY <1>4, <1>5, <1>6, <1>7, <1>8, <1>9 DEF NodesInv

LEMMA OverrideByOtherKept ==
  ASSUME NodesInv, OverrideByOther
  PROVE  NodesInv'
<1>1. /\ stage = "inject" /\ stage' = "undefined"
      /\ UNCHANGED <<vars, prog, virt, errs, topoLeft, cont, todo, result, inherit,
                     unnamed, uname>>
  BY DEF OverrideByOther, Injecting
<1>2. /\ pc' = pc /\ topo' = topo
  BY <1>1 DEF vars
<1>3. Members' = Members
  BY <1>1, TextStays
<1>4. SolverInv' /\ Text'
  BY <1>1, TextKept
<1>5. NodeTypes'
  BY <1>1, <1>2, <1>3 DEF NodesInv, NodeTypes
<1>6. Stages'
  BY <1>1, <1>2 DEF NodesInv, Stages
<1>7. TodoOK' /\ ResultOK' /\ DoneOK' /\ ErrsOK'
  BY <1>1 DEF TodoOK, ResultOK, DoneOK, ErrsOK
<1>8. NamesOK'
  BY <1>1, NamesKept
<1>9. QED
  BY <1>4, <1>5, <1>6, <1>7, <1>8 DEF NodesInv

LEMMA VisibleProps ==
  ASSUME NodesInv, NEW c \in Contracts
  PROVE  /\ Visible(c) \in Seq(Members)
         /\ ToSet(Visible(c)) = ToSet(inherit[c]) \cup ToSet(SubNodes(c))
         /\ Visible(c) = <<>> => ToSet(Visible(c)) = {}
<1>. DEFINE a == inherit[c]
            b == SubNodes(c)
<1>1. a \in Seq(Members) /\ b \in Seq(Members)
  BY MemberProps DEF NodesInv, NodeTypes
<1>2. Visible(c) = a \o b
  BY DEF Visible
<1>. HIDE DEF a, b
<1>3. /\ a \o b \in Seq(Members) /\ Len(a \o b) = Len(a) + Len(b)
      /\ \A i \in 1..(Len(a) + Len(b)) :
           (a \o b)[i] = IF i <= Len(a) THEN a[i] ELSE b[i - Len(a)]
  BY <1>1, ConcatProperties
<1>4. /\ Len(a) \in Nat /\ DOMAIN a = 1..Len(a) /\ Len(b) \in Nat /\ DOMAIN b = 1..Len(b)
      /\ DOMAIN (a \o b) = 1..(Len(a) + Len(b))
  BY <1>1, <1>3, LenProperties
<1>5. ToSet(a \o b) \subseteq ToSet(a) \cup ToSet(b)
  <2>1. ASSUME NEW i \in DOMAIN (a \o b)
        PROVE  (\E j \in DOMAIN a : (a \o b)[i] = a[j])
                 \/ \E j \in DOMAIN b : (a \o b)[i] = b[j]
    <3>1. CASE i <= Len(a)
      BY <1>3, <1>4, <3>1
    <3>2. CASE i > Len(a)
      <4>1. i - Len(a) \in DOMAIN b
        BY <1>4, <3>2
      <4>2. QED
        BY <1>3, <1>4, <3>2, <4>1
    <3>3. QED
      BY <1>4, <3>1, <3>2
  <2>2. QED
    BY <2>1 DEF ToSet
<1>6. ToSet(a) \cup ToSet(b) \subseteq ToSet(a \o b)
  <2>1. \A j \in DOMAIN a : j \in DOMAIN (a \o b) /\ (a \o b)[j] = a[j]
    BY <1>3, <1>4
  <2>2. \A j \in DOMAIN b : j + Len(a) \in DOMAIN (a \o b) /\ (a \o b)[j + Len(a)] = b[j]
    BY <1>3, <1>4
  <2>3. QED
    BY <2>1, <2>2 DEF ToSet
<1>7. ToSet(<<>>) = {}
  BY DEF ToSet
<1>8. QED
  BY <1>2, <1>3, <1>5, <1>6, <1>7 DEF a, b

LEMMA NameMembersKept ==
  ASSUME NodesInv, NameMembers
  PROVE  NodesInv'
<1>1. /\ stage = "names" /\ stage' = "names"
      /\ UNCHANGED <<vars, prog, virt, errs, topoLeft, cont, todo, result, inherit>>
  BY DEF NameMembers
<1>2. PICK c \in unnamed :
        /\ uname' = [m \in Members |-> IF m \in ToSet(Visible(c)) THEN c ELSE uname[m]]
        /\ unnamed' = unnamed \ {c}
  BY DEF NameMembers
<1>3. /\ pc' = pc /\ topo' = topo
  BY <1>1 DEF vars
<1>4. /\ Members' = Members /\ \A d : SubNodes(d)' = SubNodes(d) /\ Declared(d)' = Declared(d)
      /\ NamesApart' = NamesApart /\ SoundKinds' = SoundKinds
      /\ \A l, d, P : Inherited(l, d, P)' = Inherited(l, d, P)
      /\ \A d, P : Lawful(d, P)' = Lawful(d, P)
  BY <1>1, TextStays
<1>5. SolverInv' /\ Text'
  BY <1>1, TextKept
<1>6. c \in Contracts /\ c # NoContract /\ NodeTypes
  BY NoContractAssumption DEF NodesInv, NodeTypes
<1>7. NodeTypes'
  BY <1>1, <1>2, <1>3, <1>4, <1>6 DEF NodeTypes
<1>8. Stages'
  BY <1>1, <1>3 DEF NodesInv, Stages
<1>9. TodoOK' /\ ResultOK'
  BY <1>1 DEF TodoOK, ResultOK
<1>10. DoneOK' /\ ErrsOK'
  BY <1>1, <1>3, <1>4 DEF NodesInv, DoneOK, ErrsOK
<1>11. NamesOK'
  <2>1. \A d : Visible(d)' = Visible(d)
    BY <1>1, <1>4 DEF Visible
  <2>2. \A m \in Members : m[1] = c => m \in ToSet(Visible(c))
    BY <1>6, MemberProps, VisibleProps DEF NodesInv
  <2>3. ASSUME NEW m \in Members
        PROVE  /\ uname'[m] # NoContract => m \in ToSet(Visible(uname'[m]))
               /\ m[1] \notin unnamed' => uname'[m] # NoContract
    <3>1. uname'[m] = IF m \in ToSet(Visible(c)) THEN c ELSE uname[m]
      BY <1>2
    <3>2. CASE m \in ToSet(Visible(c))
      BY <1>6, <3>1, <3>2
    <3>3. CASE m \notin ToSet(Visible(c))
      <4>1. m[1] # c
        BY <2>2, <3>3
      <4>2. QED
        BY <1>2, <3>1, <3>3, <4>1 DEF NodesInv, NamesOK
    <3>4. QED
      BY <3>2, <3>3
  <2>4. QED
    BY <1>1, <1>4, <2>1, <2>3 DEF NamesOK
<1>12. QED
  BY <1>5, <1>7, <1>8, <1>9, <1>10, <1>11 DEF NodesInv

\* The end, and a step that changes nothing here but possibly the stage.
LEMMA NamedKept ==
  ASSUME NodesInv, \/ Named
                   \/ UNCHANGED ivars
  PROVE  NodesInv'
<1>1. /\ UNCHANGED <<vars, prog, virt, errs, topoLeft, cont, todo, result, inherit,
                     unnamed, uname>>
      /\ \/ stage' = stage
         \/ stage = "names" /\ stage' = "done" /\ \A c \in unnamed : Visible(c) = <<>>
  BY DEF Named, ivars, pvars
<1>2. /\ pc' = pc /\ topo' = topo
  BY <1>1 DEF vars
<1>3. /\ Members' = Members /\ Functions' = Functions
      /\ \A m : Member(m)' = Member(m) /\ IsVirtual(m)' = IsVirtual(m)
      /\ \A c : /\ SubNodes(c)' = SubNodes(c) /\ LineOf(c)' = LineOf(c)
                /\ Declared(c)' = Declared(c)
      /\ \A c, m, x : Nearer(c, m, x)' = Nearer(c, m, x)
      /\ NamesApart' = NamesApart /\ SoundKinds' = SoundKinds
      /\ \A l, c, P : Inherited(l, c, P)' = Inherited(l, c, P)
      /\ \A c, P : Lawful(c, P)' = Lawful(c, P)
  BY <1>1, TextStays
<1>4. SolverInv' /\ Text'
  BY <1>1, TextKept
<1>5. NodeTypes'
  BY <1>1, <1>2, <1>3 DEF NodesInv, NodeTypes
<1>6. Stages'
  BY <1>1, <1>2, <1>3 DEF NodesInv, Stages
<1>7. Arrived' = Arrived
  BY <1>1, <1>3 DEF Arrived
<1>8. TodoOK'
  BY <1>1, <1>2, <1>3, <1>7 DEF NodesInv, TodoOK, Once
<1>9. ResultOK'
  BY <1>1, <1>2, <1>3, <1>7 DEF NodesInv, ResultOK
<1>10. DoneOK' /\ ErrsOK'
  BY <1>1, <1>2, <1>3 DEF NodesInv, DoneOK, ErrsOK
<1>11. NamesOK'
  <2>1. \A c : Visible(c)' = Visible(c)
    BY <1>1, <1>3 DEF Visible
  <2>2. QED
    BY <1>1, <1>3, <2>1 DEF NodesInv, NamesOK
<1>12. QED
  BY <1>4, <1>5, <1>6, <1>8, <1>9, <1>10, <1>11 DEF NodesInv

LEMMA SolveKept ==
  ASSUME NodesInv, Solve
  PROVE  NodesInv'
<1>1. /\ bases' = bases /\ UNCHANGED pvars
  BY DEF Solve, NextRoot, Descend, JoinBase, JoinOwnBases, Take, Stuck, Merged, Solved
<1>2. /\ UNCHANGED <<prog, virt, errs, topoLeft, cont, todo, result, inherit, unnamed,
                     uname, stage>>
  BY <1>1 DEF pvars
<1>3. stage = "solve"
  BY SolvedStays DEF NodesInv, Stages
<1>4. SolverInv'
  BY SolverInvKept DEF NodesInv, Solve, Next
<1>5. Text'
  BY <1>1, <1>2 DEF NodesInv, Text
<1>6. \A m : Member(m)' = Member(m)
  BY <1>2 DEF Member
<1>7. \A c : SubNodes(c)' = SubNodes(c)
  BY <1>2 DEF SubNodes
<1>8. Members' = Members /\ \A c : Visible(c)' = Visible(c)
  BY <1>2, <1>7 DEF Members, Visible
<1>9. Functions' = Functions
  BY <1>6, <1>8 DEF Functions
<1>10. topoLeft = <<>> /\ ToSet(<<>>) = {}
  BY <1>3 DEF NodesInv, Stages, ToSet
<1>11. NodeTypes'
  BY <1>2, <1>8, <1>10 DEF NodesInv, NodeTypes
<1>12. Stages'
  BY <1>2, <1>3, <1>6, <1>9 DEF NodesInv, Stages
<1>13. TodoOK' /\ ResultOK' /\ DoneOK' /\ ErrsOK'
  BY <1>2, <1>3 DEF TodoOK, ResultOK, DoneOK, ErrsOK
<1>14. NamesOK'
  BY <1>2, <1>8 DEF NodesInv, NamesOK
<1>15. QED
  BY <1>4, <1>5, <1>11, <1>12, <1>13, <1>14 DEF NodesInv

-----------------------------------------------------------------------------
(* The invariant. *)

LEMMA NodesInvInit ==
  ASSUME InitNodes
  PROVE  NodesInv
<1>1. /\ Init /\ prog \in Programs(bases)
      /\ virt = {m \in Functions : Member(m).virtual}
      /\ errs = {} /\ topoLeft = <<>> /\ cont = NoContract
      /\ todo = <<>> /\ result = <<>>
      /\ inherit = [c \in Contracts |-> <<>>]
      /\ unnamed = Contracts
      /\ uname = [m \in Members |-> NoContract]
      /\ stage = "solve"
  BY DEF InitNodes
<1>2. SolverInv /\ Text
  BY <1>1, SolverInvInit DEF Text, Init
<1>3. \A m \in Members : m[1] \in Contracts
  BY <1>2, MemberProps
<1>4. ToSet(<<>>) = {}
  BY DEF ToSet
<1>5. NodeTypes
  BY <1>1, <1>4, EmptySeq DEF NodeTypes
<1>6. Stages
  BY <1>1 DEF Stages
<1>7. TodoOK /\ ResultOK /\ DoneOK /\ ErrsOK
  BY <1>1 DEF TodoOK, ResultOK, DoneOK, ErrsOK
<1>8. NamesOK
  BY <1>1, <1>3 DEF NamesOK
<1>9. QED
  BY <1>2, <1>5, <1>6, <1>7, <1>8 DEF NodesInv

LEMMA NodesInvKept ==
  ASSUME NodesInv, [NextNodes]_ivars
  PROVE  NodesInv'
<1>1. CASE Solve
  BY <1>1, SolveKept
<1>2. CASE Resolve
  BY <1>2, ResolveKept
<1>3. CASE CheckKinds
  BY <1>3, CheckKindsKept
<1>4. CASE NextContract
  BY <1>4, NextContractKept
<1>5. CASE InjectNew
  BY <1>5, InjectNewKept
<1>6. CASE InjectOverride
  BY <1>6, InjectOverrideKept
<1>7. CASE OverrideByOther
  BY <1>7, OverrideByOtherKept
<1>8. CASE InjectOverVar
  BY <1>8, InjectOverVarKept
<1>9. CASE InjectBeside
  BY <1>9, InjectBesideKept
<1>10. CASE EndContract
  BY <1>10, EndContractKept
<1>11. CASE Injected
  BY <1>11, InjectedKept
<1>12. CASE NameMembers
  BY <1>12, NameMembersKept
<1>13. CASE Named \/ UNCHANGED ivars
  BY <1>13, NamedKept
<1>14. CASE Over
  BY <1>14, NamedKept DEF Over
<1>15. QED
  BY <1>1, <1>2, <1>3, <1>4, <1>5, <1>6, <1>7, <1>8, <1>9, <1>10, <1>11, <1>12,
     <1>13, <1>14 DEF NextNodes

LEMMA NodesInvariant == SpecNodes => []NodesInv
<1>1. InitNodes => NodesInv
  BY NodesInvInit
<1>2. NodesInv /\ [NextNodes]_ivars => NodesInv'
  BY NodesInvKept
<1>3. QED
  BY <1>1, <1>2, PTL DEF SpecNodes

-----------------------------------------------------------------------------
(* What it says at the end. *)

\* What a contract sees in an accepted program.
LEMMA SeenAtTheEnd ==
  ASSUME NodesInv, Accepted, NamesApart, NEW c \in Contracts
  PROVE  \/ Inherited(inherit[c], c, Declared(c))
         \/ inherit[c] = <<>> /\ LineOf(c) = <<c>>
<1>1. stage = "done" /\ pc = "ok" /\ errs = {}
  BY DEF Accepted
<1>2. topoLeft = <<>> /\ cont = NoContract
  BY <1>1 DEF NodesInv, Stages
<1>3. CASE c \in ToSet(topo)
  <2>1. c \notin ToSet(topoLeft) /\ c # cont
    BY <1>2, NoContractAssumption DEF ToSet
  <2>2. QED
    BY <1>1, <1>3, <2>1 DEF NodesInv, DoneOK
<1>4. CASE c \notin ToSet(topo)
  <2>1. inherit[c] = <<>>
    BY <1>1, <1>4 DEF NodesInv, Stages
  <2>2. Searched /\ work = <<>> /\ Types
    BY <1>1 DEF NodesInv, SolverInv, Phases
  <2>3. resolved[c] = <<>>
    BY <1>4, <2>2 DEF Searched
  <2>4. QED
    BY <2>1, <2>3 DEF LineOf
<1>5. QED
  BY <1>3, <1>4

LEMMA EndShows ==
  ASSUME NodesInv, Accepted, NamesApart, NEW c \in Contracts
  PROVE  /\ {Visible(c)[i] : i \in Solid(Visible(c))}
              = {m \in Declared(c) : MostDerived(c, m)}
         /\ \A i, j \in Solid(Visible(c)) :
              Same(Visible(c)[i], Visible(c)[j]) => i = j
<1>. DEFINE a == inherit[c]
            b == SubNodes(c)
            n == Visible(c)
            Own == {m \in Declared(c) : m[1] = c}
<1>1. SolverInv /\ pc = "ok" /\ Text
  BY DEF NodesInv, Accepted
<1>2. a \in Seq(Members) /\ b \in Seq(Members) /\ n = a \o b
  BY <1>1, MemberProps DEF NodesInv, NodeTypes, Visible
<1>3. /\ c \in ToSet(LineOf(c))
      /\ \A m \in Declared(c) : m \in Members /\ m[1] \in ToSet(LineOf(c))
  BY <1>1, LineProps DEF Declared
<1>4. \A m, x \in Declared(c) : Same(m, x) /\ m[1] = x[1] => m = x
  BY <1>3 DEF NamesApart
<1>5. /\ \A m, x : Nearer(c, m, x) => ~Nearer(c, x, m) /\ x[1] # c
      /\ \A m, x : m[1] = c /\ x[1] \in ToSet(LineOf(c)) /\ x[1] # c => Nearer(c, m, x)
  BY <1>1, NearerProps
<1>6. Holds(a, Shown(c, Declared(c)))
  <2>1. CASE inherit[c] = <<>> /\ LineOf(c) = <<c>>
    <3>1. \A m \in Declared(c) : m[1] = c
      BY <1>3, <2>1 DEF ToSet
    <3>2. Shown(c, Declared(c)) = {} /\ Solid(<<>>) = {}
      BY <3>1 DEF Shown, Solid
    <3>3. QED
      BY <2>1, <3>2 DEF Holds
  <2>2. QED
    BY <2>1, SeenAtTheEnd DEF Inherited
<1>7. {m \in Declared(c) : MostDerived(c, m)} = Shown(c, Declared(c)) \cup Own
  <2>1. ASSUME NEW m \in Own PROVE MostDerived(c, m)
    <3>1. ASSUME NEW x \in Declared(c), x # m, Same(m, x) PROVE Nearer(c, m, x)
      <4>1. x[1] # c
        BY <1>4, <3>1
      <4>2. QED
        BY <1>3, <1>5, <4>1
    <3>2. QED
      BY <3>1 DEF MostDerived
  <2>2. \A m \in Declared(c) : m[1] # c => (m \in Shown(c, Declared(c)) <=> MostDerived(c, m))
    BY DEF Shown, MostDerived
  <2>3. \A m \in Shown(c, Declared(c)) : m \in Declared(c) /\ m[1] # c
    BY DEF Shown
  <2>4. QED
    BY <2>1, <2>2, <2>3
<1>8. /\ Len(a) \in Nat /\ DOMAIN a = 1..Len(a) /\ Len(b) \in Nat /\ DOMAIN b = 1..Len(b)
      /\ n \in Seq(Members) /\ DOMAIN n = 1..(Len(a) + Len(b))
      /\ \A i \in 1..(Len(a) + Len(b)) :
           n[i] = IF i <= Len(a) THEN a[i] ELSE b[i - Len(a)]
  BY <1>2, ConcatProperties, LenProperties
<1>9. \A i \in DOMAIN b : b[i] = <<c, i>> /\ b[i] \in Members
  BY <1>2, <1>8, ElementOfSeq DEF SubNodes
<1>. HIDE DEF a, b, n
<1>10. ASSUME NEW i \in Solid(n)
       PROVE  \/ i \in Solid(a) /\ n[i] = a[i] /\ n[i] \in Shown(c, Declared(c))
              \/ i - Len(a) \in DOMAIN b /\ n[i] = <<c, i - Len(a)>> /\ n[i] \in Own
  <2>1. i \in DOMAIN n /\ Member(n[i]).kind # "event" /\ i \in Nat
    BY <1>8 DEF Solid
  <2>2. CASE i <= Len(a)
    <3>1. i \in DOMAIN a /\ n[i] = a[i]
      BY <1>8, <2>1, <2>2
    <3>2. QED
      BY <1>6, <2>1, <3>1 DEF Solid, Holds
  <2>3. CASE i > Len(a)
    <3>1. i - Len(a) \in DOMAIN b /\ n[i] = b[i - Len(a)]
      BY <1>8, <2>1, <2>3
    <3>2. n[i] = <<c, i - Len(a)>> /\ n[i] \in Members
      BY <1>9, <3>1
    <3>3. n[i] \in Own
      BY <1>3, <2>1, <3>2 DEF Declared
    <3>4. QED
      BY <3>1, <3>2, <3>3
  <2>4. QED
    BY <1>8, <2>1, <2>2, <2>3
<1>11. {n[i] : i \in Solid(n)} = Shown(c, Declared(c)) \cup Own
  <2>1. ASSUME NEW m \in Shown(c, Declared(c)) PROVE \E i \in Solid(n) : n[i] = m
    <3>1. PICK i \in Solid(a) : a[i] = m
      BY <1>6 DEF Holds
    <3>2. i \in DOMAIN n /\ n[i] = a[i]
      BY <1>8, <3>1 DEF Solid
    <3>3. QED
      BY <3>1, <3>2 DEF Solid
  <2>2. ASSUME NEW m \in Own PROVE \E i \in Solid(n) : n[i] = m
    <3>1. m \in ToSet(b) /\ Member(m).kind # "event"
      BY <1>1, <1>3, MemberProps DEF Declared, b
    <3>2. PICK i \in DOMAIN b : b[i] = m
      BY <3>1 DEF ToSet
    <3>3. i + Len(a) \in DOMAIN n /\ n[i + Len(a)] = m
      BY <1>8, <3>2
    <3>4. QED
      BY <3>1, <3>3 DEF Solid
  <2>3. QED
    BY <1>10, <2>1, <2>2
<1>12. ASSUME NEW i \in Solid(n), NEW j \in Solid(n), Same(n[i], n[j])
       PROVE  i = j
  <2>1. i \in Nat /\ j \in Nat
    BY <1>8 DEF Solid
  <2>2. ASSUME NEW m \in Shown(c, Declared(c)), NEW x \in Own PROVE ~Same(m, x)
    <3>1. SUFFICES ASSUME Same(m, x) PROVE FALSE
      OBVIOUS
    <3>2. Nearer(c, m, x)
      BY <3>1 DEF Shown
    <3>3. QED
      BY <1>5, <3>2
  <2>3. CASE n[i] \in Shown(c, Declared(c)) /\ n[j] \in Shown(c, Declared(c))
    <3>1. n[i] \notin Own /\ n[j] \notin Own
      BY <2>3 DEF Shown
    <3>2. QED
      BY <1>6, <1>10, <1>12, <3>1 DEF Holds
  <2>4. CASE n[i] \in Own /\ n[j] \in Own
    <3>1. n[i] = n[j]
      BY <1>4, <1>12, <2>4
    <3>2. n[i] \notin Shown(c, Declared(c)) /\ n[j] \notin Shown(c, Declared(c))
      BY <2>4 DEF Shown
    <3>3. i - Len(a) = j - Len(a)
      BY <1>10, <3>1, <3>2
    <3>4. QED
      BY <1>8, <2>1, <3>3
  <2>5. QED
    BY <1>10, <1>12, <2>2, <2>3, <2>4, SameProps
<1>13. QED
  BY <1>7, <1>11, <1>12 DEF n

LEMMA EndIsMostDerived ==
  ASSUME NodesInv
  PROVE  VisibleAreMostDerived
BY EndShows DEF VisibleAreMostDerived

LEMMA EndIsLicensed ==
  ASSUME NodesInv
  PROVE  AcceptedIffLicensed
<1>1. SUFFICES ASSUME stage = "done", pc = "ok", NamesApart
               PROVE  errs = {} <=>
                        SoundKinds /\ \A c \in ToSet(topo) : Lawful(c, Declared(c))
  BY DEF AcceptedIffLicensed, Lawful
<1>2. /\ errs = {} => SoundKinds
      /\ errs # {} => ~SoundKinds \/ \E c \in ToSet(topo) : ~Lawful(c, Declared(c))
  BY <1>1 DEF NodesInv, ErrsOK
<1>3. ASSUME errs = {}, NEW c \in ToSet(topo) PROVE Lawful(c, Declared(c))
  <2>1. topoLeft = <<>> /\ cont = NoContract
    BY <1>1 DEF NodesInv, Stages
  <2>2. c \in Contracts
    BY DEF NodesInv, SolverInv, Types, ToSet
  <2>3. c \notin ToSet(topoLeft) /\ c # cont
    BY <2>1, <2>2, NoContractAssumption DEF ToSet
  <2>4. QED
    BY <1>1, <1>3, <2>3 DEF NodesInv, DoneOK
<1>4. QED
  BY <1>2, <1>3

LEMMA EndNamesApart ==
  ASSUME NodesInv
  PROVE  UniqueNamesDistinct
<1>1. SUFFICES ASSUME Accepted, NamesApart, NEW m \in Functions, NEW n \in Functions,
                      Same(m, n), uname[m] = uname[n]
               PROVE  m = n
  BY DEF UniqueNamesDistinct
<1>2. m \in Members /\ n \in Members /\ Member(m).kind = "fun" /\ Member(n).kind = "fun"
  BY DEF Functions
<1>3. Text /\ NodeTypes
  BY DEF NodesInv
<1>. DEFINE c == uname[m]
<1>4. c # NoContract
  <2>1. SUFFICES ASSUME m[1] \in unnamed PROVE FALSE
    BY <1>2 DEF NodesInv, NamesOK
  <2>2. m[1] \in Contracts /\ m \in ToSet(SubNodes(m[1]))
    BY <1>2, <1>3, MemberProps
  <2>3. m \in ToSet(Visible(m[1]))
    BY <2>2, VisibleProps
  <2>4. Visible(m[1]) = <<>>
    BY <1>1, <2>1 DEF NodesInv, NamesOK, Accepted
  <2>5. QED
    BY <2>2, <2>3, <2>4, VisibleProps
<1>5. c \in Contracts /\ m \in ToSet(Visible(c)) /\ n \in ToSet(Visible(c))
  BY <1>1, <1>2, <1>3, <1>4 DEF NodesInv, NamesOK, NodeTypes
<1>. HIDE DEF c
<1>6. PICK i \in DOMAIN Visible(c) : Visible(c)[i] = m
  BY <1>5 DEF ToSet
<1>7. PICK j \in DOMAIN Visible(c) : Visible(c)[j] = n
  BY <1>5 DEF ToSet
<1>8. i \in Solid(Visible(c)) /\ j \in Solid(Visible(c))
  BY <1>2, <1>6, <1>7 DEF Solid
<1>9. i = j
  BY <1>1, <1>5, <1>6, <1>7, <1>8, EndShows
<1>10. QED
  BY <1>6, <1>7, <1>9

-----------------------------------------------------------------------------
(* The theorems. *)

\* Whatever the program, what an accepted contract sees is for each name the
\* most derived declaration and no other.
THEOREM InheritedAreMostDerived == SpecNodes => []VisibleAreMostDerived
<1>1. NodesInv => VisibleAreMostDerived
  BY EndIsMostDerived
<1>2. QED
  BY <1>1, NodesInvariant, PTL

\* Whatever the program, an error is reported if and only if an interface, a
\* private function or a redeclaration is not as it may be.
THEOREM AcceptanceIsLicensed == SpecNodes => []AcceptedIffLicensed
<1>1. NodesInv => AcceptedIffLicensed
  BY EndIsLicensed
<1>2. QED
  BY <1>1, NodesInvariant, PTL

\* Whatever the program and the order of its contracts, no two functions of one
\* name are emitted under the same unique name.
THEOREM UniqueNamesApart == SpecNodes => []UniqueNamesDistinct
<1>1. NodesInv => UniqueNamesDistinct
  BY EndNamesApart
<1>2. QED
  BY <1>1, NodesInvariant, PTL
=============================================================================
