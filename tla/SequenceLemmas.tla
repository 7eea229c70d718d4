--------------------------- MODULE SequenceLemmas ---------------------------
(***************************************************************************)
(* What the proofs need to know of sequences: stacks, lists of elements    *)
(* that are each there once, and what comes before what in a list.         *)
(***************************************************************************)
EXTENDS Naturals, SequencesExt, TLAPS, SequenceTheorems, FiniteSetTheorems,
        WellFoundedInduction

\* A prefix of a sequence.
LEMMA PrefixProps ==
  ASSUME NEW S, NEW s \in Seq(S), NEW n \in Nat, n <= Len(s)
  PROVE  /\ SubSeq(s, 1, n) \in Seq(S)
         /\ Len(SubSeq(s, 1, n)) = n
         /\ \A i \in 1..n : SubSeq(s, 1, n)[i] = s[i]
OBVIOUS

\* Front keeps the elements before the last one.
LEMMA FrontProps ==
  ASSUME NEW S, NEW s \in Seq(S), s # <<>>
  PROVE  /\ Front(s) \in Seq(S)
         /\ Len(Front(s)) = Len(s) - 1
         /\ \A i \in 1..(Len(s) - 1) : Front(s)[i] = s[i]
<1>. DEFINE n == Len(s) - 1
<1>1. n \in Nat /\ n <= Len(s)
  OBVIOUS
<1>. HIDE DEF n
<1>2. /\ SubSeq(s, 1, n) \in Seq(S)
      /\ Len(SubSeq(s, 1, n)) = n
      /\ \A i \in 1..n : SubSeq(s, 1, n)[i] = s[i]
  BY <1>1, PrefixProps
<1>3. Front(s) = SubSeq(s, 1, n)
  BY DEF Front, n
<1>4. QED
  BY <1>2, <1>3 DEF n

LEMMA LastProps ==
  ASSUME NEW S, NEW s \in Seq(S), s # <<>>
  PROVE  Last(s) \in S
<1>1. Len(s) \in 1..Len(s)
  OBVIOUS
<1>2. QED
  BY <1>1 DEF Last

\* LeaveLoop takes the front of a stack that may be empty.
LEMMA FrontType ==
  ASSUME NEW S, NEW s \in Seq(S)
  PROVE  Front(s) \in Seq(S)
<1>1. CASE s = <<>>
  BY <1>1 DEF Front
<1>2. CASE s # <<>>
  BY <1>2, FrontProps
<1>3. QED
  BY <1>1, <1>2

\* A sequence over a set is one over every larger set.
LEMMA SeqGrows ==
  ASSUME NEW S, NEW T, S \subseteq T
  PROVE  Seq(S) \subseteq Seq(T)
<1>1. SUFFICES ASSUME NEW s \in Seq(S) PROVE s \in Seq(T)
  OBVIOUS
<1>2. s \in [1..Len(s) -> T] /\ Len(s) \in Nat
  BY LenProperties
<1>3. QED
  BY <1>2

\* The elements of a list that grew.
LEMMA AppendElements ==
  ASSUME NEW S, NEW s \in Seq(S), NEW x \in S
  PROVE  /\ Append(s, x) \in Seq(S)
         /\ Len(Append(s, x)) = Len(s) + 1
         /\ \A i \in 1..Len(s) : Append(s, x)[i] = s[i]
         /\ Append(s, x)[Len(s) + 1] = x
         /\ ToSet(Append(s, x)) = ToSet(s) \cup {x}
<1>1. /\ Append(s, x) \in Seq(S)
      /\ Len(Append(s, x)) = Len(s) + 1
      /\ \A i \in 1..Len(s) : Append(s, x)[i] = s[i]
      /\ Append(s, x)[Len(s) + 1] = x
  BY AppendProperties
<1>2. DOMAIN s = 1..Len(s) /\ Len(s) \in Nat
  OBVIOUS
<1>3. DOMAIN Append(s, x) = 1..(Len(s) + 1)
  BY <1>1
<1>4. ToSet(Append(s, x)) = ToSet(s) \cup {x}
  BY <1>1, <1>2, <1>3 DEF ToSet
<1>5. QED
  BY <1>1, <1>4

\* The elements of a list that lost its head.
LEMMA TailElements ==
  ASSUME NEW S, NEW s \in Seq(S), s # <<>>
  PROVE  /\ Head(s) = s[1] /\ s[1] \in S
         /\ Tail(s) \in Seq(S)
         /\ Len(Tail(s)) = Len(s) - 1 /\ Len(s) \in Nat \ {0}
         /\ \A i \in 1..Len(Tail(s)) : Tail(s)[i] = s[i + 1]
         /\ ToSet(s) = ToSet(Tail(s)) \cup {s[1]}
<1>1. /\ Head(s) = s[1] /\ s[1] \in S
      /\ Tail(s) \in Seq(S)
      /\ Len(Tail(s)) = Len(s) - 1 /\ Len(s) \in Nat \ {0}
      /\ \A i \in 1..Len(Tail(s)) : Tail(s)[i] = s[i + 1]
  BY HeadTailProperties, EmptySeq, LenProperties
<1>2. DOMAIN s = 1..Len(s) /\ DOMAIN Tail(s) = 1..Len(Tail(s))
  BY <1>1
<1>3. \A i \in DOMAIN s :
        \/ i = 1
        \/ i - 1 \in DOMAIN Tail(s) /\ s[i] = Tail(s)[i - 1]
  BY <1>1, <1>2
<1>4. \A i \in DOMAIN Tail(s) : i + 1 \in DOMAIN s /\ 1 \in DOMAIN s
  BY <1>1, <1>2
<1>5. 1 \in DOMAIN s
  BY <1>1, <1>2
<1>6. QED
  BY <1>1, <1>2, <1>3, <1>4, <1>5 DEF ToSet

\* The elements of a list with a new head.
LEMMA ConsElements ==
  ASSUME NEW S, NEW s \in Seq(S), NEW x \in S
  PROVE  /\ <<x>> \o s \in Seq(S)
         /\ Len(<<x>> \o s) = Len(s) + 1
         /\ (<<x>> \o s)[1] = x
         /\ \A i \in 1..Len(s) : (<<x>> \o s)[i + 1] = s[i]
         /\ ToSet(<<x>> \o s) = ToSet(s) \cup {x}
<1>. DEFINE r == <<x>> \o s
<1>1. /\ <<x>> \in Seq(S) /\ Len(<<x>>) = 1 /\ <<x>>[1] = x
      /\ Len(s) \in Nat /\ DOMAIN s = 1..Len(s)
  OBVIOUS
<1>2. /\ r \in Seq(S) /\ Len(r) = Len(<<x>>) + Len(s)
      /\ \A i \in 1..(Len(<<x>>) + Len(s)) :
           r[i] = IF i <= Len(<<x>>) THEN <<x>>[i] ELSE s[i - Len(<<x>>)]
  BY <1>1, ConcatProperties
<1>. HIDE DEF r
<1>3. /\ Len(r) = Len(s) + 1 /\ r[1] = x /\ DOMAIN r = 1..(Len(s) + 1)
      /\ \A i \in 1..Len(s) : r[i + 1] = s[i]
  BY <1>1, <1>2
<1>4. \A i \in DOMAIN r :
        \/ i = 1
        \/ i - 1 \in DOMAIN s /\ r[i] = s[i - 1]
  BY <1>1, <1>3
<1>5. 1 \in DOMAIN r /\ \A i \in DOMAIN s : i + 1 \in DOMAIN r /\ r[i + 1] = s[i]
  BY <1>1, <1>3
<1>6. ToSet(r) = ToSet(s) \cup {x}
  <2>1. ToSet(r) \subseteq ToSet(s) \cup {x}
    BY <1>3, <1>4 DEF ToSet
  <2>2. ToSet(s) \cup {x} \subseteq ToSet(r)
    BY <1>3, <1>5 DEF ToSet
  <2>3. QED
    BY <2>1, <2>2
<1>7. QED
  BY <1>2, <1>3, <1>6 DEF r

\* A set of numbers has a least one: the finite intervals up to its elements
\* are well founded.
LEMMA LeastNatural ==
  ASSUME NEW T, T \subseteq Nat, T # {}
  PROVE  \E x \in T : \A y \in T : x <= y
<1>. DEFINE U == {0..k : k \in T}
<1>1. IsWellFoundedOn(StrictSubsetOrdering(Nat), FiniteSubsetsOf(Nat))
  BY FS_StrictSubsetOrderingWellFounded
<1>2. U \subseteq FiniteSubsetsOf(Nat) /\ U # {}
  <2>1. \A k \in Nat : 0..k \subseteq Nat /\ IsFiniteSet(0..k)
    <3>1. TAKE k \in Nat
    <3>2. IsFiniteSet(0..k)
      BY FS_Interval
    <3>3. 0..k \subseteq Nat
      OBVIOUS
    <3>4. QED
      BY <3>2, <3>3
  <2>2. U \subseteq FiniteSubsetsOf(Nat)
    BY <2>1 DEF FiniteSubsetsOf
  <2>3. QED
    BY <2>2
<1>. HIDE DEF U
<1>3. PICK u \in U : \A v \in U : <<v, u>> \notin StrictSubsetOrdering(Nat)
  BY <1>1, <1>2, WFMin
<1>. USE DEF U
<1>4. PICK x \in T : u = 0..x
  OBVIOUS
<1>5. ASSUME NEW y \in T, ~(x <= y) PROVE FALSE
  <2>1. x \in Nat /\ y \in Nat /\ y < x
    BY <1>5
  <2>2. /\ 0..y \in U /\ 0..y \subseteq u /\ 0..y # u
        /\ 0..y \subseteq Nat /\ u \subseteq Nat
    BY <1>4, <2>1
  <2>3. QED
    BY <1>3, <2>2 DEF StrictSubsetOrdering
<1>6. QED
  BY <1>5

\* Induction.
LEMMA NaturalInduction ==
  ASSUME NEW S, 0 \in S, \A n \in Nat : n \in S => n + 1 \in S
  PROVE  Nat \subseteq S
<1>1. SUFFICES ASSUME Nat \ S # {} PROVE FALSE
  OBVIOUS
<1>2. PICK x \in Nat \ S : \A y \in Nat \ S : x <= y
  BY <1>1, LeastNatural
<1>3. x # 0 /\ x - 1 \in Nat
  BY <1>2
<1>4. x - 1 \in S
  BY <1>2, <1>3
<1>5. QED
  BY <1>2, <1>3, <1>4

\* The recursion in FlattenSeq has a solution.
LEMMA FlattenExists ==
  ASSUME NEW m \in Nat, NEW s
  PROVE  \E g : g = [i \in 1..m |-> IF i = 1 THEN s[i] ELSE g[i - 1] \o s[i]]
<1>. DEFINE Solves(g, k) ==
              g = [i \in 1..k |-> IF i = 1 THEN s[i] ELSE g[i - 1] \o s[i]]
            S == {k \in Nat : \E g : Solves(g, k)}
<1>1. 0 \in S
  <2>1. Solves(<<>>, 0)
    OBVIOUS
  <2>2. QED
    BY <2>1
<1>2. ASSUME NEW k \in Nat, k \in S PROVE k + 1 \in S
  <2>1. PICK g : Solves(g, k)
    BY <1>2
  <2>. DEFINE h == [i \in 1..(k + 1) |-> IF i <= k THEN g[i]
                       ELSE IF i = 1 THEN s[i] ELSE g[i - 1] \o s[i]]
  <2>2. ASSUME NEW i \in 1..(k + 1)
        PROVE  h[i] = IF i = 1 THEN s[i] ELSE h[i - 1] \o s[i]
    <3>1. CASE i <= k
      <4>1. i \in 1..k
        BY <3>1
      <4>2. g[i] = IF i = 1 THEN s[i] ELSE g[i - 1] \o s[i]
        BY <2>1, <4>1
      <4>3. i # 1 => h[i - 1] = g[i - 1]
        BY <3>1
      <4>4. QED
        BY <4>2, <4>3, <3>1
    <3>2. CASE i = k + 1
      <4>1. i # 1 => h[i - 1] = g[i - 1]
        BY <3>2
      <4>2. QED
        BY <4>1, <3>2
    <3>3. QED
      BY <3>1, <3>2
  <2>3. Solves(h, k + 1)
    BY <2>2
  <2>. HIDE DEF h
  <2>4. \E x : Solves(x, k + 1)
    BY <2>3
  <2>5. k + 1 \in Nat
    OBVIOUS
  <2>6. QED
    BY <2>4, <2>5
<1>. HIDE DEF S
<1>3. Nat \subseteq S
  BY <1>1, <1>2, NaturalInduction
<1>4. QED
  BY <1>3 DEF S

LEMMA FlattenUnfolds ==
  ASSUME NEW s, NEW m \in Nat, m = Len(s), m # 0
  PROVE  \E g : /\ FlattenSeq(s) = g[m]
                /\ g = [i \in 1..m |-> IF i = 1 THEN s[i] ELSE g[i - 1] \o s[i]]
<1>1. \E g : g = [i \in 1..m |-> IF i = 1 THEN s[i] ELSE g[i - 1] \o s[i]]
  BY FlattenExists
<1>. DEFINE f ==
       CHOOSE g : g = [i \in 1..m |-> IF i = 1 THEN s[i] ELSE g[i - 1] \o s[i]]
<1>2. f = [i \in 1..m |-> IF i = 1 THEN s[i] ELSE f[i - 1] \o s[i]]
  BY <1>1, Zenon
<1>3. FlattenSeq(s) = f[m]
  BY Zenon DEF FlattenSeq
<1>4. QED
  BY <1>2, <1>3, Zenon

\* t is the first k lists of ss one behind the other: w says of which list an
\* element is which.
Joins(ss, k, t, w) ==
  /\ \A i \in DOMAIN t :
       /\ w[i][1] \in 1..k /\ w[i][2] \in DOMAIN ss[w[i][1]]
       /\ t[i] = ss[w[i][1]][w[i][2]]
  /\ \A i, j \in DOMAIN t :
       i < j => \/ w[i][1] < w[j][1]
                \/ w[i][1] = w[j][1] /\ w[i][2] < w[j][2]
  /\ \A l \in 1..k : \A n \in DOMAIN ss[l] :
       \E i \in DOMAIN t : w[i][1] = l /\ w[i][2] = n

LEMMA JoinsOne ==
  ASSUME NEW S, NEW ss \in Seq(Seq(S)), ss # <<>>
  PROVE  \E w : Joins(ss, 1, ss[1], w)
<1>1. ss[1] \in Seq(S) /\ 1 \in 1..1
  BY EmptySeq, LenProperties
<1>2. DOMAIN ss[1] \subseteq Nat
  BY <1>1, LenProperties
<1>. DEFINE w == [i \in DOMAIN ss[1] |-> <<1, i>>]
<1>3. \A i \in DOMAIN ss[1] : w[i][1] = 1 /\ w[i][2] = i
  OBVIOUS
<1>. HIDE DEF w
<1>4. \A l \in 1..1 : l = 1
  OBVIOUS
<1>5. Joins(ss, 1, ss[1], w)
  BY <1>1, <1>2, <1>3, <1>4 DEF Joins
<1>6. QED
  BY <1>5

LEMMA JoinsMore ==
  ASSUME NEW S, NEW ss \in Seq(Seq(S)), NEW k \in Nat \ {0}, k + 1 \in DOMAIN ss,
         NEW t \in Seq(S), NEW v, Joins(ss, k, t, v)
  PROVE  \E w : Joins(ss, k + 1, t \o ss[k + 1], w)
<1>. DEFINE n == Len(t)
            u == ss[k + 1]
            r == t \o u
<1>1. /\ u \in Seq(S) /\ n \in Nat /\ DOMAIN t = 1..n
      /\ Len(u) \in Nat /\ DOMAIN u = 1..Len(u)
  BY ElementOfSeq, LenProperties
<1>2. /\ r \in Seq(S) /\ Len(r) = n + Len(u)
      /\ \A i \in 1..(n + Len(u)) : r[i] = IF i <= n THEN t[i] ELSE u[i - n]
  BY <1>1, ConcatProperties
<1>3. DOMAIN r = 1..(n + Len(u))
  BY <1>1, <1>2, LenProperties
<1>. HIDE DEF r, n, u
<1>. DEFINE w == [i \in 1..(n + Len(u)) |-> IF i <= n THEN v[i] ELSE <<k + 1, i - n>>]
<1>4. ASSUME NEW i \in DOMAIN r
      PROVE  \/ i \in DOMAIN t /\ w[i] = v[i] /\ r[i] = t[i]
             \/ /\ i > n /\ i - n \in DOMAIN u /\ w[i][1] = k + 1 /\ w[i][2] = i - n
                /\ r[i] = u[i - n]
  <2>1. CASE i <= n
    BY <1>1, <1>2, <1>3, <2>1
  <2>2. CASE i > n
    BY <1>1, <1>2, <1>3, <2>2
  <2>3. QED
    BY <1>1, <1>3, <2>1, <2>2
<1>5. \A i \in DOMAIN t : i \in DOMAIN r /\ w[i] = v[i]
  BY <1>1, <1>3
<1>6. \A i \in DOMAIN u : i + n \in DOMAIN r /\ w[i + n][1] = k + 1 /\ w[i + n][2] = i
  BY <1>1, <1>3
<1>. HIDE DEF w
<1>7. ASSUME NEW i \in DOMAIN r
      PROVE  /\ w[i][1] \in 1..(k + 1) /\ w[i][2] \in DOMAIN ss[w[i][1]]
             /\ r[i] = ss[w[i][1]][w[i][2]]
  <2>1. CASE i \in DOMAIN t /\ w[i] = v[i] /\ r[i] = t[i]
    BY <2>1 DEF Joins
  <2>2. CASE /\ i > n /\ i - n \in DOMAIN u /\ w[i][1] = k + 1 /\ w[i][2] = i - n
             /\ r[i] = u[i - n]
    BY <2>2 DEF u
  <2>3. QED
    BY <1>4, <2>1, <2>2
<1>8. ASSUME NEW i \in DOMAIN r, NEW j \in DOMAIN r, i < j
      PROVE  \/ w[i][1] < w[j][1]
             \/ w[i][1] = w[j][1] /\ w[i][2] < w[j][2]
  <2>1. i \in Nat /\ j \in Nat
    BY <1>1, <1>3
  <2>2. CASE i \in DOMAIN t /\ j \in DOMAIN t
    <3>1. w[i] = v[i] /\ w[j] = v[j]
      BY <1>5, <2>2
    <3>2. QED
      BY <1>8, <2>2, <3>1 DEF Joins
  <2>3. CASE i \in DOMAIN t /\ j \notin DOMAIN t
    <3>1. w[i][1] \in 1..k /\ w[j][1] = k + 1
      BY <1>4, <1>5, <2>3 DEF Joins
    <3>2. QED
      BY <3>1
  <2>4. CASE i \notin DOMAIN t
    <3>1. j \notin DOMAIN t
      BY <1>1, <1>3, <1>8, <2>1, <2>4
    <3>2. /\ w[i][1] = k + 1 /\ w[i][2] = i - n
          /\ w[j][1] = k + 1 /\ w[j][2] = j - n
      BY <1>4, <2>4, <3>1
    <3>3. QED
      BY <1>1, <1>8, <2>1, <3>2
  <2>5. QED
    BY <2>2, <2>3, <2>4
<1>9. ASSUME NEW l \in 1..(k + 1), NEW q \in DOMAIN ss[l]
      PROVE  \E i \in DOMAIN r : w[i][1] = l /\ w[i][2] = q
  <2>1. CASE l \in 1..k
    <3>1. PICK i \in DOMAIN t : v[i][1] = l /\ v[i][2] = q
      BY <2>1 DEF Joins
    <3>2. QED
      BY <1>5, <3>1
  <2>2. CASE l = k + 1
    BY <1>6, <2>2 DEF u
  <2>3. QED
    BY <2>1, <2>2
<1>10. Joins(ss, k + 1, r, w)
  BY <1>7, <1>8, <1>9 DEF Joins
<1>11. QED
  BY <1>10 DEF r, u

\* Flattening puts the lists one behind the other.
LEMMA FlattenProps ==
  ASSUME NEW S, NEW ss \in Seq(Seq(S)), ss # <<>>
  PROVE  /\ FlattenSeq(ss) \in Seq(S)
         /\ \E w : Joins(ss, Len(ss), FlattenSeq(ss), w)
<1>1. PICK m \in Nat : m = Len(ss) /\ m # 0 /\ DOMAIN ss = 1..m
  BY EmptySeq, LenProperties
<1>2. PICK g : /\ FlattenSeq(ss) = g[m]
               /\ g = [i \in 1..m |-> IF i = 1 THEN ss[i] ELSE g[i - 1] \o ss[i]]
  BY <1>1, FlattenUnfolds
<1>. DEFINE T == {k \in Nat : k + 1 \in 1..m =>
                    g[k + 1] \in Seq(S) /\ \E w : Joins(ss, k + 1, g[k + 1], w)}
<1>3. 0 \in T
  <2>1. g[1] = ss[1] /\ ss[1] \in Seq(S)
    BY <1>1, <1>2
  <2>2. QED
    BY <2>1, JoinsOne
<1>4. ASSUME NEW k \in Nat, k \in T PROVE k + 1 \in T
  <2>1. SUFFICES ASSUME k + 2 \in 1..m
                 PROVE  g[k + 2] \in Seq(S) /\ \E w : Joins(ss, k + 2, g[k + 2], w)
    <3>1. k + 1 + 1 = k + 2 /\ k + 1 \in Nat
      OBVIOUS
    <3>2. QED
      BY <2>1, <3>1
  <2>2. k + 1 \in 1..m /\ k + 1 \in Nat \ {0} /\ (k + 1) + 1 = k + 2
    BY <2>1
  <2>3. g[k + 1] \in Seq(S)
    BY <1>4, <2>2
  <2>4. PICK v : Joins(ss, k + 1, g[k + 1], v)
    BY <1>4, <2>2
  <2>5. g[k + 2] = g[k + 1] \o ss[k + 2]
    <3>1. k + 2 # 1 /\ (k + 2) - 1 = k + 1
      OBVIOUS
    <3>2. g[k + 2] = IF k + 2 = 1 THEN ss[k + 2] ELSE g[(k + 2) - 1] \o ss[k + 2]
      BY <1>2, <2>1
    <3>3. QED
      BY <3>1, <3>2
  <2>6. ss[k + 2] \in Seq(S)
    BY <1>1, <2>1, ElementOfSeq
  <2>7. g[k + 2] \in Seq(S)
    BY <2>3, <2>5, <2>6, ConcatProperties
  <2>8. \E w : Joins(ss, (k + 1) + 1, g[k + 1] \o ss[(k + 1) + 1], w)
    <3>1. (k + 1) + 1 \in DOMAIN ss
      BY <1>1, <2>1, <2>2
    <3>2. QED
      BY <2>2, <2>3, <2>4, <3>1, JoinsMore
  <2>9. QED
    BY <2>2, <2>5, <2>7, <2>8
<1>. HIDE DEF T
<1>5. Nat \subseteq T
  BY <1>3, <1>4, NaturalInduction
<1>6. m - 1 \in T /\ m - 1 + 1 = m /\ m \in 1..m
  BY <1>1, <1>5
<1>7. g[m] \in Seq(S) /\ \E w : Joins(ss, m, g[m], w)
  BY <1>6 DEF T
<1>8. QED
  BY <1>1, <1>2, <1>7

\* A list without its k-th element.
LEMMA RemoveAtProps ==
  ASSUME NEW S, NEW s \in Seq(S), NEW k \in DOMAIN s
  PROVE  /\ RemoveAt(s, k) \in Seq(S)
         /\ \A i \in DOMAIN RemoveAt(s, k) :
              LET j == IF i < k THEN i ELSE i + 1
              IN j \in DOMAIN s /\ j # k /\ RemoveAt(s, k)[i] = s[j]
         /\ \A j \in DOMAIN s : j # k =>
              LET i == IF j < k THEN j ELSE j - 1
              IN i \in DOMAIN RemoveAt(s, k) /\ RemoveAt(s, k)[i] = s[j]
<1>1. Len(s) \in Nat /\ DOMAIN s = 1..Len(s) /\ k \in 1..Len(s)
  BY LenProperties
<1>. DEFINE n == Len(s)
            a == SubSeq(s, 1, k - 1)
            b == SubSeq(s, k + 1, n)
<1>. HIDE DEF n
<1>2. n \in Nat /\ DOMAIN s = 1..n /\ k \in 1..n
  BY <1>1 DEF n
<1>3. /\ a \in Seq(S) /\ Len(a) = k - 1
      /\ \A i \in 1..(k - 1) : a[i] = s[i]
  <2>1. k - 1 \in Nat /\ k - 1 <= n
    BY <1>2
  <2>2. QED
    BY <2>1, PrefixProps DEF n
<1>4. /\ b \in Seq(S) /\ Len(b) = n - k
      /\ \A i \in 1..(n - k) : b[i] = s[i + k]
  <2>1. \A i \in (k + 1)..n : s[i] \in S
    BY <1>2
  <2>2. CASE k < n
    <3>1. k + 1 <= n + 1 /\ k + 1 \in Nat \ {0} /\ n - (k + 1) + 1 = n - k
      BY <1>2
    <3>2. /\ b \in Seq(S) /\ Len(b) = n - k
          /\ \A i \in 1..(n - k) : b[i] = s[(k + 1) + i - 1]
      BY <1>2, <2>1, <3>1, SubSeqProperties
    <3>3. \A i \in 1..(n - k) : (k + 1) + i - 1 = i + k
      BY <1>2
    <3>4. QED
      BY <3>2, <3>3
  <2>3. CASE k = n
    <3>1. b = <<>>
      BY <1>2, <2>3
    <3>2. QED
      BY <1>2, <2>3, <3>1
  <2>4. QED
    BY <1>2, <2>2, <2>3
<1>. HIDE DEF a, b
<1>. DEFINE r == a \o b
<1>5. /\ r \in Seq(S) /\ Len(r) = n - 1
      /\ \A i \in 1..(n - 1) : r[i] = IF i <= k - 1 THEN a[i] ELSE b[i - (k - 1)]
  <2>1. /\ r \in Seq(S) /\ Len(r) = Len(a) + Len(b)
        /\ \A i \in 1..(Len(a) + Len(b)) :
             r[i] = IF i <= Len(a) THEN a[i] ELSE b[i - Len(a)]
    BY <1>3, <1>4, ConcatProperties
  <2>2. Len(a) + Len(b) = n - 1
    BY <1>2, <1>3, <1>4
  <2>3. QED
    BY <1>3, <2>1, <2>2
<1>6. DOMAIN r = 1..(n - 1)
  BY <1>5, LenProperties
<1>. HIDE DEF r
<1>7. ASSUME NEW i \in 1..(n - 1)
      PROVE  r[i] = IF i < k THEN s[i] ELSE s[i + 1]
  <2>1. CASE i < k
    BY <1>2, <1>3, <1>5, <2>1
  <2>2. CASE i >= k
    <3>1. i - (k - 1) \in 1..(n - k) /\ i - (k - 1) + k = i + 1
      BY <1>2, <2>2
    <3>2. b[i - (k - 1)] = s[i + 1]
      BY <1>4, <3>1
    <3>3. QED
      BY <1>2, <1>5, <2>2, <3>2
  <2>3. QED
    BY <1>2, <2>1, <2>2
<1>8. RemoveAt(s, k) = r
  BY DEF RemoveAt, r, a, b, n
<1>9. \A i \in DOMAIN r :
        LET j == IF i < k THEN i ELSE i + 1
        IN j \in DOMAIN s /\ j # k /\ r[i] = s[j]
  BY <1>2, <1>6, <1>7
<1>10. \A j \in DOMAIN s : j # k =>
         LET i == IF j < k THEN j ELSE j - 1
         IN i \in DOMAIN r /\ r[i] = s[j]
  BY <1>2, <1>6, <1>7
<1>11. QED
  BY <1>5, <1>8, <1>9, <1>10
=============================================================================
