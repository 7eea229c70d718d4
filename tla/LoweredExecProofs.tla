------------------------- MODULE LoweredExecProofs -------------------------
(***************************************************************************)
(* The proof that the blocks of StmtLowering, executed, implement the      *)
(* order of the statements of StructuredExec, for every MaxNodes.          *)
(*                                                                         *)
(* The order is a recursion over the places of the tree, and the first     *)
(* part shows that it has a solution.  The second relates the emit* calls  *)
(* at work to the tree, and the third their loops.  The fourth gives each  *)
(* block the point that control is on the way to when it enters it, and    *)
(* shows that every emit* function keeps what the blocks mean, whatever    *)
(* text may still follow.  The last follows the blocks of a unit that is   *)
(* done.                                                                   *)
(***************************************************************************)
EXTENDS LoweredExec, StmtLoweringProofs

-----------------------------------------------------------------------------
(* The order of the statements, for any tree. *)

LEMMA MinProps ==
  ASSUME NEW S, S \subseteq Nat, S # {}
  PROVE  Min(S) \in S /\ \A y \in S : Min(S) <= y
<1>1. \E x \in S : \A y \in S : x <= y
  BY LeastNatural
<1>2. QED
  BY <1>1 DEF Min

LEMMA MinIs ==
  ASSUME NEW S, S \subseteq Nat, NEW x \in S, \A y \in S : x <= y
  PROVE  Min(S) = x
<1>1. Min(S) \in S /\ \A y \in S : Min(S) <= y
  BY MinProps
<1>2. Min(S) <= x /\ x <= Min(S) /\ Min(S) \in Nat /\ x \in Nat
  BY <1>1
<1>3. QED
  BY <1>2

LEMMA MaxProps ==
  ASSUME NEW n \in Nat, NEW S, S \subseteq 0..n, S # {}
  PROVE  Max(S) \in S /\ \A y \in S : y <= Max(S)
<1>. DEFINE T == {k \in Nat : \E y \in S : k = n - y}
<1>1. T \subseteq Nat /\ T # {}
  <2>1. PICK y \in S : TRUE
    OBVIOUS
  <2>2. y \in 0..n
    OBVIOUS
  <2>3. n - y \in T
    BY <2>2
  <2>4. QED
    BY <2>3
<1>2. PICK k \in T : \A j \in T : k <= j
  BY <1>1, LeastNatural
<1>3. PICK x \in S : k = n - x
  BY <1>2
<1>4. \A y \in S : x >= y
  <2>1. TAKE y \in S
  <2>2. n - y \in T
    OBVIOUS
  <2>3. QED
    BY <1>2, <1>3, <2>2
<1>5. Max(S) \in S /\ \A y \in S : Max(S) >= y
  BY <1>4 DEF Max
<1>6. QED
  BY <1>5

\* The kinds of node that have a section s.
Hosts(s) ==
  CASE s \in {"then", "else"} -> {"if", "ifelse"}
    [] s = "body" -> {"while", "do"}
    [] s = "asminit" -> {"asmfor"}
    [] s \in {"forbody", "forpost"} -> {"for", "forever", "asmfor"}
    [] s = "switch" -> {"switch"}
    [] s = "case" -> {"case", "default"}
    [] s = "fun" -> {"fun"}
    [] OTHER -> {}

\* What a sequence of nodes is when it is a tree, visited in order.
Tree(t) ==
  /\ Len(t) \in Nat /\ DOMAIN t = 1..Len(t)
  /\ \A p \in 1..Len(t) :
       /\ t[p].up \in 0..(p - 1) /\ t[p].sec \in Sections
       /\ t[p].up = 0 <=> t[p].sec = "root"
       /\ t[p].up # 0 => /\ t[p].up \in Around(t, p)
                         /\ Kind(t, t[p].up) \in Hosts(t[p].sec)
       /\ t[p].sec = "switch" => Kind(t, p) \in {"case", "default"}
  /\ \A p, q \in 1..Len(t) :
       t[p].up = t[q].up /\ t[p].sec = "forbody" /\ t[q].sec = "forpost" => p < q

\* The last node in p.
Ends(t, p) ==
  CHOOSE e \in p..Len(t) : \A r \in p..Len(t) : p \in Around(t, r) <=> r <= e

LEMMA EndsProps ==
  ASSUME NEW t, Tree(t), NEW p \in 1..Len(t)
  PROVE  /\ Ends(t, p) \in p..Len(t)
         /\ \A r \in p..Len(t) : p \in Around(t, r) <=> r <= Ends(t, p)
<1>. DEFINE S == {r \in p..Len(t) : p \in Around(t, r)}
<1>1. Len(t) \in Nat /\ p \in Nat
  BY DEF Tree
<1>2. p \in S
  BY <1>1 DEF Around
<1>3. S \subseteq 0..Len(t)
  BY <1>1
<1>4. Max(S) \in S /\ \A y \in S : y <= Max(S)
  BY <1>1, <1>2, <1>3, MaxProps
<1>5. \A r \in p..Len(t) : p \in Around(t, r) <=> r <= Max(S)
  <2>1. TAKE r \in p..Len(t)
  <2>2. ASSUME r <= Max(S) PROVE p \in Around(t, r)
    BY <1>1, <1>4, <2>2 DEF Around
  <2>3. QED
    BY <1>4, <2>2
<1>6. QED
  BY <1>4, <1>5 DEF Ends

\* A node whose parent stands before p does not stand in p.
LEMMA BeyondEnds ==
  ASSUME NEW t, Tree(t), NEW p \in 1..Len(t), NEW q \in (p + 1)..Len(t), t[q].up < p
  PROVE  Ends(t, p) < q
<1>1. Len(t) \in Nat /\ t[q].up \in Nat /\ Ends(t, p) \in p..Len(t)
  <2>1. Len(t) \in Nat /\ p \in 1..Len(t) /\ q \in 1..Len(t)
    BY DEF Tree
  <2>2. t[q].up \in 0..(q - 1)
    BY <2>1 DEF Tree
  <2>3. QED
    BY <2>1, <2>2, EndsProps
<1>2. p \notin Around(t, q)
  BY <1>1 DEF Around
<1>3. q \in p..Len(t)
  BY <1>1
<1>4. QED
  BY <1>1, <1>2, <1>3, EndsProps

LEMMA AroundTrans ==
  ASSUME NEW t, Tree(t), NEW p \in 1..Len(t), NEW c \in Around(t, p), NEW d \in Around(t, c)
  PROVE  d \in Around(t, p)
<1>1. Len(t) \in Nat /\ c \in 1..p /\ d \in 1..c /\ \A q \in 1..Len(t) : t[q].up \in Nat
  BY DEF Tree, Around
<1>2. \A q \in (d + 1)..p : t[q].up >= d
  <2>1. TAKE q \in (d + 1)..p
  <2>2. CASE q <= c
    BY <1>1, <2>2 DEF Around
  <2>3. CASE q > c
    <3>1. t[q].up >= c /\ t[q].up \in Nat
      BY <1>1, <2>3 DEF Around
    <3>2. QED
      BY <1>1, <3>1
  <2>4. QED
    BY <1>1, <2>2, <2>3
<1>3. QED
  BY <1>1, <1>2 DEF Around

\* The loop of a break or continue: p stands in its body.
LEMMA LoopProps ==
  ASSUME NEW t, Tree(t), JumpsInLoops(t), NEW p \in 1..Len(t), Kind(t, p) \in {"brk", "cnt"}
  PROVE  \E c \in Around(t, p) :
           /\ t[c].sec \in {"body", "forbody"} /\ t[c].up = LoopOf(t, p)
           /\ \A d \in Around(t, p) : d > c =>
                t[d].sec \notin {"body", "forbody", "fun", "forpost", "asminit"}
           /\ LoopOf(t, p) \in 1..(c - 1) /\ LoopOf(t, p) \in Around(t, p)
           /\ t[c].sec = "body" <=> Kind(t, LoopOf(t, p)) \in {"while", "do"}
<1>1. PICK c0 \in Around(t, p) :
        /\ t[c0].sec \in {"body", "forbody"}
        /\ \A d \in Around(t, p) :
             d > c0 => t[d].sec \notin {"fun", "forpost", "asminit"}
  BY DEF JumpsInLoops, Tree
<1>. DEFINE S == {c \in Around(t, p) :
                    t[c].sec \in {"body", "forbody", "forpost", "asminit"}}
            c == Max(S)
<1>2. Len(t) \in Nat /\ p \in Nat /\ Around(t, p) \subseteq 0..p /\ Around(t, p) \subseteq 1..Len(t)
  BY DEF Tree, Around
<1>3. c \in S /\ \A y \in S : y <= c
  <2>1. S \subseteq 0..p /\ S # {}
    BY <1>1, <1>2
  <2>2. QED
    BY <1>2, <2>1, MaxProps
<1>4. LoopOf(t, p) = t[c].up
  BY DEF LoopOf
<1>. HIDE DEF c
<1>5. c0 <= c /\ c0 \in Nat /\ c \in Nat
  BY <1>1, <1>2, <1>3
<1>6. t[c].sec \in {"body", "forbody"}
  BY <1>1, <1>3, <1>5
<1>7. \A d \in Around(t, p) : d > c =>
        t[d].sec \notin {"body", "forbody", "fun", "forpost", "asminit"}
  <2>1. TAKE d \in Around(t, p)
  <2>2. HAVE d > c
  <2>3. d > c0 /\ d \notin S
    BY <1>2, <1>3, <1>5, <2>2
  <2>4. QED
    BY <1>1, <2>3
<1>8. c \in 1..Len(t) /\ c \in Around(t, p)
  BY <1>2, <1>3
<1>9. t[c].up \in 1..(c - 1) /\ t[c].up \in Around(t, c) /\ Kind(t, t[c].up) \in Hosts(t[c].sec)
  BY <1>6, <1>8 DEF Tree
<1>10. t[c].up \in Around(t, p)
  BY <1>8, <1>9, AroundTrans
<1>11. t[c].sec = "body" <=> Kind(t, t[c].up) \in {"while", "do"}
  BY <1>6, <1>9 DEF Hosts
<1>12. QED
  BY <1>4, <1>6, <1>7, <1>8, <1>9, <1>10, <1>11
-----------------------------------------------------------------------------
(* The order is well founded: control that passes no point goes forward in *)
(* the text, or outwards.                                                  *)

\* The last node that is behind control at place x.
Time(t, x) ==
  IF x.at = "behind" THEN IF x.node = 0 THEN Len(t) ELSE Ends(t, x.node)
  ELSE IF x.at = "nocase" THEN x.node
  ELSE IF Members(t, x.node, x.sec) # {} THEN Min(Members(t, x.node, x.sec)) - 1
  ELSE IF x.sec = "forpost" /\ x.node # 0 THEN Ends(t, x.node) ELSE x.node

Tie(t, x) ==
  IF x.at = "behind" \/ (x.at = "into" /\ x.sec = "forpost")
  THEN x.node ELSE Len(t) + 1

\* Place y is behind place x.
Ahead(t, x, y) ==
  \/ Time(t, x) < Time(t, y)
  \/ Time(t, x) = Time(t, y) /\ Tie(t, y) < Tie(t, x)

LEMMA MembersProps ==
  ASSUME NEW t, Tree(t), NEW p \in Nat, NEW s
  PROVE  /\ \A q \in Members(t, p, s) :
              /\ q \in 1..Len(t) /\ q > p /\ t[q].up = p /\ t[q].sec = s
              /\ t[q].up \in Nat
         /\ Members(t, p, s) # {} =>
              /\ Min(Members(t, p, s)) \in Members(t, p, s)
              /\ \A q \in Members(t, p, s) : Min(Members(t, p, s)) <= q
<1>1. \A q \in Members(t, p, s) :
        /\ q \in 1..Len(t) /\ q > p /\ t[q].up = p /\ t[q].sec = s /\ t[q].up \in Nat
  BY DEF Tree, Members
<1>2. Members(t, p, s) \subseteq Nat
  BY <1>1
<1>3. QED
  BY <1>1, <1>2, MinProps

LEMMA LaterProps ==
  ASSUME NEW t, Tree(t), NEW p \in 1..Len(t)
  PROVE  /\ \A q \in Later(t, p) :
              q \in (p + 1)..Len(t) /\ t[q].up = t[p].up /\ t[q].sec = t[p].sec
         /\ Later(t, p) # {} =>
              /\ Min(Later(t, p)) \in Later(t, p)
              /\ \A q \in Later(t, p) : Min(Later(t, p)) <= q
<1>1. \A q \in Later(t, p) :
        q \in (p + 1)..Len(t) /\ t[q].up = t[p].up /\ t[q].sec = t[p].sec
  BY DEF Tree, Later, Members
<1>2. Later(t, p) \subseteq Nat
  BY <1>1 DEF Tree
<1>3. QED
  BY <1>1, <1>2, MinProps

LEMMA PlaceParts ==
  ASSUME NEW t, NEW p \in 0..Len(t), NEW s \in Sections
  PROVE  /\ Into(p, s) \in Places(t) /\ Behind(p) \in Places(t) /\ NoCase(p) \in Places(t)
         /\ \A f : From(t, f, Into(p, s)) = FromInto(t, f, p, s)
         /\ \A f : From(t, f, Behind(p)) = FromBehind(t, f, p)
         /\ \A f : From(t, f, NoCase(p)) = FromNoCase(t, f, p)
BY DEF Into, Behind, NoCase, Place, Places, From

LEMMA TimeParts ==
  ASSUME NEW t, Tree(t), NEW p \in 0..Len(t), NEW s \in Sections
  PROVE  /\ Time(t, Behind(p)) \in p..Len(t) /\ Tie(t, Behind(p)) = p
         /\ Time(t, Behind(p)) = IF p = 0 THEN Len(t) ELSE Ends(t, p)
         /\ Time(t, NoCase(p)) = p /\ Tie(t, NoCase(p)) = Len(t) + 1
         /\ Time(t, Into(p, s)) \in p..Len(t)
         /\ Tie(t, Into(p, s)) = IF s = "forpost" THEN p ELSE Len(t) + 1
         /\ Members(t, p, s) # {} =>
              Time(t, Into(p, s)) = Min(Members(t, p, s)) - 1
         /\ Members(t, p, s) = {} =>
              Time(t, Into(p, s)) = IF s = "forpost" /\ p # 0 THEN Ends(t, p) ELSE p
<1>1. Len(t) \in Nat /\ p \in Nat
  BY DEF Tree
<1>2. p # 0 => Ends(t, p) \in p..Len(t)
  BY <1>1, EndsProps
<1>3. Members(t, p, s) # {} => Min(Members(t, p, s)) \in (p + 1)..Len(t)
  BY <1>1, MembersProps
<1>4. QED
  BY <1>1, <1>2, <1>3 DEF Time, Tie, Into, Behind, NoCase, Place

\* Behind a node in l is not before the end of l.
LEMMA EndsInside ==
  ASSUME NEW t, Tree(t), NEW p \in 1..Len(t), NEW d \in Around(t, p)
  PROVE  Ends(t, p) <= Ends(t, d)
<1>1. Len(t) \in Nat /\ d \in 1..p /\ d \in 1..Len(t)
  BY DEF Tree, Around
<1>2. Ends(t, p) \in p..Len(t) /\ Ends(t, d) \in d..Len(t)
  BY <1>1, EndsProps
<1>3. p \in Around(t, Ends(t, p))
  BY <1>1, <1>2, EndsProps
<1>4. Ends(t, p) \in 1..Len(t) /\ Ends(t, p) \in d..Len(t)
  BY <1>1, <1>2
<1>5. d \in Around(t, Ends(t, p))
  BY <1>3, <1>4, AroundTrans
<1>6. QED
  BY <1>1, <1>4, <1>5, EndsProps

\* Entering node q reads only what is behind q - 1.
LEMMA EnterLocal ==
  ASSUME NEW t, Tree(t), JumpsInLoops(t), NEW q \in 1..Len(t), NEW f, NEW g,
         \A y \in Places(t) : Time(t, y) >= q => f[y] = g[y]
  PROVE  Enter(t, f, q) = Enter(t, g, q)
<1>1. Len(t) \in Nat /\ q \in Nat /\ q \in 0..Len(t)
  BY DEF Tree
<1>2. f[Behind(q)] = g[Behind(q)]
  <2>1. Behind(q) \in Places(t) /\ Time(t, Behind(q)) \in q..Len(t)
    BY <1>1, PlaceParts, TimeParts DEF Sections
  <2>2. Time(t, Behind(q)) >= q
    BY <1>1, <2>1
  <2>3. QED
    BY <2>1, <2>2
<1>3. \A s \in Sections : f[Into(q, s)] = g[Into(q, s)]
  <2>1. TAKE s \in Sections
  <2>2. Into(q, s) \in Places(t) /\ Time(t, Into(q, s)) >= q
    BY <1>1, PlaceParts, TimeParts
  <2>3. QED
    BY <2>2
<1>4. CASE Kind(t, q) \in {"brk", "cnt"}
  <2>. DEFINE l == LoopOf(t, q)
  <2>1. PICK c \in Around(t, q) :
          /\ t[c].sec \in {"body", "forbody"} /\ t[c].up = l
          /\ l \in 1..(c - 1) /\ l \in Around(t, q)
          /\ t[c].sec = "body" <=> Kind(t, l) \in {"while", "do"}
    BY <1>4, LoopProps
  <2>. HIDE DEF l
  <2>2. c \in 1..q /\ c \in 1..Len(t) /\ l \in 1..Len(t) /\ l \in 0..Len(t) /\ l < c
    BY <1>1, <2>1 DEF Around
  <2>3. Ends(t, l) >= q
    <3>1. q \in l..Len(t)
      BY <1>1, <2>2
    <3>2. QED
      BY <1>1, <2>1, <2>2, <3>1, EndsProps
  <2>4. f[Behind(l)] = g[Behind(l)]
    <3>1. Behind(l) \in Places(t) /\ Time(t, Behind(l)) = Ends(t, l)
      BY <2>2, PlaceParts, TimeParts DEF Sections
    <3>2. QED
      BY <2>3, <3>1
  <2>5. CASE t[c].sec = "body"
    BY <1>4, <2>1, <2>4, <2>5 DEF Enter, SectionEnd, l
  <2>6. CASE t[c].sec = "forbody"
    <3>1. Time(t, Into(l, "forpost")) >= q
      <4>1. CASE Members(t, l, "forpost") = {}
        BY <2>2, <2>3, <4>1, TimeParts DEF Sections
      <4>2. CASE Members(t, l, "forpost") # {}
        <5>. DEFINE e == Min(Members(t, l, "forpost"))
        <5>1. e \in 1..Len(t) /\ t[e].up = l /\ t[e].sec = "forpost"
          BY <2>2, <4>2, MembersProps
        <5>2. Time(t, Into(l, "forpost")) = e - 1
          BY <2>2, <4>2, TimeParts DEF Sections
        <5>. HIDE DEF e
        <5>3. c < e
          BY <2>1, <2>2, <2>6, <5>1 DEF Tree
        <5>4. e \notin (c + 1)..q
          <6>1. ASSUME e \in (c + 1)..q PROVE t[e].up >= c
            BY <2>1, <6>1 DEF Around
          <6>2. QED
            BY <2>2, <5>1, <6>1
        <5>5. QED
          BY <1>1, <2>2, <5>1, <5>2, <5>3, <5>4
      <4>3. QED
        BY <4>1, <4>2
    <3>2. Into(l, "forpost") \in Places(t)
      BY <2>2, PlaceParts DEF Sections
    <3>3. f[Into(l, "forpost")] = g[Into(l, "forpost")]
      BY <3>1, <3>2
    <3>4. Kind(t, l) \notin {"while", "do"}
      BY <2>1, <2>6
    <3>5. QED
      BY <1>4, <2>4, <3>3, <3>4 DEF Enter, SectionEnd, l
  <2>7. QED
    BY <2>1, <2>5, <2>6
<1>5. CASE Kind(t, q) \notin {"brk", "cnt"}
  BY <1>2, <1>3, <1>5 DEF Enter, Sections
<1>6. QED
  BY <1>4, <1>5

\* When a section ends that was entered, or empty, control goes ahead.
LEMMA SectionEndLocal ==
  ASSUME NEW t, NEW p, NEW s, NEW f, NEW g,
         s \in {"then", "else", "case"} => f[Behind(p)] = g[Behind(p)],
         s = "forbody" => f[Into(p, "forpost")] = g[Into(p, "forpost")]
  PROVE  SectionEnd(f, p, s) = SectionEnd(g, p, s)
BY DEF SectionEnd

LEMMA FromLocal ==
  ASSUME NEW t, Tree(t), JumpsInLoops(t), NEW x \in Places(t), NEW f, NEW g,
         \A y \in Places(t) : Ahead(t, x, y) => f[y] = g[y]
  PROVE  From(t, f, x) = From(t, g, x)
<1>. DEFINE p == x.node
            s == x.sec
            n == Len(t)
<1>1. /\ n \in Nat /\ p \in 0..n /\ s \in Sections \cup {"none"}
      /\ x.at \in {"into", "behind", "nocase"}
  BY DEF Tree, Places
<1>2. \A q \in 1..n : Time(t, x) < q => Enter(t, f, q) = Enter(t, g, q)
  <2>1. TAKE q \in 1..n
  <2>2. HAVE Time(t, x) < q
  <2>3. \A y \in Places(t) : Time(t, y) >= q => f[y] = g[y]
    <3>1. TAKE y \in Places(t)
    <3>2. HAVE Time(t, y) >= q
    <3>3. Time(t, x) \in Int /\ Time(t, y) \in Int
      <4>1. \A z \in Places(t) : Time(t, z) \in Int
        <5>1. TAKE z \in Places(t)
        <5>2. z.node \in 0..n /\ z.node \in Nat
          BY <1>1 DEF Places
        <5>3. z.node # 0 => Ends(t, z.node) \in Int
          BY <1>1, <5>2, EndsProps
        <5>4. Members(t, z.node, z.sec) # {} => Min(Members(t, z.node, z.sec)) \in Int
          BY <1>1, <5>2, MembersProps
        <5>5. QED
          BY <1>1, <5>2, <5>3, <5>4 DEF Time
      <4>2. QED
        BY <4>1
    <3>4. QED
      BY <1>1, <2>2, <3>2, <3>3 DEF Ahead
  <2>4. QED
    BY <2>3, EnterLocal
<1>3. CASE x.at = "nocase"
  <2>1. Time(t, x) = p /\ Tie(t, x) = n + 1
    BY <1>3 DEF Time, Tie
  <2>2. f[Behind(p)] = g[Behind(p)]
    <3>1. Behind(p) \in Places(t) /\ Time(t, Behind(p)) \in p..n /\ Tie(t, Behind(p)) = p
      BY <1>1, PlaceParts, TimeParts DEF Sections
    <3>2. Ahead(t, x, Behind(p))
      BY <1>1, <2>1, <3>1 DEF Ahead
    <3>3. QED
      BY <3>1, <3>2
  <2>3. Default(t, p) # {} =>
          f[Into(Min(Default(t, p)), "case")] = g[Into(Min(Default(t, p)), "case")]
    <3>. DEFINE d == Min(Default(t, p))
    <3>1. HAVE Default(t, p) # {}
    <3>2. d \in Members(t, p, "switch")
      <4>1. Default(t, p) \subseteq Nat /\ Default(t, p) \subseteq Members(t, p, "switch")
        BY <1>1, MembersProps DEF Default
      <4>2. QED
        BY <3>1, <4>1, MinProps
    <3>. HIDE DEF d
    <3>3. d \in 1..n /\ d > p
      BY <1>1, <3>2, MembersProps
    <3>4. Into(d, "case") \in Places(t) /\ Time(t, Into(d, "case")) \in d..n
      BY <1>1, <3>3, PlaceParts, TimeParts DEF Sections
    <3>5. Ahead(t, x, Into(d, "case"))
      BY <1>1, <2>1, <3>3, <3>4 DEF Ahead
    <3>6. QED
      BY <3>4, <3>5 DEF d
  <2>4. QED
    BY <1>3, <2>2, <2>3 DEF From, FromNoCase
<1>4. CASE x.at = "behind"
  <2>1. Time(t, x) = IF p = 0 THEN n ELSE Ends(t, p)
    BY <1>4 DEF Time
  <2>2. Tie(t, x) = p
    BY <1>4 DEF Tie
  <2>3. CASE p = 0
    BY <1>4, <2>3 DEF From, FromBehind
  <2>4. CASE p # 0
    <3>. DEFINE u == t[p].up
    <3>1. p \in 1..n /\ u \in 0..(p - 1) /\ u \in 0..n /\ u < p /\ (u # 0 => u \in Around(t, p) /\ u \in 1..n)
      BY <1>1, <2>4 DEF Tree
    <3>2. Ends(t, p) \in p..n
      BY <3>1, EndsProps
    <3>3. f[Behind(u)] = g[Behind(u)]
      <4>1. Behind(u) \in Places(t) /\ Tie(t, Behind(u)) = u
            /\ Time(t, Behind(u)) = IF u = 0 THEN n ELSE Ends(t, u)
        BY <1>1, <3>1, PlaceParts, TimeParts DEF Sections
      <4>2. u # 0 => Ends(t, p) <= Ends(t, u) /\ Ends(t, u) \in u..n
        BY <3>1, EndsInside, EndsProps
      <4>3. Ahead(t, x, Behind(u))
        BY <1>1, <2>1, <2>2, <2>4, <3>1, <3>2, <4>1, <4>2 DEF Ahead
      <4>4. QED
        BY <4>1, <4>3
    <3>4. t[p].sec = "forbody" => f[Into(u, "forpost")] = g[Into(u, "forpost")]
      <4>1. HAVE t[p].sec = "forbody"
      <4>2. u # 0
        BY <3>1, <4>1 DEF Tree
      <4>3. Into(u, "forpost") \in Places(t) /\ Tie(t, Into(u, "forpost")) = u
        BY <1>1, <3>1, PlaceParts, TimeParts DEF Sections
      <4>4. Time(t, Into(u, "forpost")) \in Nat /\ Time(t, Into(u, "forpost")) >= Ends(t, p)
        <5>1. CASE Members(t, u, "forpost") = {}
          <6>1. Time(t, Into(u, "forpost")) = Ends(t, u)
            BY <1>1, <3>1, <4>2, <5>1, TimeParts DEF Sections
          <6>2. Ends(t, p) <= Ends(t, u) /\ Ends(t, u) \in u..n
            BY <3>1, <4>2, EndsInside, EndsProps
          <6>3. QED
            BY <1>1, <3>1, <3>2, <6>1, <6>2
        <5>2. CASE Members(t, u, "forpost") # {}
          <6>. DEFINE e == Min(Members(t, u, "forpost"))
          <6>1. e \in 1..n /\ t[e].up = u /\ t[e].sec = "forpost"
            BY <1>1, <3>1, <5>2, MembersProps
          <6>2. Time(t, Into(u, "forpost")) = e - 1
            BY <1>1, <3>1, <5>2, TimeParts DEF Sections
          <6>. HIDE DEF e
          <6>3. p < e
            BY <3>1, <4>1, <6>1 DEF Tree
          <6>4. e \in (p + 1)..Len(t) /\ t[e].up < p
            BY <1>1, <3>1, <6>1, <6>3
          <6>5. Ends(t, p) < e
            BY <3>1, <6>4, BeyondEnds
          <6>6. QED
            BY <1>1, <3>1, <3>2, <6>1, <6>2, <6>5
        <5>3. QED
          BY <5>1, <5>2
      <4>5. Ahead(t, x, Into(u, "forpost"))
        BY <1>1, <2>1, <2>2, <2>4, <3>1, <3>2, <4>3, <4>4 DEF Ahead
      <4>6. QED
        BY <4>3, <4>5
    <3>5. Later(t, p) # {} => Enter(t, f, Min(Later(t, p))) = Enter(t, g, Min(Later(t, p)))
      <4>. DEFINE q == Min(Later(t, p))
      <4>1. HAVE Later(t, p) # {}
      <4>2. q \in (p + 1)..n /\ t[q].up = u
        BY <3>1, <4>1, LaterProps
      <4>. HIDE DEF q
      <4>3. Ends(t, p) < q
        BY <3>1, <4>2, BeyondEnds
      <4>4. Time(t, x) < q /\ q \in 1..n
        BY <1>1, <2>1, <2>4, <3>1, <4>2, <4>3
      <4>5. Enter(t, f, q) = Enter(t, g, q)
        BY <1>2, <4>4
      <4>6. QED
        BY <4>5 DEF q
    <3>6. SectionEnd(f, u, t[p].sec) = SectionEnd(g, u, t[p].sec)
      BY <3>3, <3>4, SectionEndLocal
    <3>7. QED
      BY <1>4, <2>4, <3>3, <3>5, <3>6 DEF From, FromBehind
  <2>5. QED
    BY <2>3, <2>4
<1>5. CASE x.at = "into"
  <2>1. CASE Members(t, p, s) = {}
    <3>1. /\ Time(t, x) = IF s = "forpost" /\ p # 0 THEN Ends(t, p) ELSE p
          /\ Tie(t, x) = IF s = "forpost" THEN p ELSE n + 1
      BY <1>5, <2>1 DEF Time, Tie
    <3>2. s \in {"then", "else", "case"} => f[Behind(p)] = g[Behind(p)]
      <4>1. HAVE s \in {"then", "else", "case"}
      <4>2. Behind(p) \in Places(t) /\ Time(t, Behind(p)) \in p..n /\ Tie(t, Behind(p)) = p
        BY <1>1, PlaceParts, TimeParts DEF Sections
      <4>3. Ahead(t, x, Behind(p))
        BY <1>1, <3>1, <4>1, <4>2 DEF Ahead
      <4>4. QED
        BY <4>2, <4>3
    <3>3. s = "forbody" => f[Into(p, "forpost")] = g[Into(p, "forpost")]
      <4>1. HAVE s = "forbody"
      <4>2. /\ Into(p, "forpost") \in Places(t) /\ Time(t, Into(p, "forpost")) \in p..n
            /\ Tie(t, Into(p, "forpost")) = p
        BY <1>1, PlaceParts, TimeParts DEF Sections
      <4>3. Ahead(t, x, Into(p, "forpost"))
        BY <1>1, <3>1, <4>1, <4>2 DEF Ahead
      <4>4. QED
        BY <4>2, <4>3
    <3>4. SectionEnd(f, p, s) = SectionEnd(g, p, s)
      BY <3>2, <3>3, SectionEndLocal
    <3>5. QED
      BY <1>5, <2>1, <3>4 DEF From, FromInto
  <2>2. CASE Members(t, p, s) # {}
    <3>1. Time(t, x) = Min(Members(t, p, s)) - 1 /\ Min(Members(t, p, s)) \in 1..n
      <4>1. p \in Nat
        BY <1>1
      <4>2. QED
        BY <1>5, <2>2, <4>1, MembersProps DEF Time
    <3>2. Enter(t, f, Min(Members(t, p, s))) = Enter(t, g, Min(Members(t, p, s)))
      BY <1>1, <1>2, <3>1
    <3>3. QED
      BY <1>5, <2>2, <3>2 DEF From, FromInto
  <2>3. QED
    BY <2>1, <2>2
<1>6. QED
  BY <1>1, <1>3, <1>4, <1>5


Rank(t, x) == (Len(t) - Time(t, x)) * (Len(t) + 2) + Tie(t, x)

LEMMA RankGap ==
  ASSUME NEW a \in Nat, NEW b \in Nat, NEW k \in Nat, a < b
  PROVE  a * k + k <= b * k
<1>1. PICK c \in Nat : b = a + 1 + c
  <2>1. b - a - 1 \in Nat /\ b = a + 1 + (b - a - 1)
    OBVIOUS
  <2>2. QED
    BY <2>1
<1>2. b * k = a * k + k + c * k
  BY <1>1
<1>3. c * k \in Nat /\ a * k \in Nat
  OBVIOUS
<1>4. QED
  BY <1>2, <1>3

LEMMA RankProps ==
  ASSUME NEW t, Tree(t), NEW x \in Places(t)
  PROVE  /\ Rank(t, x) \in Nat
         /\ \A y \in Places(t) : Ahead(t, x, y) => Rank(t, y) < Rank(t, x)
<1>1. Len(t) \in Nat
  BY DEF Tree
<1>2. \A z \in Places(t) : Time(t, z) \in 0..Len(t) /\ Tie(t, z) \in 0..(Len(t) + 1)
  <2>1. TAKE z \in Places(t)
  <2>2. z.node \in 0..Len(t) /\ z.node \in Nat
    BY <1>1 DEF Places
  <2>3. z.node # 0 => Ends(t, z.node) \in 0..Len(t)
    BY <1>1, <2>2, EndsProps
  <2>4. Members(t, z.node, z.sec) # {} => Min(Members(t, z.node, z.sec)) \in 1..Len(t)
    BY <1>1, <2>2, MembersProps
  <2>5. QED
    BY <1>1, <2>2, <2>3, <2>4 DEF Time, Tie
<1>3. \A z \in Places(t) : (Len(t) - Time(t, z)) * (Len(t) + 2) \in Nat
  <2>1. TAKE z \in Places(t)
  <2>2. Len(t) - Time(t, z) \in Nat /\ Len(t) + 2 \in Nat
    BY <1>1, <1>2
  <2>3. QED
    BY <2>2
<1>4. Rank(t, x) \in Nat
  BY <1>1, <1>2, <1>3 DEF Rank
<1>5. ASSUME NEW y \in Places(t), Ahead(t, x, y) PROVE Rank(t, y) < Rank(t, x)
  <2>1. PICK a, b, k : a = Len(t) - Time(t, y) /\ b = Len(t) - Time(t, x) /\ k = Len(t) + 2
    OBVIOUS
  <2>2. a \in Nat /\ b \in Nat /\ k \in Nat
    BY <1>1, <1>2, <2>1
  <2>3. Rank(t, y) = a * k + Tie(t, y) /\ Rank(t, x) = b * k + Tie(t, x)
    BY <2>1 DEF Rank
  <2>4. a * k \in Nat /\ b * k \in Nat
    BY <2>2
  <2>5. CASE Time(t, x) < Time(t, y)
    <3>1. a < b
      BY <1>1, <1>2, <2>1, <2>5
    <3>2. a * k + k <= b * k
      BY <2>2, <3>1, RankGap
    <3>3. Tie(t, y) < k /\ Tie(t, y) \in Nat /\ Tie(t, x) \in Nat
      BY <1>1, <1>2, <2>1
    <3>4. QED
      BY <2>2, <2>3, <2>4, <3>2, <3>3
  <2>6. CASE Time(t, x) = Time(t, y) /\ Tie(t, y) < Tie(t, x)
    <3>1. a = b
      BY <2>1, <2>6
    <3>2. Tie(t, y) \in Nat /\ Tie(t, x) \in Nat
      BY <1>1, <1>2
    <3>3. QED
      BY <2>3, <2>4, <2>6, <3>1, <3>2
  <2>7. QED
    BY <1>5, <2>5, <2>6 DEF Ahead
<1>6. QED
  BY <1>4, <1>5

\* Some function gives the point that follows each place.
LEMMA PointExists ==
  ASSUME NEW t, Tree(t), JumpsInLoops(t)
  PROVE  \E f : f = [x \in Places(t) |-> From(t, f, x)]
<1>. DEFINE Good(f, n) == \A x \in Places(t) : Rank(t, x) < n => f[x] = From(t, f, x)
            Step(f) == [x \in Places(t) |-> From(t, f, x)]
            S == {n \in Nat : \E f : Good(f, n)}
<1>1. 0 \in S
  <2>1. \A f : Good(f, 0)
    BY RankProps
  <2>2. QED
    BY <2>1
<1>2. ASSUME NEW n \in Nat, n \in S PROVE n + 1 \in S
  <2>1. PICK f : Good(f, n)
    BY <1>2
  <2>2. Good(Step(f), n + 1)
    <3>1. SUFFICES ASSUME NEW x \in Places(t), Rank(t, x) < n + 1
                   PROVE  Step(f)[x] = From(t, Step(f), x)
      OBVIOUS
    <3>2. \A y \in Places(t) : Ahead(t, x, y) => f[y] = Step(f)[y]
      <4>1. TAKE y \in Places(t)
      <4>2. HAVE Ahead(t, x, y)
      <4>3. Rank(t, y) < n
        <5>1. Rank(t, y) < Rank(t, x) /\ Rank(t, y) \in Nat /\ Rank(t, x) \in Nat
          BY <4>2, RankProps
        <5>2. QED
          BY <3>1, <5>1
      <4>4. f[y] = From(t, f, y)
        BY <2>1, <4>3
      <4>5. QED
        BY <4>4
    <3>3. From(t, f, x) = From(t, Step(f), x)
      <4>. HIDE DEF Step
      <4>1. QED
        BY <3>2, FromLocal
    <3>4. QED
      BY <3>3
  <2>3. n + 1 \in Nat
    OBVIOUS
  <2>. HIDE DEF Good, Step
  <2>4. \E h : Good(h, n + 1)
    BY <2>2
  <2>5. QED
    BY <2>3, <2>4
<1>3. Nat \subseteq S
  <2>. HIDE DEF S
  <2>1. QED
    BY <1>1, <1>2, NaturalInduction
<1>4. PICK K \in Nat : \A x \in Places(t) : Rank(t, x) < K
  <2>1. Len(t) \in Nat
    BY DEF Tree
  <2>2. PICK k \in Nat : k = Len(t) + 2
    BY <2>1
  <2>3. \A x \in Places(t) : Rank(t, x) <= Len(t) * k + Len(t) + 1
    <3>1. TAKE x \in Places(t)
    <3>2. Time(t, x) \in 0..Len(t) /\ Tie(t, x) \in 0..(Len(t) + 1)
      <4>2. x.node \in 0..Len(t) /\ x.node \in Nat
        BY <2>1 DEF Places
      <4>3. x.node # 0 => Ends(t, x.node) \in 0..Len(t)
        BY <2>1, <4>2, EndsProps
      <4>4. Members(t, x.node, x.sec) # {} => Min(Members(t, x.node, x.sec)) \in 1..Len(t)
        BY <2>1, <4>2, MembersProps
      <4>5. QED
        BY <2>1, <4>2, <4>3, <4>4 DEF Time, Tie
    <3>3. PICK a \in Nat, n \in Nat : a = Len(t) - Time(t, x) /\ n = Len(t) /\ a <= n
      BY <2>1, <3>2
    <3>4. a * k <= n * k /\ a * k \in Nat /\ n * k \in Nat
      <4>1. a < n => a * k + k <= n * k
        BY <3>3, RankGap
      <4>2. a * k \in Nat /\ n * k \in Nat
        OBVIOUS
      <4>3. QED
        BY <3>3, <4>1, <4>2
    <3>5. Rank(t, x) = a * k + Tie(t, x)
      BY <2>2, <3>3 DEF Rank
    <3>6. QED
      BY <2>1, <3>2, <3>3, <3>4, <3>5
  <2>4. Len(t) * k + Len(t) + 2 \in Nat
    <3>1. Len(t) * k \in Nat
      BY <2>1
    <3>2. QED
      BY <2>1, <3>1
  <2>5. \A x \in Places(t) : Rank(t, x) \in Nat
    BY RankProps
  <2>6. \A x \in Places(t) : Rank(t, x) < Len(t) * k + Len(t) + 2
    <3>1. PICK z \in Nat : z = Len(t) * k + Len(t) + 2
      BY <2>4
    <3>2. Len(t) * k + Len(t) + 1 = z - 1
      <4>1. Len(t) * k \in Nat
        BY <2>1
      <4>2. QED
        BY <2>1, <3>1, <4>1
    <3>3. \A x \in Places(t) : Rank(t, x) <= z - 1
      BY <2>3, <3>2
    <3>4. QED
      BY <2>5, <3>1, <3>3
  <2>7. QED
    BY <2>4, <2>6
<1>5. PICK f : Good(f, K)
  BY <1>3, <1>4
<1>6. \A x \in Places(t) : f[x] = From(t, f, x)
  BY <1>4, <1>5
<1>7. \A x \in Places(t) : From(t, f, x) = From(t, Step(f), x)
  <2>1. \A y \in Places(t) : f[y] = Step(f)[y]
    BY <1>6
  <2>. HIDE DEF Step
  <2>2. QED
    BY <2>1, FromLocal
<1>8. Step(f) = [x \in Places(t) |-> From(t, Step(f), x)]
  BY <1>7
<1>9. QED
  BY <1>8

\* The order is defined: the recursion that gives the point at each place
\* of a tree has a solution, however loops, jumps and switches are nested.
THEOREM OrderIsDefined ==
  ASSUME NEW t, Tree(t), JumpsInLoops(t)
  PROVE  \A x \in Places(t) : Point(t)[x] = From(t, Point(t), x)
<1>1. \E f : f = [x \in Places(t) |-> From(t, f, x)]
  BY PointExists
<1>2. Point(t) = [x \in Places(t) |-> From(t, Point(t), x)]
  BY <1>1, Zenon DEF Point
<1>3. QED
  BY <1>2

-----------------------------------------------------------------------------
(* The calls in progress and the tree.                                     *)

\* The sections that a call of kind k has come to, and those it is at or
\* has still to come to.
Begun(k) ==
  CASE k = "else" -> {"then", "else"}
    [] k = "forbody" -> {"asminit", "forbody"}
    [] k = "forpost" -> {"asminit", "forbody", "forpost"}
    [] OTHER -> {k}

ToCome(k) ==
  CASE k = "then" -> {"then", "else"}
    [] k = "asminit" -> {"asminit", "forbody", "forpost"}
    [] k = "forbody" -> {"forbody", "forpost"}
    [] OTHER -> {k}

\* A call works at the node that its caller has visited last, and the node
\* has no statements of sections that the call has not come to.
CallAt(t, f, g) ==
  LET p == g.node
  IN /\ p \in 1..Len(t)
     /\ t[p].up = f.node /\ t[p].sec = f.k
     /\ Kind(t, p) \in Hosts(g.k)
     /\ \A x \in (p + 1)..Len(t) : t[x].up >= p
     /\ \A x \in 1..Len(t) : t[x].up = p =>
          /\ t[x].sec \in Begun(g.k)
          /\ g.k = "switch" /\ g.next # 0 => Kind(t, x) = "case"

Stacked ==
  /\ work[1].node = 0
  /\ \A i \in 2..Len(work) : CallAt(ast, work[i - 1], work[i])
  /\ \A i, j \in 1..Len(work) : i < j => work[i].node < work[j].node

Nested == Tree(ast) /\ (pc = "emit" => Stacked)

\* Frame g is what has become of frame f.
Continues(f, g) ==
  /\ g.node = f.node
  /\ ToCome(g.k) \subseteq ToCome(f.k) /\ Begun(f.k) \subseteq Begun(g.k)
  /\ Hosts(f.k) \subseteq Hosts(g.k)
  /\ g.k = "switch" => f.k = "switch" /\ (g.next # 0 => f.next # 0)

\* A node is visited for the innermost call, of which g is what becomes.
VisitsFor(g) ==
  \E k \in Kinds :
    /\ Visit(k)
    /\ Top.k = "switch" => k \in {"case", "default"}
    /\ g.k = "switch" /\ g.next # 0 => k = "case"

\* What a step does to the calls: those below the m-th stay, the m-th goes
\* on, and above it there is none or one, for the node just visited.
Moves(m) ==
  /\ m \in 1..Len(work) /\ Len(work') \in {m, m + 1}
  /\ \A i \in 1..(m - 1) : work'[i] = work[i]
  /\ Continues(work[m], work'[m])
  /\ \/ ast' = ast /\ Len(work') = m
     \/ m = Len(work) /\ VisitsFor(work'[m])
  /\ Len(work') = m + 1 =>
       /\ work'[m].k = work[m].k
       /\ work'[m + 1].node = NewNode
       /\ ast'[NewNode].k \in Hosts(work'[m + 1].k)

LEMMA NodeTypes ==
  ASSUME ast \in Seq(NodeType)
  PROVE  /\ Len(ast) \in Nat /\ DOMAIN ast = 1..Len(ast) /\ NewNode = Len(ast) + 1
         /\ \A p \in 1..Len(ast) :
              /\ ast[p] \in NodeType /\ ast[p].up \in Nat
              /\ ast[p].sec \in StmtLists \cup {"switch"}
<1>1. Len(ast) \in Nat /\ DOMAIN ast = 1..Len(ast) /\ \A p \in 1..Len(ast) : ast[p] \in NodeType
  OBVIOUS
<1>2. QED
  BY <1>1 DEF NodeType, NewNode

LEMMA Visited ==
  ASSUME ast \in Seq(NodeType), NEW k, Visit(k)
  PROVE  /\ Len(ast') = Len(ast) + 1 /\ DOMAIN ast' = 1..Len(ast')
         /\ \A p \in 1..Len(ast) : ast'[p] = ast[p]
         /\ ast'[NewNode] = [k |-> k, up |-> Top.node, sec |-> Top.k]
BY DEF Visit, NewNode

LEMMA VisitedKind ==
  ASSUME ast \in Seq(NodeType), NEW k, Visit(k)
  PROVE  ast'[NewNode].k = k
<1>1. ast'[NewNode] = [k |-> k, up |-> Top.node, sec |-> Top.k]
  BY Visited
<1>2. QED
  BY <1>1

LEMMA SectionNames == StmtLists \cup {"switch"} = Sections
BY DEF StmtLists, Sections

\* The innermost call, and the nodes of all calls.
LEMMA TopStacked ==
  ASSUME TypeOK, StackShape, Stacked
  PROVE  /\ Top.node \in 0..Len(ast) /\ (Top.node = 0 <=> Top.k = "root")
         /\ Top.k \in Sections
         /\ Top.node # 0 =>
              /\ Len(work) >= 2 /\ CallAt(ast, work[Len(work) - 1], Top)
         /\ \A i \in 1..Len(work) :
              /\ work[i].node \in 0..Len(ast) /\ work[i].node <= Top.node
              /\ i < Len(work) => work[i].node < Top.node
<1>1. /\ Len(work) \in Nat \ {0} /\ Top \in FrameType /\ (Top.k = "root" <=> Len(work) = 1)
      /\ work \in Seq(FrameType) /\ Len(ast) \in Nat
  <2>1. Len(ast) \in Nat
    BY DEF TypeOK
  <2>2. QED
    BY <2>1, TopType
<1>2. Top.k \in Sections
  BY <1>1, SectionNames DEF FrameType
<1>3. \A i \in 2..Len(work) : work[i].node \in 1..Len(ast)
  BY DEF Stacked, CallAt
<1>4. \A i \in 1..Len(work) : work[i].node \in 0..Len(ast)
  <2>1. TAKE i \in 1..Len(work)
  <2>2. CASE i = 1
    BY <1>1, <2>2 DEF Stacked
  <2>3. CASE i # 1
    BY <1>1, <1>3, <2>3
  <2>4. QED
    BY <2>2, <2>3
<1>5. \A i \in 1..Len(work) : i < Len(work) => work[i].node < Top.node
  BY <1>1 DEF Stacked, Top
<1>6. Top.node \in 0..Len(ast) /\ (Top.node = 0 <=> Len(work) = 1)
  <2>1. CASE Len(work) = 1
    BY <1>1, <2>1 DEF Stacked, Top
  <2>2. CASE Len(work) # 1
    BY <1>1, <1>3, <2>2 DEF Top
  <2>3. QED
    BY <2>1, <2>2
<1>7. Top.node # 0 => Len(work) >= 2 /\ CallAt(ast, work[Len(work) - 1], Top)
  BY <1>1, <1>6 DEF Stacked, Top
<1>8. \A i \in 1..Len(work) : work[i].node <= Top.node
  <2>1. TAKE i \in 1..Len(work)
  <2>2. CASE i < Len(work)
    BY <1>4, <1>5, <1>6, <2>2
  <2>3. CASE i = Len(work)
    BY <1>6, <2>3 DEF Top
  <2>4. QED
    BY <1>1, <2>2, <2>3
<1>9. QED
  BY <1>1, <1>2, <1>4, <1>5, <1>6, <1>7, <1>8

\* Visiting a node makes the tree grow.
LEMMA TreeGrows ==
  ASSUME TypeOK, StackShape, Tree(ast), Stacked, NEW k \in Kinds, Visit(k),
         Top.k = "switch" => k \in {"case", "default"}
  PROVE  Tree(ast')
<1>. DEFINE q == NewNode
<1>1. /\ Len(ast) \in Nat /\ q = Len(ast) + 1 /\ Len(ast') = q /\ DOMAIN ast' = 1..q
      /\ \A p \in 1..Len(ast) : ast'[p] = ast[p]
      /\ ast'[q] = [k |-> k, up |-> Top.node, sec |-> Top.k]
  BY Visited, NodeTypes DEF TypeOK
<1>. HIDE DEF q
<1>2. /\ Top.node \in 0..Len(ast) /\ (Top.node = 0 <=> Top.k = "root") /\ Top.k \in Sections
      /\ Top.node # 0 => CallAt(ast, work[Len(work) - 1], Top)
  BY TopStacked
<1>3. \A p \in 1..Len(ast) : Around(ast', p) = Around(ast, p)
  <2>1. TAKE p \in 1..Len(ast)
  <2>2. \A c \in 1..p : \A x \in (c + 1)..p : ast'[x] = ast[x]
    BY <1>1
  <2>3. QED
    BY <2>2 DEF Around
<1>4. ASSUME NEW p \in 1..Len(ast')
      PROVE  /\ ast'[p].up \in 0..(p - 1) /\ ast'[p].sec \in Sections
             /\ ast'[p].up = 0 <=> ast'[p].sec = "root"
             /\ ast'[p].up # 0 => /\ ast'[p].up \in Around(ast', p)
                                 /\ Kind(ast', ast'[p].up) \in Hosts(ast'[p].sec)
             /\ ast'[p].sec = "switch" => Kind(ast', p) \in {"case", "default"}
  <2>1. CASE p \in 1..Len(ast)
    <3>1. ast'[p] = ast[p] /\ Around(ast', p) = Around(ast, p)
      BY <1>1, <1>3, <2>1
    <3>2. /\ ast[p].up \in 0..(p - 1)
          /\ ast[p].sec \in Sections /\ (ast[p].up = 0 <=> ast[p].sec = "root")
          /\ ast[p].up # 0 => /\ ast[p].up \in Around(ast, p)
                              /\ Kind(ast, ast[p].up) \in Hosts(ast[p].sec)
          /\ ast[p].sec = "switch" => Kind(ast, p) \in {"case", "default"}
      BY <2>1 DEF Tree
    <3>3. ast[p].up # 0 => ast'[ast[p].up] = ast[ast[p].up]
      BY <1>1, <2>1, <3>2
    <3>4. QED
      BY <3>1, <3>2, <3>3 DEF Kind
  <2>2. CASE p = q
    <3>1. ast'[p].up = Top.node /\ ast'[p].sec = Top.k /\ ast'[p].k = k
      BY <1>1, <2>2
    <3>2. Top.node # 0 =>
            /\ Top.node \in Around(ast', p) /\ Kind(ast', Top.node) \in Hosts(Top.k)
      <4>1. HAVE Top.node # 0
      <4>2. CallAt(ast, work[Len(work) - 1], Top)
        BY <1>2, <4>1
      <4>3. Top.node \in 1..p /\ Top.node \in 1..Len(ast)
        BY <1>1, <1>2, <2>2, <4>1
      <4>4. \A x \in (Top.node + 1)..p : ast'[x].up >= Top.node
        <5>1. TAKE x \in (Top.node + 1)..p
        <5>2. CASE x = q
          BY <1>1, <4>3, <5>2
        <5>3. CASE x # q
          <6>1. x \in 1..Len(ast) /\ x \in (Top.node + 1)..Len(ast)
            BY <1>1, <2>2, <4>3, <5>3
          <6>2. ast[x].up >= Top.node
            BY <4>2, <6>1 DEF CallAt
          <6>3. QED
            BY <1>1, <6>1, <6>2
        <5>4. QED
          BY <5>2, <5>3
      <4>5. Kind(ast, Top.node) \in Hosts(Top.k)
        BY <4>2 DEF CallAt
      <4>6. QED
        BY <1>1, <4>3, <4>4, <4>5 DEF Around, Kind
    <3>3. Top.node \in 0..(p - 1)
      BY <1>1, <1>2, <2>2
    <3>4. Top.k = "switch" => Kind(ast', p) \in {"case", "default"}
      BY <3>1 DEF Kind
    <3>5. QED
      BY <1>2, <3>1, <3>2, <3>3, <3>4
  <2>3. QED
    BY <1>1, <2>1, <2>2
<1>5. ASSUME NEW p \in 1..Len(ast'), NEW r \in 1..Len(ast'),
             ast'[p].up = ast'[r].up, ast'[p].sec = "forbody", ast'[r].sec = "forpost"
      PROVE  p < r
  <2>1. CASE p = q
    <3>1. r \in 1..Len(ast)
      BY <1>1, <1>5, <2>1
    <3>2. ast[r].up = Top.node /\ ast[r].sec = "forpost" /\ Top.k = "forbody"
      BY <1>1, <1>5, <2>1, <3>1
    <3>3. CallAt(ast, work[Len(work) - 1], Top)
      BY <1>2, <3>2
    <3>4. "forpost" \in Begun("forbody")
      BY <3>1, <3>2, <3>3 DEF CallAt
    <3>5. QED
      BY <3>4 DEF Begun
  <2>2. CASE p # q /\ r = q
    BY <1>1, <2>2
  <2>3. CASE p # q /\ r # q
    <3>1. p \in 1..Len(ast) /\ r \in 1..Len(ast)
      BY <1>1, <2>3
    <3>2. QED
      BY <1>1, <1>5, <3>1 DEF Tree
  <2>4. QED
    BY <2>1, <2>2, <2>3
<1>6. QED
  BY <1>1, <1>4, <1>5 DEF Tree

\* A frame that goes on, at the node it was called for.
LEMMA CallGoesOn ==
  ASSUME TypeOK, StackShape, Stacked, NEW f, NEW g, NEW h, CallAt(ast, f, g), Continues(g, h),
         g.node <= Top.node,
         \/ ast' = ast
         \/ \E k \in Kinds :
              /\ Visit(k)
              /\ Top.node = g.node => Top.k \in Begun(h.k)
              /\ Top.node = g.node /\ h.k = "switch" /\ h.next # 0 => k = "case"
  PROVE  CallAt(ast', f, h)
<1>. DEFINE p == g.node
<1>1. /\ p \in 1..Len(ast) /\ ast[p].up = f.node /\ ast[p].sec = f.k
      /\ Kind(ast, p) \in Hosts(g.k)
      /\ \A x \in (p + 1)..Len(ast) : ast[x].up >= p
      /\ \A x \in 1..Len(ast) : ast[x].up = p =>
           /\ ast[x].sec \in Begun(g.k)
           /\ g.k = "switch" /\ g.next # 0 => Kind(ast, x) = "case"
  BY DEF CallAt
<1>2. /\ h.node = p /\ Begun(g.k) \subseteq Begun(h.k) /\ Hosts(g.k) \subseteq Hosts(h.k)
      /\ h.k = "switch" => g.k = "switch" /\ (h.next # 0 => g.next # 0)
  BY DEF Continues
<1>. HIDE DEF p
<1>3. CASE ast' = ast
  BY <1>1, <1>2, <1>3 DEF CallAt, Kind
<1>4. CASE \E k \in Kinds :
             /\ Visit(k)
             /\ Top.node = g.node => Top.k \in Begun(h.k)
             /\ Top.node = g.node /\ h.k = "switch" /\ h.next # 0 => k = "case"
  <2>1. PICK k \in Kinds :
          /\ Visit(k)
          /\ Top.node = p => Top.k \in Begun(h.k)
          /\ Top.node = p /\ h.k = "switch" /\ h.next # 0 => k = "case"
    BY <1>4 DEF p
  <2>. DEFINE q == NewNode
  <2>2. /\ Len(ast) \in Nat /\ q = Len(ast) + 1 /\ Len(ast') = q
        /\ \A x \in 1..Len(ast) : ast'[x] = ast[x]
        /\ ast'[q] = [k |-> k, up |-> Top.node, sec |-> Top.k]
    BY <2>1, Visited, NodeTypes DEF TypeOK
  <2>. HIDE DEF q
  <2>3. Top.node \in 0..Len(ast) /\ p <= Top.node
    BY TopStacked DEF p
  <2>4. \A x \in (p + 1)..Len(ast') : ast'[x].up >= p
    <3>1. TAKE x \in (p + 1)..Len(ast')
    <3>2. CASE x = q
      BY <2>2, <2>3, <3>2, <1>1
    <3>3. CASE x # q
      <4>1. p \in Nat /\ p \in 1..Len(ast)
        BY <1>1, <2>2
      <4>2. x \in (p + 1)..Len(ast) /\ x \in 1..Len(ast)
        BY <2>2, <3>3, <4>1
      <4>3. QED
        BY <1>1, <2>2, <4>2
    <3>4. QED
      BY <3>2, <3>3
  <2>5. \A x \in 1..Len(ast') : ast'[x].up = p =>
          /\ ast'[x].sec \in Begun(h.k)
          /\ h.k = "switch" /\ h.next # 0 => Kind(ast', x) = "case"
    <3>1. TAKE x \in 1..Len(ast')
    <3>2. CASE x = q
      BY <2>1, <2>2, <3>2 DEF Kind
    <3>3. CASE x # q
      <4>1. x \in 1..Len(ast) /\ ast'[x] = ast[x]
        BY <1>1, <2>2, <3>3
      <4>2. QED
        BY <1>1, <1>2, <4>1 DEF Kind
    <3>4. QED
      BY <3>2, <3>3
  <2>6. p \in 1..Len(ast') /\ ast'[p] = ast[p]
    BY <1>1, <2>2
  <2>7. QED
    BY <1>1, <1>2, <2>4, <2>5, <2>6 DEF CallAt, Kind
<1>5. QED
  BY <1>3, <1>4

LEMMA SelfBegun == \A k : k \in Begun(k) /\ k \in ToCome(k)
BY DEF Begun, ToCome

LEMMA MovesStack ==
  ASSUME TypeOK, StackShape, Tree(ast), Stacked, NEW m, Moves(m)
  PROVE  Tree(ast') /\ Stacked'
<1>. DEFINE n == Len(work)
            q == NewNode
<1>1. /\ n \in Nat \ {0} /\ m \in 1..n /\ Len(work') \in {m, m + 1}
      /\ \A i \in 1..(m - 1) : work'[i] = work[i]
      /\ Continues(work[m], work'[m])
      /\ work'[m].node = work[m].node
  BY TopType DEF Moves, Continues
<1>2. ast' = ast \/ (m = n /\ VisitsFor(work'[m]))
  BY DEF Moves
<1>3. Tree(ast')
  <2>1. CASE ast' = ast
    BY <2>1
  <2>2. CASE VisitsFor(work'[m])
    BY <2>2, TreeGrows DEF VisitsFor
  <2>3. QED
    BY <1>2, <2>1, <2>2
<1>4. \A i \in 1..m : work'[i].node = work[i].node
  BY <1>1
<1>5. work'[1].node = 0
  BY <1>1, <1>4 DEF Stacked
<1>6. ASSUME Len(work') = m + 1
      PROVE  /\ m = n /\ VisitsFor(work'[m]) /\ work'[m + 1].node = q
             /\ work'[m].k = work[m].k /\ ast'[q].k \in Hosts(work'[m + 1].k)
  BY <1>1, <1>6 DEF Moves
<1>. HIDE DEF n, q
<1>7. ASSUME NEW i \in 2..m PROVE CallAt(ast', work'[i - 1], work'[i])
  <2>. DEFINE f == work[i - 1]
              g == work[i]
              h == work'[i]
  <2>1. work'[i - 1] = f /\ i - 1 \in 1..(m - 1) /\ i \in 2..n
    BY <1>1
  <2>2. Continues(g, h)
    <3>1. CASE i = m
      BY <1>1, <3>1
    <3>2. CASE i # m
      <4>1. h = g
        BY <1>1, <3>2
      <4>2. QED
        BY <4>1 DEF Continues
    <3>3. QED
      BY <3>1, <3>2
  <2>3. CallAt(ast, f, g) /\ g.node <= Top.node /\ (i < n => g.node < Top.node)
        /\ g.node \in Nat /\ Top.node \in Nat
    <3>1. CallAt(ast, f, g)
      BY <2>1 DEF Stacked, n
    <3>2. g.node <= Top.node /\ (i < n => g.node < Top.node)
          /\ g.node \in 0..Len(ast) /\ Top.node \in 0..Len(ast)
      <4>1. i \in 1..Len(work)
        BY <1>1, <2>1 DEF n
      <4>2. QED
        BY <4>1, TopStacked DEF n
    <3>3. QED
      BY <3>1, <3>2
  <2>4. \/ ast' = ast
        \/ \E k \in Kinds :
             /\ Visit(k)
             /\ Top.node = g.node => Top.k \in Begun(h.k)
             /\ Top.node = g.node /\ h.k = "switch" /\ h.next # 0 => k = "case"
    <3>1. SUFFICES ASSUME m = n, VisitsFor(work'[m])
                   PROVE  \E k \in Kinds :
                            /\ Visit(k)
                            /\ Top.node = g.node => Top.k \in Begun(h.k)
                            /\ Top.node = g.node /\ h.k = "switch" /\ h.next # 0 => k = "case"
      BY <1>2
    <3>2. PICK k \in Kinds :
            /\ Visit(k)
            /\ work'[m].k = "switch" /\ work'[m].next # 0 => k = "case"
      BY <3>1 DEF VisitsFor
    <3>3. Top.node = g.node => i = m /\ g = Top
      <4>1. HAVE Top.node = g.node
      <4>2. i = n
        BY <1>1, <2>1, <2>3, <4>1
      <4>3. QED
        BY <3>1, <4>2 DEF Top, n
    <3>4. Top.node = g.node => Top.k \in Begun(h.k)
      BY <2>2, <3>3, SelfBegun DEF Continues
    <3>5. QED
      BY <3>2, <3>3, <3>4
  <2>. HIDE DEF f, g, h
  <2>5. CallAt(ast', f, h)
    BY <2>2, <2>3, <2>4, CallGoesOn
  <2>6. QED
    BY <2>1, <2>5 DEF h
<1>8. ASSUME Len(work') = m + 1 PROVE CallAt(ast', work'[m], work'[m + 1])
  <2>1. PICK k \in Kinds : Visit(k)
    BY <1>6, <1>8 DEF VisitsFor
  <2>2. /\ Len(ast) \in Nat /\ q = Len(ast) + 1 /\ Len(ast') = q
        /\ \A x \in 1..Len(ast) : ast'[x] = ast[x]
        /\ ast'[q] = [k |-> k, up |-> Top.node, sec |-> Top.k]
    BY <2>1, Visited, NodeTypes DEF TypeOK, q
  <2>3. work'[m].node = Top.node /\ work'[m].k = Top.k
    BY <1>1, <1>6, <1>8 DEF Top, n
  <2>4. \A x \in 1..Len(ast') : ast'[x].up # q
    <3>1. TAKE x \in 1..Len(ast')
    <3>2. ast'[x].up \in 0..(x - 1)
      BY <1>3 DEF Tree
    <3>3. QED
      BY <2>2, <3>2
  <2>5. QED
    BY <1>6, <1>8, <2>2, <2>3, <2>4 DEF CallAt, Kind
<1>9. \A i \in 2..Len(work') : CallAt(ast', work'[i - 1], work'[i])
  <2>1. TAKE i \in 2..Len(work')
  <2>2. CASE i \in 2..m
    BY <1>7, <2>2
  <2>3. CASE i = m + 1 /\ Len(work') = m + 1
    BY <1>1, <1>8, <2>3
  <2>4. QED
    BY <1>1, <2>2, <2>3
<1>10. \A i, j \in 1..Len(work') : i < j => work'[i].node < work'[j].node
  <2>1. TAKE i, j \in 1..Len(work')
  <2>2. HAVE i < j
  <2>3. CASE j \in 1..m
    <3>1. i \in 1..m /\ i \in 1..Len(work) /\ j \in 1..Len(work)
      BY <1>1, <2>2, <2>3 DEF n
    <3>2. work[i].node < work[j].node
      BY <2>2, <3>1 DEF Stacked
    <3>3. QED
      BY <1>4, <2>3, <3>1, <3>2
  <2>4. CASE j = m + 1 /\ Len(work') = m + 1
    <3>1. work'[j].node = q /\ q = Len(ast) + 1 /\ Len(ast) \in Nat
      BY <1>6, <2>4, NodeTypes DEF TypeOK, q
    <3>2. i \in 1..m /\ i \in 1..Len(work)
      BY <1>1, <2>2, <2>4 DEF n
    <3>3. work'[i].node \in 0..Len(ast)
      BY <1>4, <3>2, TopStacked
    <3>4. QED
      BY <3>1, <3>3
  <2>5. QED
    BY <1>1, <2>3, <2>4
<1>11. QED
  BY <1>3, <1>5, <1>9, <1>10 DEF Stacked

\* The frame that a call of a statement pushes.
LEMMA MovesPush ==
  ASSUME TypeOK, StackShape, NEW k \in Kinds, Visit(k), NEW f, Push(f),
         f.node = NewNode, k \in Hosts(f.k), Top.k = "switch" => k = "case"
  PROVE  Moves(Len(work))
<1>1. /\ Len(work') = Len(work) + 1 /\ work'[Len(work) + 1] = f
      /\ \A i \in 1..Len(work) : work'[i] = work[i]
  BY DEF Push, TypeOK
<1>2. Len(work) \in Nat \ {0}
  BY TopType
<1>3. VisitsFor(work'[Len(work)])
  <2>1. work'[Len(work)] = Top
    BY <1>1, <1>2 DEF Top
  <2>2. QED
    BY <2>1 DEF VisitsFor
<1>4. ast'[NewNode].k = k
  BY VisitedKind DEF TypeOK
<1>5. QED
  BY <1>1, <1>2, <1>3, <1>4 DEF Moves, Continues

LEMMA MovesStay ==
  ASSUME TypeOK, StackShape, NEW k \in Kinds, Visit(k), work' = work, Top.k # "switch"
  PROVE  Moves(Len(work))
<1>1. Len(work) \in Nat \ {0}
  BY TopType
<1>2. VisitsFor(work'[Len(work)])
  BY DEF VisitsFor, Top
<1>3. QED
  BY <1>1, <1>2 DEF Moves, Continues

LEMMA MovesReturn ==
  ASSUME TypeOK, StackShape, Return, ast' = ast, Top.k # "root"
  PROVE  Moves(Len(work) - 1)
<1>1. Len(work) \in Nat \ {0} /\ Len(work) # 1 /\ work \in Seq(FrameType)
  BY TopType
<1>2. Len(work') = Len(work) - 1 /\ \A i \in 1..(Len(work) - 1) : work'[i] = work[i]
  BY <1>1, FrontProps DEF Return, StackShape
<1>3. Continues(work[Len(work) - 1], work'[Len(work) - 1])
  BY <1>1, <1>2 DEF Continues
<1>4. QED
  BY <1>1, <1>2, <1>3 DEF Moves

LEMMA MovesBecome ==
  ASSUME TypeOK, StackShape, NEW f, Become(f), ast' = ast, Continues(Top, f)
  PROVE  Moves(Len(work))
<1>. DEFINE rest == Front(work)
<1>1. Len(work) \in Nat \ {0} /\ work \in Seq(FrameType)
  BY TopType
<1>2. rest \in Seq(FrameType) /\ Len(rest) = Len(work) - 1
      /\ \A i \in 1..(Len(work) - 1) : rest[i] = work[i]
  BY <1>1, FrontProps DEF StackShape
<1>3. work' = Append(rest, f)
  BY DEF Become
<1>. HIDE DEF rest
<1>4. /\ Len(work') = Len(work) /\ work'[Len(work)] = f
      /\ \A i \in 1..(Len(work) - 1) : work'[i] = work[i]
  BY <1>1, <1>2, <1>3
<1>5. QED
  BY <1>1, <1>4 DEF Moves, Top

LEMMA OpenDefaultMoves ==
  ASSUME TypeOK, StackShape, OpenDefault
  PROVE  Moves(Len(work))
<1>. DEFINE f == [Top EXCEPT !.next = 0]
            g == [Call("case", NewNode) EXCEPT !.back = Top.exit]
            rest == Front(work)
            mid == Append(rest, f)
            m == Len(work)
<1>1. /\ work' = Append(mid, g) /\ Top.k = "switch" /\ Visit("default")
  BY DEF OpenDefault
<1>2. /\ m \in Nat \ {0} /\ rest \in Seq(FrameType) /\ Len(rest) = m - 1
      /\ \A i \in 1..(m - 1) : rest[i] = work[i]
      /\ Top \in FrameType /\ Top = work[m]
  BY TopType, FrontProps DEF StackShape, Top
<1>3. /\ f.k = Top.k /\ f.node = Top.node /\ f.next = 0 /\ g.k = "case" /\ g.node = NewNode
  BY <1>2 DEF FrameType, Call
<1>. HIDE DEF f, g, rest
<1>4. /\ Len(mid) = m /\ mid[m] = f /\ \A i \in 1..(m - 1) : mid[i] = work[i]
  BY <1>2
<1>5. mid \in Seq(FrameType \cup {f})
  BY <1>2, SeqGrows
<1>. HIDE DEF mid
<1>6. /\ Len(work') = m + 1 /\ work'[m + 1] = g /\ work'[m] = f
      /\ \A i \in 1..(m - 1) : work'[i] = work[i]
  BY <1>1, <1>2, <1>4, <1>5
<1>7. VisitsFor(f)
  BY <1>1, <1>3 DEF VisitsFor, Kinds
<1>8. ast'[NewNode].k = "default"
  BY <1>1, VisitedKind DEF TypeOK
<1>9. Continues(Top, f)
  BY <1>3 DEF Continues
<1>10. QED
  BY <1>1, <1>2, <1>3, <1>6, <1>7, <1>8, <1>9 DEF Moves, Hosts

LEMMA LineMoves ==
  ASSUME TypeOK, StackShape,
         \/ EmitAct \/ EmitRequire \/ EmitRevert \/ EmitReturn \/ EmitJump
         \/ LeaveUndefined \/ JumpOutsideLoop
  PROVE  Moves(Len(work))
<1>1. \E k \in {"act", "req", "revert", "ret", "leave", "brk", "cnt"} : Visit(k) /\ MayCome(k)
  BY DEF EmitAct, EmitRequire, EmitRevert, EmitReturn, EmitJump, LeaveUndefined,
         JumpOutsideLoop, MayJump
<1>2. work' = work
  BY DEF EmitAct, EmitRequire, EmitRevert, EmitReturn, EmitJump, LeaveUndefined,
         JumpOutsideLoop
<1>3. Top.k # "switch"
  BY <1>1 DEF MayCome, StmtLists
<1>4. QED
  BY <1>1, <1>2, <1>3, MovesStay DEF Kinds, SolKinds, YulKinds

LEMMA OpenMoves ==
  ASSUME TypeOK, StackShape,
         \/ OpenIf \/ OpenWhile \/ OpenFor \/ OpenAsmFor \/ OpenSwitch \/ OpenFun \/ OpenCase
  PROVE  Moves(Len(work))
<1>1. ASSUME NEW k, MayCome(k) PROVE Top.k # "switch"
  BY <1>1 DEF MayCome, StmtLists
<1>2. ASSUME NEW k \in {"if", "ifelse"}, NEW n, NEW else, NEW next, OpenThen(k, n, else, next)
      PROVE  Moves(Len(work))
  <2>. DEFINE f == [Call("then", NewNode) EXCEPT !.next = next, !.exit = nb + 2]
  <2>1. Push(f) /\ Visit(k) /\ Top.k # "switch"
    BY <1>1, <1>2 DEF OpenThen
  <2>2. f.k = "then" /\ f.node = NewNode
    BY DEF Call
  <2>. HIDE DEF f
  <2>3. QED
    BY <2>1, <2>2, MovesPush DEF Hosts, Kinds, SolKinds, YulKinds
<1>3. CASE OpenIf
  BY <1>2, <1>3 DEF OpenIf
<1>4. CASE OpenWhile
  <2>. DEFINE f == [Call("body", NewNode) EXCEPT !.exit = nb + 2, !.back = nb + 1]
  <2>1. \E k \in {"while", "do"} : Push(f) /\ Visit(k) /\ Top.k # "switch"
    BY <1>1, <1>4 DEF OpenWhile
  <2>2. f.k = "body" /\ f.node = NewNode
    BY DEF Call
  <2>. HIDE DEF f
  <2>3. QED
    BY <2>1, <2>2, MovesPush DEF Hosts, Kinds, SolKinds, YulKinds
<1>5. CASE OpenFor
  <2>. DEFINE f == [Call("forbody", NewNode) EXCEPT
                     !.next = nb + 3, !.exit = nb + 4, !.back = nb + 1]
  <2>1. \E k \in {"for", "forever"} : Push(f) /\ Visit(k) /\ Top.k # "switch"
    BY <1>1, <1>5 DEF OpenFor
  <2>2. f.k = "forbody" /\ f.node = NewNode
    BY DEF Call
  <2>. HIDE DEF f
  <2>3. QED
    BY <2>1, <2>2, MovesPush DEF Hosts, Kinds, SolKinds, YulKinds
<1>6. CASE OpenAsmFor
  <2>. DEFINE f == [Call("asminit", NewNode) EXCEPT
                     !.cond = nb + 1, !.body = nb + 2, !.next = nb + 3, !.exit = nb + 4]
  <2>1. Push(f) /\ Visit("asmfor") /\ Top.k # "switch"
    BY <1>1, <1>6 DEF OpenAsmFor
  <2>2. f.k = "asminit" /\ f.node = NewNode
    BY DEF Call
  <2>. HIDE DEF f
  <2>3. QED
    BY <2>1, <2>2, MovesPush DEF Hosts, Kinds, SolKinds, YulKinds
<1>7. CASE OpenSwitch
  <2>. DEFINE f == [Call("switch", NewNode) EXCEPT
                     !.next = nb + 1, !.exit = nb + 2, !.back = nb + 1, !.sw = ins]
  <2>1. Push(f) /\ Visit("switch") /\ Top.k # "switch"
    BY <1>1, <1>7 DEF OpenSwitch
  <2>2. f.k = "switch" /\ f.node = NewNode
    BY DEF Call
  <2>. HIDE DEF f
  <2>3. QED
    BY <2>1, <2>2, MovesPush DEF Hosts, Kinds, SolKinds, YulKinds
<1>8. CASE OpenFun
  <2>. DEFINE f == [Call("fun", NewNode) EXCEPT !.exit = nb + 2, !.next = ins,
                     !.outer = [ret |-> ret, loops |-> loops]]
  <2>1. Push(f) /\ Visit("fun") /\ Top.k # "switch"
    BY <1>1, <1>8 DEF OpenFun
  <2>2. f.k = "fun" /\ f.node = NewNode
    BY DEF Call
  <2>. HIDE DEF f
  <2>3. QED
    BY <2>1, <2>2, MovesPush DEF Hosts, Kinds, SolKinds, YulKinds
<1>9. CASE OpenCase
  <2>. DEFINE f == [Call("case", NewNode) EXCEPT !.back = Top.exit]
  <2>1. Push(f) /\ Visit("case")
    BY <1>9 DEF OpenCase
  <2>2. f.k = "case" /\ f.node = NewNode
    BY DEF Call
  <2>. HIDE DEF f
  <2>3. QED
    BY <2>1, <2>2, MovesPush DEF Hosts, Kinds
<1>10. QED
  BY <1>3, <1>4, <1>5, <1>6, <1>7, <1>8, <1>9

LEMMA EndMoves ==
  ASSUME TypeOK, StackShape,
         \/ EndThen \/ EndElse \/ EndWhile \/ EndAsmInit \/ EndForBody \/ EndFor
         \/ EndCase \/ EndSwitch \/ EndFun
  PROVE  \E m \in {Len(work) - 1, Len(work)} : Moves(m)
<1>1. ast' = ast /\ Top.k # "root" /\ Top \in FrameType
  BY TopType DEF EndThen, EndElse, EndWhile, EndAsmInit, EndForBody, EndFor, EndCase,
         EndSwitch, EndFun
<1>2. CASE Return
  BY <1>1, <1>2, MovesReturn
<1>3. CASE ~Return
  <2>1. CASE EndThen
    <3>. DEFINE f == [Top EXCEPT !.k = "else", !.next = 0]
    <3>1. Become(f) /\ Top.k = "then"
      BY <1>3, <2>1 DEF EndThen
    <3>2. f.k = "else" /\ f.node = Top.node
      BY <1>1 DEF FrameType
    <3>3. Continues(Top, f)
      BY <3>1, <3>2 DEF Continues, ToCome, Begun, Hosts
    <3>4. QED
      BY <1>1, <3>1, <3>3, MovesBecome
  <2>2. CASE EndAsmInit
    <3>. DEFINE f == [Top EXCEPT !.k = "forbody", !.cond = 0, !.body = 0, !.back = Top.cond]
    <3>1. Become(f) /\ Top.k = "asminit"
      BY <2>2 DEF EndAsmInit
    <3>2. f.k = "forbody" /\ f.node = Top.node
      BY <1>1 DEF FrameType
    <3>3. Continues(Top, f)
      BY <3>1, <3>2 DEF Continues, ToCome, Begun, Hosts
    <3>4. QED
      BY <1>1, <3>1, <3>3, MovesBecome
  <2>3. CASE EndForBody
    <3>. DEFINE f == [Top EXCEPT !.k = "forpost", !.next = 0]
    <3>1. Become(f) /\ Top.k = "forbody"
      BY <2>3 DEF EndForBody
    <3>2. f.k = "forpost" /\ f.node = Top.node
      BY <1>1 DEF FrameType
    <3>3. Continues(Top, f)
      BY <3>1, <3>2 DEF Continues, ToCome, Begun, Hosts
    <3>4. QED
      BY <1>1, <3>1, <3>3, MovesBecome
  <2>4. QED
    BY <1>3, <2>1, <2>2, <2>3 DEF EndElse, EndWhile, EndFor, EndCase, EndSwitch, EndFun
<1>4. QED
  BY <1>2, <1>3

LEMMA StepMoves ==
  ASSUME EmitterInv, Statement \/ Section, ~EndRoot
  PROVE  TypeOK /\ StackShape /\ pc = "emit" /\ \E m : Moves(m)
<1>1. pc = "emit" /\ TypeOK /\ StackShape
  <2>1. pc = "emit"
    BY DEF Statement, EmitAct, EmitRequire, EmitRevert, EmitReturn,
           LeaveUndefined, EmitJump, JumpOutsideLoop, MayJump, OpenIf,
           OpenThen, OpenWhile, OpenFor, OpenAsmFor, OpenSwitch, OpenFun,
           MayCome, Section, EndThen, EndElse, EndWhile, EndAsmInit,
           EndForBody, EndFor, OpenCase, OpenDefault, EndCase, EndSwitch,
           EndFun
  <2>2. QED
    BY <2>1 DEF EmitterInv, Shape
<1>2. \E m : Moves(m)
  BY <1>1, LineMoves, OpenMoves, EndMoves, OpenDefaultMoves DEF Statement, Section
<1>3. QED
  BY <1>1, <1>2

LEMMA NestedInductive == EmitterInv /\ Nested /\ [Next]_vars => Nested'
<1>1. SUFFICES ASSUME EmitterInv, Nested, [Next]_vars PROVE Nested'
  OBVIOUS
<1>2. CASE UNCHANGED vars
  BY <1>1, <1>2 DEF Nested, vars, Stacked
<1>3. CASE EndRoot
  BY <1>1, <1>3 DEF Nested, EndRoot
<1>4. CASE (Statement \/ Section) /\ ~EndRoot
  <2>1. TypeOK /\ StackShape /\ pc = "emit" /\ \E m : Moves(m)
    BY <1>1, <1>4, StepMoves
  <2>2. QED
    BY <1>1, <2>1, MovesStack DEF Nested
<1>5. QED
  BY <1>1, <1>2, <1>3, <1>4 DEF Next, Finished, Section

LEMMA NestedInit == Init => Nested
<1>1. SUFFICES ASSUME Init PROVE Nested
  OBVIOUS
<1>2. /\ ast = <<>> \/ ast = <<[k |-> "payable", up |-> 0, sec |-> "root"]>>
      /\ Len(work) = 1 /\ work[1].node = 0
  BY <1>1 DEF Init, InitSol, InitYul, Call
<1>3. Stacked
  BY <1>2 DEF Stacked
<1>4. Tree(ast)
  <2>1. CASE ast = <<>>
    BY <2>1 DEF Tree
  <2>2. CASE ast = <<[k |-> "payable", up |-> 0, sec |-> "root"]>>
    <3>1. Len(ast) = 1 /\ DOMAIN ast = 1..1 /\ ast[1].up = 0 /\ ast[1].sec = "root"
      BY <2>2
    <3>2. \A p \in 1..1 : p = 1
      OBVIOUS
    <3>3. QED
      BY <3>1, <3>2 DEF Tree, Sections
  <2>3. QED
    BY <1>2, <2>1, <2>2
<1>5. QED
  BY <1>3, <1>4 DEF Nested

-----------------------------------------------------------------------------
(* The stack of loops and the stack of calls.  L gives each call the stack *)
(* of loops in it.                                                         *)

Entries == [brk : Nat, cnt : Nat]

\* Call f was made with loops a, and its loops are b.
LoopRel(f, a, b) ==
  /\ f.k = "fun" => b = <<>> /\ f.outer.loops = a
  /\ f.k = "body" => b = Append(a, [brk |-> f.exit, cnt |-> f.back])
  /\ f.k = "forbody" => b = Append(a, [brk |-> f.exit, cnt |-> f.next])
  /\ f.k = "forpost" => \E e \in Entries : b = Append(a, e)
  /\ f.k \notin {"fun", "body", "forbody", "forpost"} => b = a

Piles(L, w, l) ==
  /\ L \in [1..Len(w) -> Seq(Entries)]
  /\ L[1] = <<>> /\ L[Len(w)] = l
  /\ \A i \in 2..Len(w) : LoopRel(w[i], L[i - 1], L[i])

LEMMA PilesTypes ==
  ASSUME TypeOK
  PROVE  loops \in Seq(Entries)
<1>1. nb \in Nat /\ loops \in Seq([brk : Block, cnt : Block])
  BY DEF TypeOK, LoopsType
<1>2. [brk : Block, cnt : Block] \subseteq Entries
  BY <1>1 DEF Block, Entries
<1>3. QED
  BY <1>1, <1>2, SeqGrows

LEMMA PilesTop ==
  ASSUME TypeOK, StackShape, NEW L, Piles(L, work, loops)
  PROVE  /\ L[Len(work)] = loops /\ loops \in Seq(Entries)
         /\ Len(work) = 1 => loops = <<>>
         /\ Len(work) # 1 =>
              /\ LoopRel(Top, L[Len(work) - 1], loops)
              /\ L[Len(work) - 1] \in Seq(Entries)
         /\ Len(work) - 1 = 1 => L[Len(work) - 1] = <<>>
         /\ Len(work) - 1 > 1 =>
              LoopRel(work[Len(work) - 1], L[Len(work) - 1 - 1], L[Len(work) - 1])
<1>1. PICK n : n = Len(work)
  OBVIOUS
<1>2. n \in Nat \ {0}
  BY <1>1, TopType
<1>3. n # 1 => n \in 2..n /\ n - 1 \in 1..n
  BY <1>2
<1>4. n - 1 > 1 => n - 1 \in 2..n
  BY <1>2
<1>5. /\ L \in [1..n -> Seq(Entries)] /\ L[1] = <<>> /\ L[n] = loops
      /\ \A i \in 2..n : LoopRel(work[i], L[i - 1], L[i])
  BY <1>1 DEF Piles
<1>6. n - 1 = 1 => L[n - 1] = <<>>
  BY <1>5
<1>7. n = 1 => loops = <<>>
  BY <1>5
<1>8. L[n] \in Seq(Entries)
  BY <1>2, <1>5
<1>9. QED
  BY <1>1, <1>3, <1>4, <1>5, <1>6, <1>7, <1>8 DEF Top

LEMMA PilesStep ==
  ASSUME TypeOK, StackShape, loops' \in Seq(Entries), NEW L, Piles(L, work, loops),
         NEW m \in 1..Len(work), Len(work') \in {m, m + 1},
         \A i \in 1..(m - 1) : work'[i] = work[i],
         NEW b \in Seq(Entries), m = 1 => b = <<>>,
         m # 1 => LoopRel(work'[m], L[m - 1], b),
         Len(work') = m => loops' = b,
         Len(work') = m + 1 => LoopRel(work'[m + 1], b, loops')
  PROVE  \E M : Piles(M, work', loops')
<1>1. Len(work) \in Nat \ {0} /\ m \in Nat
  BY TopType
<1>. DEFINE M == [i \in 1..Len(work') |-> IF i < m THEN L[i] ELSE IF i = m THEN b ELSE loops']
<1>2. /\ M \in [1..Len(work') -> Seq(Entries)]
  BY <1>1 DEF Piles
<1>3. M[1] = <<>> /\ M[Len(work')] = loops'
  BY <1>1 DEF Piles
<1>4. ASSUME NEW i \in 2..Len(work') PROVE LoopRel(work'[i], M[i - 1], M[i])
  <2>1. CASE i < m
    <3>1. work'[i] = work[i] /\ M[i] = L[i] /\ M[i - 1] = L[i - 1] /\ i \in 2..Len(work)
      BY <1>1, <2>1
    <3>. HIDE DEF M
    <3>2. QED
      BY <3>1 DEF Piles
  <2>2. CASE i = m
    <3>1. M[i] = b /\ M[i - 1] = L[i - 1] /\ m # 1
      BY <1>1, <2>2
    <3>. HIDE DEF M
    <3>2. QED
      BY <2>2, <3>1
  <2>3. CASE i = m + 1 /\ Len(work') = m + 1
    <3>1. M[i] = loops' /\ M[i - 1] = b
      BY <1>1, <2>3
    <3>. HIDE DEF M
    <3>2. QED
      BY <2>3, <3>1
  <2>4. QED
    BY <1>1, <2>1, <2>2, <2>3
<1>. HIDE DEF M
<1>5. Piles(M, work', loops')
  BY <1>2, <1>3, <1>4, Zenon DEF Piles
<1>6. QED
  BY <1>5

\* Frames above the m-th that are no part of a loop leave the loops as they are.
LEMMA PilesHeld ==
  ASSUME TypeOK, StackShape, NEW L, Piles(L, work, loops), NEW m \in 1..Len(work),
         \A i \in (m + 1)..Len(work) :
           work[i].k \notin {"fun", "body", "forbody", "forpost"}
  PROVE  L[m] = loops
<1>. DEFINE n == Len(work)
            S == {d \in Nat : n - d >= m => L[n - d] = loops}
<1>1. n \in Nat \ {0} /\ m \in 1..n
  BY TopType
<1>2. 0 \in S
  BY <1>1 DEF Piles
<1>3. ASSUME NEW d \in Nat, d \in S PROVE d + 1 \in S
  <2>1. CASE n - (d + 1) >= m
    <3>1. L[n - d] = loops /\ n - d \in (m + 1)..n /\ n - d \in 2..n /\ n - (d + 1) = n - d - 1
      BY <1>1, <1>3, <2>1
    <3>2. LoopRel(work[n - d], L[n - d - 1], L[n - d])
      BY <3>1 DEF Piles
    <3>3. work[n - d].k \notin {"fun", "body", "forbody", "forpost"}
      BY <3>1
    <3>4. L[n - d] = L[n - d - 1]
      BY <3>2, <3>3 DEF LoopRel
    <3>5. QED
      BY <3>1, <3>4
  <2>2. CASE ~(n - (d + 1) >= m)
    BY <2>2
  <2>3. QED
    BY <2>1, <2>2
<1>4. Nat \subseteq S
  <2>. HIDE DEF S
  <2>1. QED
    BY <1>2, <1>3, NaturalInduction
<1>5. n - m \in Nat /\ n - (n - m) = m /\ m >= m
  BY <1>1
<1>6. n - m \in S
  BY <1>4, <1>5
<1>7. QED
  BY <1>5, <1>6

LEMMA PilesPush ==
  ASSUME TypeOK, StackShape, loops' \in Seq(Entries), NEW L, Piles(L, work, loops), NEW f, Push(f),
         LoopRel(f, loops, loops')
  PROVE  \E M : Piles(M, work', loops')
<1>1. /\ Len(work') = Len(work) + 1 /\ work'[Len(work) + 1] = f
      /\ \A i \in 1..Len(work) : work'[i] = work[i]
  BY DEF Push, TypeOK
<1>2. Len(work) \in Nat \ {0} /\ Len(work) \in 1..Len(work)
  BY TopType
<1>3. loops \in Seq(Entries)
  BY PilesTypes
<1>4. /\ Len(work) = 1 => loops = <<>>
      /\ Len(work) # 1 => LoopRel(work[Len(work)], L[Len(work) - 1], loops)
  BY PilesTop DEF Top
<1>5. PICK m : m = Len(work)
  OBVIOUS
<1>6. /\ m \in 1..Len(work) /\ Len(work') \in {m, m + 1} /\ Len(work') # m
      /\ \A i \in 1..(m - 1) : work'[i] = work[i]
      /\ m = 1 => loops = <<>>
      /\ m # 1 => LoopRel(work'[m], L[m - 1], loops)
      /\ LoopRel(work'[m + 1], loops, loops')
  BY <1>1, <1>2, <1>4, <1>5
<1>7. QED
  BY <1>3, <1>6, PilesStep

LEMMA PilesStay ==
  ASSUME TypeOK, StackShape, NEW L, Piles(L, work, loops), work' = work, loops' = loops
  PROVE  \E M : Piles(M, work', loops')
<1>1. Piles(L, work', loops')
  BY DEF Piles
<1>2. QED
  BY <1>1

LEMMA PilesReturn ==
  ASSUME TypeOK, StackShape, loops' \in Seq(Entries), NEW L, Piles(L, work, loops), Return, Top.k # "root",
         \A a \in Seq(Entries) : LoopRel(Top, a, loops) => loops' = a
  PROVE  \E M : Piles(M, work', loops')
<1>. DEFINE n == Len(work)
<1>1. n \in Nat \ {0} /\ n # 1 /\ work \in Seq(FrameType)
  BY TopType
<1>2. Len(work') = n - 1 /\ \A i \in 1..(n - 1) : work'[i] = work[i]
  BY <1>1, FrontProps DEF Return, StackShape
<1>3. LoopRel(Top, L[n - 1], loops) /\ L[n - 1] \in Seq(Entries)
  BY <1>1, PilesTop
<1>4. loops' = L[n - 1]
  BY <1>3
<1>5. /\ n - 1 = 1 => L[n - 1] = <<>>
      /\ n - 1 # 1 => LoopRel(work'[n - 1], L[n - 1 - 1], L[n - 1])
  <2>1. n - 1 # 1 => n - 1 > 1 /\ work'[n - 1] = work[n - 1]
    BY <1>1, <1>2
  <2>2. QED
    BY <2>1, PilesTop
<1>6. n - 1 \in 1..n /\ \A i \in 1..(n - 1 - 1) : work'[i] = work[i]
  BY <1>1, <1>2
<1>. HIDE DEF n
<1>7. PICK m : m = n - 1
  OBVIOUS
<1>8. QED
  BY <1>1, <1>2, <1>3, <1>4, <1>5, <1>6, <1>7, PilesStep DEF n

LEMMA PilesBecome ==
  ASSUME TypeOK, StackShape, loops' \in Seq(Entries), NEW L, Piles(L, work, loops), NEW f, Become(f),
         Top.k # "root",
         \A a \in Seq(Entries) : LoopRel(Top, a, loops) => LoopRel(f, a, loops')
  PROVE  \E M : Piles(M, work', loops')
<1>. DEFINE rest == Front(work)
            n == Len(work)
<1>1. n \in Nat \ {0} /\ n # 1 /\ work \in Seq(FrameType)
  BY TopType
<1>2. rest \in Seq(FrameType) /\ Len(rest) = n - 1
      /\ \A i \in 1..(n - 1) : rest[i] = work[i]
  BY <1>1, FrontProps DEF StackShape
<1>3. work' = Append(rest, f)
  BY DEF Become
<1>. HIDE DEF rest
<1>4. /\ Len(work') = n /\ work'[n] = f
      /\ \A i \in 1..(n - 1) : work'[i] = work[i]
  BY <1>1, <1>2, <1>3
<1>5. LoopRel(Top, L[n - 1], loops) /\ L[n - 1] \in Seq(Entries)
  BY <1>1, PilesTop
<1>6. LoopRel(f, L[n - 1], loops')
  BY <1>5
<1>. HIDE DEF n
<1>7. n \in 1..Len(work)
  BY <1>1 DEF n
<1>8. QED
  BY <1>1, <1>4, <1>6, <1>7, PilesStep

LEMMA FrontOfAppend ==
  ASSUME NEW S, NEW a \in Seq(S), NEW e \in S
  PROVE  Front(Append(a, e)) = a
<1>1. Append(a, e) \in Seq(S) /\ Append(a, e) # <<>> /\ Len(Append(a, e)) = Len(a) + 1
      /\ \A i \in 1..Len(a) : Append(a, e)[i] = a[i]
  OBVIOUS
<1>2. /\ Front(Append(a, e)) \in Seq(S) /\ Len(Front(Append(a, e))) = Len(a)
      /\ \A i \in 1..Len(a) : Front(Append(a, e))[i] = a[i]
  <2>1. PICK c : c = Append(a, e)
    OBVIOUS
  <2>2. c \in Seq(S) /\ c # <<>> /\ Len(c) = Len(a) + 1 /\ \A i \in 1..Len(a) : c[i] = a[i]
    BY <1>1, <2>1
  <2>3. /\ Front(c) \in Seq(S) /\ Len(Front(c)) = Len(c) - 1
        /\ \A i \in 1..(Len(c) - 1) : Front(c)[i] = c[i]
    BY <2>2, FrontProps
  <2>4. Len(c) - 1 = Len(a)
    BY <2>2
  <2>5. QED
    BY <2>1, <2>2, <2>3, <2>4
<1>3. PICK b : b = Front(Append(a, e))
  OBVIOUS
<1>4. b \in Seq(S) /\ Len(b) = Len(a) /\ \A i \in 1..Len(a) : b[i] = a[i]
  BY <1>2, <1>3
<1>5. b = a
  BY <1>4
<1>6. QED
  BY <1>3, <1>5

LEMMA EntryTypes ==
  ASSUME TypeOK, StackShape
  PROVE  /\ Top.exit \in Nat /\ Top.next \in Nat /\ Top.back \in Nat /\ nb \in Nat
<1>1. Top \in FrameType /\ nb \in Nat
  BY TopType DEF TypeOK
<1>2. QED
  BY <1>1 DEF FrameType, BlockOr0

LEMMA LinePiles ==
  ASSUME TypeOK, StackShape, NEW L, Piles(L, work, loops),
         EmitAct \/ EmitRequire \/ EmitRevert \/ EmitReturn \/ EmitJump
  PROVE  \E M : Piles(M, work', loops')
<1>1. work' = work /\ loops' = loops
  BY DEF EmitAct, EmitRequire, EmitRevert, EmitReturn, EmitJump
<1>2. QED
  BY <1>1, PilesStay

LEMMA OpenPiles ==
  ASSUME TypeOK, StackShape, TypeOK', NEW L, Piles(L, work, loops),
         \/ OpenIf \/ OpenWhile \/ OpenFor \/ OpenAsmFor \/ OpenSwitch \/ OpenFun \/ OpenCase
  PROVE  \E M : Piles(M, work', loops')
<1>0. loops' \in Seq(Entries) /\ nb \in Nat
  <2>1. (loops \in Seq(Entries))'
    <3>1. nb' \in Nat /\ loops' \in Seq([brk : Block', cnt : Block'])
      BY DEF TypeOK, LoopsType
    <3>2. [brk : Block', cnt : Block'] \subseteq Entries
      BY <3>1 DEF Block, Entries
    <3>3. QED
      BY <3>1, <3>2, SeqGrows
  <2>2. QED
    BY <2>1 DEF TypeOK
<1>1. ASSUME NEW k, NEW n, NEW else, NEW next, OpenThen(k, n, else, next)
      PROVE  \E M : Piles(M, work', loops')
  <2>. DEFINE f == [Call("then", NewNode) EXCEPT !.next = next, !.exit = nb + 2]
  <2>1. Push(f) /\ loops' = loops
    BY <1>1 DEF OpenThen
  <2>2. f.k = "then"
    BY DEF Call
  <2>. HIDE DEF f
  <2>3. LoopRel(f, loops, loops')
    BY <2>1, <2>2 DEF LoopRel
  <2>4. QED
    BY <1>0, <2>1, <2>3, PilesPush
<1>2. CASE OpenIf
  BY <1>1, <1>2 DEF OpenIf
<1>3. CASE OpenWhile
  <2>. DEFINE f == [Call("body", NewNode) EXCEPT !.exit = nb + 2, !.back = nb + 1]
  <2>1. Push(f) /\ EnterLoop(nb + 2, nb + 1)
    BY <1>3 DEF OpenWhile
  <2>2. f.k = "body" /\ f.exit = nb + 2 /\ f.back = nb + 1
    BY DEF Call
  <2>. HIDE DEF f
  <2>3. LoopRel(f, loops, loops')
    BY <2>1, <2>2 DEF LoopRel, EnterLoop
  <2>4. QED
    BY <1>0, <2>1, <2>3, PilesPush
<1>4. CASE OpenFor
  <2>. DEFINE f == [Call("forbody", NewNode) EXCEPT
                     !.next = nb + 3, !.exit = nb + 4, !.back = nb + 1]
  <2>1. Push(f) /\ EnterLoop(nb + 4, nb + 3)
    BY <1>4 DEF OpenFor
  <2>2. f.k = "forbody" /\ f.exit = nb + 4 /\ f.next = nb + 3
    BY DEF Call
  <2>. HIDE DEF f
  <2>3. LoopRel(f, loops, loops')
    BY <2>1, <2>2 DEF LoopRel, EnterLoop
  <2>4. QED
    BY <1>0, <2>1, <2>3, PilesPush
<1>5. CASE OpenAsmFor
  <2>. DEFINE f == [Call("asminit", NewNode) EXCEPT
                     !.cond = nb + 1, !.body = nb + 2, !.next = nb + 3, !.exit = nb + 4]
  <2>1. Push(f) /\ loops' = loops
    BY <1>5 DEF OpenAsmFor
  <2>2. f.k = "asminit"
    BY DEF Call
  <2>. HIDE DEF f
  <2>3. LoopRel(f, loops, loops')
    BY <2>1, <2>2 DEF LoopRel
  <2>4. QED
    BY <1>0, <2>1, <2>3, PilesPush
<1>6. CASE OpenSwitch
  <2>. DEFINE f == [Call("switch", NewNode) EXCEPT
                     !.next = nb + 1, !.exit = nb + 2, !.back = nb + 1, !.sw = ins]
  <2>1. Push(f) /\ loops' = loops
    BY <1>6 DEF OpenSwitch
  <2>2. f.k = "switch"
    BY DEF Call
  <2>. HIDE DEF f
  <2>3. LoopRel(f, loops, loops')
    BY <2>1, <2>2 DEF LoopRel
  <2>4. QED
    BY <1>0, <2>1, <2>3, PilesPush
<1>7. CASE OpenFun
  <2>. DEFINE f == [Call("fun", NewNode) EXCEPT !.exit = nb + 2, !.next = ins,
                     !.outer = [ret |-> ret, loops |-> loops]]
  <2>1. Push(f) /\ loops' = <<>>
    BY <1>7 DEF OpenFun
  <2>2. f.k = "fun" /\ f.outer.loops = loops
    BY DEF Call
  <2>. HIDE DEF f
  <2>3. LoopRel(f, loops, loops')
    BY <2>1, <2>2 DEF LoopRel
  <2>4. QED
    BY <1>0, <2>1, <2>3, PilesPush
<1>8. CASE OpenCase
  <2>. DEFINE f == [Call("case", NewNode) EXCEPT !.back = Top.exit]
  <2>1. Push(f) /\ loops' = loops
    BY <1>8 DEF OpenCase
  <2>2. f.k = "case"
    BY DEF Call
  <2>. HIDE DEF f
  <2>3. LoopRel(f, loops, loops')
    BY <2>1, <2>2 DEF LoopRel
  <2>4. QED
    BY <1>0, <2>1, <2>3, PilesPush
<1>9. QED
  BY <1>2, <1>3, <1>4, <1>5, <1>6, <1>7, <1>8

LEMMA EndPiles ==
  ASSUME TypeOK, StackShape, TypeOK', NEW L, Piles(L, work, loops),
         \/ EndThen \/ EndElse \/ EndWhile \/ EndAsmInit \/ EndForBody \/ EndFor
         \/ EndCase \/ EndSwitch \/ EndFun
  PROVE  \E M : Piles(M, work', loops')
<1>1. loops' \in Seq(Entries)
  <3>1. nb' \in Nat /\ loops' \in Seq([brk : Block', cnt : Block'])
    BY DEF TypeOK, LoopsType
  <3>2. [brk : Block', cnt : Block'] \subseteq Entries
    BY <3>1 DEF Block, Entries
  <3>3. QED
    BY <3>1, <3>2, SeqGrows
<1>2. Top.k # "root" /\ Top \in FrameType
  BY TopType DEF EndThen, EndElse, EndWhile, EndAsmInit, EndForBody, EndFor, EndCase,
         EndSwitch, EndFun
<1>3. /\ Top.exit \in Nat /\ Top.next \in Nat /\ Top.back \in Nat
  BY EntryTypes
<1>4. \A a \in Seq(Entries), e \in Entries : Front(Append(a, e)) = a
  BY FrontOfAppend
<1>5. CASE Return
  <2>1. ASSUME NEW a \in Seq(Entries), LoopRel(Top, a, loops) PROVE loops' = a
    <3>1. CASE EndElse \/ EndCase \/ EndSwitch \/ (EndThen /\ Return)
      <4>1. loops' = loops /\ Top.k \in {"else", "case", "switch", "then"}
        BY <3>1 DEF EndElse, EndCase, EndSwitch, EndThen
      <4>2. QED
        BY <2>1, <4>1 DEF LoopRel
    <3>2. CASE EndWhile \/ EndFor
      <4>1. loops' = Front(loops) /\ Top.k \in {"body", "forpost"}
        BY <3>2 DEF EndWhile, EndFor, LeaveLoop
      <4>2. \E e \in Entries : loops = Append(a, e)
        <5>1. [brk |-> Top.exit, cnt |-> Top.back] \in Entries
          BY <1>3 DEF Entries
        <5>2. QED
          BY <2>1, <4>1, <5>1 DEF LoopRel
      <4>3. QED
        BY <1>4, <4>1, <4>2
    <3>3. CASE EndFun
      BY <2>1, <3>3 DEF LoopRel, EndFun
    <3>4. CASE EndAsmInit \/ EndForBody
      <4>1. work # <<>> /\ work \in Seq(FrameType)
        BY DEF TypeOK, StackShape
      <4>2. PICK f : Become(f)
        BY <3>4 DEF EndAsmInit, EndForBody
      <4>. DEFINE rest == Front(work)
      <4>3. rest \in Seq(FrameType) /\ work' = Append(rest, f) /\ work' = rest
        BY <1>5, <4>1, <4>2, FrontProps DEF Return, Become
      <4>. HIDE DEF rest
      <4>4. Len(Append(rest, f)) = Len(rest) + 1 /\ Len(rest) \in Nat
        <5>1. rest \in Seq(FrameType \cup {f}) /\ f \in FrameType \cup {f}
          BY <4>3, SeqGrows
        <5>2. QED
          BY <5>1
      <4>5. QED
        BY <4>3, <4>4
    <3>5. QED
      BY <1>5, <3>1, <3>2, <3>3, <3>4
  <2>2. QED
    BY <1>1, <1>2, <1>5, <2>1, PilesReturn
<1>6. CASE ~Return
  <2>1. CASE EndThen
    <3>. DEFINE f == [Top EXCEPT !.k = "else", !.next = 0]
    <3>1. Become(f) /\ Top.k = "then" /\ loops' = loops
      BY <1>6, <2>1 DEF EndThen
    <3>2. f.k = "else"
      BY <1>2 DEF FrameType
    <3>. HIDE DEF f
    <3>3. \A a \in Seq(Entries) : LoopRel(Top, a, loops) => LoopRel(f, a, loops')
      BY <3>1, <3>2 DEF LoopRel
    <3>4. QED
      BY <1>1, <1>2, <3>1, <3>3, PilesBecome
  <2>2. CASE EndAsmInit
    <3>. DEFINE f == [Top EXCEPT !.k = "forbody", !.cond = 0, !.body = 0, !.back = Top.cond]
    <3>1. Become(f) /\ Top.k = "asminit" /\ EnterLoop(Top.exit, Top.next)
      BY <2>2 DEF EndAsmInit
    <3>2. f.k = "forbody" /\ f.exit = Top.exit /\ f.next = Top.next
      BY <1>2 DEF FrameType
    <3>. HIDE DEF f
    <3>3. \A a \in Seq(Entries) : LoopRel(Top, a, loops) => LoopRel(f, a, loops')
      BY <3>1, <3>2 DEF LoopRel, EnterLoop
    <3>4. QED
      BY <1>1, <1>2, <3>1, <3>3, PilesBecome
  <2>3. CASE EndForBody
    <3>. DEFINE f == [Top EXCEPT !.k = "forpost", !.next = 0]
    <3>1. Become(f) /\ Top.k = "forbody" /\ loops' = loops
      BY <2>3 DEF EndForBody
    <3>2. f.k = "forpost"
      BY <1>2 DEF FrameType
    <3>. HIDE DEF f
    <3>3. [brk |-> Top.exit, cnt |-> Top.next] \in Entries
      BY <1>3 DEF Entries
    <3>4. \A a \in Seq(Entries) : LoopRel(Top, a, loops) => LoopRel(f, a, loops')
      BY <3>1, <3>2, <3>3 DEF LoopRel
    <3>5. QED
      BY <1>1, <1>2, <3>1, <3>4, PilesBecome
  <2>4. QED
    BY <1>6, <2>1, <2>2, <2>3 DEF EndElse, EndWhile, EndFor, EndCase, EndSwitch, EndFun
<1>7. QED
  BY <1>5, <1>6

LEMMA OpenDefaultPiles ==
  ASSUME TypeOK, StackShape, NEW L, Piles(L, work, loops), OpenDefault
  PROVE  \E M : Piles(M, work', loops')
<1>. DEFINE f == [Top EXCEPT !.next = 0]
            g == [Call("case", NewNode) EXCEPT !.back = Top.exit]
            rest == Front(work)
            mid == Append(rest, f)
            m == Len(work)
<1>1. /\ work' = Append(mid, g) /\ Top.k = "switch" /\ loops' = loops
  BY DEF OpenDefault
<1>2. /\ m \in Nat \ {0} /\ rest \in Seq(FrameType) /\ Len(rest) = m - 1
      /\ \A i \in 1..(m - 1) : rest[i] = work[i]
      /\ Top \in FrameType /\ Top = work[m]
  BY TopType, FrontProps DEF StackShape, Top
<1>3. f.k = "switch" /\ g.k = "case"
  BY <1>1, <1>2 DEF FrameType, Call
<1>. HIDE DEF f, g, rest
<1>4. /\ Len(mid) = m /\ mid[m] = f /\ \A i \in 1..(m - 1) : mid[i] = work[i]
  BY <1>2
<1>5. mid \in Seq(FrameType \cup {f})
  BY <1>2, SeqGrows
<1>. HIDE DEF mid
<1>6. /\ Len(work') = m + 1 /\ work'[m + 1] = g /\ work'[m] = f
      /\ \A i \in 1..(m - 1) : work'[i] = work[i]
  BY <1>1, <1>2, <1>4, <1>5
<1>7. loops \in Seq(Entries)
  BY PilesTypes
<1>8. /\ m = 1 => loops = <<>>
      /\ m # 1 => LoopRel(Top, L[m - 1], loops)
  BY <1>2, PilesTop
<1>9. /\ m # 1 => LoopRel(f, L[m - 1], loops)
      /\ LoopRel(g, loops, loops')
  BY <1>1, <1>3, <1>8 DEF LoopRel
<1>. HIDE DEF m
<1>10. m \in 1..Len(work)
  BY <1>2 DEF m
<1>11. QED
  BY <1>1, <1>6, <1>7, <1>8, <1>9, <1>10, PilesStep

\* While code is emitted each call has its loops.
PilesInv == pc = "emit" => \E L : Piles(L, work, loops)

LEMMA PilesInductive == EmitterInv /\ PilesInv /\ [Next]_vars => PilesInv'
<1>1. SUFFICES ASSUME EmitterInv, PilesInv, [Next]_vars PROVE PilesInv'
  OBVIOUS
<1>2. CASE UNCHANGED vars
  BY <1>1, <1>2 DEF PilesInv, vars, Piles
<1>3. CASE EndRoot \/ LeaveUndefined \/ JumpOutsideLoop
  BY <1>1, <1>3 DEF PilesInv, EndRoot, LeaveUndefined, JumpOutsideLoop
<1>4. CASE (Statement \/ Section) /\ ~(EndRoot \/ LeaveUndefined \/ JumpOutsideLoop)
  <2>1. TypeOK /\ StackShape /\ pc = "emit"
    BY <1>1, <1>4, StepMoves
  <2>2. TypeOK'
    BY <1>1, EmissionInductive DEF EmitterInv
  <2>3. PICK L : Piles(L, work, loops)
    BY <1>1, <2>1 DEF PilesInv
  <2>4. \E M : Piles(M, work', loops')
    BY <1>4, <2>1, <2>2, <2>3, LinePiles, OpenPiles, EndPiles, OpenDefaultPiles
    DEF Statement, Section
  <2>5. QED
    BY <2>4 DEF PilesInv
<1>5. QED
  BY <1>1, <1>2, <1>3, <1>4 DEF Next, Finished, Statement, Section

LEMMA PilesInit == Init => PilesInv
<1>1. SUFFICES ASSUME Init PROVE PilesInv
  OBVIOUS
<1>2. loops = <<>> /\ Len(work) = 1
  BY <1>1 DEF Init, InitSol, InitYul
<1>. DEFINE L == [i \in 1..1 |-> loops]
<1>3. Piles(L, work, loops)
  <2>1. L \in [1..1 -> Seq(Entries)] /\ L[1] = loops
    BY <1>2
  <2>2. 2..1 = {}
    OBVIOUS
  <2>3. QED
    BY <1>2, <2>1, <2>2 DEF Piles
<1>4. QED
  BY <1>3 DEF PilesInv

-----------------------------------------------------------------------------
(* What the blocks mean.  A text t is any way the function may go on, D    *)
(* says which point comes next at each of its places, and m gives each     *)
(* block the point that control is on the way to when it enters it.        *)

\* The calls w, of which nodes a are visited, may go on to be text t.
Text(t, a, w) ==
  /\ Tree(t) /\ JumpsInLoops(t)
  /\ Len(a) <= Len(t) /\ \A p \in 1..Len(a) : t[p] = a[p]
  /\ \A p \in (Len(a) + 1)..Len(t) : t[p].up <= Len(a) =>
       \E i \in 1..Len(w) : t[p].up = w[i].node /\ t[p].sec \in ToCome(w[i].k)

Fixed(t, D) == \A x \in Places(t) : D[x] = From(t, D, x)

\* The code c of a block is passed in order when control is on the way to v.
Straight(t, D, v, c) ==
  /\ c # <<>> => v = At(c[1])
  /\ \A i \in 2..Len(c) : Follow(t, D, c[i - 1], 1) = At(c[i])

\* The point that control is on the way to behind the code.
EndPoint(t, D, v, c) == IF c = <<>> THEN v ELSE Follow(t, D, c[Len(c)], 1)

\* Terminator u goes on as it should when control is on the way to v.
Goes(t, D, m, u, v) ==
  /\ u.op = "br" => \A i \in DOMAIN u.to : m[u.to[i]] = v
  /\ u.op \in {"cond", "switch"} =>
       /\ v = At(u.node) /\ u.node # 0
       /\ \A i \in DOMAIN u.to :
            i \in Outcomes(t, u.node) /\ m[u.to[i]] = Follow(t, D, u.node, i)
  /\ u.op = "unreachable" => v = Reverted /\ u.to = <<>>
  /\ u.op = "ret" => v = Returned /\ u.to = <<>>

BlockGood(t, D, m, b, c, u) ==
  Straight(t, D, m[b], c) /\ Goes(t, D, m, u, EndPoint(t, D, m[b], c))

\* The first block of a function is where it is entered.
EntryGood(t, D, m, F, b) ==
  /\ F[b] # 0 => F[b] \in 1..Len(t) /\ Kind(t, F[b]) = "fun"
  /\ (\A d \in 1..(b - 1) : F[d] # F[b]) => m[b] = Follow(t, D, F[b], 0)

\* The blocks that call f has still to come to are empty, and stand for
\* what follows the sections of its node.
FrameGood(t, D, m, a, cd, tm, f) ==
  /\ \A s \in Slots : f[s] # 0 /\ ~(f.k = "fun" /\ s = "next") => cd[f[s]] = <<>>
  /\ f.exit # 0 => m[f.exit] = IF f.k \in {"root", "fun"} THEN Returned ELSE D[Behind(f.node)]
  /\ f.k = "then" /\ f.next # 0 => m[f.next] = D[Into(f.node, "else")]
  /\ f.k \in {"body", "forbody", "forpost"} => m[f.back] = At(f.node)
  /\ f.k \in {"asminit", "forbody"} => m[f.next] = D[Into(f.node, "forpost")]
  /\ f.k = "asminit" => /\ m[f.cond] = At(f.node) /\ m[f.body] = D[Into(f.node, "forbody")]
                        /\ Kind(t, f.node) = "asmfor"
  /\ f.k = "case" => m[f.back] = D[Behind(f.node)]
  /\ f.k = "switch" =>
       /\ m[f.back] = D[NoCase(f.node)]
       /\ tm[f.sw].op = "switch" /\ tm[f.sw].node = f.node /\ Kind(t, f.node) = "switch"
       /\ Len(tm[f.sw].to) = Cardinality(Cases(a, f.node)) + 1
  /\ f.k = "fun" =>
       /\ EndPoint(t, D, m[f.next], cd[f.next]) = D[Behind(f.node)]
       /\ f.outer.ret # 0 => m[f.outer.ret] = Returned

\* Control in section s of node p is behind the nodes of a that are in it.
IsCursor(D, a, p, s, v) ==
  \/ Members(a, p, s) = {} /\ v = D[Into(p, s)]
  \/ \E l \in Members(a, p, s) :
       (\A r \in Members(a, p, s) : r <= l) /\ v = D[Behind(l)]

GraphMeant(t, D, m) ==
  /\ \A b \in Block : BlockGood(t, D, m, b, code[b], term[b])
  /\ \A b \in Block : EntryGood(t, D, m, fn, b)

CallsMeant(t, D, m) ==
  /\ ret # 0 => m[ret] = Returned
  /\ \A i \in 1..Len(work) : FrameGood(t, D, m, ast, code, term, work[i])
  /\ Top.k \in StmtLists =>
       IsCursor(D, ast, Top.node, Top.k, EndPoint(t, D, m[ins], code[ins]))

\* Every text that the calls at work may lead to is what the blocks do.
Sound ==
  pc \in {"emit", "done"} =>
    \A t, D : Text(t, ast, work) /\ Fixed(t, D) =>
      \E m : GraphMeant(t, D, m) /\ (pc = "emit" => CallsMeant(t, D, m))

-----------------------------------------------------------------------------
(* Texts. *)

LEMMA TextParts ==
  ASSUME NEW t, NEW a, NEW w, Text(t, a, w)
  PROVE  /\ Tree(t) /\ JumpsInLoops(t) /\ Len(t) \in Nat /\ DOMAIN t = 1..Len(t)
         /\ Len(a) <= Len(t) /\ \A p \in 1..Len(a) : t[p] = a[p]
BY DEF Text, Tree

\* What may come later could come before.
LEMMA TextBack ==
  ASSUME TypeOK, StackShape, Stacked, NEW m, Moves(m), NEW t, Text(t, ast', work')
  PROVE  Text(t, ast, work)
<1>1. /\ Len(work) \in Nat \ {0} /\ m \in 1..Len(work) /\ Len(work') \in {m, m + 1}
      /\ \A i \in 1..(m - 1) : work'[i] = work[i]
      /\ Continues(work[m], work'[m])
  BY TopType DEF Moves
<1>2. Len(ast) \in Nat /\ Tree(t) /\ JumpsInLoops(t) /\ Len(t) \in Nat /\ NewNode = Len(ast) + 1
  BY NodeTypes, TextParts DEF TypeOK
<1>3. \A i \in 1..m : /\ work'[i].node = work[i].node
                      /\ ToCome(work'[i].k) \subseteq ToCome(work[i].k)
  <2>1. TAKE i \in 1..m
  <2>2. CASE i = m
    BY <1>1, <2>2 DEF Continues
  <2>3. CASE i # m
    BY <1>1, <2>3
  <2>4. QED
    BY <2>2, <2>3
<1>4. Len(work') = m + 1 => work'[m + 1].node = Len(ast) + 1
  BY <1>2 DEF Moves
<1>5. CASE ast' = ast
  <2>1. Len(work') = m \/ Len(work') = m + 1
    BY <1>1
  <2>2. \A p \in (Len(ast) + 1)..Len(t) : t[p].up <= Len(ast) =>
          \E i \in 1..Len(work) : t[p].up = work[i].node /\ t[p].sec \in ToCome(work[i].k)
    <3>1. TAKE p \in (Len(ast) + 1)..Len(t)
    <3>2. HAVE t[p].up <= Len(ast)
    <3>3. PICK i \in 1..Len(work') : t[p].up = work'[i].node /\ t[p].sec \in ToCome(work'[i].k)
      BY <1>5, <3>2 DEF Text
    <3>4. i \in 1..m
      BY <1>1, <1>2, <1>4, <3>2, <3>3
    <3>5. i \in 1..Len(work)
      BY <1>1, <3>4
    <3>6. QED
      BY <1>3, <3>3, <3>4, <3>5
  <2>3. QED
    BY <1>5, <2>2 DEF Text
<1>6. CASE m = Len(work) /\ VisitsFor(work'[m])
  <2>1. PICK k \in Kinds : Visit(k)
    BY <1>6 DEF VisitsFor
  <2>. DEFINE q == Len(ast) + 1
  <2>2. /\ Len(ast') = q /\ \A p \in 1..Len(ast) : ast'[p] = ast[p]
        /\ ast'[q] = [k |-> k, up |-> Top.node, sec |-> Top.k]
    BY <1>2, <2>1, Visited DEF TypeOK
  <2>3. /\ Len(ast') <= Len(t) /\ \A p \in 1..Len(ast') : t[p] = ast'[p]
    BY DEF Text
  <2>. HIDE DEF q
  <2>4. Len(ast) <= Len(t) /\ \A p \in 1..Len(ast) : t[p] = ast[p]
    BY <1>2, <2>2, <2>3 DEF q
  <2>5. \A p \in (Len(ast) + 1)..Len(t) : t[p].up <= Len(ast) =>
          \E i \in 1..Len(work) : t[p].up = work[i].node /\ t[p].sec \in ToCome(work[i].k)
    <3>1. TAKE p \in (Len(ast) + 1)..Len(t)
    <3>2. HAVE t[p].up <= Len(ast)
    <3>3. CASE p = q
      <4>1. t[p].up = Top.node /\ t[p].sec = Top.k
        BY <1>2, <2>2, <2>3, <3>3 DEF q
      <4>2. QED
        BY <1>1, <4>1, SelfBegun DEF Top
    <3>4. CASE p # q
      <4>1. p \in (Len(ast') + 1)..Len(t)
        BY <1>2, <2>2, <3>4 DEF q
      <4>2. t[p].up <= Len(ast') /\ t[p].up \in Nat
        <5>1. p \in 1..Len(t)
          BY <1>2, <3>1
        <5>2. t[p].up \in 0..(p - 1)
          BY <1>2, <5>1 DEF Tree
        <5>3. QED
          BY <1>2, <2>2, <3>2, <5>2 DEF q
      <4>3. PICK i \in 1..Len(work') : t[p].up = work'[i].node /\ t[p].sec \in ToCome(work'[i].k)
        BY <4>1, <4>2 DEF Text
      <4>4. i \in 1..m
        BY <1>1, <1>2, <1>4, <3>2, <4>2, <4>3
      <4>5. i \in 1..Len(work)
        BY <1>1, <4>4
      <4>6. QED
        BY <1>3, <4>3, <4>4, <4>5
    <3>5. QED
      BY <3>3, <3>4
  <2>6. QED
    BY <1>2, <2>4, <2>5 DEF Text
<1>7. QED
  BY <1>5, <1>6 DEF Moves

-----------------------------------------------------------------------------
(* Where control is in a list of statements. *)

\* It comes to the node visited next.
LEMMA VisitCursor ==
  ASSUME NEW t, Tree(t), NEW D, Fixed(t, D), NEW a, Len(a) \in Nat, DOMAIN a = 1..Len(a),
         \A p \in 1..Len(a) : t[p] = a[p],
         NEW q, q = Len(a) + 1, q <= Len(t), NEW s \in Sections, s # "switch",
         NEW p \in 0..Len(a), t[q].up = p, t[q].sec = s,
         NEW v, IsCursor(D, a, p, s, v)
  PROVE  v = Enter(t, D, q)
<1>1. Len(t) \in Nat /\ DOMAIN t = 1..Len(t) /\ q \in 1..Len(t) /\ p \in Nat /\ p \in 0..Len(t)
  BY DEF Tree
<1>2. q \in Members(t, p, s)
  BY <1>1 DEF Members
<1>3. \A r \in Members(t, p, s) : r \in 1..Len(t) /\ (r \in Members(a, p, s) \/ r >= q)
  BY <1>1 DEF Members
<1>4. CASE Members(a, p, s) = {} /\ v = D[Into(p, s)]
  <2>1. Members(t, p, s) \subseteq Nat /\ \A r \in Members(t, p, s) : q <= r
    BY <1>1, <1>3, <1>4
  <2>2. Min(Members(t, p, s)) = q
    BY <1>2, <2>1, MinIs
  <2>3. D[Into(p, s)] = FromInto(t, D, p, s)
    BY <1>1, PlaceParts DEF Fixed
  <2>4. QED
    BY <1>2, <1>4, <2>2, <2>3 DEF FromInto
<1>5. ASSUME NEW l \in Members(a, p, s), \A r \in Members(a, p, s) : r <= l, v = D[Behind(l)]
      PROVE  v = Enter(t, D, q)
  <2>1. l \in 1..Len(a) /\ t[l].up = p /\ t[l].sec = s /\ l \in 1..Len(t) /\ l < q /\ l # 0
    BY <1>1 DEF Members
  <2>2. Later(t, l) \subseteq Nat /\ q \in Later(t, l) /\ \A r \in Later(t, l) : q <= r
    BY <1>1, <1>2, <1>3, <1>5, <2>1 DEF Later
  <2>3. Min(Later(t, l)) = q
    BY <2>2, MinIs
  <2>4. D[Behind(l)] = FromBehind(t, D, l)
    <3>1. l \in 0..Len(t) /\ "root" \in Sections
      BY <1>1, <2>1 DEF Sections
    <3>2. QED
      BY <3>1, PlaceParts DEF Fixed
  <2>5. QED
    BY <1>5, <2>1, <2>2, <2>3, <2>4 DEF FromBehind
<1>6. QED
  BY <1>4, <1>5 DEF IsCursor

\* It comes to the end of the list.
LEMMA EndCursor ==
  ASSUME NEW t, Tree(t), NEW D, Fixed(t, D), NEW a, Len(a) \in Nat, DOMAIN a = 1..Len(a),
         Len(a) <= Len(t), \A p \in 1..Len(a) : t[p] = a[p],
         NEW s \in Sections, s # "switch", NEW p \in 0..Len(a),
         \A x \in (Len(a) + 1)..Len(t) : ~(t[x].up = p /\ t[x].sec = s),
         NEW v, IsCursor(D, a, p, s, v)
  PROVE  v = SectionEnd(D, p, s)
<1>1. Len(t) \in Nat /\ DOMAIN t = 1..Len(t) /\ p \in Nat /\ p \in 0..Len(t)
  BY DEF Tree
<1>2. Members(t, p, s) = Members(a, p, s)
  <2>1. \A x \in 1..Len(t) : x \in 1..Len(a) \/ x \in (Len(a) + 1)..Len(t)
    BY <1>1
  <2>2. \A x \in 1..Len(a) : x \in 1..Len(t)
    BY <1>1
  <2>3. QED
    BY <1>1, <2>1, <2>2 DEF Members
<1>3. CASE Members(a, p, s) = {} /\ v = D[Into(p, s)]
  <2>1. D[Into(p, s)] = FromInto(t, D, p, s)
    BY <1>1, PlaceParts DEF Fixed
  <2>2. QED
    BY <1>2, <1>3, <2>1 DEF FromInto
<1>4. ASSUME NEW l \in Members(a, p, s), \A r \in Members(a, p, s) : r <= l, v = D[Behind(l)]
      PROVE  v = SectionEnd(D, p, s)
  <2>1. l \in 1..Len(a) /\ t[l].up = p /\ t[l].sec = s /\ l \in 1..Len(t) /\ l # 0
    BY <1>1 DEF Members
  <2>2. Later(t, l) = {}
    <3>1. \A r \in Members(t, p, s) : r \in 1..Len(a) /\ r <= l
      BY <1>2, <1>4 DEF Members
    <3>2. \A r \in Members(t, p, s) : ~(r > l)
      <4>1. TAKE r \in Members(t, p, s)
      <4>2. r \in 1..Len(a) /\ r <= l /\ l \in 1..Len(a)
        BY <2>1, <3>1
      <4>3. QED
        BY <4>2
    <3>3. QED
      BY <2>1, <3>2 DEF Later
  <2>3. D[Behind(l)] = FromBehind(t, D, l)
    <3>1. l \in 0..Len(t) /\ "root" \in Sections
      BY <1>1, <2>1 DEF Sections
    <3>2. QED
      BY <3>1, PlaceParts DEF Fixed
  <2>4. QED
    BY <1>4, <2>1, <2>2, <2>3 DEF FromBehind
<1>5. QED
  BY <1>3, <1>4 DEF IsCursor

\* It is behind the node just visited.
LEMMA BehindCursor ==
  ASSUME NEW a, Len(a) \in Nat, DOMAIN a = 1..Len(a), NEW D, NEW p, NEW s,
         NEW q \in 1..Len(a), a[q].up = p, a[q].sec = s,
         \A x \in (q + 1)..Len(a) : ~(a[x].up = p /\ a[x].sec = s)
  PROVE  IsCursor(D, a, p, s, D[Behind(q)])
<1>1. q \in Members(a, p, s)
  BY DEF Members
<1>2. \A r \in Members(a, p, s) : r <= q
  <2>1. TAKE r \in Members(a, p, s)
  <2>2. r \in 1..Len(a) /\ a[r].up = p /\ a[r].sec = s
    BY DEF Members
  <2>3. QED
    BY <2>2
<1>3. QED
  BY <1>1, <1>2 DEF IsCursor

-----------------------------------------------------------------------------
(* Blocks keep their meaning. *)

\* Points n give the blocks that there are the points that m gives them.
Extends(m, n) == \A x \in Block : n[x] = m[x]

LEMMA GoodKept ==
  ASSUME TypeOK, NEW t, NEW D, NEW m, NEW n, Extends(m, n),
         NEW b \in Block, BlockGood(t, D, m, b, code[b], term[b])
  PROVE  BlockGood(t, D, n, b, code[b], term[b])
<1>. USE DEF Extends
<1>1. term[b].to \in Seq(Block)
  BY DEF TypeOK, TermType, TermsTo
<1>2. \A i \in DOMAIN term[b].to : n[term[b].to[i]] = m[term[b].to[i]]
  BY <1>1
<1>3. n[b] = m[b]
  OBVIOUS
<1>4. QED
  BY <1>2, <1>3 DEF BlockGood, Goes

LEMMA AppendGood ==
  ASSUME NEW t, NEW D, NEW v, NEW c \in Seq(Nat), NEW q \in Nat,
         Straight(t, D, v, c), EndPoint(t, D, v, c) = At(q)
  PROVE  /\ Straight(t, D, v, Append(c, q))
         /\ EndPoint(t, D, v, Append(c, q)) = Follow(t, D, q, 1)
<1>. DEFINE d == Append(c, q)
<1>1. /\ d \in Seq(Nat) /\ d # <<>> /\ Len(d) = Len(c) + 1 /\ d[Len(c) + 1] = q
      /\ \A i \in 1..Len(c) : d[i] = c[i]
      /\ Len(c) \in Nat
  OBVIOUS
<1>. HIDE DEF d
<1>2. d[1] = IF c = <<>> THEN q ELSE c[1]
  BY <1>1
<1>3. v = At(d[1])
  BY <1>2 DEF Straight, EndPoint
<1>4. ASSUME NEW i \in 2..Len(d) PROVE Follow(t, D, d[i - 1], 1) = At(d[i])
  <2>1. CASE i \in 2..Len(c)
    <3>1. i - 1 \in 1..Len(c) /\ i \in 1..Len(c)
      BY <1>1, <2>1
    <3>2. d[i - 1] = c[i - 1] /\ d[i] = c[i]
      BY <1>1, <3>1
    <3>3. QED
      BY <2>1, <3>2 DEF Straight
  <2>2. CASE i = Len(c) + 1
    <3>1. c # <<>> /\ d[i - 1] = c[Len(c)] /\ d[i] = q
      BY <1>1, <2>2
    <3>2. QED
      BY <3>1 DEF EndPoint
  <2>3. QED
    BY <1>1, <2>1, <2>2
<1>5. Straight(t, D, v, d)
  BY <1>3, <1>4 DEF Straight
<1>6. EndPoint(t, D, v, d) = Follow(t, D, q, 1)
  BY <1>1 DEF EndPoint
<1>7. QED
  BY <1>5, <1>6 DEF d

LEMMA EmptyGood ==
  ASSUME NEW t, NEW D, NEW m, NEW b
  PROVE  /\ BlockGood(t, D, m, b, <<>>, None)
         /\ \A u : Goes(t, D, m, u, m[b]) => BlockGood(t, D, m, b, <<>>, u)
BY DEF BlockGood, Straight, Goes, EndPoint, None, Terminator

\* A block is closed.
LEMMA CloseGood ==
  ASSUME NEW t, NEW D, NEW m, NEW n, NEW b, n[b] = m[b], NEW c, NEW u, NEW v,
         BlockGood(t, D, m, b, c, v), Goes(t, D, n, u, EndPoint(t, D, m[b], c))
  PROVE  BlockGood(t, D, n, b, c, u)
BY DEF BlockGood

\* Terminators are set that go on as they should.
LEMMA TermsGood ==
  ASSUME TypeOK, NEW n \in Nat, NEW f, NEW z, Emit(n, f, z, 0, 0),
         NEW t, NEW D, NEW m, NEW m2, Extends(m, m2),
         \A x \in Block : BlockGood(t, D, m, x, code[x], term[x]),
         \A x \in DOMAIN z :
           Goes(t, D, m2, z[x], IF x \in Block THEN EndPoint(t, D, m[x], code[x]) ELSE m2[x])
  PROVE  \A x \in Block' : BlockGood(t, D, m2, x, code'[x], term'[x])
<1>. USE DEF Extends
<1>1. nb \in Nat
  BY DEF TypeOK
<1>2. ASSUME NEW x \in 1..(nb + n), x \in DOMAIN z \/ x = 0
      PROVE  BlockGood(t, D, m2, x, code'[x], term'[x])
  <2>1. x \in DOMAIN z
    BY <1>1, <1>2
  <2>2. term'[x] = z[x] /\ code'[x] = IF x \in Block THEN code[x] ELSE <<>>
    BY <1>1, <2>1 DEF Emit, Block
  <2>3. CASE x \in Block
    <3>1. Goes(t, D, m2, z[x], EndPoint(t, D, m[x], code[x]))
      BY <2>1, <2>3
    <3>2. BlockGood(t, D, m2, x, code[x], z[x])
      BY <2>3, <3>1, CloseGood
    <3>3. QED
      BY <2>2, <2>3, <3>2
  <2>4. CASE x \notin Block
    <3>1. Goes(t, D, m2, z[x], m2[x])
      BY <2>1, <2>4
    <3>2. BlockGood(t, D, m2, x, <<>>, z[x])
      BY <3>1, EmptyGood
    <3>3. QED
      BY <2>2, <2>4, <3>2
  <2>5. QED
    BY <2>3, <2>4
<1>3. nb' = nb + n
  BY DEF Emit
<1>4. TAKE x \in Block'
<1>5. x \in 1..(nb + n)
  BY <1>3 DEF Block
<1>6. CASE x \in DOMAIN z
  BY <1>2, <1>5, <1>6
<1>7. CASE x \notin DOMAIN z /\ x <= nb
  <2>1. code'[x] = code[x] /\ term'[x] = term[x] /\ x \in Block
    BY <1>1, <1>5, <1>7 DEF Emit, Block
  <2>2. QED
    BY <2>1, GoodKept
<1>8. CASE x \notin DOMAIN z /\ ~(x <= nb)
  <2>1. code'[x] = <<>> /\ term'[x] = None
    BY <1>1, <1>5, <1>8 DEF Emit
  <2>2. QED
    BY <2>1, EmptyGood
<1>9. QED
  BY <1>6, <1>7, <1>8

LEMMA OneGood ==
  ASSUME TypeOK, NEW n \in Nat, NEW f, NEW u, Emit(n, f, One(ins, u), 0, 0),
         NEW t, NEW D, NEW m, NEW m2, Extends(m, m2),
         \A x \in Block : BlockGood(t, D, m, x, code[x], term[x]),
         Goes(t, D, m2, u, EndPoint(t, D, m[ins], code[ins]))
  PROVE  \A x \in Block' : BlockGood(t, D, m2, x, code'[x], term'[x])
<1>. USE DEF Extends
<1>1. PICK z : z = One(ins, u)
  OBVIOUS
<1>2. ins \in Block /\ Emit(n, f, z, 0, 0) /\ \A x \in DOMAIN z : x = ins /\ z[x] = u
  BY <1>1 DEF TypeOK, One
<1>3. QED
  BY <1>2, TermsGood

LEMMA TwoGood ==
  ASSUME TypeOK, NEW n \in Nat, NEW f, NEW u, NEW e, NEW w,
         Emit(n, f, Two(ins, u, e, w), 0, 0), e # ins,
         NEW t, NEW D, NEW m, NEW m2, Extends(m, m2),
         \A x \in Block : BlockGood(t, D, m, x, code[x], term[x]),
         Goes(t, D, m2, u, EndPoint(t, D, m[ins], code[ins])),
         Goes(t, D, m2, w, m2[e]), e \in Block => code[e] = <<>>
  PROVE  \A x \in Block' : BlockGood(t, D, m2, x, code'[x], term'[x])
<1>. USE DEF Extends
<1>1. PICK z : z = Two(ins, u, e, w)
  OBVIOUS
<1>2. ins \in Block /\ Emit(n, f, z, 0, 0) /\ DOMAIN z = {ins, e} /\ z[ins] = u /\ z[e] = w
  BY <1>1 DEF TypeOK, Two
<1>3. e \in Block => EndPoint(t, D, m[e], code[e]) = m2[e]
  BY DEF EndPoint
<1>4. \A x \in DOMAIN z :
        Goes(t, D, m2, z[x], IF x \in Block THEN EndPoint(t, D, m[x], code[x]) ELSE m2[x])
  BY <1>2, <1>3
<1>6. QED
  BY <1>2, <1>4, TermsGood

\* New blocks of a function are not where it is entered.
LEMMA EntriesKept ==
  ASSUME TypeOK, NEW n \in Nat, NEW u, NEW b, NEW c, Emit(n, fn[ins], u, b, c),
         NEW t, NEW D, NEW m, NEW m2, Extends(m, m2),
         \A x \in Block : EntryGood(t, D, m, fn, x)
  PROVE  \A x \in Block' : EntryGood(t, D, m2, fn', x)
<1>. USE DEF Extends
<1>1. nb' = nb + n /\ nb \in Nat /\ ins \in Block
  BY DEF TypeOK, Emit
<1>2. \A x \in 1..(nb + n) : fn'[x] = IF x <= nb THEN fn[x] ELSE fn[ins]
  BY DEF Emit
<1>3. TAKE x \in Block'
<1>4. x \in 1..(nb + n)
  BY <1>1 DEF Block
<1>5. CASE x <= nb
  <2>1. x \in Block /\ \A d \in 1..x : fn'[d] = fn[d]
    BY <1>1, <1>2, <1>4, <1>5 DEF Block
  <2>2. fn'[x] = fn[x] /\ \A d \in 1..(x - 1) : fn'[d] = fn[d]
    BY <1>4, <2>1
  <2>3. QED
    BY <2>1, <2>2 DEF EntryGood
<1>6. CASE ~(x <= nb)
  <2>1. fn'[x] = fn[ins] /\ fn'[ins] = fn[ins] /\ ins \in 1..(x - 1)
    BY <1>1, <1>2, <1>4, <1>6 DEF Block
  <2>2. EntryGood(t, D, m, fn, ins)
    BY <1>1
  <2>3. QED
    BY <2>1, <2>2 DEF EntryGood
<1>7. QED
  BY <1>5, <1>6

-----------------------------------------------------------------------------
(* Calls keep their meaning. *)

\* The slots of a call, by its kind.
LEMMA FrameSlots ==
  ASSUME TypeOK, NEW f \in FrameType, FrameShape(f, lang)
  PROVE  /\ \A s \in Slots : f[s] # 0 => f[s] \in Block
         /\ f.k \in {"body", "forbody", "forpost", "case", "switch"} => f.back \in Block
         /\ f.k = "switch" => f.sw \in Block
         /\ f.k \in {"forbody", "asminit", "fun"} => f.next \in Block
         /\ f.k = "asminit" => f.cond \in Block /\ f.body \in Block
         /\ f.k \notin {"root", "case"} => f.exit \in Block
         /\ f.outer.ret # 0 => f.outer.ret \in Block
<1>1. /\ f.cond \in BlockOr0 /\ f.body \in BlockOr0 /\ f.next \in BlockOr0 /\ f.exit \in BlockOr0
      /\ f.back \in BlockOr0 /\ f.sw \in BlockOr0 /\ f.outer.ret \in BlockOr0 /\ nb \in Nat
      /\ f.k \in StmtLists \cup {"switch"}
  BY DEF FrameType, TypeOK
<1>2. \A x \in BlockOr0 : x # 0 => x \in Block
  BY <1>1 DEF BlockOr0, Block
<1>3. \A s \in Slots : f[s] \in BlockOr0
  BY <1>1 DEF Slots
<1>4. /\ f.next # 0 <=> "next" \in SlotsInUse(f, lang)
      /\ f.cond # 0 <=> "cond" \in SlotsInUse(f, lang)
      /\ f.body # 0 <=> "body" \in SlotsInUse(f, lang)
      /\ f.exit # 0 <=> "exit" \in SlotsInUse(f, lang)
  BY DEF FrameShape, Slots
<1>5. /\ f.k \in {"forbody", "asminit", "fun"} => f.next # 0
      /\ f.k = "asminit" => f.cond # 0 /\ f.body # 0
      /\ f.k \notin {"root", "case"} => f.exit # 0
  BY <1>1, <1>4 DEF SlotsInUse, Slots, StmtLists
<1>6. /\ f.k \in {"body", "forbody", "forpost", "case", "switch"} => f.back # 0
      /\ f.k = "switch" => f.sw # 0
  BY DEF FrameShape
<1>7. QED
  BY <1>1, <1>2, <1>3, <1>5, <1>6

LEMMA FrameKept ==
  ASSUME TypeOK, NEW f \in FrameType, FrameShape(f, lang),
         NEW t, NEW D, NEW m, NEW m2, Extends(m, m2),
         FrameGood(t, D, m, ast, code, term, f),
         \A s \in Slots : f[s] # 0 => code'[f[s]] = code[f[s]],
         f.k = "switch" => /\ term'[f.sw] = term[f.sw]
                           /\ Cases(ast', f.node) = Cases(ast, f.node)
  PROVE  FrameGood(t, D, m2, ast', code', term', f)
<1>. USE DEF Extends
<1>1. /\ \A s \in Slots : f[s] # 0 => f[s] \in Block
      /\ f.k \in {"body", "forbody", "forpost", "case", "switch"} => f.back \in Block
      /\ f.k = "switch" => f.sw \in Block
      /\ f.k \in {"forbody", "asminit", "fun"} => f.next \in Block
      /\ f.k = "asminit" => f.cond \in Block /\ f.body \in Block
      /\ f.k \notin {"root", "case"} => f.exit \in Block
      /\ f.outer.ret # 0 => f.outer.ret \in Block
  BY FrameSlots
<1>2. f.exit # 0 => f.exit \in Block
  BY <1>1 DEF Slots
<1>3. f.next # 0 => f.next \in Block
  BY <1>1 DEF Slots
<1>4. \A s \in Slots : f[s] # 0 /\ ~(f.k = "fun" /\ s = "next") => code'[f[s]] = <<>>
  BY DEF FrameGood
<1>5. f.exit # 0 => m2[f.exit] = IF f.k \in {"root", "fun"} THEN Returned ELSE D[Behind(f.node)]
  BY <1>2 DEF FrameGood
<1>6. /\ f.k = "then" /\ f.next # 0 => m2[f.next] = D[Into(f.node, "else")]
      /\ f.k \in {"body", "forbody", "forpost"} => m2[f.back] = At(f.node)
      /\ f.k \in {"asminit", "forbody"} => m2[f.next] = D[Into(f.node, "forpost")]
      /\ f.k = "asminit" => /\ m2[f.cond] = At(f.node) /\ m2[f.body] = D[Into(f.node, "forbody")]
                            /\ Kind(t, f.node) = "asmfor"
      /\ f.k = "case" => m2[f.back] = D[Behind(f.node)]
  BY <1>1, <1>3 DEF FrameGood
<1>7. f.k = "switch" =>
       /\ m2[f.back] = D[NoCase(f.node)]
       /\ term'[f.sw].op = "switch" /\ term'[f.sw].node = f.node /\ Kind(t, f.node) = "switch"
       /\ Len(term'[f.sw].to) = Cardinality(Cases(ast', f.node)) + 1
  BY <1>1 DEF FrameGood
<1>8. f.k = "fun" =>
       /\ EndPoint(t, D, m2[f.next], code'[f.next]) = D[Behind(f.node)]
       /\ f.outer.ret # 0 => m2[f.outer.ret] = Returned
  <2>1. HAVE f.k = "fun"
  <2>2. m2[f.next] = m[f.next] /\ code'[f.next] = code[f.next]
    <3>1. f.next \in Block /\ f.next # 0 /\ "next" \in Slots
      BY <1>1, <2>1 DEF Block, Slots
    <3>2. QED
      BY <3>1
  <2>3. QED
    BY <1>1, <2>1, <2>2 DEF FrameGood
<1>9. QED
  BY <1>4, <1>5, <1>6, <1>7, <1>8 DEF FrameGood

\* What most steps leave alone.
Untouched ==
  /\ \A x \in Block \ {ins} : code'[x] = code[x]
  /\ ClosedSame

LEMMA FramesKept ==
  ASSUME Shape, Untouched, NEW i \in 1..Len(work),
         NEW t, NEW D, NEW m, NEW m2, Extends(m, m2),
         FrameGood(t, D, m, ast, code, term, work[i]),
         work[i].k = "switch" => Cases(ast', work[i].node) = Cases(ast, work[i].node)
  PROVE  FrameGood(t, D, m2, ast', code', term', work[i])
<1>. USE DEF Extends
<1>1. TypeOK /\ StackShape /\ work \in Seq(FrameType) /\ DOMAIN work = 1..Len(work)
  BY DEF Shape, TypeOK
<1>. DEFINE f == work[i]
<1>2. f \in FrameType /\ FrameShape(f, lang)
  BY <1>1 DEF StackShape
<1>3. \A s \in Slots : f[s] # 0 => f[s] \in Block /\ f[s] # ins
  BY <1>1, <1>2, FrameSlots DEF Shape, PendingInv, PendingOpen
<1>4. f.k = "switch" => f.sw \in Block /\ Closed(term, f.sw)
  BY <1>1, <1>2, FrameSlots DEF Shape, SwitchShape, Terminated, Closed
<1>. HIDE DEF f
<1>5. \A s \in Slots : f[s] # 0 => code'[f[s]] = code[f[s]]
  BY <1>3 DEF Untouched
<1>6. f.k = "switch" => term'[f.sw] = term[f.sw]
  BY <1>4 DEF Untouched, ClosedSame
<1>7. FrameGood(t, D, m, ast, code, term, f) /\ (f.k = "switch" => Cases(ast', f.node) = Cases(ast, f.node))
  BY DEF f
<1>8. FrameGood(t, D, m2, ast', code', term', f)
  BY <1>1, <1>2, <1>5, <1>6, <1>7, FrameKept
<1>9. QED
  BY <1>8 DEF f

\* The builder adds code to the insert block and to blocks it creates.
LEMMA EmitCode ==
  ASSUME TypeOK, NEW n \in Nat, NEW f, NEW u, NEW b, NEW c, Emit(n, f, u, b, c),
         b = 0 \/ b = ins \/ b > nb
  PROVE  \A x \in Block \ {ins} : code'[x] = code[x]
BY DEF TypeOK, Emit, Block

\* The cases of a switch are the nodes it calls for.
LEMMA CasesSame ==
  ASSUME TypeOK, NEW k, Visit(k), NEW p, ~(k = "case" /\ p = Top.node /\ Top.k = "switch")
  PROVE  Cases(ast', p) = Cases(ast, p)
<1>1. /\ Len(ast) \in Nat /\ DOMAIN ast = 1..Len(ast) /\ NewNode = Len(ast) + 1
      /\ Len(ast') = Len(ast) + 1 /\ DOMAIN ast' = 1..Len(ast')
      /\ \A x \in 1..Len(ast) : ast'[x] = ast[x]
      /\ ast'[NewNode] = [k |-> k, up |-> Top.node, sec |-> Top.k]
  BY Visited, NodeTypes DEF TypeOK
<1>2. \A x : x \in DOMAIN ast' <=> x \in DOMAIN ast \/ x = NewNode
  BY <1>1
<1>3. \A x \in DOMAIN ast : ast'[x] = ast[x]
  BY <1>1
<1>4. ~(ast'[NewNode].k = "case" /\ ast'[NewNode].up = p /\ ast'[NewNode].sec = "switch")
  BY <1>1
<1>5. QED
  BY <1>2, <1>3, <1>4 DEF Cases, Members, Kind

-----------------------------------------------------------------------------
(* What a step may start from. *)

Ready(t, D, m) ==
  /\ pc = "emit" /\ Shape /\ Tree(ast) /\ Stacked /\ Tree(ast')
  /\ Text(t, ast, work) /\ Text(t, ast', work') /\ Fixed(t, D)
  /\ GraphMeant(t, D, m) /\ CallsMeant(t, D, m)

LEMMA ReadyParts ==
  ASSUME NEW t, NEW D, NEW m, Ready(t, D, m)
  PROVE  /\ TypeOK /\ StackShape /\ nb \in Nat /\ ins \in Block /\ Len(work) \in Nat \ {0}
         /\ Tree(t) /\ JumpsInLoops(t) /\ Len(t) \in Nat /\ DOMAIN t = 1..Len(t)
         /\ Len(ast) \in Nat /\ DOMAIN ast = 1..Len(ast) /\ NewNode = Len(ast) + 1
         /\ Len(ast) <= Len(t) /\ \A p \in 1..Len(ast) : t[p] = ast[p]
         /\ \A x \in Block : BlockGood(t, D, m, x, code[x], term[x])
         /\ \A x \in Block : EntryGood(t, D, m, fn, x)
         /\ \A i \in 1..Len(work) : FrameGood(t, D, m, ast, code, term, work[i])
<1>1. TypeOK /\ StackShape
  BY DEF Ready, Shape
<1>2. nb \in Nat /\ ins \in Block /\ Len(work) \in Nat \ {0}
  BY <1>1, TopType DEF TypeOK
<1>3. Len(ast) \in Nat /\ DOMAIN ast = 1..Len(ast) /\ NewNode = Len(ast) + 1
  BY <1>1, NodeTypes DEF TypeOK
<1>4. /\ Tree(t) /\ JumpsInLoops(t) /\ Len(t) \in Nat /\ DOMAIN t = 1..Len(t)
      /\ Len(ast) <= Len(t) /\ \A p \in 1..Len(ast) : t[p] = ast[p]
  BY TextParts DEF Ready
<1>5. QED
  BY <1>1, <1>2, <1>3, <1>4 DEF Ready, GraphMeant, CallsMeant

\* New blocks get their points.
Given(m, a, b, c, d) ==
  [x \in 1..(nb + 4) |->
     IF x <= nb THEN m[x] ELSE IF x = nb + 1 THEN a
     ELSE IF x = nb + 2 THEN b ELSE IF x = nb + 3 THEN c ELSE d]

LEMMA GivenProps ==
  ASSUME TypeOK, NEW m, NEW a, NEW b, NEW c, NEW d
  PROVE  LET n == Given(m, a, b, c, d)
         IN /\ Extends(m, n)
            /\ n[nb + 1] = a /\ n[nb + 2] = b /\ n[nb + 3] = c /\ n[nb + 4] = d
<1>1. nb \in Nat
  BY DEF TypeOK
<1>2. QED
  BY <1>1 DEF Given, Extends, Block

\* The terminators.
LEMMA GoesProps ==
  ASSUME NEW t, NEW D, NEW m, NEW v
  PROVE  /\ \A b : m[b] = v => Goes(t, D, m, Br(b), v)
         /\ \A a, b, n : /\ v = At(n) /\ n # 0 /\ 1 \in Outcomes(t, n) /\ 2 \in Outcomes(t, n)
                         /\ m[a] = Follow(t, D, n, 1) /\ m[b] = Follow(t, D, n, 2)
                         => Goes(t, D, m, CondBr(a, b, n), v)
         /\ v = Returned => Goes(t, D, m, Ret, v)
         /\ \A n : v = Reverted => Goes(t, D, m, Unreachable(n), v)
<1>1. \A b : m[b] = v => Goes(t, D, m, Br(b), v)
  BY DEF Goes, Br, Terminator
<1>2. \A a, b, n : /\ v = At(n) /\ n # 0 /\ 1 \in Outcomes(t, n) /\ 2 \in Outcomes(t, n)
                   /\ m[a] = Follow(t, D, n, 1) /\ m[b] = Follow(t, D, n, 2)
                   => Goes(t, D, m, CondBr(a, b, n), v)
  <2>1. TAKE a, b, n
  <2>2. HAVE /\ v = At(n) /\ n # 0 /\ 1 \in Outcomes(t, n) /\ 2 \in Outcomes(t, n)
             /\ m[a] = Follow(t, D, n, 1) /\ m[b] = Follow(t, D, n, 2)
  <2>3. \A i \in DOMAIN <<a, b>> :
          i \in Outcomes(t, n) /\ m[<<a, b>>[i]] = Follow(t, D, n, i)
    <3>1. \A i \in DOMAIN <<a, b>> : i = 1 \/ i = 2
      OBVIOUS
    <3>2. <<a, b>>[1] = a /\ <<a, b>>[2] = b
      OBVIOUS
    <3>3. QED
      BY <2>2, <3>1, <3>2
  <2>4. QED
    BY <2>2, <2>3 DEF Goes, CondBr, Terminator
<1>3. v = Returned => Goes(t, D, m, Ret, v)
  BY DEF Goes, Ret, Terminator
<1>4. \A n : v = Reverted => Goes(t, D, m, Unreachable(n), v)
  BY DEF Goes, Unreachable, Terminator
<1>5. QED
  BY <1>1, <1>2, <1>3, <1>4

\* The insert block is where the node visited next is come to.
LEMMA Arrive ==
  ASSUME NEW t, NEW D, NEW m, Ready(t, D, m), NEW k \in Kinds, Visit(k), Top.k \in StmtLists
  PROVE  /\ NewNode \in 1..Len(t) /\ NewNode # 0 /\ NewNode \in Nat
         /\ Kind(t, NewNode) = k
         /\ t[NewNode].up = Top.node /\ t[NewNode].sec = Top.k /\ Top.k # "switch"
         /\ EndPoint(t, D, m[ins], code[ins]) = Enter(t, D, NewNode)
         /\ IsCursor(D, ast', Top.node, Top.k, D[Behind(NewNode)])
         /\ Len(ast') = NewNode
<1>1. /\ TypeOK /\ StackShape /\ Tree(t) /\ Len(t) \in Nat /\ Len(ast) \in Nat
      /\ DOMAIN ast = 1..Len(ast) /\ NewNode = Len(ast) + 1
      /\ \A p \in 1..Len(ast) : t[p] = ast[p]
  BY ReadyParts
<1>2. /\ Len(ast') = Len(ast) + 1 /\ DOMAIN ast' = 1..Len(ast')
      /\ ast'[NewNode] = [k |-> k, up |-> Top.node, sec |-> Top.k]
  BY <1>1, Visited DEF TypeOK
<1>3. Len(ast') <= Len(t) /\ \A p \in 1..Len(ast') : t[p] = ast'[p]
  BY DEF Ready, Text
<1>4. NewNode \in 1..Len(t) /\ NewNode \in 1..Len(ast')
  BY <1>1, <1>2, <1>3
<1>5. t[NewNode] = [k |-> k, up |-> Top.node, sec |-> Top.k]
  BY <1>2, <1>3, <1>4
<1>6. /\ Kind(t, NewNode) = k /\ t[NewNode].up = Top.node /\ t[NewNode].sec = Top.k
      /\ Top.k # "switch" /\ NewNode # 0 /\ NewNode \in Nat
  BY <1>1, <1>5 DEF Kind, StmtLists
<1>7. Top.node \in 0..Len(ast) /\ Top.k \in Sections
  BY <1>1, TopStacked DEF Ready
<1>8. IsCursor(D, ast, Top.node, Top.k, EndPoint(t, D, m[ins], code[ins]))
  BY DEF Ready, CallsMeant
<1>9. EndPoint(t, D, m[ins], code[ins]) = Enter(t, D, NewNode)
  <2>1. Fixed(t, D)
    BY DEF Ready
  <2>2. NewNode <= Len(t)
    BY <1>4
  <2>3. QED
    BY <1>1, <1>6, <1>7, <1>8, <2>1, <2>2, VisitCursor
<1>10. IsCursor(D, ast', Top.node, Top.k, D[Behind(NewNode)])
  <2>1. ast'[NewNode].up = Top.node /\ ast'[NewNode].sec = Top.k
    BY <1>2
  <2>2. (NewNode + 1)..Len(ast') = {}
    BY <1>1, <1>2
  <2>3. Len(ast') \in Nat
    BY <1>1, <1>2
  <2>4. QED
    BY <1>2, <1>4, <2>1, <2>2, <2>3, BehindCursor
<1>11. QED
  BY <1>1, <1>2, <1>4, <1>6, <1>9, <1>10

\* The insert block is where the section ends.
LEMMA AtEnd ==
  ASSUME NEW t, NEW D, NEW m, Ready(t, D, m), Top.k \in StmtLists, ast' = ast,
         \A i \in 1..Len(work') : ~(work'[i].node = Top.node /\ Top.k \in ToCome(work'[i].k))
  PROVE  EndPoint(t, D, m[ins], code[ins]) = SectionEnd(D, Top.node, Top.k)
<1>1. /\ TypeOK /\ StackShape /\ Tree(t) /\ Len(t) \in Nat /\ Len(ast) \in Nat
      /\ DOMAIN ast = 1..Len(ast) /\ Len(ast) <= Len(t)
      /\ \A p \in 1..Len(ast) : t[p] = ast[p]
  BY ReadyParts
<1>2. Top.node \in 0..Len(ast) /\ Top.k \in Sections /\ Top.k # "switch"
  BY <1>1, TopStacked DEF Ready, StmtLists
<1>3. IsCursor(D, ast, Top.node, Top.k, EndPoint(t, D, m[ins], code[ins]))
  BY DEF Ready, CallsMeant
<1>4. \A x \in (Len(ast) + 1)..Len(t) : ~(t[x].up = Top.node /\ t[x].sec = Top.k)
  <2>1. \A x \in (Len(ast) + 1)..Len(t) : t[x].up <= Len(ast) =>
          \E i \in 1..Len(work') : t[x].up = work'[i].node /\ t[x].sec \in ToCome(work'[i].k)
    BY DEF Ready, Text
  <2>2. QED
    BY <1>1, <1>2, <2>1
<1>5. Fixed(t, D)
  BY DEF Ready
<1>6. PICK p, s, v :
        p = Top.node /\ s = Top.k /\ v = EndPoint(t, D, m[ins], code[ins])
  OBVIOUS
<1>7. /\ p \in 0..Len(ast) /\ s \in Sections /\ s # "switch" /\ IsCursor(D, ast, p, s, v)
      /\ \A x \in (Len(ast) + 1)..Len(t) : ~(t[x].up = p /\ t[x].sec = s)
  BY <1>2, <1>3, <1>4, <1>6
<1>8. v = SectionEnd(D, p, s)
  BY <1>1, <1>5, <1>7, EndCursor
<1>9. QED
  BY <1>6, <1>8

\* All calls are as they should be when those that change are.
LEMMA Gather ==
  ASSUME NEW t, NEW D, NEW m, Ready(t, D, m), NEW m2, Extends(m, m2),
         Untouched, NEW j \in Nat, j <= Len(work), \A i \in 1..j : work'[i] = work[i],
         \A i \in 1..j : work[i].k = "switch" =>
           Cases(ast', work[i].node) = Cases(ast, work[i].node),
         \A i \in 1..Len(work') : i > j => FrameGood(t, D, m2, ast', code', term', work'[i])
  PROVE  \A i \in 1..Len(work') : FrameGood(t, D, m2, ast', code', term', work'[i])
<1>. USE DEF Extends
<1>1. Len(work) \in Nat \ {0} /\ \A i \in 1..Len(work) : FrameGood(t, D, m, ast, code, term, work[i])
  BY ReadyParts
<1>2. TAKE i \in 1..Len(work')
<1>3. CASE i > j
  BY <1>3
<1>4. CASE ~(i > j)
  <2>1. i \in 1..j /\ i \in 1..Len(work)
    BY <1>1, <1>4
  <2>2. FrameGood(t, D, m2, ast', code', term', work[i])
    BY <1>1, <2>1, FramesKept DEF Ready
  <2>3. work'[i] = work[i]
    BY <2>1
  <2>4. QED
    BY <2>2, <2>3
<1>5. QED
  BY <1>3, <1>4

-----------------------------------------------------------------------------
(* What a step does to the calls. *)

LEMMA LineCalls ==
  ASSUME NEW t, NEW D, NEW m, Ready(t, D, m), NEW k \in Kinds, Visit(k), k # "case",
         Top.k \in StmtLists, work' = work, ret' = ret, Untouched,
         NEW m2, Extends(m, m2),
         EndPoint(t, D, m2[ins'], code'[ins']) = D[Behind(NewNode)]
  PROVE  CallsMeant(t, D, m2)'
<1>. USE DEF Extends
<1>1. TypeOK /\ Len(work) \in Nat \ {0} /\ nb \in Nat
  BY ReadyParts
<1>2. \A i \in 1..Len(work') : FrameGood(t, D, m2, ast', code', term', work'[i])
  <2>1. \A p : Cases(ast', p) = Cases(ast, p)
    BY <1>1, CasesSame
  <2>2. /\ Len(work) \in Nat /\ \A i \in 1..Len(work) : work'[i] = work[i]
        /\ \A i \in 1..Len(work') : ~(i > Len(work))
    BY <1>1
  <2>3. QED
    BY <1>1, <2>1, <2>2, Gather
<1>3. ret' # 0 => m2[ret'] = Returned
  <2>1. ret # 0 => ret \in Block
    BY <1>1 DEF TypeOK, BlockOr0, Block
  <2>2. QED
    BY <2>1 DEF Ready, CallsMeant
<1>4. IsCursor(D, ast', Top.node, Top.k, D[Behind(NewNode)])
  BY Arrive
<1>5. Top' = Top
  BY DEF Top
<1>6. QED
  BY <1>2, <1>3, <1>4, <1>5 DEF CallsMeant

LEMMA PushCalls ==
  ASSUME NEW t, NEW D, NEW m, Ready(t, D, m), NEW k \in Kinds, Visit(k),
         Top.k = "switch" \/ k # "case", Untouched,
         NEW f, Push(f), f.node = NewNode,
         NEW m2, Extends(m, m2),
         ret' # 0 => m2[ret'] = Returned,
         Top.k = "switch" => FrameGood(t, D, m2, ast', code', term', Top),
         FrameGood(t, D, m2, ast', code', term', f),
         f.k \in StmtLists => EndPoint(t, D, m2[ins'], code'[ins']) = D[Into(NewNode, f.k)]
  PROVE  CallsMeant(t, D, m2)'
<1>. USE DEF Extends
<1>1. /\ TypeOK /\ StackShape /\ Len(work) \in Nat \ {0} /\ nb \in Nat
      /\ Len(ast) \in Nat /\ NewNode = Len(ast) + 1
  BY ReadyParts
<1>2. /\ Len(work') = Len(work) + 1 /\ work'[Len(work) + 1] = f
      /\ \A i \in 1..Len(work) : work'[i] = work[i]
  BY <1>1 DEF TypeOK, Push
<1>3. \A i \in 1..Len(work') : FrameGood(t, D, m2, ast', code', term', work'[i])
  <2>1. CASE Top.k # "switch"
    <3>1. \A p : Cases(ast', p) = Cases(ast, p)
      BY <1>1, <2>1, CasesSame
    <3>2. PICK j : j = Len(work)
      OBVIOUS
    <3>3. j \in Nat /\ j <= Len(work) /\ \A i \in 1..j : work'[i] = work[i]
      BY <1>1, <1>2, <3>2
    <3>4. \A i \in 1..Len(work') : i > j => work'[i] = f
      BY <1>1, <1>2, <3>2
    <3>5. \A i \in 1..Len(work') : i > j => FrameGood(t, D, m2, ast', code', term', work'[i])
      BY <3>4
    <3>6. QED
      BY <3>1, <3>3, <3>5, Gather
  <2>2. CASE Top.k = "switch"
    <3>1. \A i \in 1..Len(work) : i < Len(work) => work[i].node # Top.node
      <4>1. \A i, j \in 1..Len(work) : i < j => work[i].node < work[j].node
        BY DEF Ready, Stacked
      <4>2. \A i \in 1..Len(work) : work[i].node \in 0..Len(ast)
        BY <1>1, TopStacked DEF Ready
      <4>3. QED
        BY <1>1, <4>1, <4>2 DEF Top
    <3>2. PICK j : j = Len(work) - 1
      OBVIOUS
    <3>3. /\ j \in Nat /\ j <= Len(work) /\ \A i \in 1..j : i \in 1..Len(work) /\ i < Len(work)
      BY <1>1, <3>2
    <3>4. \A i \in 1..j : Cases(ast', work[i].node) = Cases(ast, work[i].node)
      BY <1>1, <3>1, <3>3, CasesSame
    <3>5. \A i \in 1..Len(work') : i > j => work'[i] = Top \/ work'[i] = f
      BY <1>1, <1>2, <3>2 DEF Top
    <3>6. \A i \in 1..j : work'[i] = work[i]
      BY <1>2, <3>3
    <3>7. \A i \in 1..Len(work') : i > j => FrameGood(t, D, m2, ast', code', term', work'[i])
      BY <2>2, <3>5
    <3>8. QED
      BY <3>3, <3>4, <3>6, <3>7, Gather
  <2>3. QED
    BY <2>1, <2>2
<1>4. f.k \in StmtLists => IsCursor(D, ast', NewNode, f.k, D[Into(NewNode, f.k)])
  <2>1. \A x \in DOMAIN ast' : ast'[x].up # NewNode
    <3>1. Len(ast') = NewNode
      BY <1>1, Visited DEF TypeOK
    <3>2. \A x \in DOMAIN ast' : x \in 1..NewNode /\ ast'[x].up \in 0..(x - 1)
      BY <3>1 DEF Ready, Tree
    <3>3. QED
      BY <1>1, <3>2
  <2>2. Members(ast', NewNode, f.k) = {}
    BY <2>1 DEF Members
  <2>3. QED
    BY <2>2 DEF IsCursor
<1>5. Top' = f
  BY <1>2 DEF Top
<1>6. QED
  BY <1>3, <1>4, <1>5 DEF CallsMeant

LEMMA ReturnCalls ==
  ASSUME NEW t, NEW D, NEW m, Ready(t, D, m), ast' = ast, Untouched, Return, Top.k # "root",
         NEW m2, Extends(m, m2),
         ret' # 0 => m2[ret'] = Returned,
         Top.k # "case" => EndPoint(t, D, m2[ins'], code'[ins']) = D[Behind(Top.node)]
  PROVE  CallsMeant(t, D, m2)'
<1>. USE DEF Extends
<1>1. /\ TypeOK /\ StackShape /\ Len(work) \in Nat \ {0} /\ nb \in Nat
      /\ Len(ast) \in Nat /\ NewNode = Len(ast) + 1 /\ DOMAIN ast = 1..Len(ast)
  BY ReadyParts
<1>. DEFINE j == Len(work) - 1
<1>2. Len(work) # 1 /\ work \in Seq(FrameType) /\ j \in Nat \ {0} /\ j <= Len(work)
  BY <1>1, TopType
<1>3. Len(work') = j /\ \A i \in 1..j : work'[i] = work[i]
  BY <1>1, <1>2, FrontProps DEF Return, StackShape
<1>. HIDE DEF j
<1>4. \A i \in 1..Len(work') : FrameGood(t, D, m2, ast', code', term', work'[i])
  <2>1. \A i \in 1..Len(work') : ~(i > j)
    BY <1>2, <1>3
  <2>2. QED
    BY <1>2, <1>3, <2>1, Gather
<1>5. Top' = work[j] /\ Top = work[j + 1] /\ j + 1 = Len(work)
  BY <1>1, <1>2, <1>3 DEF Top, j
<1>6. Top'.k \in StmtLists => Top.k # "case"
  <2>1. PICK n : n = j + 1
    OBVIOUS
  <2>2. n \in 2..Len(work) /\ n - 1 = j /\ work[n] = Top
    BY <1>2, <1>5, <2>1
  <2>3. work[n].k = "case" <=> work[n - 1].k = "switch"
    BY <2>2 DEF Ready, Shape, CaseInSwitch
  <2>4. QED
    BY <1>5, <2>2, <2>3 DEF StmtLists
<1>7. IsCursor(D, ast', Top'.node, Top'.k, D[Behind(Top.node)])
  <2>1. CallAt(ast, work[j], Top)
    <3>1. PICK n : n = j + 1
      OBVIOUS
    <3>2. n \in 2..Len(work) /\ n - 1 = j /\ work[n] = Top
      BY <1>2, <1>5, <3>1
    <3>3. CallAt(ast, work[n - 1], work[n])
      BY <3>2 DEF Ready, Stacked
    <3>4. QED
      BY <3>2, <3>3
  <2>2. PICK p : p = Top.node
    OBVIOUS
  <2>3. /\ p \in 1..Len(ast) /\ ast[p].up = work[j].node /\ ast[p].sec = work[j].k
        /\ \A x \in (p + 1)..Len(ast) : ast[x].up >= p
    BY <2>1, <2>2 DEF CallAt
  <2>4. ast[p].up < p /\ ast[p].up \in Nat
    <3>1. ast[p].up \in 0..(p - 1)
      BY <2>3 DEF Ready, Tree
    <3>2. QED
      BY <2>3, <3>1
  <2>5. \A x \in (p + 1)..Len(ast) : ~(ast[x].up = work[j].node /\ ast[x].sec = work[j].k)
    BY <1>1, <2>3, <2>4
  <2>6. PICK u, s : u = work[j].node /\ s = work[j].k
    OBVIOUS
  <2>7. IsCursor(D, ast, u, s, D[Behind(p)])
    BY <1>1, <2>3, <2>5, <2>6, BehindCursor
  <2>8. QED
    BY <1>5, <2>2, <2>6, <2>7
<1>8. QED
  BY <1>4, <1>6, <1>7 DEF CallsMeant

LEMMA BecomeCalls ==
  ASSUME NEW t, NEW D, NEW m, Ready(t, D, m), ast' = ast, Untouched, Top.k # "root",
         NEW f, Become(f), f.node = Top.node, f.k \notin Begun(Top.k), ret' = ret,
         NEW m2, Extends(m, m2),
         FrameGood(t, D, m2, ast', code', term', f),
         EndPoint(t, D, m2[ins'], code'[ins']) = D[Into(Top.node, f.k)]
  PROVE  CallsMeant(t, D, m2)'
<1>. USE DEF Extends
<1>1. /\ TypeOK /\ StackShape /\ Len(work) \in Nat \ {0} /\ nb \in Nat
      /\ Len(ast) \in Nat /\ NewNode = Len(ast) + 1 /\ DOMAIN ast = 1..Len(ast)
  BY ReadyParts
<1>. DEFINE j == Len(work) - 1
            rest == Front(work)
<1>2. Len(work) # 1 /\ work \in Seq(FrameType) /\ j \in Nat \ {0} /\ j <= Len(work)
  BY <1>1, TopType
<1>3. rest \in Seq(FrameType) /\ Len(rest) = j /\ \A i \in 1..j : rest[i] = work[i]
  BY <1>1, <1>2, FrontProps DEF StackShape
<1>4. work' = Append(rest, f)
  BY DEF Become
<1>. HIDE DEF rest, j
<1>5. Len(work') = j + 1 /\ work'[j + 1] = f /\ \A i \in 1..j : work'[i] = work[i]
  BY <1>2, <1>3, <1>4
<1>6. \A i \in 1..Len(work') : FrameGood(t, D, m2, ast', code', term', work'[i])
  <2>1. \A i \in 1..Len(work') : i > j => i = j + 1
    BY <1>2, <1>5
  <2>2. \A i \in 1..Len(work') : i > j => FrameGood(t, D, m2, ast', code', term', work'[i])
    BY <1>5, <2>1
  <2>3. QED
    BY <1>2, <1>5, <2>2, Gather
<1>7. ret' # 0 => m2[ret'] = Returned
  <2>1. ret # 0 => ret \in Block
    BY <1>1 DEF TypeOK, BlockOr0, Block
  <2>2. QED
    BY <2>1 DEF Ready, CallsMeant
<1>8. IsCursor(D, ast', Top.node, f.k, D[Into(Top.node, f.k)])
  <2>1. Top.node # 0
    BY <1>1, TopStacked DEF Ready
  <2>2. CallAt(ast, work[Len(work) - 1], Top)
    BY <1>1, <2>1, TopStacked DEF Ready
  <2>3. Members(ast, Top.node, f.k) = {}
    BY <1>1, <2>2 DEF Members, CallAt
  <2>4. QED
    BY <2>3 DEF IsCursor
<1>9. Top' = f
  BY <1>5 DEF Top
<1>10. QED
  BY <1>6, <1>7, <1>8, <1>9 DEF CallsMeant

-----------------------------------------------------------------------------
(* Straight-line statements. *)

LEMMA PlainCode ==
  ASSUME TypeOK, NEW n \in Nat, NEW f, NEW z, Emit(n, f, z, 0, 0)
  PROVE  /\ \A x \in Block : code'[x] = code[x]
         /\ \A x \in (nb + 1)..(nb + n) : code'[x] = <<>>
BY DEF TypeOK, Emit, Block

\* Code is added to the insert block, which may be closed then.
LEMMA AddGood ==
  ASSUME NEW t, NEW D, NEW m, Ready(t, D, m), NEW n \in Nat, NEW f, NEW z, NEW q \in Nat,
         Emit(n, f, z, ins, q), DOMAIN z \subseteq {ins},
         NEW m2, Extends(m, m2),
         EndPoint(t, D, m[ins], code[ins]) = At(q),
         Goes(t, D, m2, term'[ins], Follow(t, D, q, 1))
  PROVE  /\ \A x \in Block' : BlockGood(t, D, m2, x, code'[x], term'[x])
         /\ EndPoint(t, D, m2[ins], code'[ins]) = Follow(t, D, q, 1)
         /\ \A x \in Block \ {ins} : code'[x] = code[x]
         /\ \A x \in (nb + 1)..(nb + n) : code'[x] = <<>>
<1>. USE DEF Extends
<1>1. /\ nb \in Nat /\ ins \in Block /\ code[ins] \in Seq(Nat) /\ TypeOK
      /\ \A x \in Block : BlockGood(t, D, m, x, code[x], term[x])
  BY ReadyParts DEF TypeOK
<1>2. code'[ins] = Append(code[ins], q) /\ nb' = nb + n
  BY <1>1 DEF Emit, Block
<1>3. Straight(t, D, m[ins], code[ins])
  BY <1>1 DEF BlockGood
<1>4. /\ Straight(t, D, m[ins], Append(code[ins], q))
      /\ EndPoint(t, D, m[ins], Append(code[ins], q)) = Follow(t, D, q, 1)
  BY <1>1, <1>3, AppendGood
<1>5. m2[ins] = m[ins]
  BY <1>1
<1>6. BlockGood(t, D, m2, ins, code'[ins], term'[ins])
  BY <1>2, <1>4, <1>5 DEF BlockGood
<1>7. ASSUME NEW x \in Block' PROVE BlockGood(t, D, m2, x, code'[x], term'[x])
  <2>1. CASE x = ins
    BY <1>6, <2>1
  <2>2. CASE x # ins /\ x <= nb
    <3>1. x \in Block /\ code'[x] = code[x] /\ term'[x] = term[x]
      BY <1>1, <1>2, <2>2 DEF Emit, Block
    <3>2. QED
      BY <1>1, <3>1, GoodKept
  <2>3. CASE x # ins /\ ~(x <= nb)
    <3>1. code'[x] = <<>> /\ term'[x] = None
      BY <1>1, <1>2, <2>3 DEF Emit, Block
    <3>2. QED
      BY <3>1, EmptyGood
  <2>4. QED
    BY <2>1, <2>2, <2>3
<1>8. /\ \A x \in Block \ {ins} : code'[x] = code[x]
      /\ \A x \in (nb + 1)..(nb + n) : code'[x] = <<>>
  BY <1>1 DEF Emit, Block
<1>9. QED
  BY <1>2, <1>4, <1>5, <1>7, <1>8

LEMMA EmitActMeant ==
  ASSUME NEW t, NEW D, NEW m, Ready(t, D, m), EmitAct
  PROVE  \E n : GraphMeant(t, D, n)' /\ CallsMeant(t, D, n)'
<1>1. /\ Visit("act") /\ Emit(0, fn[ins], <<>>, ins, NewNode) /\ Top.k \in StmtLists
      /\ ins' = ins /\ ret' = ret /\ work' = work
  BY DEF EmitAct, MayCome
<1>2. "act" \in Kinds
  BY DEF Kinds, SolKinds
<1>3. /\ NewNode \in Nat /\ NewNode # 0 /\ Kind(t, NewNode) = "act"
      /\ EndPoint(t, D, m[ins], code[ins]) = Enter(t, D, NewNode)
  BY <1>1, <1>2, Arrive
<1>4. Enter(t, D, NewNode) = At(NewNode) /\ Follow(t, D, NewNode, 1) = D[Behind(NewNode)]
  BY <1>3 DEF Enter, Follow
<1>5. Top.k # "switch" /\ ClosedSame
  BY <1>1, StatementSame DEF StmtLists, Statement, Ready
<1>6. ~Closed(term, ins) /\ TypeOK
  BY <1>5, Here DEF Ready
<1>0. Extends(m, m)
  BY DEF Extends
<1>7. /\ \A x \in Block' : BlockGood(t, D, m, x, code'[x], term'[x])
      /\ EndPoint(t, D, m[ins], code'[ins]) = D[Behind(NewNode)]
      /\ \A x \in Block \ {ins} : code'[x] = code[x]
  <2>1. DOMAIN <<>> = {}
    OBVIOUS
  <2>2. term'[ins] = term[ins]
    BY <1>1, <1>6, <2>1 DEF Emit, TypeOK, Block
  <2>3. Goes(t, D, m, term'[ins], Follow(t, D, NewNode, 1))
    BY <1>6, <2>2 DEF Closed, Goes
  <2>4. QED
    BY <1>0, <1>1, <1>3, <1>4, <2>1, <2>3, AddGood
<1>8. \A x \in Block' : EntryGood(t, D, m, fn', x)
  BY <1>0, <1>1, <1>6, EntriesKept, ReadyParts
<1>9. CallsMeant(t, D, m)'
  BY <1>0, <1>1, <1>2, <1>5, <1>7, LineCalls DEF Untouched
<1>10. QED
  BY <1>7, <1>8, <1>9 DEF GraphMeant

LEMMA EmitRequireMeant ==
  ASSUME NEW t, NEW D, NEW m, Ready(t, D, m), EmitRequire
  PROVE  \E n : GraphMeant(t, D, n)' /\ CallsMeant(t, D, n)'
<1>1. /\ Visit("req") /\ Top.k \in StmtLists
      /\ Emit(2, fn[ins], Two(ins, CondBr(nb + 1, nb + 2, NewNode),
                              nb + 2, Unreachable(NewNode)), 0, 0)
      /\ ins' = nb + 1 /\ ret' = ret /\ work' = work
  BY DEF EmitRequire, MayCome, Create
<1>2. "req" \in Kinds
  BY DEF Kinds, SolKinds
<1>3. /\ NewNode \in Nat /\ NewNode # 0 /\ Kind(t, NewNode) = "req"
      /\ EndPoint(t, D, m[ins], code[ins]) = Enter(t, D, NewNode)
  BY <1>1, <1>2, Arrive
<1>4. /\ Enter(t, D, NewNode) = At(NewNode)
      /\ Follow(t, D, NewNode, 1) = D[Behind(NewNode)] /\ Follow(t, D, NewNode, 2) = Reverted
      /\ Outcomes(t, NewNode) = {1, 2}
  BY <1>3 DEF Enter, Follow, Outcomes
<1>5. ClosedSame
  BY StatementSame DEF Statement, Ready
<1>6. TypeOK /\ nb \in Nat /\ ins \in Block /\ nb + 2 # ins /\ nb + 2 \notin Block
  BY ReadyParts DEF Block
<1>7. PICK n : /\ n = Given(m, D[Behind(NewNode)], Reverted, 0, 0) /\ Extends(m, n)
               /\ n[nb + 1] = D[Behind(NewNode)] /\ n[nb + 2] = Reverted
  BY <1>6, GivenProps
<1>8. /\ Goes(t, D, n, CondBr(nb + 1, nb + 2, NewNode), EndPoint(t, D, m[ins], code[ins]))
      /\ Goes(t, D, n, Unreachable(NewNode), n[nb + 2])
  BY <1>3, <1>4, <1>7, GoesProps
<1>9. \A x \in Block' : BlockGood(t, D, n, x, code'[x], term'[x])
  BY <1>1, <1>6, <1>7, <1>8, TwoGood, ReadyParts
<1>10. \A x \in Block' : EntryGood(t, D, n, fn', x)
  BY <1>1, <1>6, <1>7, EntriesKept, ReadyParts
<1>11. (\A x \in Block : code'[x] = code[x]) /\ code'[nb + 1] = <<>>
  BY <1>1, <1>6, PlainCode
<1>12. EndPoint(t, D, n[ins'], code'[ins']) = D[Behind(NewNode)]
  BY <1>1, <1>7, <1>11 DEF EndPoint
<1>13. CallsMeant(t, D, n)'
  BY <1>1, <1>2, <1>5, <1>7, <1>11, <1>12, LineCalls DEF Untouched
<1>14. QED
  BY <1>9, <1>10, <1>13 DEF GraphMeant

LEMMA EmitRevertMeant ==
  ASSUME NEW t, NEW D, NEW m, Ready(t, D, m), EmitRevert
  PROVE  \E n : GraphMeant(t, D, n)' /\ CallsMeant(t, D, n)'
<1>1. /\ Visit("revert") /\ Top.k \in StmtLists
      /\ Emit(1, fn[ins], One(ins, Unreachable(NewNode)), 0, 0)
      /\ ins' = nb + 1 /\ ret' = ret /\ work' = work
  BY DEF EmitRevert, MayCome, Create
<1>2. "revert" \in Kinds
  BY DEF Kinds, SolKinds
<1>3. /\ NewNode \in Nat /\ NewNode # 0 /\ Kind(t, NewNode) = "revert"
      /\ EndPoint(t, D, m[ins], code[ins]) = Enter(t, D, NewNode)
  BY <1>1, <1>2, Arrive
<1>4. Enter(t, D, NewNode) = Reverted
  BY <1>3 DEF Enter
<1>5. ClosedSame
  BY StatementSame DEF Statement, Ready
<1>6. TypeOK /\ nb \in Nat /\ ins \in Block
  BY ReadyParts
<1>7. PICK n : /\ n = Given(m, D[Behind(NewNode)], 0, 0, 0) /\ Extends(m, n)
               /\ n[nb + 1] = D[Behind(NewNode)]
  BY <1>6, GivenProps
<1>8. Goes(t, D, n, Unreachable(NewNode), EndPoint(t, D, m[ins], code[ins]))
  BY <1>3, <1>4, GoesProps
<1>9. \A x \in Block' : BlockGood(t, D, n, x, code'[x], term'[x])
  BY <1>1, <1>6, <1>7, <1>8, OneGood, ReadyParts
<1>10. \A x \in Block' : EntryGood(t, D, n, fn', x)
  BY <1>1, <1>6, <1>7, EntriesKept, ReadyParts
<1>11. (\A x \in Block : code'[x] = code[x]) /\ code'[nb + 1] = <<>>
  BY <1>1, <1>6, PlainCode
<1>12. EndPoint(t, D, n[ins'], code'[ins']) = D[Behind(NewNode)]
  BY <1>1, <1>7, <1>11 DEF EndPoint
<1>13. CallsMeant(t, D, n)'
  BY <1>1, <1>2, <1>5, <1>7, <1>11, <1>12, LineCalls DEF Untouched
<1>14. QED
  BY <1>9, <1>10, <1>13 DEF GraphMeant

LEMMA EmitReturnMeant ==
  ASSUME NEW t, NEW D, NEW m, Ready(t, D, m), EmitReturn
  PROVE  \E n : GraphMeant(t, D, n)' /\ CallsMeant(t, D, n)'
<1>0. PICK k \in {"ret", "leave"} : MayCome(k) /\ Visit(k)
  BY DEF EmitReturn
<1>1. /\ Top.k \in StmtLists /\ ret # 0
      /\ Emit(1, fn[ins], One(ins, Br(ret)), ins, NewNode)
      /\ ins' = nb + 1 /\ ret' = ret /\ work' = work
  BY <1>0 DEF EmitReturn, MayCome
<1>2. k \in Kinds /\ k # "case"
  BY DEF Kinds, SolKinds, YulKinds
<1>3. /\ NewNode \in Nat /\ NewNode # 0 /\ Kind(t, NewNode) = k
      /\ EndPoint(t, D, m[ins], code[ins]) = Enter(t, D, NewNode)
  BY <1>0, <1>1, <1>2, Arrive
<1>4. Enter(t, D, NewNode) = At(NewNode) /\ Follow(t, D, NewNode, 1) = Returned
  BY <1>3 DEF Enter, Follow
<1>5. ClosedSame
  BY StatementSame DEF Statement, Ready
<1>6. TypeOK /\ nb \in Nat /\ ins \in Block /\ ret \in Block
  BY <1>1, ReadyParts DEF TypeOK, BlockOr0, Block
<1>7. PICK n : /\ n = Given(m, D[Behind(NewNode)], 0, 0, 0) /\ Extends(m, n)
               /\ n[nb + 1] = D[Behind(NewNode)]
  BY <1>6, GivenProps
<1>8. Goes(t, D, n, Br(ret), Follow(t, D, NewNode, 1))
  <2>1. m[ret] = Returned
    BY <1>1 DEF Ready, CallsMeant
  <2>2. n[ret] = Returned
    BY <1>6, <1>7, <2>1 DEF Extends
  <2>3. QED
    BY <1>4, <2>2, GoesProps
<1>9. PICK z : z = One(ins, Br(ret))
  OBVIOUS
<1>10. /\ \A x \in Block' : BlockGood(t, D, n, x, code'[x], term'[x])
       /\ \A x \in Block \ {ins} : code'[x] = code[x]
       /\ \A x \in (nb + 1)..(nb + 1) : code'[x] = <<>>
  <2>1. DOMAIN z \subseteq {ins} /\ Emit(1, fn[ins], z, ins, NewNode) /\ term'[ins] = Br(ret)
    BY <1>1, <1>6, <1>9 DEF One, Emit, Block
  <2>2. EndPoint(t, D, m[ins], code[ins]) = At(NewNode)
    BY <1>3, <1>4
  <2>3. Goes(t, D, n, term'[ins], Follow(t, D, NewNode, 1)) /\ Extends(m, n) /\ NewNode \in Nat
    BY <1>3, <1>7, <1>8, <2>1
  <2>4. \A x \in Block' : BlockGood(t, D, n, x, code'[x], term'[x])
    BY <2>1, <2>2, <2>3, AddGood
  <2>5. \A x \in Block \ {ins} : code'[x] = code[x]
    BY <2>1, <2>2, <2>3, AddGood
  <2>6. \A x \in (nb + 1)..(nb + 1) : code'[x] = <<>>
    BY <2>1, <2>2, <2>3, AddGood
  <2>7. QED
    BY <2>4, <2>5, <2>6
<1>11. \A x \in Block' : EntryGood(t, D, n, fn', x)
  BY <1>1, <1>6, <1>7, EntriesKept, ReadyParts
<1>12. EndPoint(t, D, n[ins'], code'[ins']) = D[Behind(NewNode)]
  BY <1>1, <1>6, <1>7, <1>10 DEF EndPoint
<1>13. CallsMeant(t, D, n)'
  BY <1>0, <1>1, <1>2, <1>5, <1>7, <1>10, <1>12, LineCalls DEF Untouched
<1>14. QED
  BY <1>10, <1>11, <1>13 DEF GraphMeant

-----------------------------------------------------------------------------
(* Statements with sections. *)

LEMMA RetKept ==
  ASSUME NEW t, NEW D, NEW m, Ready(t, D, m), NEW n, Extends(m, n)
  PROVE  ret # 0 => n[ret] = Returned
<1>1. ret # 0 => ret \in Block /\ m[ret] = Returned
  BY ReadyParts DEF Ready, CallsMeant, TypeOK, BlockOr0, Block
<1>2. QED
  BY <1>1 DEF Extends

LEMMA OpenThenMeant ==
  ASSUME NEW t, NEW D, NEW m, Ready(t, D, m),
         NEW k, NEW o, NEW else, NEW next, OpenThen(k, o, else, next),
         \/ k = "if" /\ o = 2 /\ else = nb + 2 /\ next = 0
         \/ k = "ifelse" /\ o = 3 /\ else = nb + 3 /\ next = nb + 3
  PROVE  \E n : GraphMeant(t, D, n)' /\ CallsMeant(t, D, n)'
<1>. DEFINE q == NewNode
            f == [Call("then", q) EXCEPT !.next = next, !.exit = nb + 2]
<1>1. /\ Visit(k) /\ Top.k \in StmtLists
      /\ Emit(o, fn[ins], One(ins, CondBr(nb + 1, else, q)), 0, 0)
      /\ ins' = nb + 1 /\ ret' = ret /\ Push(f)
  BY DEF OpenThen, MayCome, Create
<1>2. k \in Kinds /\ k # "case" /\ Top.k # "switch"
  BY <1>1 DEF Kinds, SolKinds, StmtLists
<1>3. /\ q \in Nat /\ q # 0 /\ Kind(t, q) = k
      /\ EndPoint(t, D, m[ins], code[ins]) = Enter(t, D, q)
  BY <1>1, <1>2, Arrive
<1>4. ClosedSame
  BY StatementSame DEF Statement, OpenIf, Ready
<1>5. TypeOK /\ nb \in Nat /\ o \in Nat
  BY ReadyParts
<1>6. PICK n : /\ n = Given(m, D[Into(q, "then")], D[Behind(q)], D[Into(q, "else")], 0)
               /\ Extends(m, n) /\ n[nb + 1] = D[Into(q, "then")] /\ n[nb + 2] = D[Behind(q)]
               /\ n[nb + 3] = D[Into(q, "else")]
  BY <1>5, GivenProps
<1>7. f.k = "then" /\ f.node = q /\ f.next = next /\ f.exit = nb + 2 /\ f.cond = 0 /\ f.body = 0
  BY DEF Call
<1>. HIDE DEF q, f
<1>8. /\ Enter(t, D, q) = At(q) /\ Outcomes(t, q) = {1, 2}
      /\ Follow(t, D, q, 1) = D[Into(q, "then")]
      /\ Follow(t, D, q, 2) = IF k = "if" THEN D[Behind(q)] ELSE D[Into(q, "else")]
  BY <1>3 DEF Enter, Follow, Outcomes
<1>9. Goes(t, D, n, CondBr(nb + 1, else, q), EndPoint(t, D, m[ins], code[ins]))
  <2>1. n[nb + 1] = Follow(t, D, q, 1) /\ n[else] = Follow(t, D, q, 2)
    BY <1>6, <1>8
  <2>2. QED
    BY <1>3, <1>8, <2>1, GoesProps
<1>10. \A x \in Block' : BlockGood(t, D, n, x, code'[x], term'[x])
  BY <1>1, <1>5, <1>6, <1>9, OneGood, ReadyParts
<1>11. \A x \in Block' : EntryGood(t, D, n, fn', x)
  BY <1>1, <1>5, <1>6, EntriesKept, ReadyParts
<1>12. /\ \A x \in Block : code'[x] = code[x]
       /\ \A x \in (nb + 1)..(nb + o) : code'[x] = <<>>
  BY <1>1, <1>5, PlainCode
<1>13. code'[nb + 1] = <<>> /\ code'[nb + 2] = <<>> /\ (next # 0 => code'[next] = <<>>)
  BY <1>5, <1>12
<1>14. FrameGood(t, D, n, ast', code', term', f)
  <2>1. \A s \in Slots : f[s] # 0 => code'[f[s]] = <<>>
    BY <1>7, <1>13 DEF Slots
  <2>2. f.next # 0 => n[f.next] = D[Into(q, "else")]
    BY <1>6, <1>7
  <2>3. QED
    BY <1>6, <1>7, <2>1, <2>2 DEF FrameGood
<1>15. EndPoint(t, D, n[ins'], code'[ins']) = D[Into(NewNode, f.k)]
  BY <1>1, <1>6, <1>7, <1>13 DEF EndPoint, q
<1>16. ret' # 0 => n[ret'] = Returned
  BY <1>1, <1>6, RetKept
<1>17. Untouched /\ f.node = NewNode
  BY <1>4, <1>7, <1>12 DEF Untouched, q
<1>18. CallsMeant(t, D, n)'
  BY <1>1, <1>2, <1>6, <1>14, <1>15, <1>16, <1>17, PushCalls
<1>19. QED
  BY <1>10, <1>11, <1>18 DEF GraphMeant

LEMMA OpenIfMeant ==
  ASSUME NEW t, NEW D, NEW m, Ready(t, D, m), OpenIf
  PROVE  \E n : GraphMeant(t, D, n)' /\ CallsMeant(t, D, n)'
BY OpenThenMeant DEF OpenIf

LEMMA OpenWhileMeant ==
  ASSUME NEW t, NEW D, NEW m, Ready(t, D, m), OpenWhile
  PROVE  \E n : GraphMeant(t, D, n)' /\ CallsMeant(t, D, n)'
<1>. DEFINE q == NewNode
            f == [Call("body", q) EXCEPT !.exit = nb + 2, !.back = nb + 1]
<1>0. PICK k \in {"while", "do"} :
        /\ MayCome(k) /\ Visit(k)
        /\ Create(3, Two(ins, Br(IF k = "do" THEN nb + 3 ELSE nb + 1),
                         nb + 1, CondBr(nb + 3, nb + 2, q)))
        /\ ins' = nb + 3 /\ Push(f)
  BY DEF OpenWhile
<1>. DEFINE d == IF k = "do" THEN nb + 3 ELSE nb + 1
<1>1. /\ Visit(k) /\ Top.k \in StmtLists
      /\ Emit(3, fn[ins], Two(ins, Br(d), nb + 1, CondBr(nb + 3, nb + 2, q)), 0, 0)
      /\ ins' = nb + 3 /\ ret' = ret /\ Push(f)
  BY <1>0 DEF OpenWhile, MayCome, Create
<1>2. k \in Kinds /\ k # "case" /\ Top.k # "switch"
  BY <1>1 DEF Kinds, SolKinds, StmtLists
<1>3. /\ q \in Nat /\ q # 0 /\ Kind(t, q) = k
      /\ EndPoint(t, D, m[ins], code[ins]) = Enter(t, D, q)
  BY <1>1, <1>2, Arrive
<1>4. ClosedSame
  BY StatementSame DEF Statement, Ready
<1>5. TypeOK /\ nb \in Nat /\ ins \in Block /\ nb + 1 # ins /\ nb + 1 \notin Block
  BY ReadyParts DEF Block
<1>6. PICK n : /\ n = Given(m, At(q), D[Behind(q)], D[Into(q, "body")], 0)
               /\ Extends(m, n) /\ n[nb + 1] = At(q) /\ n[nb + 2] = D[Behind(q)]
               /\ n[nb + 3] = D[Into(q, "body")]
  BY <1>5, GivenProps
<1>7. f.k = "body" /\ f.node = q /\ f.next = 0 /\ f.exit = nb + 2 /\ f.cond = 0 /\ f.body = 0
      /\ f.back = nb + 1
  BY DEF Call
<1>8. n[d] = Enter(t, D, q)
  BY <1>3, <1>6 DEF Enter
<1>. HIDE DEF q, f, d
<1>9. /\ Outcomes(t, q) = {1, 2} /\ Follow(t, D, q, 1) = D[Into(q, "body")]
      /\ Follow(t, D, q, 2) = D[Behind(q)]
  BY <1>3 DEF Follow, Outcomes
<1>10. Goes(t, D, n, CondBr(nb + 3, nb + 2, q), n[nb + 1])
  BY <1>3, <1>6, <1>9, GoesProps
<1>11. Goes(t, D, n, Br(d), EndPoint(t, D, m[ins], code[ins]))
  BY <1>3, <1>8, GoesProps
<1>12. \A x \in Block' : BlockGood(t, D, n, x, code'[x], term'[x])
  BY <1>1, <1>5, <1>6, <1>10, <1>11, TwoGood, ReadyParts
<1>13. \A x \in Block' : EntryGood(t, D, n, fn', x)
  BY <1>1, <1>5, <1>6, EntriesKept, ReadyParts
<1>14. /\ \A x \in Block : code'[x] = code[x]
       /\ \A x \in (nb + 1)..(nb + 3) : code'[x] = <<>>
  BY <1>1, <1>5, PlainCode
<1>15. FrameGood(t, D, n, ast', code', term', f)
  <2>1. \A s \in Slots : f[s] # 0 => code'[f[s]] = <<>>
    BY <1>5, <1>7, <1>14 DEF Slots
  <2>2. QED
    BY <1>6, <1>7, <2>1 DEF FrameGood
<1>16. EndPoint(t, D, n[ins'], code'[ins']) = D[Into(NewNode, f.k)]
  BY <1>1, <1>5, <1>6, <1>7, <1>14 DEF EndPoint, q
<1>17. ret' # 0 => n[ret'] = Returned
  BY <1>1, <1>6, RetKept
<1>18. Untouched /\ f.node = NewNode
  BY <1>4, <1>7, <1>14 DEF Untouched, q
<1>19. CallsMeant(t, D, n)'
  BY <1>1, <1>2, <1>6, <1>15, <1>16, <1>17, <1>18, PushCalls
<1>20. QED
  BY <1>12, <1>13, <1>19 DEF GraphMeant

LEMMA OpenForMeant ==
  ASSUME NEW t, NEW D, NEW m, Ready(t, D, m), OpenFor
  PROVE  \E n : GraphMeant(t, D, n)' /\ CallsMeant(t, D, n)'
<1>. DEFINE q == NewNode
            f == [Call("forbody", q) EXCEPT !.next = nb + 3, !.exit = nb + 4, !.back = nb + 1]
<1>0. PICK k \in {"for", "forever"} :
        /\ MayCome(k) /\ Visit(k)
        /\ IF k = "for"
           THEN Create(4, Two(ins, Br(nb + 1), nb + 1, CondBr(nb + 2, nb + 4, q)))
           ELSE Emit(4, fn[ins], Two(ins, Br(nb + 1), nb + 1, Br(nb + 2)), nb + 1, q)
        /\ ins' = nb + 2 /\ Push(f)
  BY DEF OpenFor
<1>1. /\ Visit(k) /\ Top.k \in StmtLists
      /\ k = "for" =>
           Emit(4, fn[ins], Two(ins, Br(nb + 1), nb + 1, CondBr(nb + 2, nb + 4, q)), 0, 0)
      /\ k = "forever" =>
           Emit(4, fn[ins], Two(ins, Br(nb + 1), nb + 1, Br(nb + 2)), nb + 1, q)
      /\ ins' = nb + 2 /\ ret' = ret /\ Push(f)
  BY <1>0 DEF OpenFor, MayCome, Create
<1>2. k \in Kinds /\ k # "case" /\ Top.k # "switch"
  BY <1>1 DEF Kinds, SolKinds, StmtLists
<1>3. /\ q \in Nat /\ q # 0 /\ Kind(t, q) = k
      /\ EndPoint(t, D, m[ins], code[ins]) = Enter(t, D, q)
  BY <1>1, <1>2, Arrive
<1>4. ClosedSame
  BY StatementSame DEF Statement, Ready
<1>5. TypeOK /\ nb \in Nat /\ ins \in Block /\ nb + 1 # ins /\ nb + 1 \notin Block
  BY ReadyParts DEF Block
<1>6. PICK n : /\ n = Given(m, At(q), D[Into(q, "forbody")], D[Into(q, "forpost")], D[Behind(q)])
               /\ Extends(m, n) /\ n[nb + 1] = At(q) /\ n[nb + 2] = D[Into(q, "forbody")]
               /\ n[nb + 3] = D[Into(q, "forpost")] /\ n[nb + 4] = D[Behind(q)]
  BY <1>5, GivenProps
<1>7. f.k = "forbody" /\ f.node = q /\ f.next = nb + 3 /\ f.exit = nb + 4 /\ f.cond = 0
      /\ f.body = 0 /\ f.back = nb + 1
  BY DEF Call
<1>. HIDE DEF q, f
<1>8. /\ Enter(t, D, q) = At(q) /\ Follow(t, D, q, 1) = D[Into(q, "forbody")]
      /\ k = "for" => Outcomes(t, q) = {1, 2} /\ Follow(t, D, q, 2) = D[Behind(q)]
  BY <1>3 DEF Enter, Follow, Outcomes
<1>9. Goes(t, D, n, Br(nb + 1), EndPoint(t, D, m[ins], code[ins]))
  BY <1>3, <1>6, <1>8, GoesProps
<1>10. /\ \A x \in Block' : BlockGood(t, D, n, x, code'[x], term'[x])
       /\ \A x \in Block' : EntryGood(t, D, n, fn', x)
       /\ \A x \in Block : code'[x] = code[x]
       /\ \A x \in (nb + 2)..(nb + 4) : code'[x] = <<>>
  <2>1. CASE k = "for"
    <3>1. Emit(4, fn[ins], Two(ins, Br(nb + 1), nb + 1, CondBr(nb + 2, nb + 4, q)), 0, 0)
      BY <1>1, <2>1
    <3>2. Goes(t, D, n, CondBr(nb + 2, nb + 4, q), n[nb + 1])
      BY <1>3, <1>6, <1>8, <2>1, GoesProps
    <3>3. \A x \in Block' : BlockGood(t, D, n, x, code'[x], term'[x])
      BY <1>5, <1>6, <1>9, <3>1, <3>2, TwoGood, ReadyParts
    <3>4. \A x \in Block' : EntryGood(t, D, n, fn', x)
      BY <1>5, <1>6, <3>1, EntriesKept, ReadyParts
    <3>5. /\ \A x \in Block : code'[x] = code[x]
          /\ \A x \in (nb + 1)..(nb + 4) : code'[x] = <<>>
      BY <1>5, <3>1, PlainCode
    <3>6. \A x \in (nb + 2)..(nb + 4) : x \in (nb + 1)..(nb + 4)
      BY <1>5
    <3>7. QED
      BY <3>3, <3>4, <3>5, <3>6
  <2>2. CASE k = "forever"
    <3>1. PICK z : z = Two(ins, Br(nb + 1), nb + 1, Br(nb + 2))
      OBVIOUS
    <3>2. /\ Emit(4, fn[ins], z, nb + 1, q)
          /\ DOMAIN z = {ins, nb + 1} /\ z[ins] = Br(nb + 1) /\ z[nb + 1] = Br(nb + 2)
      BY <1>1, <1>5, <2>2, <3>1 DEF Two
    <3>3. /\ code'[nb + 1] = Append(<<>>, q) /\ term'[nb + 1] = Br(nb + 2)
          /\ code'[ins] = code[ins] /\ term'[ins] = Br(nb + 1)
          /\ \A x \in Block : code'[x] = code[x]
          /\ \A x \in (nb + 2)..(nb + 4) : code'[x] = <<>>
      <4>1. /\ nb' = nb + 4 /\ nb + 1 \in 1..(nb + 4) /\ ~(nb + 1 <= nb) /\ ins \in 1..nb
            /\ ins \in 1..(nb + 4) /\ \A x \in Block : x \in 1..(nb + 4) /\ x <= nb /\ x # nb + 1
        BY <1>5, <3>2 DEF Emit, Block
      <4>2. code'[nb + 1] = Append(<<>>, q)
        BY <3>2, <4>1 DEF Emit
      <4>3. term'[nb + 1] = Br(nb + 2) /\ term'[ins] = Br(nb + 1)
        BY <3>2, <4>1 DEF Emit
      <4>4. \A x \in Block : code'[x] = code[x]
        BY <3>2, <4>1 DEF Emit
      <4>5. \A x \in (nb + 2)..(nb + 4) : code'[x] = <<>>
        BY <1>5, <3>2 DEF Emit
      <4>6. QED
        BY <1>5, <4>2, <4>3, <4>4, <4>5
    <3>4. BlockGood(t, D, n, nb + 1, code'[nb + 1], term'[nb + 1])
      <4>1. PICK c : c = Append(<<>>, q)
        OBVIOUS
      <4>2. c # <<>> /\ Len(c) = 1 /\ c[1] = q
        BY <4>1
      <4>3. Straight(t, D, At(q), c) /\ EndPoint(t, D, At(q), c) = D[Into(q, "forbody")]
        BY <1>8, <4>2 DEF Straight, EndPoint
      <4>4. Goes(t, D, n, Br(nb + 2), D[Into(q, "forbody")])
        BY <1>6, GoesProps
      <4>5. QED
        BY <1>6, <3>3, <4>1, <4>3, <4>4 DEF BlockGood
    <3>5. BlockGood(t, D, n, ins, code'[ins], term'[ins])
      <4>1. n[ins] = m[ins] /\ BlockGood(t, D, m, ins, code[ins], term[ins])
        BY <1>5, <1>6, ReadyParts DEF Extends
      <4>2. BlockGood(t, D, n, ins, code[ins], Br(nb + 1))
        BY <1>9, <4>1, CloseGood
      <4>3. QED
        BY <3>3, <4>2
    <3>6. ASSUME NEW x \in Block' PROVE BlockGood(t, D, n, x, code'[x], term'[x])
      <4>1. x \in 1..(nb + 4)
        BY <1>5, <3>2 DEF Emit, Block
      <4>2. CASE x \in {ins, nb + 1}
        BY <3>4, <3>5, <4>2
      <4>3. CASE x \notin {ins, nb + 1} /\ x <= nb
        <5>1. x \in Block /\ code'[x] = code[x] /\ term'[x] = term[x]
          BY <3>2, <4>1, <4>3 DEF Emit, Block
        <5>2. QED
          BY <1>5, <1>6, <5>1, GoodKept, ReadyParts
      <4>4. CASE x \notin {ins, nb + 1} /\ ~(x <= nb)
        <5>1. code'[x] = <<>> /\ term'[x] = None
          BY <3>2, <4>1, <4>4 DEF Emit
        <5>2. QED
          BY <5>1, EmptyGood
      <4>5. QED
        BY <4>2, <4>3, <4>4
    <3>7. \A x \in Block' : EntryGood(t, D, n, fn', x)
      BY <1>5, <1>6, <3>2, EntriesKept, ReadyParts
    <3>8. QED
      BY <3>3, <3>6, <3>7
  <2>3. QED
    BY <2>1, <2>2
<1>11. FrameGood(t, D, n, ast', code', term', f)
  <2>1. \A s \in Slots : f[s] # 0 => code'[f[s]] = <<>>
    BY <1>5, <1>7, <1>10 DEF Slots
  <2>2. QED
    BY <1>6, <1>7, <2>1 DEF FrameGood
<1>12. EndPoint(t, D, n[ins'], code'[ins']) = D[Into(NewNode, f.k)]
  BY <1>1, <1>5, <1>6, <1>7, <1>10 DEF EndPoint, q
<1>13. ret' # 0 => n[ret'] = Returned
  BY <1>1, <1>6, RetKept
<1>14. Untouched /\ f.node = NewNode
  BY <1>4, <1>7, <1>10 DEF Untouched, q
<1>15. CallsMeant(t, D, n)'
  BY <1>1, <1>2, <1>6, <1>11, <1>12, <1>13, <1>14, PushCalls
<1>16. QED
  BY <1>10, <1>15 DEF GraphMeant

LEMMA OpenAsmForMeant ==
  ASSUME NEW t, NEW D, NEW m, Ready(t, D, m), OpenAsmFor
  PROVE  \E n : GraphMeant(t, D, n)' /\ CallsMeant(t, D, n)'
<1>. DEFINE q == NewNode
            f == [Call("asminit", q) EXCEPT !.cond = nb + 1, !.body = nb + 2,
                                            !.next = nb + 3, !.exit = nb + 4]
<1>1. /\ Visit("asmfor") /\ Top.k \in StmtLists
      /\ Emit(4, fn[ins], <<>>, 0, 0) /\ ins' = ins /\ ret' = ret /\ Push(f)
  BY DEF OpenAsmFor, MayCome, Create
<1>2. "asmfor" \in Kinds /\ Top.k # "switch"
  BY <1>1 DEF Kinds, YulKinds, StmtLists
<1>3. /\ q \in Nat /\ q # 0 /\ Kind(t, q) = "asmfor"
      /\ EndPoint(t, D, m[ins], code[ins]) = Enter(t, D, q)
  BY <1>1, <1>2, Arrive
<1>4. ClosedSame
  BY StatementSame DEF Statement, Ready
<1>5. TypeOK /\ nb \in Nat /\ ins \in Block
  BY ReadyParts
<1>6. PICK n : /\ n = Given(m, At(q), D[Into(q, "forbody")], D[Into(q, "forpost")], D[Behind(q)])
               /\ Extends(m, n) /\ n[nb + 1] = At(q) /\ n[nb + 2] = D[Into(q, "forbody")]
               /\ n[nb + 3] = D[Into(q, "forpost")] /\ n[nb + 4] = D[Behind(q)]
  BY <1>5, GivenProps
<1>7. f.k = "asminit" /\ f.node = q /\ f.next = nb + 3 /\ f.exit = nb + 4 /\ f.cond = nb + 1
      /\ f.body = nb + 2
  BY DEF Call
<1>. HIDE DEF q, f
<1>8. Enter(t, D, q) = D[Into(q, "asminit")]
  BY <1>3 DEF Enter
<1>9. PICK z : z = <<>> /\ DOMAIN z = {}
  OBVIOUS
<1>10. Emit(4, fn[ins], z, 0, 0)
  BY <1>1, <1>9
<1>11. \A x \in Block' : BlockGood(t, D, n, x, code'[x], term'[x])
  BY <1>5, <1>6, <1>9, <1>10, TermsGood, ReadyParts
<1>12. \A x \in Block' : EntryGood(t, D, n, fn', x)
  BY <1>5, <1>6, <1>10, EntriesKept, ReadyParts
<1>13. /\ \A x \in Block : code'[x] = code[x]
       /\ \A x \in (nb + 1)..(nb + 4) : code'[x] = <<>>
  BY <1>5, <1>10, PlainCode
<1>14. FrameGood(t, D, n, ast', code', term', f)
  <2>1. \A s \in Slots : f[s] # 0 => code'[f[s]] = <<>>
    BY <1>5, <1>7, <1>13 DEF Slots
  <2>2. QED
    BY <1>3, <1>6, <1>7, <2>1 DEF FrameGood
<1>15. EndPoint(t, D, n[ins'], code'[ins']) = D[Into(NewNode, f.k)]
  <2>1. n[ins'] = m[ins] /\ code'[ins'] = code[ins]
    BY <1>1, <1>5, <1>6, <1>13 DEF Extends
  <2>2. QED
    BY <1>3, <1>7, <1>8, <2>1 DEF q
<1>16. ret' # 0 => n[ret'] = Returned
  BY <1>1, <1>6, RetKept
<1>17. Untouched /\ f.node = NewNode
  BY <1>4, <1>7, <1>13 DEF Untouched, q
<1>18. CallsMeant(t, D, n)'
  BY <1>1, <1>2, <1>6, <1>14, <1>15, <1>16, <1>17, PushCalls
<1>19. QED
  BY <1>11, <1>12, <1>18 DEF GraphMeant

-----------------------------------------------------------------------------
(* The ends of sections. *)

LEMMA SelfExtends == ASSUME NEW m PROVE Extends(m, m)
BY DEF Extends

LEMMA TopGood ==
  ASSUME NEW t, NEW D, NEW m, Ready(t, D, m)
  PROVE  /\ FrameGood(t, D, m, ast, code, term, Top)
         /\ Top \in FrameType /\ FrameShape(Top, lang) /\ Top.node \in Nat
         /\ \A s \in Slots : Top[s] # 0 =>
              /\ Top[s] \in Block /\ Top[s] # ins
              /\ ~(Top.k = "fun" /\ s = "next") => code[Top[s]] = <<>>
<1>1. FrameGood(t, D, m, ast, code, term, Top)
  BY ReadyParts DEF Top
<1>2. Top \in FrameType /\ FrameShape(Top, lang) /\ \A x \in TopBlocks \ {0} : x \in Block /\ x # ins
  BY TopPending DEF Ready
<1>3. \A s \in Slots : Top[s] \in TopBlocks
  BY DEF Slots, TopBlocks, SlotSet
<1>4. Top.node \in Nat
  BY <1>2 DEF FrameType
<1>5. \A s \in Slots : Top[s] # 0 /\ ~(Top.k = "fun" /\ s = "next") => code[Top[s]] = <<>>
  BY <1>1 DEF FrameGood
<1>6. QED
  BY <1>1, <1>2, <1>3, <1>4, <1>5

LEMMA EndsReturn ==
  ASSUME NEW t, NEW D, NEW m, Ready(t, D, m), ast' = ast, Return, Top.k \in StmtLists
  PROVE  EndPoint(t, D, m[ins], code[ins]) = SectionEnd(D, Top.node, Top.k)
<1>1. Len(work) \in Nat \ {0} /\ TypeOK /\ StackShape /\ Len(ast) \in Nat
  BY ReadyParts
<1>2. work \in Seq(FrameType) /\ Len(work') = Len(work) - 1
      /\ \A i \in 1..(Len(work) - 1) : work'[i] = work[i]
  BY <1>1, FrontProps DEF Return, StackShape, TypeOK
<1>3. \A i \in 1..Len(work') : work'[i].node # Top.node
  <2>1. TAKE i \in 1..Len(work')
  <2>2. i \in 1..Len(work) /\ i < Len(work) /\ work'[i] = work[i]
    BY <1>1, <1>2
  <2>3. work[i].node < Top.node /\ work[i].node \in 0..Len(ast) /\ Top.node \in 0..Len(ast)
    BY <1>1, <2>2, TopStacked DEF Ready
  <2>4. QED
    BY <1>1, <2>2, <2>3
<1>4. QED
  BY <1>3, AtEnd

LEMMA EndsBecome ==
  ASSUME NEW t, NEW D, NEW m, Ready(t, D, m), ast' = ast, Top.k \in StmtLists,
         NEW f, Become(f), f.node = Top.node, Top.k \notin ToCome(f.k)
  PROVE  EndPoint(t, D, m[ins], code[ins]) = SectionEnd(D, Top.node, Top.k)
<1>1. Len(work) \in Nat \ {0} /\ TypeOK /\ StackShape /\ Len(ast) \in Nat
  BY ReadyParts
<1>. DEFINE rest == Front(work)
<1>2. work \in Seq(FrameType) /\ rest \in Seq(FrameType) /\ Len(rest) = Len(work) - 1
      /\ \A i \in 1..(Len(work) - 1) : rest[i] = work[i]
  BY <1>1, FrontProps DEF StackShape, TypeOK
<1>3. work' = Append(rest, f)
  BY DEF Become
<1>. HIDE DEF rest
<1>4. /\ Len(work') = Len(work) /\ work'[Len(work)] = f
      /\ \A i \in 1..(Len(work) - 1) : work'[i] = work[i]
  BY <1>1, <1>2, <1>3
<1>5. \A i \in 1..Len(work') : ~(work'[i].node = Top.node /\ Top.k \in ToCome(work'[i].k))
  <2>1. TAKE i \in 1..Len(work')
  <2>2. CASE i = Len(work)
    BY <1>4, <2>2
  <2>3. CASE i # Len(work)
    <3>1. i \in 1..Len(work) /\ i < Len(work) /\ work'[i] = work[i]
      BY <1>1, <1>4, <2>3
    <3>2. work[i].node < Top.node /\ work[i].node \in 0..Len(ast) /\ Top.node \in 0..Len(ast)
      BY <1>1, <3>1, TopStacked DEF Ready
    <3>3. QED
      BY <1>1, <3>1, <3>2
  <2>4. QED
    BY <2>2, <2>3
<1>6. QED
  BY <1>5, AtEnd

\* The insert block is closed with a branch.
LEMMA BranchGood ==
  ASSUME NEW t, NEW D, NEW m, Ready(t, D, m), NEW b, Emit(0, fn[ins], One(ins, Br(b)), 0, 0),
         m[b] = EndPoint(t, D, m[ins], code[ins])
  PROVE  GraphMeant(t, D, m)' /\ \A x \in Block : code'[x] = code[x]
<1>1. TypeOK /\ Extends(m, m)
  BY ReadyParts, SelfExtends
<1>2. Goes(t, D, m, Br(b), EndPoint(t, D, m[ins], code[ins]))
  BY GoesProps
<1>3. \A x \in Block' : BlockGood(t, D, m, x, code'[x], term'[x])
  BY <1>1, <1>2, OneGood, ReadyParts
<1>4. \A x \in Block' : EntryGood(t, D, m, fn', x)
  BY <1>1, EntriesKept, ReadyParts
<1>5. \A x \in Block : code'[x] = code[x]
  BY <1>1, PlainCode
<1>6. QED
  BY <1>3, <1>4, <1>5 DEF GraphMeant

LEMMA EndElseMeant ==
  ASSUME NEW t, NEW D, NEW m, Ready(t, D, m), EndElse \/ EndWhile \/ EndFor
  PROVE  \E n : GraphMeant(t, D, n)' /\ CallsMeant(t, D, n)'
<1>1. /\ Top.k \in {"else", "body", "forpost"} /\ Top.k \in StmtLists
      /\ Emit(0, fn[ins], One(ins, Br(IF Top.k = "else" THEN Top.exit ELSE Top.back)), 0, 0)
      /\ ins' = Top.exit /\ ret' = ret /\ Return /\ ast' = ast
  BY DEF EndElse, EndWhile, EndFor, Create, StmtLists
<1>2. EndPoint(t, D, m[ins], code[ins]) = SectionEnd(D, Top.node, Top.k)
  BY <1>1, EndsReturn
<1>3. /\ FrameGood(t, D, m, ast, code, term, Top) /\ FrameShape(Top, lang)
      /\ \A s \in Slots : Top[s] # 0 =>
              /\ Top[s] \in Block /\ Top[s] # ins
              /\ ~(Top.k = "fun" /\ s = "next") => code[Top[s]] = <<>>
  BY TopGood
<1>4. Top.exit # 0 /\ Top.exit \in Block /\ code[Top.exit] = <<>> /\ m[Top.exit] = D[Behind(Top.node)]
  <2>1. Top.exit # 0 /\ "exit" \in Slots
    BY <1>1, <1>3 DEF FrameShape, SlotsInUse, Slots
  <2>2. Top["exit"] \in Block /\ code[Top["exit"]] = <<>>
    BY <1>1, <1>3, <2>1
  <2>3. m[Top.exit] = D[Behind(Top.node)]
    BY <1>1, <1>3, <2>1 DEF FrameGood
  <2>4. QED
    BY <2>1, <2>2, <2>3
<1>5. PICK b : b = IF Top.k = "else" THEN Top.exit ELSE Top.back
  OBVIOUS
<1>6. m[b] = SectionEnd(D, Top.node, Top.k)
  BY <1>1, <1>3, <1>4, <1>5 DEF SectionEnd, FrameGood
<1>7. GraphMeant(t, D, m)' /\ \A x \in Block : code'[x] = code[x]
  BY <1>1, <1>2, <1>5, <1>6, BranchGood
<1>8. Untouched
  <2>1. ClosedSame
    BY <1>1, SectionSame DEF Section, OpenCase, Ready
  <2>2. QED
    BY <1>7, <2>1 DEF Untouched
<1>9. EndPoint(t, D, m[ins'], code'[ins']) = D[Behind(Top.node)]
  BY <1>1, <1>4, <1>7 DEF EndPoint
<1>10. ret' # 0 => m[ret'] = Returned
  BY <1>1, RetKept, SelfExtends
<1>11. CallsMeant(t, D, m)'
  BY <1>1, <1>8, <1>9, <1>10, ReturnCalls, SelfExtends
<1>12. QED
  BY <1>7, <1>11

LEMMA EndThenMeant ==
  ASSUME NEW t, NEW D, NEW m, Ready(t, D, m), EndThen
  PROVE  \E n : GraphMeant(t, D, n)' /\ CallsMeant(t, D, n)'
<1>. DEFINE f == [Top EXCEPT !.k = "else", !.next = 0]
<1>1. /\ Top.k = "then" /\ Top.k \in StmtLists
      /\ Emit(0, fn[ins], One(ins, Br(Top.exit)), 0, 0) /\ ret' = ret /\ ast' = ast
      /\ Top.next # 0 => ins' = Top.next /\ Become(f)
      /\ Top.next = 0 => ins' = Top.exit /\ Return
  BY DEF EndThen, Create, StmtLists
<1>2. /\ FrameGood(t, D, m, ast, code, term, Top) /\ FrameShape(Top, lang) /\ Top \in FrameType
      /\ \A s \in Slots : Top[s] # 0 =>
              /\ Top[s] \in Block /\ Top[s] # ins
              /\ ~(Top.k = "fun" /\ s = "next") => code[Top[s]] = <<>>
  BY TopGood
<1>3. /\ f.k = "else" /\ f.node = Top.node /\ f.next = 0 /\ f.exit = Top.exit
      /\ f.cond = Top.cond /\ f.body = Top.body
  BY <1>2 DEF FrameType
<1>. HIDE DEF f
<1>4. Top.exit # 0 /\ Top.exit \in Block /\ code[Top.exit] = <<>> /\ m[Top.exit] = D[Behind(Top.node)]
  <2>1. Top.exit # 0 /\ "exit" \in Slots
    BY <1>1, <1>2 DEF FrameShape, SlotsInUse, Slots
  <2>2. Top["exit"] \in Block /\ code[Top["exit"]] = <<>>
    BY <1>1, <1>2, <2>1
  <2>3. m[Top.exit] = D[Behind(Top.node)]
    BY <1>1, <1>2, <2>1 DEF FrameGood
  <2>4. QED
    BY <2>1, <2>2, <2>3
<1>5. EndPoint(t, D, m[ins], code[ins]) = D[Behind(Top.node)]
  <2>1. CASE Top.next = 0
    BY <1>1, <2>1, EndsReturn DEF SectionEnd
  <2>2. CASE Top.next # 0
    <3>1. Top.k \notin ToCome(f.k)
      BY <1>1, <1>3 DEF ToCome
    <3>2. QED
      BY <1>1, <1>3, <2>2, <3>1, EndsBecome DEF SectionEnd
  <2>3. QED
    BY <2>1, <2>2
<1>6. GraphMeant(t, D, m)' /\ \A x \in Block : code'[x] = code[x]
  BY <1>1, <1>4, <1>5, BranchGood
<1>7. Untouched
  <2>1. ClosedSame
    BY <1>1, SectionSame DEF Section, OpenCase, Ready
  <2>2. QED
    BY <1>6, <2>1 DEF Untouched
<1>8. ret' # 0 => m[ret'] = Returned
  BY <1>1, RetKept, SelfExtends
<1>9. CallsMeant(t, D, m)'
  <2>1. CASE Top.next = 0
    <3>1. EndPoint(t, D, m[ins'], code'[ins']) = D[Behind(Top.node)]
      BY <1>1, <1>4, <1>6, <2>1 DEF EndPoint
    <3>2. QED
      BY <1>1, <1>7, <1>8, <2>1, <3>1, ReturnCalls, SelfExtends
  <2>2. CASE Top.next # 0
    <3>1. Top.next \in Block /\ code[Top.next] = <<>> /\ m[Top.next] = D[Into(Top.node, "else")]
      <4>1. "next" \in Slots
        BY DEF Slots
      <4>2. Top["next"] \in Block /\ code[Top["next"]] = <<>>
        BY <1>1, <1>2, <2>2, <4>1
      <4>3. QED
        BY <1>1, <1>2, <2>2, <4>2 DEF FrameGood
    <3>2. EndPoint(t, D, m[ins'], code'[ins']) = D[Into(Top.node, f.k)]
      BY <1>1, <1>3, <1>6, <2>2, <3>1 DEF EndPoint
    <3>3. FrameGood(t, D, m, ast', code', term', f)
      <4>1. \A s \in Slots : f[s] # 0 => code'[f[s]] = <<>>
        <5>1. \A s \in Slots : f[s] # 0 => f[s] = Top[s]
          BY <1>3 DEF Slots
        <5>2. \A s \in Slots : Top[s] # 0 => code'[Top[s]] = <<>>
          BY <1>1, <1>2, <1>6
        <5>3. QED
          BY <5>1, <5>2
      <4>2. QED
        BY <1>3, <1>4, <4>1 DEF FrameGood
    <3>4. f.k \notin Begun(Top.k)
      BY <1>1, <1>3 DEF Begun
    <3>5. QED
      BY <1>1, <1>3, <1>7, <2>2, <3>2, <3>3, <3>4, BecomeCalls, SelfExtends
  <2>3. QED
    BY <2>1, <2>2
<1>10. QED
  BY <1>6, <1>9

LEMMA EndForBodyMeant ==
  ASSUME NEW t, NEW D, NEW m, Ready(t, D, m), EndForBody
  PROVE  \E n : GraphMeant(t, D, n)' /\ CallsMeant(t, D, n)'
<1>. DEFINE f == [Top EXCEPT !.k = "forpost", !.next = 0]
<1>1. /\ Top.k = "forbody" /\ Top.k \in StmtLists
      /\ Emit(0, fn[ins], One(ins, Br(Top.next)), 0, 0) /\ ret' = ret /\ ast' = ast
      /\ ins' = Top.next /\ Become(f)
  BY DEF EndForBody, Create, StmtLists
<1>2. /\ FrameGood(t, D, m, ast, code, term, Top) /\ FrameShape(Top, lang) /\ Top \in FrameType
      /\ \A s \in Slots : Top[s] # 0 =>
              /\ Top[s] \in Block /\ Top[s] # ins
              /\ ~(Top.k = "fun" /\ s = "next") => code[Top[s]] = <<>>
  BY TopGood
<1>3. /\ f.k = "forpost" /\ f.node = Top.node /\ f.next = 0 /\ f.exit = Top.exit
      /\ f.cond = Top.cond /\ f.body = Top.body /\ f.back = Top.back
  BY <1>2 DEF FrameType
<1>. HIDE DEF f
<1>4. Top.next # 0 /\ Top.next \in Block /\ code[Top.next] = <<>>
      /\ m[Top.next] = D[Into(Top.node, "forpost")]
  <2>1. Top.next # 0 /\ "next" \in Slots
    BY <1>1, <1>2 DEF FrameShape, SlotsInUse, Slots
  <2>2. Top["next"] \in Block /\ code[Top["next"]] = <<>>
    BY <1>1, <1>2, <2>1
  <2>3. m[Top.next] = D[Into(Top.node, "forpost")]
    BY <1>1, <1>2 DEF FrameGood
  <2>4. QED
    BY <2>1, <2>2, <2>3
<1>5. EndPoint(t, D, m[ins], code[ins]) = D[Into(Top.node, "forpost")]
  <2>1. Top.k \notin ToCome(f.k)
    BY <1>1, <1>3 DEF ToCome
  <2>2. EndPoint(t, D, m[ins], code[ins]) = SectionEnd(D, Top.node, Top.k)
    BY <1>1, <1>3, <2>1, EndsBecome
  <2>3. QED
    BY <1>1, <2>2 DEF SectionEnd
<1>6. GraphMeant(t, D, m)' /\ \A x \in Block : code'[x] = code[x]
  BY <1>1, <1>4, <1>5, BranchGood
<1>7. Untouched
  <2>1. ClosedSame
    BY <1>1, SectionSame DEF Section, OpenCase, Ready
  <2>2. QED
    BY <1>6, <2>1 DEF Untouched
<1>8. EndPoint(t, D, m[ins'], code'[ins']) = D[Into(Top.node, f.k)]
  BY <1>1, <1>3, <1>4, <1>6 DEF EndPoint
<1>9. FrameGood(t, D, m, ast', code', term', f)
  <2>1. \A s \in Slots : f[s] # 0 => code'[f[s]] = <<>>
    <3>1. \A s \in Slots : f[s] # 0 => f[s] = Top[s]
      BY <1>3 DEF Slots
    <3>2. \A s \in Slots : Top[s] # 0 => code'[Top[s]] = <<>>
      BY <1>1, <1>2, <1>6
    <3>3. QED
      BY <3>1, <3>2
  <2>2. /\ f.exit # 0 => m[f.exit] = D[Behind(f.node)]
        /\ m[f.back] = At(f.node)
    BY <1>1, <1>2, <1>3 DEF FrameGood
  <2>3. QED
    BY <1>3, <2>1, <2>2 DEF FrameGood
<1>10. f.k \notin Begun(Top.k)
  BY <1>1, <1>3 DEF Begun
<1>11. CallsMeant(t, D, m)'
  BY <1>1, <1>3, <1>7, <1>8, <1>9, <1>10, BecomeCalls, SelfExtends
<1>12. QED
  BY <1>6, <1>11

LEMMA EndAsmInitMeant ==
  ASSUME NEW t, NEW D, NEW m, Ready(t, D, m), EndAsmInit
  PROVE  \E n : GraphMeant(t, D, n)' /\ CallsMeant(t, D, n)'
<1>. DEFINE f == [Top EXCEPT !.k = "forbody", !.cond = 0, !.body = 0, !.back = Top.cond]
<1>1. /\ Top.k = "asminit" /\ Top.k \in StmtLists
      /\ Emit(0, fn[ins], Two(ins, Br(Top.cond),
                              Top.cond, CondBr(Top.body, Top.exit, Top.node)), 0, 0)
      /\ ret' = ret /\ ast' = ast /\ ins' = Top.body /\ Become(f)
  BY DEF EndAsmInit, Create, StmtLists
<1>2. /\ FrameGood(t, D, m, ast, code, term, Top) /\ FrameShape(Top, lang) /\ Top \in FrameType
      /\ \A s \in Slots : Top[s] # 0 =>
              /\ Top[s] \in Block /\ Top[s] # ins
              /\ ~(Top.k = "fun" /\ s = "next") => code[Top[s]] = <<>>
  BY TopGood
<1>3. /\ f.k = "forbody" /\ f.node = Top.node /\ f.next = Top.next /\ f.exit = Top.exit
      /\ f.cond = 0 /\ f.body = 0 /\ f.back = Top.cond
  BY <1>2 DEF FrameType
<1>. HIDE DEF f
<1>4. \A s \in Slots : Top[s] # 0 /\ Top[s] \in Block /\ Top[s] # ins /\ code[Top[s]] = <<>>
  <2>1. \A s \in Slots : Top[s] # 0
    BY <1>1, <1>2 DEF FrameShape, SlotsInUse
  <2>2. QED
    BY <1>1, <1>2, <2>1
<1>5. /\ Top.cond \in Block /\ Top.cond # ins /\ code[Top.cond] = <<>>
      /\ Top.body \in Block /\ code[Top.body] = <<>> /\ Top.exit # 0
  <2>1. "cond" \in Slots /\ "body" \in Slots /\ "exit" \in Slots
    BY DEF Slots
  <2>2. /\ Top["cond"] \in Block /\ Top["cond"] # ins /\ code[Top["cond"]] = <<>>
        /\ Top["body"] \in Block /\ code[Top["body"]] = <<>> /\ Top["exit"] # 0
    BY <1>4, <2>1
  <2>3. QED
    BY <2>2
<1>6. /\ m[Top.cond] = At(Top.node) /\ m[Top.body] = D[Into(Top.node, "forbody")]
      /\ m[Top.next] = D[Into(Top.node, "forpost")] /\ m[Top.exit] = D[Behind(Top.node)]
      /\ Kind(t, Top.node) = "asmfor"
  BY <1>1, <1>2, <1>5 DEF FrameGood
<1>7. EndPoint(t, D, m[ins], code[ins]) = At(Top.node)
  <2>1. Top.k \notin ToCome(f.k)
    BY <1>1, <1>3 DEF ToCome
  <2>2. EndPoint(t, D, m[ins], code[ins]) = SectionEnd(D, Top.node, Top.k)
    BY <1>1, <1>3, <2>1, EndsBecome
  <2>3. QED
    BY <1>1, <2>2 DEF SectionEnd
<1>8. TypeOK /\ Top.node # 0 /\ Extends(m, m)
  <2>1. TypeOK /\ StackShape
    BY ReadyParts
  <2>2. Top.node # 0
    BY <1>1, <2>1, TopStacked DEF Ready
  <2>3. QED
    BY <2>1, <2>2, SelfExtends
<1>9. /\ Goes(t, D, m, Br(Top.cond), EndPoint(t, D, m[ins], code[ins]))
      /\ Goes(t, D, m, CondBr(Top.body, Top.exit, Top.node), m[Top.cond])
  <2>1. /\ Outcomes(t, Top.node) = {1, 2} /\ Follow(t, D, Top.node, 1) = D[Into(Top.node, "forbody")]
        /\ Follow(t, D, Top.node, 2) = D[Behind(Top.node)]
    BY <1>6, <1>8 DEF Outcomes, Follow
  <2>2. QED
    BY <1>6, <1>7, <1>8, <2>1, GoesProps
<1>10. PICK c, u : c = Top.cond /\ u = CondBr(Top.body, Top.exit, Top.node)
  OBVIOUS
<1>11. \A x \in Block' : BlockGood(t, D, m, x, code'[x], term'[x])
  <2>1. /\ Emit(0, fn[ins], Two(ins, Br(c), c, u), 0, 0) /\ c # ins /\ code[c] = <<>>
        /\ Goes(t, D, m, Br(c), EndPoint(t, D, m[ins], code[ins])) /\ Goes(t, D, m, u, m[c])
    BY <1>1, <1>5, <1>9, <1>10
  <2>2. \A x \in Block : BlockGood(t, D, m, x, code[x], term[x])
    BY ReadyParts
  <2>3. QED
    BY <1>8, <2>1, <2>2, TwoGood
<1>12. \A x \in Block' : EntryGood(t, D, m, fn', x)
  BY <1>1, <1>8, EntriesKept, ReadyParts
<1>13. \A x \in Block : code'[x] = code[x]
  BY <1>1, <1>8, PlainCode
<1>14. Untouched
  <2>1. ClosedSame
    BY <1>1, SectionSame DEF Section, OpenCase, Ready
  <2>2. QED
    BY <1>13, <2>1 DEF Untouched
<1>15. EndPoint(t, D, m[ins'], code'[ins']) = D[Into(Top.node, f.k)]
  BY <1>1, <1>3, <1>5, <1>6, <1>13 DEF EndPoint
<1>16. FrameGood(t, D, m, ast', code', term', f)
  <2>1. \A s \in Slots : f[s] # 0 => code'[f[s]] = <<>>
    <3>1. \A s \in Slots : f[s] # 0 => f[s] = Top[s]
      BY <1>3 DEF Slots
    <3>2. \A s \in Slots : code'[Top[s]] = <<>>
      BY <1>4, <1>13
    <3>3. QED
      BY <3>1, <3>2
  <2>2. QED
    BY <1>3, <1>6, <2>1 DEF FrameGood
<1>17. f.k \notin Begun(Top.k)
  BY <1>1, <1>3 DEF Begun
<1>18. CallsMeant(t, D, m)'
  BY <1>1, <1>3, <1>8, <1>14, <1>15, <1>16, <1>17, BecomeCalls
<1>19. QED
  BY <1>11, <1>12, <1>18 DEF GraphMeant

LEMMA EndCaseMeant ==
  ASSUME NEW t, NEW D, NEW m, Ready(t, D, m), EndCase
  PROVE  \E n : GraphMeant(t, D, n)' /\ CallsMeant(t, D, n)'
<1>1. /\ Top.k = "case" /\ Top.k \in StmtLists
      /\ Emit(0, fn[ins], One(ins, Br(Top.back)), 0, 0)
      /\ ret' = ret /\ Return /\ ast' = ast
  BY DEF EndCase, Create, StmtLists
<1>2. EndPoint(t, D, m[ins], code[ins]) = D[Behind(Top.node)]
  <2>1. EndPoint(t, D, m[ins], code[ins]) = SectionEnd(D, Top.node, Top.k)
    BY <1>1, EndsReturn
  <2>2. QED
    BY <1>1, <2>1 DEF SectionEnd
<1>3. m[Top.back] = D[Behind(Top.node)]
  BY <1>1, TopGood DEF FrameGood
<1>4. GraphMeant(t, D, m)' /\ \A x \in Block : code'[x] = code[x]
  BY <1>1, <1>2, <1>3, BranchGood
<1>5. Untouched
  <2>1. ClosedSame
    BY <1>1, SectionSame DEF Section, OpenCase, Ready
  <2>2. QED
    BY <1>4, <2>1 DEF Untouched
<1>6. ret' # 0 => m[ret'] = Returned
  BY <1>1, RetKept, SelfExtends
<1>7. CallsMeant(t, D, m)'
  BY <1>1, <1>5, <1>6, ReturnCalls, SelfExtends
<1>8. QED
  BY <1>4, <1>7

-----------------------------------------------------------------------------
(* Switches and functions. *)

LEMMA CasesFinite ==
  ASSUME NEW t, Len(t) \in Nat, DOMAIN t = 1..Len(t), NEW p
  PROVE  IsFiniteSet(Cases(t, p)) /\ Cardinality(Cases(t, p)) \in Nat
<1>1. IsFiniteSet(1..Len(t))
  BY FS_Interval
<1>2. Cases(t, p) \subseteq 1..Len(t)
  BY DEF Cases, Members
<1>3. QED
  BY <1>1, <1>2, FS_Subset, FS_CardinalityType

LEMMA OpenSwitchMeant ==
  ASSUME NEW t, NEW D, NEW m, Ready(t, D, m), OpenSwitch
  PROVE  \E n : GraphMeant(t, D, n)' /\ CallsMeant(t, D, n)'
<1>. DEFINE q == NewNode
            f == [Call("switch", q) EXCEPT
                    !.next = nb + 1, !.exit = nb + 2, !.back = nb + 1, !.sw = ins]
            u == Terminator("switch", <<nb + 1>>, q)
<1>1. /\ Visit("switch") /\ Top.k \in StmtLists
      /\ Emit(2, fn[ins], One(ins, u), 0, 0) /\ ins' = ins /\ ret' = ret /\ Push(f)
  BY DEF OpenSwitch, MayCome, Create
<1>2. "switch" \in Kinds /\ Top.k # "switch"
  BY <1>1 DEF Kinds, YulKinds, StmtLists
<1>3. /\ q \in Nat /\ q # 0 /\ Kind(t, q) = "switch" /\ Len(ast') = q
      /\ EndPoint(t, D, m[ins], code[ins]) = Enter(t, D, q)
  BY <1>1, <1>2, Arrive
<1>4. ClosedSame
  BY StatementSame DEF Statement, Ready
<1>5. TypeOK /\ nb \in Nat /\ ins \in Block /\ Len(t) \in Nat /\ DOMAIN t = 1..Len(t)
  BY ReadyParts
<1>6. PICK n : /\ n = Given(m, D[NoCase(q)], D[Behind(q)], 0, 0)
               /\ Extends(m, n) /\ n[nb + 1] = D[NoCase(q)] /\ n[nb + 2] = D[Behind(q)]
  BY <1>5, GivenProps
<1>7. /\ f.k = "switch" /\ f.node = q /\ f.next = nb + 1 /\ f.exit = nb + 2 /\ f.cond = 0
      /\ f.body = 0 /\ f.back = nb + 1 /\ f.sw = ins
  BY DEF Call
<1>8. u.op = "switch" /\ u.to = <<nb + 1>> /\ u.node = q
  BY DEF Terminator
<1>8a. Len(<<nb + 1>>) = 1 /\ DOMAIN <<nb + 1>> = 1..1 /\ <<nb + 1>>[1] = nb + 1
  OBVIOUS
<1>. HIDE DEF q, f, u
<1>9. Enter(t, D, q) = At(q) /\ Follow(t, D, q, 1) = D[NoCase(q)] /\ 1 \in Outcomes(t, q)
  <2>1. Enter(t, D, q) = At(q) /\ Follow(t, D, q, 1) = D[NoCase(q)]
    BY <1>3 DEF Enter, Follow
  <2>2. Outcomes(t, q) = 1..(Cardinality(Cases(t, q)) + 1)
    BY <1>3 DEF Outcomes
  <2>3. Cardinality(Cases(t, q)) \in Nat
    BY <1>5, CasesFinite
  <2>4. QED
    BY <2>1, <2>2, <2>3
<1>10. Goes(t, D, n, u, EndPoint(t, D, m[ins], code[ins]))
  <2>1. \A i \in DOMAIN u.to : i = 1 /\ u.to[i] = nb + 1
    BY <1>8, <1>8a
  <2>2. QED
    BY <1>3, <1>6, <1>8, <1>9, <2>1 DEF Goes
<1>11. \A x \in Block' : BlockGood(t, D, n, x, code'[x], term'[x])
  BY <1>1, <1>5, <1>6, <1>10, OneGood, ReadyParts
<1>12. \A x \in Block' : EntryGood(t, D, n, fn', x)
  BY <1>1, <1>5, <1>6, EntriesKept, ReadyParts
<1>13. /\ \A x \in Block : code'[x] = code[x]
       /\ \A x \in (nb + 1)..(nb + 2) : code'[x] = <<>>
  BY <1>1, <1>5, PlainCode
<1>14. term'[ins] = u
  BY <1>1, <1>5 DEF Emit, One, Block
<1>15. Cases(ast', q) = {}
  <2>1. \A x \in DOMAIN ast' : ast'[x].up # q
    <3>1. \A x \in DOMAIN ast' : x \in 1..q /\ ast'[x].up \in 0..(x - 1)
      BY <1>3 DEF Ready, Tree
    <3>2. QED
      BY <1>3, <3>1
  <2>2. QED
    BY <2>1 DEF Cases, Members
<1>16. FrameGood(t, D, n, ast', code', term', f)
  <2>1. \A s \in Slots : f[s] # 0 => code'[f[s]] = <<>>
    BY <1>5, <1>7, <1>13 DEF Slots
  <2>2. Cardinality(Cases(ast', q)) = 0
    BY <1>15, FS_EmptySet
  <2>3. Len(term'[ins].to) = Cardinality(Cases(ast', q)) + 1
    BY <1>8, <1>8a, <1>14, <2>2
  <2>4. QED
    BY <1>3, <1>6, <1>7, <1>8, <1>14, <2>1, <2>3 DEF FrameGood
<1>17. ret' # 0 => n[ret'] = Returned
  BY <1>1, <1>6, RetKept
<1>18. Untouched /\ f.node = NewNode /\ f.k \notin StmtLists
  BY <1>4, <1>7, <1>13 DEF Untouched, q, StmtLists
<1>19. CallsMeant(t, D, n)'
  BY <1>1, <1>2, <1>6, <1>16, <1>17, <1>18, PushCalls
<1>20. QED
  BY <1>11, <1>12, <1>19 DEF GraphMeant

LEMMA OpenFunMeant ==
  ASSUME NEW t, NEW D, NEW m, Ready(t, D, m), OpenFun
  PROVE  \E n : GraphMeant(t, D, n)' /\ CallsMeant(t, D, n)'
<1>. DEFINE q == NewNode
            o == [ret |-> ret, loops |-> loops]
            f == [Call("fun", q) EXCEPT !.exit = nb + 2, !.next = ins, !.outer = o]
<1>1. /\ Visit("fun") /\ Top.k \in StmtLists
      /\ Emit(2, q, <<>>, 0, 0) /\ ins' = nb + 1 /\ ret' = nb + 2 /\ Push(f)
  BY DEF OpenFun, MayCome
<1>2. "fun" \in Kinds /\ Top.k # "switch"
  BY <1>1 DEF Kinds, YulKinds, StmtLists
<1>3. /\ q \in Nat /\ q # 0 /\ q \in 1..Len(t) /\ Kind(t, q) = "fun"
      /\ EndPoint(t, D, m[ins], code[ins]) = Enter(t, D, q)
  BY <1>1, <1>2, Arrive
<1>4. ClosedSame
  BY StatementSame DEF Statement, Ready
<1>5. TypeOK /\ nb \in Nat /\ ins \in Block
  BY ReadyParts
<1>6. PICK n : /\ n = Given(m, D[Into(q, "fun")], Returned, 0, 0)
               /\ Extends(m, n) /\ n[nb + 1] = D[Into(q, "fun")] /\ n[nb + 2] = Returned
  BY <1>5, GivenProps
<1>7. /\ f.k = "fun" /\ f.node = q /\ f.next = ins /\ f.exit = nb + 2 /\ f.cond = 0
      /\ f.body = 0 /\ f.outer.ret = ret
  BY DEF Call
<1>. HIDE DEF q, f
<1>8. Enter(t, D, q) = D[Behind(q)] /\ \A v : Follow(t, D, q, v) = D[Into(q, "fun")]
  BY <1>3 DEF Enter, Follow
<1>9. PICK z : z = <<>> /\ DOMAIN z = {}
  OBVIOUS
<1>10. Emit(2, q, z, 0, 0)
  BY <1>1, <1>9
<1>11. \A x \in Block' : BlockGood(t, D, n, x, code'[x], term'[x])
  BY <1>5, <1>6, <1>9, <1>10, TermsGood, ReadyParts
<1>12. \A x \in Block' : EntryGood(t, D, n, fn', x)
  <2>1. nb' = nb + 2 /\ \A x \in 1..(nb + 2) : fn'[x] = IF x <= nb THEN fn[x] ELSE q
    BY <1>10 DEF Emit
  <2>2. TAKE x \in Block'
  <2>3. x \in 1..(nb + 2)
    BY <2>1 DEF Block
  <2>4. CASE x <= nb
    <3>1. x \in Block /\ \A d \in 1..x : fn'[d] = fn[d]
      BY <1>5, <2>1, <2>3, <2>4 DEF Block
    <3>2. fn'[x] = fn[x] /\ \A d \in 1..(x - 1) : fn'[d] = fn[d]
      BY <2>3, <3>1
    <3>3. EntryGood(t, D, m, fn, x) /\ n[x] = m[x]
      BY <1>6, <3>1, ReadyParts DEF Extends
    <3>4. QED
      BY <3>2, <3>3 DEF EntryGood
  <2>5. CASE x = nb + 1
    <3>1. fn'[x] = q
      BY <1>5, <2>1, <2>5
    <3>2. QED
      BY <1>3, <1>6, <1>8, <2>5, <3>1 DEF EntryGood
  <2>6. CASE x = nb + 2
    <3>1. fn'[x] = q /\ nb + 1 \in 1..(x - 1) /\ fn'[nb + 1] = q
      BY <1>5, <2>1, <2>6
    <3>2. QED
      BY <1>3, <3>1 DEF EntryGood
  <2>7. QED
    BY <1>5, <2>3, <2>4, <2>5, <2>6
<1>13. /\ \A x \in Block : code'[x] = code[x]
       /\ \A x \in (nb + 1)..(nb + 2) : code'[x] = <<>>
  BY <1>5, <1>10, PlainCode
<1>14. FrameGood(t, D, n, ast', code', term', f)
  <2>1. \A s \in Slots : f[s] # 0 /\ s # "next" => code'[f[s]] = <<>>
    BY <1>5, <1>7, <1>13 DEF Slots
  <2>2. EndPoint(t, D, n[ins], code'[ins]) = D[Behind(q)]
    BY <1>3, <1>5, <1>6, <1>8, <1>13 DEF Extends
  <2>3. ret # 0 => n[ret] = Returned
    BY <1>6, RetKept
  <2>4. QED
    BY <1>6, <1>7, <2>1, <2>2, <2>3 DEF FrameGood
<1>15. EndPoint(t, D, n[ins'], code'[ins']) = D[Into(NewNode, f.k)]
  BY <1>1, <1>5, <1>6, <1>7, <1>13 DEF EndPoint, q
<1>16. ret' # 0 => n[ret'] = Returned
  BY <1>1, <1>6
<1>17. Untouched /\ f.node = NewNode
  BY <1>4, <1>7, <1>13 DEF Untouched, q
<1>18. CallsMeant(t, D, n)'
  BY <1>1, <1>2, <1>6, <1>14, <1>15, <1>16, <1>17, PushCalls
<1>19. QED
  BY <1>11, <1>12, <1>18 DEF GraphMeant

-----------------------------------------------------------------------------
(* The labels of a switch. *)

LEMMA CountsDiffer ==
  ASSUME NEW S, S \subseteq Nat, IsFiniteSet(S), NEW x \in S, NEW y \in S, x <= y,
         Cardinality({r \in S : r <= x}) = Cardinality({r \in S : r <= y})
  PROVE  x = y
<1>. DEFINE A == {r \in S : r <= x}
            B == {r \in S : r <= y}
<1>1. A \subseteq B /\ B \subseteq S /\ y \in B
  <2>1. x \in Nat /\ y \in Nat /\ y \in B
    OBVIOUS
  <2>2. \A r \in S : r <= x => r <= y
    <3>1. TAKE r \in S
    <3>2. r \in Nat
      OBVIOUS
    <3>3. QED
      BY <2>1, <3>2
  <2>3. QED
    BY <2>1, <2>2
<1>2. IsFiniteSet(B)
  BY <1>1, FS_Subset
<1>3. A = B
  BY <1>1, <1>2, FS_Subset
<1>4. y <= x
  BY <1>1, <1>3
<1>5. QED
  BY <1>4

LEMMA NthCaseIs ==
  ASSUME NEW t, Len(t) \in Nat, DOMAIN t = 1..Len(t), NEW p, NEW q \in Cases(t, p)
  PROVE  /\ NthCase(t, p, Cardinality({r \in Cases(t, p) : r <= q})) = q
         /\ Cardinality({r \in Cases(t, p) : r <= q}) <= Cardinality(Cases(t, p))
<1>1. PICK S : S = Cases(t, p)
  OBVIOUS
<1>2. S \subseteq Nat /\ IsFiniteSet(S) /\ q \in S
  <2>1. S \subseteq 1..Len(t) /\ 1..Len(t) \subseteq Nat
    BY <1>1 DEF Cases, Members
  <2>2. IsFiniteSet(S) /\ q \in S
    BY <1>1, CasesFinite
  <2>3. QED
    BY <2>1, <2>2
<1>3. PICK c : c = Cardinality({r \in S : r <= q})
  OBVIOUS
<1>4. \A x \in S : Cardinality({r \in S : r <= x}) = c => x = q
  <2>1. TAKE x \in S
  <2>2. HAVE Cardinality({r \in S : r <= x}) = c
  <2>3. CASE x <= q
    BY <1>2, <1>3, <2>2, <2>3, CountsDiffer
  <2>4. CASE q <= x
    BY <1>2, <1>3, <2>2, <2>4, CountsDiffer
  <2>5. QED
    BY <1>2, <2>3, <2>4
<1>5. NthCase(t, p, c) = q
  BY <1>1, <1>2, <1>3, <1>4 DEF NthCase
<1>6. c <= Cardinality(S)
  <2>1. {r \in S : r <= q} \subseteq S
    OBVIOUS
  <2>2. QED
    BY <1>2, <1>3, <2>1, FS_Subset
<1>7. QED
  BY <1>1, <1>3, <1>5, <1>6

LEMMA LabelVisit ==
  ASSUME NEW t, NEW D, NEW m, Ready(t, D, m), NEW k \in {"case", "default"}, Visit(k),
         Top.k = "switch"
  PROVE  /\ NewNode \in 1..Len(t) /\ NewNode # 0 /\ NewNode \in Nat
         /\ Kind(t, NewNode) = k /\ t[NewNode].up = Top.node /\ t[NewNode].sec = "switch"
         /\ Len(ast') = NewNode /\ Top.node \in 1..Len(ast) /\ Top.node # 0
         /\ \A x \in 1..Len(ast) : ast'[x] = ast[x] /\ t[x] = ast[x]
         /\ ast'[NewNode] = t[NewNode]
         /\ D[Behind(NewNode)] = D[Behind(Top.node)]
         /\ CallAt(ast, work[Len(work) - 1], Top)
<1>1. /\ TypeOK /\ StackShape /\ Tree(t) /\ Len(t) \in Nat /\ Len(ast) \in Nat
      /\ DOMAIN ast = 1..Len(ast) /\ NewNode = Len(ast) + 1
      /\ \A p \in 1..Len(ast) : t[p] = ast[p]
  BY ReadyParts
<1>2. /\ Len(ast') = Len(ast) + 1 /\ DOMAIN ast' = 1..Len(ast')
      /\ ast'[NewNode] = [k |-> k, up |-> Top.node, sec |-> Top.k]
      /\ \A x \in 1..Len(ast) : ast'[x] = ast[x]
  BY <1>1, Visited DEF TypeOK
<1>3. Len(ast') <= Len(t) /\ \A p \in 1..Len(ast') : t[p] = ast'[p]
  BY DEF Ready, Text
<1>4. NewNode \in 1..Len(t) /\ NewNode \in 1..Len(ast')
  BY <1>1, <1>2, <1>3
<1>5. t[NewNode] = [k |-> k, up |-> Top.node, sec |-> Top.k] /\ ast'[NewNode] = t[NewNode]
  BY <1>2, <1>3, <1>4
<1>6. /\ Kind(t, NewNode) = k /\ t[NewNode].up = Top.node /\ t[NewNode].sec = "switch"
      /\ NewNode # 0 /\ NewNode \in Nat
  BY <1>1, <1>5 DEF Kind
<1>7. Top.node \in 0..Len(ast) /\ Top.node # 0
  BY <1>1, TopStacked DEF Ready
<1>8. CallAt(ast, work[Len(work) - 1], Top)
  BY <1>1, <1>7, TopStacked DEF Ready
<1>9. D[Behind(NewNode)] = D[Behind(Top.node)]
  <2>1. NewNode \in 0..Len(t) /\ "root" \in Sections
    BY <1>4 DEF Sections
  <2>2. D[Behind(NewNode)] = FromBehind(t, D, NewNode)
    BY <2>1, PlaceParts DEF Ready, Fixed
  <2>3. QED
    BY <1>6, <2>2 DEF FromBehind
<1>10. QED
  BY <1>1, <1>2, <1>4, <1>5, <1>6, <1>7, <1>8, <1>9

LEMMA UpToNext ==
  ASSUME NEW n \in Nat, NEW i \in 1..(n + 1)
  PROVE  i \in 1..(n - 1) \/ i = n \/ i = n + 1
OBVIOUS

LEMMA LabelCalls ==
  ASSUME NEW t, NEW D, NEW m, Ready(t, D, m), NEW k \in {"case", "default"}, Visit(k),
         Top.k = "switch", NEW g, NEW f, Len(work') = Len(work) + 1,
         \A i \in 1..(Len(work) - 1) : work'[i] = work[i],
         work'[Len(work)] = g, work'[Len(work) + 1] = f, f.node = NewNode, f.k = "case",
         ret' = ret, NEW m2, Extends(m, m2),
         \A x \in Block : code'[x] = code[x],
         \A x \in Block : x # Top.sw => term'[x] = term[x],
         FrameGood(t, D, m2, ast', code', term', g),
         FrameGood(t, D, m2, ast', code', term', f),
         EndPoint(t, D, m2[ins'], code'[ins']) = D[Into(NewNode, "case")]
  PROVE  CallsMeant(t, D, m2)'
<1>1. /\ TypeOK /\ StackShape /\ Len(work) \in Nat \ {0} /\ nb \in Nat
      /\ Len(ast) \in Nat /\ NewNode = Len(ast) + 1
      /\ \A i \in 1..Len(work) : FrameGood(t, D, m, ast, code, term, work[i])
      /\ work \in Seq(FrameType) /\ DOMAIN work = 1..Len(work)
  BY ReadyParts DEF TypeOK
<1>2. ASSUME NEW i \in 1..(Len(work) - 1)
      PROVE  FrameGood(t, D, m2, ast', code', term', work[i])
  <2>1. i \in 1..Len(work) /\ i < Len(work) /\ Len(work) \in 1..Len(work)
    BY <1>1
  <2>2. PICK h : h = work[i]
    OBVIOUS
  <2>3. h \in FrameType /\ FrameShape(h, lang) /\ FrameGood(t, D, m, ast, code, term, h)
    BY <1>1, <2>1, <2>2 DEF StackShape
  <2>4. h.node # Top.node
    <3>1. h.node < Top.node /\ h.node \in 0..Len(ast) /\ Top.node \in 0..Len(ast)
      BY <1>1, <2>1, <2>2, TopStacked DEF Ready
    <3>2. QED
      BY <1>1, <3>1
  <2>5. h.k = "switch" => h.sw \in Block /\ h.sw # Top.sw
    <3>1. h.k = "switch" => h.sw \in Block /\ term[h.sw].node = h.node
      BY <1>1, <2>3, FrameSlots DEF FrameGood
    <3>2. term[Top.sw].node = Top.node
      BY TopGood DEF FrameGood
    <3>3. QED
      BY <2>4, <3>1, <3>2
  <2>6. Cases(ast', h.node) = Cases(ast, h.node)
    BY <1>1, <2>4, CasesSame
  <2>7. \A s \in Slots : h[s] # 0 => code'[h[s]] = code[h[s]]
    BY <1>1, <2>3, FrameSlots
  <2>8. FrameGood(t, D, m2, ast', code', term', h)
    BY <1>1, <2>3, <2>5, <2>6, <2>7, FrameKept
  <2>9. QED
    BY <2>2, <2>8
<1>3. \A i \in 1..Len(work') : FrameGood(t, D, m2, ast', code', term', work'[i])
  <2>1. TAKE i \in 1..Len(work')
  <2>2. CASE i \in 1..(Len(work) - 1)
    BY <1>2, <2>2
  <2>3. CASE i = Len(work)
    <3>1. work'[i] = g
      BY <2>3
    <3>2. QED
      BY <3>1
  <2>4. CASE i = Len(work) + 1
    <3>1. work'[i] = f
      BY <2>4
    <3>2. QED
      BY <3>1
  <2>5. i \in 1..(Len(work) - 1) \/ i = Len(work) \/ i = Len(work) + 1
    <3>1. PICK n \in Nat \ {0} : n = Len(work) /\ n + 1 = Len(work')
      BY <1>1
    <3>2. i \in 1..(n + 1)
      BY <3>1
    <3>3. i \in 1..(n - 1) \/ i = n \/ i = n + 1
      BY <3>2, UpToNext
    <3>4. QED
      BY <3>1, <3>3
  <2>6. QED
    BY <2>2, <2>3, <2>4, <2>5
<1>4. ret' # 0 => m2[ret'] = Returned
  BY RetKept
<1>5. IsCursor(D, ast', NewNode, "case", D[Into(NewNode, "case")])
  <2>1. \A x \in DOMAIN ast' : ast'[x].up # NewNode
    <3>1. Len(ast') = NewNode
      BY LabelVisit
    <3>2. \A x \in DOMAIN ast' : x \in 1..NewNode /\ ast'[x].up \in 0..(x - 1)
      BY <3>1 DEF Ready, Tree
    <3>3. QED
      BY <1>1, <3>2
  <2>2. Members(ast', NewNode, "case") = {}
    BY <2>1 DEF Members
  <2>3. QED
    BY <2>2 DEF IsCursor
<1>6. Top' = f
  BY DEF Top
<1>7. QED
  BY <1>3, <1>4, <1>5, <1>6 DEF CallsMeant

LEMMA OpenCaseMeant ==
  ASSUME NEW t, NEW D, NEW m, Ready(t, D, m), OpenCase
  PROVE  \E n : GraphMeant(t, D, n)' /\ CallsMeant(t, D, n)'
<1>. DEFINE q == NewNode
            f == [Call("case", q) EXCEPT !.back = Top.exit]
<1>0. PICK p, b, w : /\ p = Top.node /\ b = Top.sw
                     /\ w = [term[Top.sw] EXCEPT !.to = Append(@, nb + 1)]
  OBVIOUS
<1>1. /\ Visit("case") /\ Top.k = "switch" /\ Emit(1, fn[ins], One(b, w), 0, 0)
      /\ ins' = nb + 1 /\ ret' = ret /\ Push(f)
  BY <1>0 DEF OpenCase, Create
<1>2. /\ q \in 1..Len(t) /\ q # 0 /\ q \in Nat /\ Kind(t, q) = "case" /\ t[q].up = p
      /\ t[q].sec = "switch" /\ Len(ast') = q /\ p \in 1..Len(ast) /\ p # 0
      /\ \A x \in 1..Len(ast) : ast'[x] = ast[x] /\ t[x] = ast[x]
      /\ ast'[q] = t[q] /\ D[Behind(q)] = D[Behind(p)]
  BY <1>0, <1>1, LabelVisit
<1>3. /\ TypeOK /\ nb \in Nat /\ ins \in Block /\ Len(t) \in Nat /\ DOMAIN t = 1..Len(t)
      /\ Len(ast) \in Nat /\ DOMAIN ast = 1..Len(ast) /\ q = Len(ast) + 1
      /\ Len(work) \in Nat /\ Tree(ast') /\ Len(ast) <= Len(t)
  BY ReadyParts DEF Ready
<1>4. /\ b \in Block /\ Top.exit # 0 /\ Top.exit \in Block /\ code[Top.exit] = <<>>
  <2>1. Top.exit # 0 /\ Top.sw \in Block
    BY <1>1, TopSwitch DEF Ready
  <2>2. "exit" \in Slots
    BY DEF Slots
  <2>3. Top["exit"] \in Block /\ code[Top["exit"]] = <<>>
    BY <1>1, <2>1, <2>2, TopGood
  <2>4. QED
    BY <1>0, <2>1, <2>3
<1>5. /\ m[Top.back] = D[NoCase(p)] /\ m[Top.exit] = D[Behind(p)]
      /\ term[b].op = "switch" /\ term[b].node = p /\ Kind(t, p) = "switch"
      /\ Len(term[b].to) = Cardinality(Cases(ast, p)) + 1
  BY <1>0, <1>1, <1>4, TopGood DEF FrameGood
<1>6. PICK n : /\ n = Given(m, D[Into(q, "case")], 0, 0, 0)
               /\ Extends(m, n) /\ n[nb + 1] = D[Into(q, "case")]
  BY <1>3, GivenProps
<1>7. /\ f.k = "case" /\ f.node = q /\ f.next = 0 /\ f.exit = 0 /\ f.cond = 0
      /\ f.body = 0 /\ f.back = Top.exit
  BY DEF Call
<1>. HIDE DEF q, f
<1>8. /\ w.op = "switch" /\ w.node = p /\ w.to = Append(term[b].to, nb + 1)
      /\ term[b].to \in Seq(Block)
  <2>1. term[b] \in TermsTo(Block)
    BY <1>3, <1>4 DEF TypeOK, TermType
  <2>2. term[b].to \in Seq(Block)
    BY <2>1 DEF TermsTo
  <2>3. w = [term[b] EXCEPT !.to = Append(term[b].to, nb + 1)]
    BY <1>0
  <2>4. w.op = term[b].op /\ w.node = term[b].node /\ w.to = Append(term[b].to, nb + 1)
    BY <2>1, <2>3 DEF TermsTo
  <2>5. QED
    BY <1>5, <2>2, <2>4
<1>9. PICK c : c = Cardinality(Cases(ast, p))
  OBVIOUS
<1>10. /\ c \in Nat /\ Cases(ast', p) = Cases(ast, p) \cup {q}
       /\ {r \in Cases(t, p) : r <= q} = Cases(ast, p) \cup {q}
       /\ Cardinality(Cases(ast, p) \cup {q}) = c + 1 /\ q \in Cases(t, p)
  <2>1. c \in Nat /\ IsFiniteSet(Cases(ast, p))
    BY <1>3, <1>9, CasesFinite
  <2>2. q \notin Cases(ast, p)
    BY <1>3 DEF Cases, Members
  <2>3. Cardinality(Cases(ast, p) \cup {q}) = c + 1
    BY <1>9, <2>1, <2>2, FS_AddElement
  <2>4. DOMAIN ast' = 1..q /\ \A x : x \in 1..q <=> x \in 1..Len(ast) \/ x = q
    BY <1>2, <1>3 DEF Tree
  <2>5. ast'[q].up = p /\ ast'[q].sec = "switch" /\ ast'[q].k = "case"
    BY <1>2 DEF Kind
  <2>6. Cases(ast', p) = Cases(ast, p) \cup {q}
    BY <1>2, <1>3, <2>4, <2>5 DEF Cases, Members, Kind
  <2>7. q \in Cases(t, p)
    BY <1>2, <1>3 DEF Cases, Members
  <2>8. \A r : r \in Cases(t, p) /\ r <= q <=> r \in Cases(ast, p) \/ r = q
    <3>1. TAKE r
    <3>2. CASE r \in 1..Len(ast)
      <4>1. r \in 1..Len(t) /\ r <= q /\ t[r] = ast[r] /\ r # q
        BY <1>2, <1>3, <3>2
      <4>2. QED
        BY <1>3, <3>2, <4>1 DEF Cases, Members, Kind
    <3>3. CASE r = q
      BY <1>2, <2>7, <3>3
    <3>4. CASE r \notin 1..Len(ast) /\ r # q
      <4>1. ~(r \in 1..Len(t) /\ r <= q)
        BY <1>2, <1>3, <3>4
      <4>2. QED
        BY <1>3, <3>4, <4>1 DEF Cases, Members
    <3>5. QED
      BY <3>2, <3>3, <3>4
  <2>9. {r \in Cases(t, p) : r <= q} = Cases(ast, p) \cup {q}
    BY <2>8
  <2>10. QED
    BY <2>1, <2>3, <2>6, <2>7, <2>9
<1>11. NthCase(t, p, c + 1) = q /\ c + 1 <= Cardinality(Cases(t, p)) /\ Cardinality(Cases(t, p)) \in Nat
  <2>1. /\ NthCase(t, p, Cardinality({r \in Cases(t, p) : r <= q})) = q
        /\ Cardinality({r \in Cases(t, p) : r <= q}) <= Cardinality(Cases(t, p))
    BY <1>3, <1>10, NthCaseIs
  <2>2. Cardinality(Cases(t, p)) \in Nat
    BY <1>3, CasesFinite
  <2>3. QED
    BY <1>10, <2>1, <2>2
<1>12. c + 2 \in Outcomes(t, p) /\ Follow(t, D, p, c + 2) = D[Into(q, "case")]
  <2>1. Outcomes(t, p) = 1..(Cardinality(Cases(t, p)) + 1)
    BY <1>5 DEF Outcomes
  <2>2. c + 2 > 1 /\ (c + 2) - 1 = c + 1 /\ c + 2 # 1
    BY <1>10
  <2>3. Follow(t, D, p, c + 2) = D[Into(NthCase(t, p, (c + 2) - 1), "case")]
    BY <1>2, <1>5, <2>2 DEF Follow
  <2>4. QED
    BY <1>10, <1>11, <2>1, <2>2, <2>3
<1>13. PICK e : e = EndPoint(t, D, m[b], code[b])
  OBVIOUS
<1>14. Goes(t, D, n, w, e)
  <2>1. Goes(t, D, m, term[b], e)
    BY <1>4, <1>13, ReadyParts DEF BlockGood
  <2>2. e = At(p) /\ \A i \in DOMAIN term[b].to :
          i \in Outcomes(t, p) /\ m[term[b].to[i]] = Follow(t, D, p, i)
    BY <1>5, <2>1 DEF Goes
  <2>3. \A i \in DOMAIN w.to : i \in Outcomes(t, p) /\ n[w.to[i]] = Follow(t, D, p, i)
    <3>1. TAKE i \in DOMAIN w.to
    <3>2. Len(w.to) = c + 2 /\ DOMAIN w.to = 1..(c + 2) /\ DOMAIN term[b].to = 1..(c + 1)
      BY <1>5, <1>8, <1>9, <1>10
    <3>3. CASE i \in 1..(c + 1)
      <4>1. w.to[i] = term[b].to[i] /\ term[b].to[i] \in Block /\ i \in DOMAIN term[b].to
        BY <1>5, <1>8, <1>9, <3>2, <3>3
      <4>2. n[w.to[i]] = m[term[b].to[i]]
        BY <1>6, <4>1 DEF Extends
      <4>3. QED
        BY <2>2, <4>1, <4>2
    <3>4. CASE i = c + 2
      <4>1. w.to[i] = nb + 1
        BY <1>5, <1>8, <1>9, <1>10, <3>4
      <4>2. QED
        BY <1>6, <1>12, <3>4, <4>1
    <3>5. QED
      BY <1>10, <3>2, <3>3, <3>4
  <2>4. QED
    BY <1>2, <1>8, <2>2, <2>3 DEF Goes
<1>15. PICK z : z = One(b, w) /\ DOMAIN z = {b} /\ z[b] = w
  <2>1. DOMAIN One(b, w) = {b} /\ One(b, w)[b] = w
    BY DEF One
  <2>2. QED
    BY <2>1
<1>16. \A x \in Block' : BlockGood(t, D, n, x, code'[x], term'[x])
  <2>1. Emit(1, fn[ins], z, 0, 0)
    BY <1>1, <1>15
  <2>2. \A x \in DOMAIN z :
          Goes(t, D, n, z[x], IF x \in Block THEN EndPoint(t, D, m[x], code[x]) ELSE n[x])
    BY <1>4, <1>13, <1>14, <1>15
  <2>3. \A x \in Block : BlockGood(t, D, m, x, code[x], term[x])
    BY ReadyParts
  <2>4. QED
    BY <1>3, <1>6, <2>1, <2>2, <2>3, TermsGood
<1>17. \A x \in Block' : EntryGood(t, D, n, fn', x)
  BY <1>1, <1>3, <1>6, EntriesKept, ReadyParts
<1>18. /\ \A x \in Block : code'[x] = code[x]
       /\ \A x \in (nb + 1)..(nb + 1) : code'[x] = <<>>
  BY <1>1, <1>3, PlainCode
<1>19. term'[b] = w /\ \A x \in Block : x # b => term'[x] = term[x]
  BY <1>1, <1>3, <1>4, <1>15 DEF Emit, Block
<1>20. FrameGood(t, D, n, ast', code', term', f)
  <2>1. \A s \in Slots : f[s] = 0
    BY <1>7 DEF Slots
  <2>2. n[Top.exit] = D[Behind(q)]
    BY <1>2, <1>4, <1>5, <1>6 DEF Extends
  <2>3. QED
    BY <1>7, <2>1, <2>2 DEF FrameGood
<1>21. FrameGood(t, D, n, ast', code', term', Top)
  <2>1. /\ FrameGood(t, D, m, ast, code, term, Top)
        /\ \A s \in Slots : Top[s] # 0 => Top[s] \in Block /\ code[Top[s]] = <<>>
    BY <1>1, TopGood
  <2>2. \A s \in Slots : Top[s] # 0 => code'[Top[s]] = <<>>
    BY <1>18, <2>1
  <2>3. n[Top.back] = D[NoCase(p)] /\ n[Top.exit] = D[Behind(p)]
    <3>1. Top.back \in Block
      BY <1>1, TopSwitch DEF Ready
    <3>2. QED
      BY <1>4, <1>5, <1>6, <3>1 DEF Extends
  <2>4. Len(w.to) = Cardinality(Cases(ast', p)) + 1
    <3>1. Len(w.to) = c + 2
      BY <1>5, <1>8, <1>9, <1>10
    <3>2. QED
      BY <1>10, <3>1
  <2>5. QED
    BY <1>0, <1>1, <1>5, <1>8, <1>19, <2>2, <2>3, <2>4 DEF FrameGood
<1>22. EndPoint(t, D, n[ins'], code'[ins']) = D[Into(NewNode, "case")]
  <2>1. code'[ins'] = <<>> /\ n[ins'] = D[Into(q, "case")]
    BY <1>1, <1>3, <1>6, <1>18
  <2>2. QED
    BY <2>1 DEF EndPoint, q
<1>23. /\ Len(work') = Len(work) + 1 /\ work'[Len(work)] = Top /\ work'[Len(work) + 1] = f
       /\ \A i \in 1..(Len(work) - 1) : work'[i] = work[i]
  <2>1. Len(work) \in Nat \ {0}
    BY ReadyParts
  <2>2. QED
    BY <1>1, <1>3, <2>1 DEF Push, Top, TypeOK
<1>24. CallsMeant(t, D, n)'
  <2>1. \A x \in Block : x # Top.sw => term'[x] = term[x]
    BY <1>0, <1>19
  <2>2. f.node = NewNode
    BY <1>7 DEF q
  <2>3. QED
    BY <1>1, <1>6, <1>7, <1>18, <1>20, <1>21, <1>22, <1>23, <2>1, <2>2, LabelCalls
<1>25. QED
  BY <1>16, <1>17, <1>24 DEF GraphMeant

LEMMA OpenDefaultMeant ==
  ASSUME NEW t, NEW D, NEW m, Ready(t, D, m), OpenDefault
  PROVE  \E n : GraphMeant(t, D, n)' /\ CallsMeant(t, D, n)'
<1>. DEFINE q == NewNode
            g == [Top EXCEPT !.next = 0]
            f == [Call("case", q) EXCEPT !.back = Top.exit]
            rest == Front(work)
<1>0. PICK p : p = Top.node
  OBVIOUS
<1>1. /\ Visit("default") /\ Top.k = "switch" /\ Top.next # 0
      /\ ins' = Top.back /\ ret' = ret /\ work' = Append(Append(rest, g), f)
      /\ nb' = nb /\ fn' = fn /\ term' = term /\ code' = code
  BY DEF OpenDefault
<1>2. /\ q \in 1..Len(t) /\ q # 0 /\ q \in Nat /\ Kind(t, q) = "default" /\ t[q].up = p
      /\ t[q].sec = "switch" /\ Len(ast') = q /\ p \in 1..Len(ast) /\ p # 0
      /\ \A x \in 1..Len(ast) : ast'[x] = ast[x] /\ t[x] = ast[x]
      /\ ast'[q] = t[q] /\ D[Behind(q)] = D[Behind(p)]
      /\ CallAt(ast, work[Len(work) - 1], Top)
  BY <1>0, <1>1, LabelVisit
<1>3. /\ TypeOK /\ nb \in Nat /\ ins \in Block /\ Len(t) \in Nat /\ DOMAIN t = 1..Len(t)
      /\ Len(ast) \in Nat /\ DOMAIN ast = 1..Len(ast) /\ q = Len(ast) + 1
      /\ Len(work) \in Nat \ {0} /\ Tree(t) /\ Len(ast) <= Len(t) /\ StackShape
  BY ReadyParts
<1>4. /\ FrameGood(t, D, m, ast, code, term, Top) /\ Top \in FrameType
      /\ \A s \in Slots : Top[s] # 0 => Top[s] \in Block /\ code[Top[s]] = <<>>
      /\ Top.exit # 0 /\ Top.cond = 0 /\ Top.body = 0 /\ code[Top.back] = <<>>
      /\ Top.exit \in Block /\ code[Top.exit] = <<>>
  <2>1. FrameGood(t, D, m, ast, code, term, Top) /\ Top \in FrameType
    BY TopGood
  <2>2. \A s \in Slots : Top[s] # 0 => Top[s] \in Block /\ code[Top[s]] = <<>>
    BY <1>1, TopGood
  <2>3. Top.exit # 0 /\ Top.cond = 0 /\ Top.body = 0 /\ code[Top.back] = <<>>
    BY <1>1, TopSwitch DEF Ready
  <2>4. Top.exit \in Block /\ code[Top.exit] = <<>>
    <3>1. "exit" \in Slots
      BY DEF Slots
    <3>2. Top["exit"] \in Block /\ code[Top["exit"]] = <<>>
      BY <2>2, <2>3, <3>1
    <3>3. QED
      BY <3>2
  <2>5. QED
    BY <2>1, <2>2, <2>3, <2>4
<1>5. /\ m[Top.back] = D[NoCase(p)] /\ m[Top.exit] = D[Behind(p)]
      /\ term[Top.sw].op = "switch" /\ term[Top.sw].node = p /\ Kind(t, p) = "switch"
      /\ Len(term[Top.sw].to) = Cardinality(Cases(ast, p)) + 1
  BY <1>0, <1>1, <1>4 DEF FrameGood
<1>6. /\ g.k = "switch" /\ g.node = p /\ g.next = 0 /\ g.exit = Top.exit /\ g.cond = 0
      /\ g.body = 0 /\ g.back = Top.back /\ g.sw = Top.sw
  BY <1>0, <1>1, <1>4 DEF FrameType
<1>7. /\ f.k = "case" /\ f.node = q /\ f.next = 0 /\ f.exit = 0 /\ f.cond = 0
      /\ f.body = 0 /\ f.back = Top.exit
  BY DEF Call
<1>8. /\ Len(work') = Len(work) + 1 /\ work'[Len(work)] = g /\ work'[Len(work) + 1] = f
      /\ \A i \in 1..(Len(work) - 1) : work'[i] = work[i]
  <2>1. /\ work \in Seq(FrameType) /\ rest \in Seq(FrameType) /\ Len(rest) = Len(work) - 1
        /\ \A i \in 1..(Len(work) - 1) : rest[i] = work[i]
    BY <1>3, FrontProps DEF StackShape, TypeOK
  <2>. HIDE DEF rest, g, f
  <2>2. PICK h : h = Append(rest, g)
    OBVIOUS
  <2>3. /\ Len(h) = Len(work) /\ h[Len(work)] = g
        /\ \A i \in 1..(Len(work) - 1) : h[i] = work[i]
    BY <1>3, <2>1, <2>2
  <2>4. h \in Seq(FrameType \cup {g})
    BY <2>1, <2>2
  <2>5. work' = Append(h, f)
    BY <1>1, <2>2
  <2>6. QED
    BY <1>3, <2>3, <2>4, <2>5
<1>. HIDE DEF q, f, g, rest
<1>9. Default(t, p) \subseteq Nat /\ q \in Default(t, p) /\ \A x \in Default(t, p) : q <= x
  <2>1. q \in Default(t, p)
    BY <1>2, <1>3 DEF Default, Members, Cases
  <2>2. ASSUME NEW x \in Default(t, p) PROVE x \in Nat /\ q <= x
    <3>1. x \in 1..Len(t) /\ t[x].up = p /\ Kind(t, x) # "case"
      BY <1>3 DEF Default, Cases, Members
    <3>2. CASE x \in 1..Len(ast)
      <4>1. ast[x].up = p /\ Kind(ast, x) # "case"
        BY <1>2, <3>1, <3>2 DEF Kind
      <4>2. QED
        BY <1>0, <1>1, <1>2, <3>2, <4>1 DEF CallAt
    <3>3. CASE x \notin 1..Len(ast)
      BY <1>3, <3>1, <3>3
    <3>4. QED
      BY <3>2, <3>3
  <2>3. QED
    BY <2>1, <2>2
<1>10. D[NoCase(p)] = D[Into(q, "case")]
  <2>1. p \in 0..Len(t) /\ "root" \in Sections
    BY <1>2, <1>3 DEF Sections
  <2>2. D[NoCase(p)] = FromNoCase(t, D, p)
    BY <2>1, PlaceParts DEF Ready, Fixed
  <2>3. Min(Default(t, p)) = q
    BY <1>9, MinIs
  <2>4. QED
    BY <1>9, <2>2, <2>3 DEF FromNoCase
<1>11. GraphMeant(t, D, m)'
  <2>1. Block' = Block
    BY <1>1 DEF Block
  <2>2. GraphMeant(t, D, m)
    BY DEF Ready
  <2>3. QED
    BY <1>1, <2>1, <2>2 DEF GraphMeant
<1>12. FrameGood(t, D, m, ast', code', term', f)
  <2>1. \A s \in Slots : f[s] = 0
    BY <1>7 DEF Slots
  <2>2. QED
    BY <1>2, <1>5, <1>7, <2>1 DEF FrameGood
<1>13. FrameGood(t, D, m, ast', code', term', g)
  <2>1. \A s \in Slots : g[s] # 0 => code'[g[s]] = <<>>
    BY <1>1, <1>4, <1>6 DEF Slots
  <2>2. Cases(ast', p) = Cases(ast, p)
    BY <1>1, <1>3, CasesSame
  <2>3. QED
    BY <1>1, <1>5, <1>6, <2>1, <2>2 DEF FrameGood
<1>14. EndPoint(t, D, m[ins'], code'[ins']) = D[Into(NewNode, "case")]
  BY <1>1, <1>4, <1>5, <1>10 DEF EndPoint, q
<1>15. CallsMeant(t, D, m)'
  <2>1. f.node = NewNode /\ Extends(m, m)
    BY <1>7, SelfExtends DEF q
  <2>2. /\ \A x \in Block : code'[x] = code[x]
        /\ \A x \in Block : x # Top.sw => term'[x] = term[x]
    BY <1>1
  <2>3. QED
    BY <1>1, <1>7, <1>8, <1>12, <1>13, <1>14, <2>1, <2>2, LabelCalls
<1>16. QED
  BY <1>11, <1>15

LEMMA EndSwitchMeant ==
  ASSUME NEW t, NEW D, NEW m, Ready(t, D, m), EndSwitch
  PROVE  \E n : GraphMeant(t, D, n)' /\ CallsMeant(t, D, n)'
<1>0. PICK p, b, z : /\ p = Top.node /\ b = Top.back
                     /\ z = IF EmptyBB(Top.back) THEN One(Top.back, Br(Top.exit)) ELSE <<>>
  OBVIOUS
<1>1. /\ Top.k = "switch" /\ Emit(0, fn[ins], z, 0, 0)
      /\ ins' = Top.exit /\ ret' = ret /\ Return /\ ast' = ast
  BY <1>0 DEF EndSwitch, Create
<1>2. /\ TypeOK /\ StackShape /\ nb \in Nat /\ ins \in Block /\ Len(t) \in Nat
      /\ DOMAIN t = 1..Len(t) /\ Tree(t) /\ Extends(m, m)
      /\ Len(ast) \in Nat /\ DOMAIN ast = 1..Len(ast) /\ Len(ast) <= Len(t)
      /\ \A x \in 1..Len(ast) : t[x] = ast[x]
      /\ Len(work) \in Nat \ {0} /\ work \in Seq(FrameType)
  BY ReadyParts, SelfExtends DEF TypeOK
<1>3. /\ b \in Block /\ Top.exit # 0 /\ Top.exit \in Block /\ code[Top.exit] = <<>>
      /\ m[b] = D[NoCase(p)] /\ m[Top.exit] = D[Behind(p)] /\ Kind(t, p) = "switch"
  <2>1. Top.exit # 0 /\ b \in Block
    BY <1>0, <1>1, TopSwitch DEF Ready
  <2>2. "exit" \in Slots
    BY DEF Slots
  <2>3. Top["exit"] \in Block /\ code[Top["exit"]] = <<>>
    BY <1>1, <2>1, <2>2, TopGood
  <2>4. m[b] = D[NoCase(p)] /\ m[Top.exit] = D[Behind(p)] /\ Kind(t, p) = "switch"
    BY <1>0, <1>1, <2>1, TopGood DEF FrameGood
  <2>5. QED
    BY <2>1, <2>3, <2>4
<1>4. p \in 1..Len(ast) /\ CallAt(ast, work[Len(work) - 1], Top)
  <2>1. Top.node \in 0..Len(ast) /\ Top.node # 0
    BY <1>1, <1>2, TopStacked DEF Ready
  <2>2. CallAt(ast, work[Len(work) - 1], Top)
    BY <1>2, <2>1, TopStacked DEF Ready
  <2>3. QED
    BY <1>0, <2>1, <2>2
<1>5. EmptyBB(b) => Top.next # 0 /\ code[b] = <<>>
  BY <1>0, <1>1, TopSwitch DEF Ready, EmptyBB, Terminated, Closed
<1>6. EmptyBB(b) => D[NoCase(p)] = D[Behind(p)]
  <2>1. HAVE EmptyBB(b)
  <2>2. \A i \in 1..Len(work') : work'[i].node # p
    <3>1. /\ Len(work') = Len(work) - 1 /\ \A i \in 1..(Len(work) - 1) : work'[i] = work[i]
      BY <1>1, <1>2, FrontProps DEF Return, StackShape
    <3>2. TAKE i \in 1..Len(work')
    <3>3. i \in 1..Len(work) /\ i < Len(work) /\ work'[i] = work[i]
      BY <1>2, <3>1
    <3>4. work[i].node < Top.node /\ work[i].node \in 0..Len(ast) /\ Top.node \in 0..Len(ast)
      BY <1>2, <3>3, TopStacked DEF Ready
    <3>5. QED
      BY <1>0, <1>2, <3>3, <3>4
  <2>3. \A x \in (Len(ast) + 1)..Len(t) : t[x].up # p
    <3>1. \A x \in (Len(ast) + 1)..Len(t) : t[x].up <= Len(ast) =>
            \E i \in 1..Len(work') : t[x].up = work'[i].node /\ t[x].sec \in ToCome(work'[i].k)
      BY <1>1 DEF Ready, Text
    <3>2. p <= Len(ast)
      BY <1>2, <1>4
    <3>3. QED
      BY <2>2, <3>1, <3>2
  <2>4. \A x \in 1..Len(t) : t[x].up = p => Kind(t, x) = "case"
    <3>1. TAKE x \in 1..Len(t)
    <3>2. HAVE t[x].up = p
    <3>3. x \in 1..Len(ast)
      BY <1>2, <2>3, <3>2
    <3>4. Kind(ast, x) = "case"
      BY <1>0, <1>1, <1>2, <1>4, <1>5, <2>1, <3>2, <3>3 DEF CallAt
    <3>5. QED
      BY <1>2, <3>3, <3>4 DEF Kind
  <2>5. Default(t, p) = {}
    BY <1>2, <2>4 DEF Default, Cases, Members
  <2>6. p \in 0..Len(t) /\ "root" \in Sections
    BY <1>2, <1>4 DEF Sections
  <2>7. D[NoCase(p)] = FromNoCase(t, D, p)
    BY <2>6, PlaceParts DEF Ready, Fixed
  <2>8. QED
    BY <2>5, <2>7 DEF FromNoCase
<1>7. \A x \in DOMAIN z :
        Goes(t, D, m, z[x], IF x \in Block THEN EndPoint(t, D, m[x], code[x]) ELSE m[x])
  <2>1. CASE EmptyBB(b)
    <3>1. \A x \in DOMAIN z : x = b /\ z[x] = Br(Top.exit)
      BY <1>0, <2>1 DEF One
    <3>2. EndPoint(t, D, m[b], code[b]) = D[Behind(p)]
      BY <1>3, <1>5, <1>6, <2>1 DEF EndPoint
    <3>3. Goes(t, D, m, Br(Top.exit), D[Behind(p)])
      BY <1>3, GoesProps
    <3>4. QED
      BY <1>3, <3>1, <3>2, <3>3
  <2>2. CASE ~EmptyBB(b)
    <3>1. DOMAIN z = {}
      BY <1>0, <2>2
    <3>2. QED
      BY <3>1
  <2>3. QED
    BY <2>1, <2>2
<1>8. \A x \in Block' : BlockGood(t, D, m, x, code'[x], term'[x])
  <2>1. \A x \in Block : BlockGood(t, D, m, x, code[x], term[x])
    BY ReadyParts
  <2>2. QED
    BY <1>1, <1>2, <1>7, <2>1, TermsGood
<1>9. \A x \in Block' : EntryGood(t, D, m, fn', x)
  BY <1>1, <1>2, EntriesKept, ReadyParts
<1>10. \A x \in Block : code'[x] = code[x]
  BY <1>1, <1>2, PlainCode
<1>11. Untouched
  <2>1. ClosedSame
    <3>1. Len(work') = Len(work) - 1
      BY <1>1, <1>2, FrontProps DEF Return, StackShape
    <3>2. OpenCase => Len(work') = Len(work) + 1
      BY <1>2 DEF OpenCase, Push
    <3>3. ~OpenCase
      BY <1>2, <3>1, <3>2
    <3>4. QED
      BY <3>3, SectionSame DEF Section, Ready
  <2>2. QED
    BY <1>10, <2>1 DEF Untouched
<1>12. EndPoint(t, D, m[ins'], code'[ins']) = D[Behind(Top.node)]
  BY <1>0, <1>1, <1>3, <1>10 DEF EndPoint
<1>13. ret' # 0 => m[ret'] = Returned
  BY <1>1, <1>2, RetKept
<1>14. CallsMeant(t, D, m)'
  BY <1>1, <1>2, <1>11, <1>12, <1>13, ReturnCalls
<1>15. QED
  BY <1>8, <1>9, <1>14 DEF GraphMeant

-----------------------------------------------------------------------------
(* Jumps. *)

\* What the node visited next stands in are the calls at work.
LEMMA AroundCalls ==
  ASSUME NEW t, NEW D, NEW m, Ready(t, D, m), NEW k \in Kinds, Visit(k), Top.k \in StmtLists,
         NEW c \in Around(t, NewNode)
  PROVE  \E i \in 1..Len(work) :
           /\ t[c].up = work[i].node /\ t[c].sec = work[i].k
           /\ \A j \in (i + 1)..Len(work) :
                \E d \in Around(t, NewNode) : d > c /\ t[d].sec = work[j].k
<1>. DEFINE N == Len(work)
<1>0. PICK q : q = NewNode
  OBVIOUS
<1>1. /\ TypeOK /\ StackShape /\ Len(ast) \in Nat /\ q = Len(ast) + 1
      /\ \A p \in 1..Len(ast) : t[p] = ast[p]
      /\ N \in Nat \ {0}
  BY <1>0, ReadyParts
<1>2. /\ q \in 1..Len(t) /\ q \in Nat /\ t[q].up = Top.node /\ t[q].sec = Top.k
  BY <1>0, Arrive
<1>3. /\ c \in 1..q /\ c \in Nat /\ \A x \in (c + 1)..q : t[x].up >= c
  BY <1>0, <1>1 DEF Around
<1>4. /\ \A i \in 1..N : work[i].node \in 0..Len(ast) /\ work[i].node <= Top.node
      /\ Top.node \in 0..Len(ast)
  BY <1>1, TopStacked DEF Ready
<1>5. /\ work[1].node = 0
      /\ \A i \in 2..N : CallAt(ast, work[i - 1], work[i])
      /\ \A i, j \in 1..N : i < j => work[i].node < work[j].node
  BY DEF Ready, Stacked
<1>. HIDE DEF N
<1>6. ASSUME NEW i \in 1..N, i # N
      PROVE  \E p \in Around(t, q) :
               p = work[i + 1].node /\ t[p].up = work[i].node /\ t[p].sec = work[i].k
  <2>1. PICK n : n = i + 1
    OBVIOUS
  <2>2. n \in 2..N /\ n - 1 = i /\ n \in 1..N
    BY <1>1, <1>6, <2>1
  <2>3. CallAt(ast, work[i], work[n])
    BY <1>5, <2>2
  <2>4. PICK p : p = work[n].node
    OBVIOUS
  <2>5. /\ p \in 1..Len(ast) /\ ast[p].up = work[i].node /\ ast[p].sec = work[i].k
        /\ \A x \in (p + 1)..Len(ast) : ast[x].up >= p
    BY <2>3, <2>4 DEF CallAt
  <2>6. p <= Top.node
    BY <1>4, <2>2, <2>4
  <2>7. \A x \in (p + 1)..q : t[x].up >= p
    <3>1. TAKE x \in (p + 1)..q
    <3>2. CASE x = q
      BY <1>2, <2>6, <3>2
    <3>3. CASE x # q
      <4>1. x \in (p + 1)..Len(ast) /\ x \in 1..Len(ast)
        BY <1>1, <2>5, <3>3
      <4>2. QED
        BY <1>1, <2>5, <4>1
    <3>4. QED
      BY <3>2, <3>3
  <2>8. p \in 1..q
    BY <1>1, <2>5
  <2>9. p \in Around(t, q)
    BY <2>7, <2>8 DEF Around
  <2>10. t[p] = ast[p]
    BY <1>1, <2>5
  <2>11. QED
    BY <2>1, <2>4, <2>5, <2>9, <2>10
<1>7. CASE c = q
  <2>1. N \in 1..N /\ work[N] = Top
    BY <1>1 DEF Top, N
  <2>2. \A j \in (N + 1)..N : FALSE
    BY <1>1
  <2>3. t[c].up = work[N].node /\ t[c].sec = work[N].k
    BY <1>2, <1>7, <2>1
  <2>4. QED
    BY <2>1, <2>2, <2>3 DEF N
<1>8. CASE c # q
  <2>. DEFINE S == {i \in 1..N : work[i].node >= c}
  <2>1. N \in S
    <3>1. q \in (c + 1)..q
      BY <1>2, <1>3, <1>8
    <3>2. t[q].up >= c
      BY <1>3, <3>1
    <3>3. Top.node >= c
      BY <1>2, <3>2
    <3>4. QED
      BY <1>1, <3>3 DEF Top, N
  <2>2. PICK a \in S : \A i \in S : a <= i
    <3>1. S \subseteq Nat
      OBVIOUS
    <3>2. QED
      BY <2>1, <3>1, LeastNatural
  <2>3. a \in 1..N /\ work[a].node >= c /\ a # 1
    BY <1>3, <1>5, <2>2
  <2>4. PICK i : i = a - 1
    OBVIOUS
  <2>5. i \in 1..N /\ i # N /\ i + 1 = a /\ i < a
    BY <1>1, <2>3, <2>4
  <2>6. PICK p \in Around(t, q) :
          p = work[a].node /\ t[p].up = work[i].node /\ t[p].sec = work[i].k
    BY <1>6, <2>5
  <2>7. p = c
    <3>1. SUFFICES ASSUME p # c PROVE FALSE
      OBVIOUS
    <3>2. p \in (c + 1)..q
      <4>1. p \in 1..q
        BY <2>6 DEF Around
      <4>2. p >= c
        BY <2>3, <2>6
      <4>3. QED
        BY <1>2, <1>3, <3>1, <4>1, <4>2
    <3>3. work[i].node >= c
      BY <1>3, <2>6, <3>2
    <3>4. i \in S
      BY <2>5, <3>3
    <3>5. QED
      BY <1>1, <2>2, <2>3, <2>5, <3>4
  <2>8. ASSUME NEW j \in (i + 1)..N
        PROVE  \E d \in Around(t, q) : d > c /\ t[d].sec = work[j].k
    <3>1. j \in 1..N /\ j >= a
      BY <1>1, <2>5
    <3>2. CASE j = N
      <4>1. q \in Around(t, q)
        <5>1. (q + 1)..q = {} /\ q \in 1..q
          BY <1>1
        <5>2. QED
          BY <5>1 DEF Around
      <4>2. q > c
        BY <1>2, <1>3, <1>8
      <4>3. t[q].sec = work[j].k
        BY <1>2, <3>2 DEF Top, N
      <4>4. QED
        BY <4>1, <4>2, <4>3
    <3>3. CASE j # N
      <4>1. PICK d \in Around(t, q) : d = work[j + 1].node /\ t[d].sec = work[j].k
        BY <1>6, <3>1, <3>3
      <4>2. j + 1 \in 1..N /\ a < j + 1
        BY <1>1, <2>3, <3>1, <3>3
      <4>3. c < d
        BY <1>5, <2>3, <2>6, <2>7, <4>1, <4>2
      <4>4. d \in Nat
        BY <1>2, <4>1 DEF Around
      <4>5. QED
        BY <1>3, <4>1, <4>3, <4>4
    <3>4. QED
      BY <3>2, <3>3
  <2>9. t[c].up = work[i].node /\ t[c].sec = work[i].k
    BY <2>6, <2>7
  <2>10. QED
    BY <1>0, <2>5, <2>8, <2>9 DEF N
<1>9. QED
  BY <1>7, <1>8

LEMMA EmitJumpMeant ==
  ASSUME NEW t, NEW D, NEW m, Ready(t, D, m), PilesInv, EmitJump
  PROVE  \E n : GraphMeant(t, D, n)' /\ CallsMeant(t, D, n)'
<1>. DEFINE q == NewNode
<1>0. PICK k, b :
        /\ k \in {"brk", "cnt"}
        /\ b = IF k = "brk" THEN Last(loops).brk ELSE Last(loops).cnt
        /\ MayJump(k) /\ Visit(k) /\ Emit(1, fn[ins], One(ins, Br(b)), 0, 0)
  BY DEF EmitJump, Create
<1>1. Top.k \in StmtLists /\ ins' = nb + 1 /\ ret' = ret /\ work' = work
  BY <1>0 DEF EmitJump, MayJump, MayCome
<1>2. k \in Kinds /\ k # "case"
  BY <1>0 DEF Kinds, SolKinds
<1>3. /\ q \in 1..Len(t) /\ q \in Nat /\ q # 0 /\ Kind(t, q) = k
      /\ EndPoint(t, D, m[ins], code[ins]) = Enter(t, D, q)
  BY <1>0, <1>1, <1>2, Arrive
<1>4. /\ TypeOK /\ StackShape /\ nb \in Nat /\ ins \in Block /\ Tree(t) /\ JumpsInLoops(t)
      /\ Len(work) \in Nat \ {0} /\ work \in Seq(FrameType) /\ DOMAIN work = 1..Len(work)
  BY ReadyParts DEF TypeOK
<1>5. PICK c \in Around(t, q) :
           /\ t[c].sec \in {"body", "forbody"} /\ t[c].up = LoopOf(t, q)
           /\ \A d \in Around(t, q) : d > c =>
                t[d].sec \notin {"body", "forbody", "fun", "forpost", "asminit"}
           /\ t[c].sec = "body" <=> Kind(t, LoopOf(t, q)) \in {"while", "do"}
  BY <1>0, <1>3, <1>4, LoopProps
<1>6. PICK i \in 1..Len(work) :
        /\ t[c].up = work[i].node /\ t[c].sec = work[i].k
        /\ \A j \in (i + 1)..Len(work) :
             \E d \in Around(t, q) : d > c /\ t[d].sec = work[j].k
  BY <1>0, <1>1, <1>2, AroundCalls
<1>7. PICK f, p : f = work[i] /\ p = f.node
  OBVIOUS
<1>8. /\ f \in FrameType /\ FrameShape(f, lang) /\ FrameGood(t, D, m, ast, code, term, f)
      /\ f.k \in {"body", "forbody"} /\ LoopOf(t, q) = p
      /\ f.k = "body" <=> Kind(t, p) \in {"while", "do"}
  <2>1. f \in FrameType /\ FrameShape(f, lang)
    BY <1>4, <1>7 DEF StackShape
  <2>2. FrameGood(t, D, m, ast, code, term, f)
    BY <1>7, ReadyParts
  <2>3. QED
    BY <1>5, <1>6, <1>7, <2>1, <2>2
<1>9. /\ f.exit # 0 /\ f.exit \in Block /\ f.back \in Block /\ (f.k = "forbody" => f.next \in Block)
  BY <1>4, <1>8, FrameSlots DEF Block
<1>10. Last(loops) = [brk |-> f.exit, cnt |-> IF f.k = "body" THEN f.back ELSE f.next]
  <2>1. PICK L : Piles(L, work, loops)
    BY DEF Ready, PilesInv
  <2>2. \A j \in (i + 1)..Len(work) : work[j].k \notin {"fun", "body", "forbody", "forpost"}
    <3>1. TAKE j \in (i + 1)..Len(work)
    <3>2. PICK d \in Around(t, q) : d > c /\ t[d].sec = work[j].k
      BY <1>6
    <3>3. QED
      BY <1>5, <3>2
  <2>3. L[i] = loops
    BY <1>4, <2>1, <2>2, PilesHeld
  <2>4. i \in 2..Len(work) /\ i - 1 \in 1..Len(work)
    <3>1. i # 1
      BY <1>4, <1>7, <1>8 DEF StackShape
    <3>2. QED
      BY <1>4, <3>1
  <2>5. PICK l : l = L[i - 1]
    OBVIOUS
  <2>6. l \in Seq(Entries) /\ LoopRel(f, l, loops)
    BY <1>7, <2>1, <2>3, <2>4, <2>5 DEF Piles
  <2>7. loops = Append(l, [brk |-> f.exit, cnt |-> IF f.k = "body" THEN f.back ELSE f.next])
    BY <1>8, <2>6 DEF LoopRel
  <2>8. PICK e : e = [brk |-> f.exit, cnt |-> IF f.k = "body" THEN f.back ELSE f.next]
    OBVIOUS
  <2>9. Last(Append(l, e)) = e
    BY <2>6 DEF Last
  <2>10. QED
    BY <2>7, <2>8, <2>9
<1>11. b \in Block /\ m[b] = Enter(t, D, q)
  <2>1. CASE k = "brk"
    <3>1. b = f.exit /\ m[b] = D[Behind(p)]
      BY <1>0, <1>7, <1>8, <1>9, <1>10, <2>1 DEF FrameGood
    <3>2. Enter(t, D, q) = D[Behind(p)]
      BY <1>3, <1>8, <2>1 DEF Enter
    <3>3. QED
      BY <1>9, <3>1, <3>2
  <2>2. CASE k = "cnt" /\ f.k = "body"
    <3>1. b = f.back /\ m[b] = At(p)
      BY <1>0, <1>7, <1>8, <1>10, <2>2 DEF FrameGood
    <3>2. Enter(t, D, q) = At(p)
      BY <1>3, <1>8, <2>2 DEF Enter, SectionEnd
    <3>3. QED
      BY <1>9, <3>1, <3>2
  <2>3. CASE k = "cnt" /\ f.k = "forbody"
    <3>1. b = f.next /\ m[b] = D[Into(p, "forpost")]
      BY <1>0, <1>7, <1>8, <1>10, <2>3 DEF FrameGood
    <3>2. Enter(t, D, q) = D[Into(p, "forpost")]
      BY <1>3, <1>8, <2>3 DEF Enter, SectionEnd
    <3>3. QED
      BY <1>9, <2>3, <3>1, <3>2
  <2>4. QED
    BY <1>0, <1>8, <2>1, <2>2, <2>3
<1>12. PICK n : Extends(m, n) /\ n[nb + 1] = D[Behind(q)]
  <2>1. PICK n : /\ n = Given(m, D[Behind(q)], 0, 0, 0)
                 /\ Extends(m, n) /\ n[nb + 1] = D[Behind(q)]
    BY <1>4, GivenProps
  <2>2. QED
    BY <2>1
<1>13. Goes(t, D, n, Br(b), EndPoint(t, D, m[ins], code[ins]))
  BY <1>3, <1>11, <1>12, GoesProps DEF Extends
<1>14. \A x \in Block' : BlockGood(t, D, n, x, code'[x], term'[x])
  BY <1>0, <1>4, <1>12, <1>13, OneGood, ReadyParts
<1>15. \A x \in Block' : EntryGood(t, D, n, fn', x)
  BY <1>0, <1>4, <1>12, EntriesKept, ReadyParts
<1>16. /\ \A x \in Block : code'[x] = code[x]
       /\ \A x \in (nb + 1)..(nb + 1) : code'[x] = <<>>
  BY <1>0, <1>4, PlainCode
<1>17. Untouched
  <2>1. ClosedSame
    BY StatementSame DEF Statement, Ready
  <2>2. QED
    BY <1>16, <2>1 DEF Untouched
<1>18. EndPoint(t, D, n[ins'], code'[ins']) = D[Behind(NewNode)]
  BY <1>1, <1>4, <1>12, <1>16 DEF EndPoint
<1>19. CallsMeant(t, D, n)'
  BY <1>0, <1>1, <1>2, <1>12, <1>17, <1>18, LineCalls
<1>20. QED
  BY <1>14, <1>15, <1>19 DEF GraphMeant

-----------------------------------------------------------------------------
(* The ends of functions. *)

\* The tail of a function whose insert block is open.
LEMMA TailGood ==
  ASSUME NEW t, NEW D, NEW m, Ready(t, D, m), Top.k # "switch",
         EndPoint(t, D, m[ins], code[ins]) = Returned,
         Top.exit # 0, m[Top.exit] = Returned,
         Emit(0, fn[ins], FunctionTail, 0, 0)
  PROVE  GraphMeant(t, D, m)' /\ \A x \in Block : code'[x] = code[x]
<1>1. TypeOK /\ Extends(m, m)
  BY ReadyParts, SelfExtends
<1>2. PICK e : e = Top.exit
  OBVIOUS
<1>3. e \in Block /\ e # ins /\ code[e] = <<>> /\ m[e] = Returned
  <2>1. "exit" \in Slots
    BY DEF Slots
  <2>2. Top["exit"] \in Block /\ Top["exit"] # ins /\ code[Top["exit"]] = <<>>
    BY <2>1, TopGood
  <2>3. QED
    BY <1>2, <2>2
<1>4. Emit(0, fn[ins], Two(ins, Br(e), e, Ret), 0, 0)
  BY <1>2, Here DEF FunctionTail, Terminated, Closed, Ready
<1>5. Goes(t, D, m, Br(e), EndPoint(t, D, m[ins], code[ins])) /\ Goes(t, D, m, Ret, m[e])
  BY <1>3, GoesProps
<1>6. \A x \in Block' : BlockGood(t, D, m, x, code'[x], term'[x])
  BY <1>1, <1>3, <1>4, <1>5, TwoGood, ReadyParts
<1>7. \A x \in Block' : EntryGood(t, D, m, fn', x)
  BY <1>1, <1>4, EntriesKept, ReadyParts
<1>8. \A x \in Block : code'[x] = code[x]
  BY <1>1, <1>4, PlainCode
<1>9. QED
  BY <1>6, <1>7, <1>8 DEF GraphMeant

LEMMA EndFunMeant ==
  ASSUME NEW t, NEW D, NEW m, Ready(t, D, m), EndFun
  PROVE  \E n : GraphMeant(t, D, n)' /\ CallsMeant(t, D, n)'
<1>1. /\ Top.k = "fun" /\ Top.k \in StmtLists /\ Top.k # "switch"
      /\ Emit(0, fn[ins], FunctionTail, 0, 0)
      /\ ret' = Top.outer.ret /\ ins' = Top.next /\ Return /\ ast' = ast
  BY DEF EndFun, Create, StmtLists
<1>2. EndPoint(t, D, m[ins], code[ins]) = Returned
  <2>1. EndPoint(t, D, m[ins], code[ins]) = SectionEnd(D, Top.node, Top.k)
    BY <1>1, EndsReturn
  <2>2. QED
    BY <1>1, <2>1 DEF SectionEnd
<1>3. /\ FrameGood(t, D, m, ast, code, term, Top) /\ FrameShape(Top, lang) /\ Top \in FrameType
      /\ TypeOK /\ Extends(m, m)
  BY TopGood, ReadyParts, SelfExtends
<1>4. Top.exit # 0 /\ m[Top.exit] = Returned /\ Top.next \in Block
  <2>1. Top.exit # 0
    BY <1>1, <1>3 DEF FrameShape, SlotsInUse, Slots
  <2>2. Top.next \in Block
    BY <1>1, <1>3, FrameSlots
  <2>3. QED
    BY <1>1, <1>3, <2>1, <2>2 DEF FrameGood
<1>5. GraphMeant(t, D, m)' /\ \A x \in Block : code'[x] = code[x]
  BY <1>1, <1>2, <1>4, TailGood
<1>6. Untouched
  <2>1. ClosedSame
    BY <1>1, SectionSame DEF Section, OpenCase, Ready
  <2>2. QED
    BY <1>5, <2>1 DEF Untouched
<1>7. EndPoint(t, D, m[ins'], code'[ins']) = D[Behind(Top.node)]
  BY <1>1, <1>3, <1>4, <1>5 DEF FrameGood
<1>8. ret' # 0 => m[ret'] = Returned
  BY <1>1, <1>3 DEF FrameGood
<1>9. CallsMeant(t, D, m)'
  BY <1>1, <1>3, <1>6, <1>7, <1>8, ReturnCalls
<1>10. QED
  BY <1>5, <1>9

LEMMA EndRootMeant ==
  ASSUME NEW t, NEW D, NEW m, Ready(t, D, m), EndRoot
  PROVE  GraphMeant(t, D, m)'
<1>1. /\ Top.k = "root" /\ Top.k \in StmtLists /\ Top.k # "switch" /\ Return /\ ast' = ast
      /\ lang = "sol" => Emit(0, fn[ins], FunctionTail, 0, 0)
      /\ lang # "sol" => Emit(0, fn[ins], One(ins, Ret), 0, 0)
  BY DEF EndRoot, Create, StmtLists
<1>2. EndPoint(t, D, m[ins], code[ins]) = Returned
  <2>1. EndPoint(t, D, m[ins], code[ins]) = SectionEnd(D, Top.node, Top.k)
    BY <1>1, EndsReturn
  <2>2. QED
    BY <1>1, <2>1 DEF SectionEnd
<1>3. /\ FrameGood(t, D, m, ast, code, term, Top) /\ FrameShape(Top, lang)
      /\ TypeOK /\ Extends(m, m)
  BY TopGood, ReadyParts, SelfExtends
<1>4. CASE lang = "sol"
  <2>1. Top.exit # 0
    BY <1>1, <1>3, <1>4 DEF FrameShape, SlotsInUse, Slots
  <2>2. m[Top.exit] = Returned
    BY <1>1, <1>3, <2>1 DEF FrameGood
  <2>3. QED
    BY <1>1, <1>2, <1>4, <2>1, <2>2, TailGood
<1>5. CASE lang # "sol"
  <2>1. Goes(t, D, m, Ret, EndPoint(t, D, m[ins], code[ins]))
    BY <1>2, GoesProps
  <2>2. \A x \in Block' : BlockGood(t, D, m, x, code'[x], term'[x])
    BY <1>1, <1>3, <1>5, <2>1, OneGood, ReadyParts
  <2>3. \A x \in Block' : EntryGood(t, D, m, fn', x)
    BY <1>1, <1>3, <1>5, EntriesKept, ReadyParts
  <2>4. QED
    BY <2>2, <2>3 DEF GraphMeant
<1>6. QED
  BY <1>4, <1>5

-----------------------------------------------------------------------------
(* The blocks do what every text that is still possible means. *)

LEMMA LineMeant ==
  ASSUME NEW t, NEW D, NEW m, Ready(t, D, m), PilesInv,
         EmitAct \/ EmitRequire \/ EmitRevert \/ EmitReturn \/ EmitJump
  PROVE  \E n : GraphMeant(t, D, n)' /\ CallsMeant(t, D, n)'
BY EmitActMeant, EmitRequireMeant, EmitRevertMeant, EmitReturnMeant, EmitJumpMeant

LEMMA OpenMeant ==
  ASSUME NEW t, NEW D, NEW m, Ready(t, D, m),
         \/ OpenIf \/ OpenWhile \/ OpenFor \/ OpenAsmFor \/ OpenSwitch \/ OpenFun
         \/ OpenCase \/ OpenDefault
  PROVE  \E n : GraphMeant(t, D, n)' /\ CallsMeant(t, D, n)'
BY OpenIfMeant, OpenWhileMeant, OpenForMeant, OpenAsmForMeant, OpenSwitchMeant, OpenFunMeant,
   OpenCaseMeant, OpenDefaultMeant

LEMMA EndMeant ==
  ASSUME NEW t, NEW D, NEW m, Ready(t, D, m),
         \/ EndThen \/ EndElse \/ EndWhile \/ EndAsmInit \/ EndForBody \/ EndFor
         \/ EndCase \/ EndSwitch \/ EndFun
  PROVE  \E n : GraphMeant(t, D, n)' /\ CallsMeant(t, D, n)'
BY EndThenMeant, EndElseMeant, EndAsmInitMeant, EndForBodyMeant, EndCaseMeant, EndSwitchMeant,
   EndFunMeant

LEMMA StepMeant ==
  ASSUME NEW t, NEW D, NEW m, Ready(t, D, m), PilesInv, Statement \/ Section
  PROVE  pc' \in {"emit", "done"} =>
           \E n : GraphMeant(t, D, n)' /\ (pc' = "emit" => CallsMeant(t, D, n)')
<1>1. CASE EmitAct \/ EmitRequire \/ EmitRevert \/ EmitReturn \/ EmitJump
  BY <1>1, LineMeant
<1>2. CASE \/ OpenIf \/ OpenWhile \/ OpenFor \/ OpenAsmFor \/ OpenSwitch \/ OpenFun
           \/ OpenCase \/ OpenDefault
  BY <1>2, OpenMeant
<1>3. CASE \/ EndThen \/ EndElse \/ EndWhile \/ EndAsmInit \/ EndForBody \/ EndFor
           \/ EndCase \/ EndSwitch \/ EndFun
  BY <1>3, EndMeant
<1>4. CASE LeaveUndefined \/ JumpOutsideLoop
  <2>1. pc' \notin {"emit", "done"}
    BY <1>4 DEF LeaveUndefined, JumpOutsideLoop
  <2>2. QED
    BY <2>1
<1>5. CASE EndRoot
  <2>1. GraphMeant(t, D, m)'
    BY <1>5, EndRootMeant
  <2>2. pc' # "emit"
    BY <1>5 DEF EndRoot
  <2>3. QED
    BY <2>1, <2>2
<1>6. QED
  BY <1>1, <1>2, <1>3, <1>4, <1>5 DEF Statement, Section

\* What the text may be after a step it may be before it.
LEMMA StepText ==
  ASSUME EmitterInv, Nested, Statement \/ Section, NEW t, Text(t, ast', work')
  PROVE  pc = "emit" /\ Tree(ast') /\ Text(t, ast, work)
<1>1. CASE ~EndRoot
  <2>1. TypeOK /\ StackShape /\ pc = "emit" /\ \E m : Moves(m)
    BY <1>1, StepMoves
  <2>2. PICK m : Moves(m)
    BY <2>1
  <2>3. Tree(ast) /\ Stacked
    BY <2>1 DEF Nested
  <2>4. Tree(ast')
    BY <2>1, <2>2, <2>3, MovesStack
  <2>5. Text(t, ast, work)
    BY <2>1, <2>2, <2>3, TextBack
  <2>6. QED
    BY <2>1, <2>4, <2>5
<1>2. CASE EndRoot
  <2>1. pc = "emit" /\ Top.k = "root" /\ Return /\ ast' = ast
    BY <1>2 DEF EndRoot
  <2>2. Tree(ast') /\ TypeOK /\ StackShape
    BY <2>1 DEF Nested, EmitterInv, Shape
  <2>3. Len(work) = 1 /\ work \in Seq(FrameType)
    BY <2>2, <2>1, TopType
  <2>4. Len(work') = 0
    BY <2>1, <2>2, <2>3, FrontProps DEF Return, StackShape
  <2>5. \A p \in (Len(ast) + 1)..Len(t) : ~(t[p].up <= Len(ast))
    BY <2>1, <2>4 DEF Text
  <2>6. QED
    BY <2>1, <2>2, <2>5 DEF Text
<1>3. QED
  BY <1>1, <1>2

LEMMA SoundStays == Sound /\ UNCHANGED vars => Sound'
<1>1. SUFFICES ASSUME Sound, UNCHANGED vars PROVE Sound'
  OBVIOUS
<1>2. /\ pc' = pc /\ ast' = ast /\ work' = work /\ ret' = ret /\ nb' = nb /\ fn' = fn
      /\ term' = term /\ code' = code /\ ins' = ins
  BY <1>1 DEF vars
<1>3. Block' = Block /\ Top' = Top
  BY <1>2 DEF Block, Top
<1>4. ASSUME NEW t, NEW D, NEW m
      PROVE  (GraphMeant(t, D, m)' <=> GraphMeant(t, D, m)) /\ (CallsMeant(t, D, m)' <=> CallsMeant(t, D, m))
  BY <1>2, <1>3 DEF GraphMeant, CallsMeant
<1>5. QED
  BY <1>1, <1>2, <1>4 DEF Sound

LEMMA SoundInductive == EmitterInv /\ Nested /\ PilesInv /\ Sound /\ [Next]_vars => Sound'
<1>1. SUFFICES ASSUME EmitterInv, Nested, PilesInv, Sound, [Next]_vars PROVE Sound'
  OBVIOUS
<1>2. CASE UNCHANGED vars
  BY <1>1, <1>2, SoundStays
<1>3. CASE Finished
  BY <1>1, <1>3, SoundStays DEF Finished
<1>4. CASE Statement \/ Section
  <2>1. SUFFICES ASSUME pc' \in {"emit", "done"}, NEW t, NEW D,
                        Text(t, ast', work'), Fixed(t, D)
                 PROVE  \E n : GraphMeant(t, D, n)' /\ (pc' = "emit" => CallsMeant(t, D, n)')
    BY DEF Sound
  <2>2. pc = "emit" /\ Tree(ast') /\ Text(t, ast, work)
    BY <1>1, <1>4, <2>1, StepText
  <2>3. PICK m : GraphMeant(t, D, m) /\ CallsMeant(t, D, m)
    BY <1>1, <2>1, <2>2 DEF Sound
  <2>4. Shape /\ Tree(ast) /\ Stacked
    BY <1>1, <2>2 DEF EmitterInv, Nested
  <2>5. Ready(t, D, m)
    BY <2>1, <2>2, <2>3, <2>4 DEF Ready
  <2>6. QED
    BY <1>1, <1>4, <2>1, <2>5, StepMeant
<1>5. QED
  BY <1>1, <1>2, <1>3, <1>4 DEF Next

-----------------------------------------------------------------------------
(* Where the emitter begins. *)

LEMMA BeginningMeant ==
  ASSUME NEW t, NEW D, NEW m, NEW f, nb \in Nat \ {0}, work = <<f>>, f.k = "root", f.node = 0,
         f.cond = 0, f.body = 0, f.next = 0,
         f.exit # 0 => f.exit \in Block /\ m[f.exit] = Returned,
         ret # 0 => m[ret] = Returned,
         fn = [b \in 1..nb |-> 0], code = [b \in 1..nb |-> <<>>], ins \in Block,
         m[1] = D[Into(0, "root")],
         \A b \in Block : Goes(t, D, m, term[b], m[b]),
         IsCursor(D, ast, 0, "root", m[ins])
  PROVE  GraphMeant(t, D, m) /\ CallsMeant(t, D, m)
<1>1. \A b \in Block : fn[b] = 0 /\ code[b] = <<>>
  BY DEF Block
<1>2. \A b \in Block : BlockGood(t, D, m, b, code[b], term[b])
  BY <1>1, EmptyGood
<1>3. \A b \in Block : EntryGood(t, D, m, fn, b)
  <2>1. TAKE b \in Block
  <2>2. CASE b = 1
    BY <1>1, <2>2 DEF EntryGood, Follow
  <2>3. CASE b # 1
    <3>1. 1 \in 1..(b - 1) /\ 1 \in Block
      BY <2>3 DEF Block
    <3>2. fn[1] = fn[b] /\ fn[b] = 0
      BY <1>1, <3>1
    <3>3. QED
      BY <3>1, <3>2 DEF EntryGood
  <2>4. QED
    BY <2>2, <2>3
<1>4. Top = f /\ Len(work) = 1 /\ \A i \in 1..Len(work) : work[i] = f
  BY DEF Top
<1>5. FrameGood(t, D, m, ast, code, term, f)
  <2>1. \A s \in Slots : f[s] # 0 => code[f[s]] = <<>>
    <3>1. f.exit # 0 => code[f.exit] = <<>>
      BY <1>1
    <3>2. QED
      BY <3>1 DEF Slots
  <2>2. QED
    BY <2>1 DEF FrameGood
<1>6. IsCursor(D, ast, Top.node, Top.k, EndPoint(t, D, m[ins], code[ins]))
  <2>1. Top.node = 0 /\ Top.k = "root" /\ EndPoint(t, D, m[ins], code[ins]) = m[ins]
    BY <1>1, <1>4 DEF EndPoint
  <2>2. QED
    BY <2>1
<1>7. QED
  BY <1>2, <1>3, <1>4, <1>5, <1>6 DEF GraphMeant, CallsMeant

LEMMA NoneGoes == \A t, D, m, v : Goes(t, D, m, None, v)
BY DEF Goes, None, Terminator

LEMMA SoundInit == Init => Sound
<1>1. SUFFICES ASSUME Init, NEW t, NEW D, Text(t, ast, work), Fixed(t, D)
               PROVE  \E m : GraphMeant(t, D, m) /\ CallsMeant(t, D, m)
  BY DEF Sound
<1>2. fn = [b \in 1..nb |-> 0] /\ code = [b \in 1..nb |-> <<>>]
  BY <1>1 DEF Init
<1>3. CASE InitYul
  <2>1. PICK f, m : f = Call("root", 0) /\ m = [b \in 1..1 |-> D[Into(0, "root")]]
    OBVIOUS
  <2>2. /\ nb = 1 /\ ins = 1 /\ ret = 0 /\ work = <<f>> /\ ast = <<>> /\ term[1] = None
        /\ m[1] = D[Into(0, "root")] /\ \A b \in 1..1 : b = 1
    BY <1>3, <2>1 DEF InitYul
  <2>3. f.k = "root" /\ f.node = 0 /\ f.cond = 0 /\ f.body = 0 /\ f.next = 0 /\ f.exit = 0
    BY <2>1 DEF Call
  <2>4. IsCursor(D, ast, 0, "root", m[ins])
    BY <2>2 DEF IsCursor, Members
  <2>5. \A b \in Block : Goes(t, D, m, term[b], m[b])
    BY <2>2, NoneGoes DEF Block
  <2>6. nb \in Nat \ {0} /\ ins \in Block
    BY <2>2 DEF Block
  <2>7. GraphMeant(t, D, m) /\ CallsMeant(t, D, m)
    BY <1>2, <2>2, <2>3, <2>4, <2>5, <2>6, BeginningMeant
  <2>8. QED
    BY <2>7
<1>4. CASE InitSol /\ nb = 2
  <2>1. PICK f, m : /\ f = [Call("root", 0) EXCEPT !.exit = 2]
                    /\ m = [b \in 1..2 |-> IF b = 1 THEN D[Into(0, "root")] ELSE Returned]
    OBVIOUS
  <2>2. /\ ins = 1 /\ ret = 2 /\ work = <<f>> /\ ast = <<>> /\ term = [b \in 1..2 |-> None]
        /\ m[1] = D[Into(0, "root")] /\ m[2] = Returned
    BY <1>4, <2>1 DEF InitSol
  <2>3. f.k = "root" /\ f.node = 0 /\ f.cond = 0 /\ f.body = 0 /\ f.next = 0 /\ f.exit = 2
    BY <2>1 DEF Call
  <2>4. IsCursor(D, ast, 0, "root", m[ins])
    BY <2>2 DEF IsCursor, Members
  <2>5. \A b \in Block : Goes(t, D, m, term[b], m[b])
    BY <1>4, <2>2, NoneGoes DEF Block
  <2>6. nb \in Nat \ {0} /\ ins \in Block /\ 2 \in Block
    BY <1>4, <2>2 DEF Block
  <2>7. GraphMeant(t, D, m) /\ CallsMeant(t, D, m)
    BY <1>2, <2>2, <2>3, <2>4, <2>5, <2>6, BeginningMeant
  <2>8. QED
    BY <2>7
<1>5. CASE InitSol /\ nb = 4
  <2>1. PICK f, m : /\ f = [Call("root", 0) EXCEPT !.exit = 2]
                    /\ m = <<D[Into(0, "root")], Returned, D[Behind(1)], Reverted>>
    OBVIOUS
  <2>2. /\ ins = 3 /\ ret = 2 /\ work = <<f>>
        /\ ast = <<[k |-> "payable", up |-> 0, sec |-> "root"]>>
        /\ term = <<CondBr(4, 3, 1), None, None, Unreachable(1)>>
    BY <1>5, <2>1 DEF InitSol
  <2>3. /\ m[1] = D[Into(0, "root")] /\ m[2] = Returned /\ m[3] = D[Behind(1)]
        /\ m[4] = Reverted
    BY <2>1
  <2>4. f.k = "root" /\ f.node = 0 /\ f.cond = 0 /\ f.body = 0 /\ f.next = 0 /\ f.exit = 2
    BY <2>1 DEF Call
  <2>5. /\ Len(ast) = 1 /\ DOMAIN ast = 1..1 /\ ast[1].k = "payable" /\ ast[1].up = 0
        /\ ast[1].sec = "root"
    BY <2>2
  <2>6. /\ Tree(t) /\ Len(t) \in Nat /\ DOMAIN t = 1..Len(t) /\ 1 \in 1..Len(t)
        /\ Kind(t, 1) = "payable" /\ t[1].up = 0 /\ t[1].sec = "root"
    <3>1. Tree(t) /\ Len(t) \in Nat /\ DOMAIN t = 1..Len(t)
      BY <1>1, TextParts
    <3>2. Len(ast) <= Len(t) /\ \A p \in 1..Len(ast) : t[p] = ast[p]
      BY <1>1, TextParts
    <3>3. 1 <= Len(t) /\ t[1] = ast[1]
      BY <2>5, <3>1, <3>2
    <3>4. QED
      BY <2>5, <3>1, <3>3 DEF Kind
  <2>7. D[Into(0, "root")] = At(1)
    <3>1. 0 \in 0..Len(t) /\ "root" \in Sections
      BY <2>6 DEF Sections
    <3>2. D[Into(0, "root")] = FromInto(t, D, 0, "root")
      BY <1>1, <3>1, PlaceParts DEF Fixed
    <3>3. /\ Members(t, 0, "root") \subseteq Nat /\ 1 \in Members(t, 0, "root")
          /\ \A y \in Members(t, 0, "root") : 1 <= y
      BY <2>6 DEF Members
    <3>4. Min(Members(t, 0, "root")) = 1
      BY <3>3, MinIs
    <3>5. Enter(t, D, 1) = At(1)
      BY <2>6 DEF Enter
    <3>6. QED
      BY <3>2, <3>3, <3>4, <3>5 DEF FromInto
  <2>8. /\ Outcomes(t, 1) = {1, 2} /\ Follow(t, D, 1, 1) = Reverted
        /\ Follow(t, D, 1, 2) = D[Behind(1)]
    BY <2>6 DEF Outcomes, Follow
  <2>9. /\ Goes(t, D, m, CondBr(4, 3, 1), m[1]) /\ Goes(t, D, m, Unreachable(1), m[4])
    BY <2>3, <2>7, <2>8, GoesProps
  <2>10. \A b \in Block : Goes(t, D, m, term[b], m[b])
    <3>1. \A b \in Block : b \in {1, 2, 3, 4}
      BY <1>5 DEF Block
    <3>2. /\ term[1] = CondBr(4, 3, 1) /\ term[2] = None /\ term[3] = None
          /\ term[4] = Unreachable(1)
      BY <2>2
    <3>3. QED
      BY <2>9, <3>1, <3>2, NoneGoes
  <2>11. IsCursor(D, ast, 0, "root", m[ins])
    <3>1. 1 \in Members(ast, 0, "root") /\ \A r \in Members(ast, 0, "root") : r <= 1
      BY <2>5 DEF Members
    <3>2. QED
      BY <2>2, <2>3, <3>1 DEF IsCursor
  <2>12. nb \in Nat \ {0} /\ ins \in Block /\ 2 \in Block
    BY <1>5, <2>2 DEF Block
  <2>13. GraphMeant(t, D, m) /\ CallsMeant(t, D, m)
    BY <1>2, <2>2, <2>3, <2>4, <2>10, <2>11, <2>12, BeginningMeant
  <2>14. QED
    BY <2>13
<1>6. QED
  BY <1>1, <1>3, <1>4, <1>5 DEF Init, InitSol

-----------------------------------------------------------------------------
(* The blocks executed. *)

\* The point that control is on the way to at position l.
Heading(t, D, m, l) ==
  IF l.i = 1 THEN m[l.b] ELSE Follow(t, D, code[l.b][l.i - 1], 1)

RunType == [st : {"idle", "running", "return", "revert"}, node : Nat, val : Nat]

\* A run at work stands in a block, on the way to the point that the tree
\* says comes next.
ExecInv ==
  /\ run \in RunType /\ loc \in [b : Nat, i : Nat]
  /\ run.st # "idle" => pc = "done"
  /\ run.st = "running" =>
       /\ JumpsHaveMeaning
       /\ loc.b \in Block /\ loc.i \in 1..(Len(code[loc.b]) + 1)
       /\ \A D : Fixed(ast, D) =>
            \E m : /\ GraphMeant(ast, D, m)
                   /\ Follow(ast, D, run.node, run.val) = Heading(ast, D, m, loc)

GraphInv == EmitterInv /\ Nested /\ PilesInv /\ Sound

LEMMA HeadingInside ==
  ASSUME NEW t, NEW D, NEW m, NEW l, l.b \in Block, l.i \in Nat,
         Len(code[l.b]) \in Nat, DOMAIN code[l.b] = 1..Len(code[l.b]),
         BlockGood(t, D, m, l.b, code[l.b], term[l.b]), l.i \in 1..Len(code[l.b])
  PROVE  Heading(t, D, m, l) = At(code[l.b][l.i])
<1>1. Straight(t, D, m[l.b], code[l.b])
  BY DEF BlockGood
<1>2. CASE l.i = 1
  <2>1. code[l.b] # <<>>
    BY <1>2
  <2>2. QED
    BY <1>1, <1>2, <2>1 DEF Straight, Heading
<1>3. CASE l.i # 1
  <2>1. l.i \in 2..Len(code[l.b])
    BY <1>3
  <2>2. QED
    BY <1>1, <1>3, <2>1 DEF Straight, Heading
<1>4. QED
  BY <1>2, <1>3

LEMMA HeadingEnd ==
  ASSUME NEW t, NEW D, NEW m, NEW l, l.b \in Block, l.i \in Nat,
         Len(code[l.b]) \in Nat, DOMAIN code[l.b] = 1..Len(code[l.b]), code[l.b] \in Seq(Nat), l.i = Len(code[l.b]) + 1
  PROVE  Heading(t, D, m, l) = EndPoint(t, D, m[l.b], code[l.b])
<1>1. CASE code[l.b] = <<>>
  BY <1>1 DEF Heading, EndPoint
<1>2. CASE code[l.b] # <<>>
  <2>1. Len(code[l.b]) # 0
    BY <1>2, EmptySeq
  <2>2. l.i # 1 /\ l.i - 1 = Len(code[l.b])
    BY <2>1
  <2>3. QED
    BY <1>2, <2>2 DEF Heading, EndPoint
<1>3. QED
  BY <1>1, <1>2

\* The source is its own text when the emitter is done.
LEMMA OwnText == ASSUME GraphInv, JumpsHaveMeaning PROVE Text(ast, ast, work)
<1>1. Tree(ast) /\ JumpsInLoops(ast)
  BY DEF GraphInv, Nested, JumpsHaveMeaning
<1>2. Len(ast) \in Nat
  BY <1>1 DEF Tree
<1>3. QED
  BY <1>1, <1>2 DEF Text

LEMMA OneIsOutcome == ASSUME NEW t, Tree(t), NEW p PROVE 1 \in Outcomes(t, p)
<1>1. Cardinality(Cases(t, p)) \in Nat
  BY CasesFinite, FS_CardinalityType
<1>2. QED
  BY <1>1 DEF Outcomes

-----------------------------------------------------------------------------
(* The definitions of the source are those of the lowering. *)

LEMMA SameTree ==
  /\ \A t, p : Source!Kind(t, p) = Kind(t, p)
  /\ \A t, p, s : Source!Members(t, p, s) = Members(t, p, s)
  /\ \A t, p : Source!Later(t, p) = Later(t, p)
  /\ \A t, p : Source!Around(t, p) = Around(t, p)
BY DEF Source!Kind, Kind, Source!Members, Members, Source!Later, Later, Source!Around, Around

LEMMA SameLoop == \A t, p : Source!LoopOf(t, p) = LoopOf(t, p)
BY DEF Source!LoopOf, LoopOf, Source!Max, Max, Source!Around, Around

LEMMA SameMin == \A S : Source!Min(S) = Min(S)
BY DEF Source!Min, Min

LEMMA SameCount == \A S : Source!Cardinality(S) = Cardinality(S)
BY DEF Source!Cardinality, Cardinality

LEMMA SameCases ==
  /\ \A t, p : Source!Cases(t, p) = Cases(t, p)
  /\ \A t, p : Source!Default(t, p) = Default(t, p)
BY DEF Source!Cases, Cases, Source!Default, Default,
  Source!Members, Members, Source!Kind, Kind

LEMMA SameNth == \A t, p, i : Source!NthCase(t, p, i) = NthCase(t, p, i)
<1>1. TAKE t, p, i
<1>2. PICK C : C = Cases(t, p) /\ C = Source!Cases(t, p)
  BY SameCases
<1>3. \A q : Source!Cardinality({r \in C : r <= q}) = Cardinality({r \in C : r <= q})
  BY SameCount
<1>4. QED
  BY <1>2, <1>3 DEF Source!NthCase, NthCase

LEMMA SameOutcomes == \A t, p : Source!Outcomes(t, p) = Outcomes(t, p)
BY DEF Source!Outcomes, Outcomes, Source!Cases, Cases, Source!Members, Members, Source!Kind, Kind,
  Source!Cardinality

LEMMA SamePlaces ==
  /\ \A p, s : Source!Into(p, s) = Into(p, s)
  /\ \A p : Source!Behind(p) = Behind(p)
  /\ \A p : Source!NoCase(p) = NoCase(p)
  /\ \A t : Source!Places(t) = Places(t)
  /\ \A p : Source!At(p) = At(p)
  /\ Source!Returned = Returned /\ Source!Reverted = Reverted
BY DEF Source!Into, Into, Source!Behind, Behind, Source!NoCase, NoCase, Source!Place, Place,
  Source!Places, Places, Source!Sections, Sections, Source!At, At, Source!Returned, Returned,
  Source!Reverted, Reverted

LEMMA SameSectionEnd == \A f, p, s : Source!SectionEnd(f, p, s) = SectionEnd(f, p, s)
BY SamePlaces DEF Source!SectionEnd, SectionEnd

LEMMA SameEnter == \A t, f, p : Source!Enter(t, f, p) = Enter(t, f, p)
BY SamePlaces, SameSectionEnd, SameTree, SameLoop DEF Source!Enter, Enter

LEMMA SameInto == \A t, f, p, s : Source!FromInto(t, f, p, s) = FromInto(t, f, p, s)
BY SamePlaces, SameSectionEnd, SameTree, SameEnter, SameMin
DEF Source!FromInto, FromInto

LEMMA SameBehind == \A t, f, p : Source!FromBehind(t, f, p) = FromBehind(t, f, p)
BY SamePlaces, SameSectionEnd, SameTree, SameEnter
DEF Source!FromBehind, FromBehind, Source!Min, Min

LEMMA SameNoCase == \A t, f, p : Source!FromNoCase(t, f, p) = FromNoCase(t, f, p)
BY SamePlaces, SameCases, SameMin DEF Source!FromNoCase, FromNoCase

LEMMA SameFrom == \A t, f, x : Source!From(t, f, x) = From(t, f, x)
BY SameInto, SameBehind, SameNoCase DEF Source!From, From

LEMMA SameFollow == \A t, f, p, v : Source!Follow(t, f, p, v) = Follow(t, f, p, v)
BY SamePlaces, SameTree, SameNth DEF Source!Follow, Follow

\* The order that the source speaks of exists and is a solution.
LEMMA SourcePoint ==
  ASSUME NEW t, Tree(t), JumpsInLoops(t)
  PROVE  Fixed(t, Source!Point(t))
<1>1. \E f : f = [x \in Places(t) |-> From(t, f, x)]
  BY PointExists
<1>2. PICK f : f = [x \in Places(t) |-> From(t, f, x)]
  BY <1>1
<1>3. f = [x \in Source!Places(t) |-> Source!From(t, f, x)]
  <2>1. Source!Places(t) = Places(t) /\ \A x : Source!From(t, f, x) = From(t, f, x)
    BY SamePlaces, SameFrom
  <2>2. QED
    BY <1>2, <2>1
<1>4. \E g : g = [x \in Source!Places(t) |-> Source!From(t, g, x)]
  BY <1>3
<1>5. Source!Point(t) = [x \in Source!Places(t) |-> Source!From(t, Source!Point(t), x)]
  BY <1>4, Zenon DEF Source!Point
<1>6. PICK D : D = Source!Point(t)
  OBVIOUS
<1>7. D = [x \in Source!Places(t) |-> Source!From(t, D, x)]
  BY <1>5, <1>6
<1>8. Fixed(t, D)
  <2>1. Source!Places(t) = Places(t) /\ \A x : Source!From(t, D, x) = From(t, D, x)
    BY SamePlaces, SameFrom
  <2>2. QED
    BY <1>7, <2>1 DEF Fixed
<1>9. QED
  BY <1>6, <1>8

-----------------------------------------------------------------------------
(* Steps of the execution. *)

LEMMA StepEmits == Statement \/ Section => pc = "emit"
BY DEF Statement, EmitAct, EmitRequire, EmitRevert, EmitReturn, LeaveUndefined, EmitJump,
  JumpOutsideLoop, MayJump, OpenIf, OpenThen, OpenWhile, OpenFor, OpenAsmFor, OpenSwitch, OpenFun,
  MayCome, Section, EndThen, EndElse, EndWhile, EndAsmInit, EndForBody, EndFor, OpenCase,
  OpenDefault, EndCase, EndSwitch, EndFun, EndRoot

LEMMA StepReads == Statement \/ Section => ast' = ast \/ \E k : Visit(k)
<1>1. Statement => \E k : Visit(k)
  BY DEF Statement, EmitAct, EmitRequire, EmitRevert, EmitReturn, LeaveUndefined, EmitJump,
    JumpOutsideLoop, OpenIf, OpenThen, OpenWhile, OpenFor, OpenAsmFor, OpenSwitch, OpenFun
<1>2. Section => ast' = ast \/ \E k : Visit(k)
  BY DEF Section, EndThen, EndElse, EndWhile, EndAsmInit, EndForBody, EndFor, OpenCase,
    OpenDefault, EndCase, EndSwitch, EndFun, EndRoot
<1>3. QED
  BY <1>1, <1>2

LEMMA GraphStays == GraphInv /\ [Next]_vars => GraphInv'
BY EmissionInductive, NestedInductive, PilesInductive, SoundInductive DEF GraphInv

LEMMA GraphBegins == Init => GraphInv
<1>1. Init => EmitterInv
  BY InitShape DEF EmitterInv, AllBlocksTerminated, Shape
<1>2. QED
  BY <1>1, NestedInit, PilesInit, SoundInit DEF GraphInv

\* In every reachable state the blocks mean what the statements read so far
\* mean, and the blocks that the emit* functions at work have still to come
\* to mean what follows, whatever the rest of the function turns out to be.
THEOREM BlocksMeanTheSource == Spec => []Sound
<1>1. GraphInv => Sound
  BY DEF GraphInv
<1>2. QED
  BY <1>1, GraphBegins, GraphStays, PTL DEF Spec

\* A run at work, and what the position says of the step that is due.
LEMMA RunParts ==
  ASSUME GraphInv, ExecInv, run.st = "running"
  PROVE  /\ run \in RunType /\ JumpsHaveMeaning /\ Tree(ast) /\ pc = "done" /\ TypeOK
         /\ loc.b \in Block /\ loc.i \in 1..(Len(code[loc.b]) + 1)
         /\ Len(code[loc.b]) \in Nat /\ DOMAIN code[loc.b] = 1..Len(code[loc.b])
         /\ code[loc.b] \in Seq(Nat) /\ Exit \in TermType /\ Exit.op # "none"
<1>1. /\ run \in RunType /\ JumpsHaveMeaning /\ Tree(ast) /\ pc = "done" /\ TypeOK
      /\ loc.b \in Block /\ loc.i \in 1..(Len(code[loc.b]) + 1)
  BY DEF ExecInv, GraphInv, EmitterInv, Nested
<1>2. code[loc.b] \in Seq(Nat) /\ term[loc.b] \in TermType
  BY <1>1 DEF TypeOK
<1>3. term[loc.b].op # "none"
  BY <1>1 DEF GraphInv, EmitterInv, AllBlocksTerminated, Terminated
<1>4. Len(code[loc.b]) \in Nat /\ DOMAIN code[loc.b] = 1..Len(code[loc.b])
  BY <1>2
<1>5. QED
  BY <1>1, <1>2, <1>3, <1>4 DEF Exit

LEMMA RunMeans ==
  ASSUME GraphInv, ExecInv, run.st = "running", NEW D, Fixed(ast, D)
  PROVE  \E m : /\ GraphMeant(ast, D, m)
                /\ Follow(ast, D, run.node, run.val) = Heading(ast, D, m, loc)
                /\ ~Ended => Heading(ast, D, m, loc) = At(code[loc.b][loc.i])
                /\ Ended => Goes(ast, D, m, Exit, Heading(ast, D, m, loc))
<1>1. PICK m : /\ GraphMeant(ast, D, m)
               /\ Follow(ast, D, run.node, run.val) = Heading(ast, D, m, loc)
  BY DEF ExecInv
<1>2. /\ loc.b \in Block /\ loc.i \in 1..(Len(code[loc.b]) + 1) /\ loc.i \in Nat
      /\ Len(code[loc.b]) \in Nat /\ DOMAIN code[loc.b] = 1..Len(code[loc.b])
      /\ code[loc.b] \in Seq(Nat)
  BY RunParts
<1>3. BlockGood(ast, D, m, loc.b, code[loc.b], term[loc.b])
  BY <1>1, <1>2 DEF GraphMeant
<1>4. ASSUME ~Ended PROVE Heading(ast, D, m, loc) = At(code[loc.b][loc.i])
  <2>1. loc.i \in 1..Len(code[loc.b])
    BY <1>2, <1>4 DEF Ended
  <2>2. QED
    BY <1>2, <1>3, <2>1, HeadingInside
<1>5. ASSUME Ended PROVE Goes(ast, D, m, Exit, Heading(ast, D, m, loc))
  <2>1. loc.i = Len(code[loc.b]) + 1
    BY <1>2, <1>5 DEF Ended
  <2>2. Heading(ast, D, m, loc) = EndPoint(ast, D, m[loc.b], code[loc.b])
    BY <1>2, <2>1, HeadingEnd
  <2>3. QED
    BY <1>3, <2>2 DEF BlockGood, Exit
<1>6. QED
  BY <1>1, <1>4, <1>5

LEMMA OwnGraph ==
  ASSUME GraphInv, pc = "done", JumpsHaveMeaning, NEW D, Fixed(ast, D)
  PROVE  \E m : GraphMeant(ast, D, m)
<1>1. Text(ast, ast, work)
  BY OwnText
<1>2. QED
  BY <1>1 DEF GraphInv, Sound

\* Where a function that is called begins.
LEMMA EntryMeant ==
  ASSUME GraphInv, NEW D, NEW m, GraphMeant(ast, D, m), NEW f \in {fn[b] : b \in Block},
         NEW e, e = Min({b \in Block : fn[b] = f})
  PROVE  /\ e \in Block /\ m[e] = Follow(ast, D, f, 0) /\ f \in Nat
         /\ f # 0 => f \in DOMAIN ast /\ Kind(ast, f) = "fun"
<1>1. PICK B : B = {b \in Block : fn[b] = f}
  OBVIOUS
<1>2. B \subseteq Nat /\ B # {}
  BY <1>1 DEF Block
<1>3. e \in B /\ \A b \in B : e <= b
  BY <1>1, <1>2, MinProps
<1>4. e \in Block /\ fn[e] = f /\ f \in Nat /\ e \in Nat \ {0} /\ nb \in Nat /\ e <= nb
  BY <1>1, <1>3 DEF Block, GraphInv, EmitterInv, TypeOK
<1>5. \A d \in 1..(e - 1) : fn[d] # fn[e]
  <2>1. TAKE d \in 1..(e - 1)
  <2>2. d \in Block /\ d < e
    BY <1>4 DEF Block
  <2>3. QED
    BY <1>1, <1>3, <1>4, <2>2
<1>6. EntryGood(ast, D, m, fn, e)
  BY <1>4 DEF GraphMeant
<1>7. m[e] = Follow(ast, D, f, 0)
  BY <1>4, <1>5, <1>6 DEF EntryGood
<1>8. f # 0 => f \in DOMAIN ast /\ Kind(ast, f) = "fun"
  <2>1. DOMAIN ast = 1..Len(ast)
    BY DEF GraphInv, Nested, Tree
  <2>2. QED
    BY <1>4, <1>6, <2>1 DEF EntryGood
<1>9. QED
  BY <1>4, <1>7, <1>8

LEMMA ExecStays == ExecInv /\ UNCHANGED evars => ExecInv'
<1>1. SUFFICES ASSUME ExecInv, UNCHANGED evars PROVE ExecInv'
  OBVIOUS
<1>2. /\ pc' = pc /\ ast' = ast /\ nb' = nb /\ fn' = fn /\ term' = term /\ code' = code
      /\ loc' = loc /\ run' = run
  BY <1>1 DEF evars
<1>3. Block' = Block
  BY <1>2 DEF Block
<1>4. ASSUME NEW D, NEW m
      PROVE  /\ GraphMeant(ast, D, m)' <=> GraphMeant(ast, D, m)
             /\ Heading(ast, D, m, loc)' = Heading(ast, D, m, loc)
  BY <1>2, <1>3 DEF GraphMeant, Heading
<1>5. QED
  BY <1>1, <1>2, <1>3, <1>4 DEF ExecInv, JumpsHaveMeaning

\* The run goes on in the graph as it is.
LEMMA RunStays ==
  ASSUME GraphInv, UNCHANGED vars, JumpsHaveMeaning, pc = "done", run' \in RunType,
         run'.st = "running", loc' \in [b : Nat, i : Nat],
         loc'.b \in Block, loc'.i \in 1..(Len(code[loc'.b]) + 1),
         \A D : Fixed(ast, D) =>
           \E m : /\ GraphMeant(ast, D, m)
                  /\ Follow(ast, D, run'.node, run'.val) = Heading(ast, D, m, loc')
  PROVE  ExecInv'
<1>1. /\ pc' = pc /\ ast' = ast /\ nb' = nb /\ fn' = fn /\ term' = term /\ code' = code
  BY DEF vars
<1>2. Block' = Block
  BY <1>1 DEF Block
<1>3. ASSUME NEW D, NEW m
      PROVE  /\ GraphMeant(ast, D, m)' <=> GraphMeant(ast, D, m)
             /\ Heading(ast, D, m, loc)' = Heading(ast, D, m, loc')
  BY <1>1, <1>2 DEF GraphMeant, Heading
<1>4. QED
  BY <1>1, <1>2, <1>3 DEF ExecInv, JumpsHaveMeaning

LEMMA StepPass ==
  ASSUME run.st = "running", ast' = ast, NEW to,
         to = Follow(ast, Source!Point(ast), run.node, run.val),
         \/ /\ to.st = "running"
            /\ \E v \in Outcomes(ast, to.node) :
                 run' = [st |-> "running", node |-> to.node, val |-> v]
         \/ to.st # "running" /\ run' = [run EXCEPT !.st = to.st]
  PROVE  Source!Pass
<1>1. to = Source!Follow(ast, Source!Point(ast), run.node, run.val)
  BY SameFollow
<1>2. \A n : Source!Outcomes(ast, n) = Outcomes(ast, n)
  BY SameOutcomes
<1>3. QED
  BY <1>1, <1>2 DEF Source!Pass

LEMMA StartStep ==
  ASSUME GraphInv, ExecInv, Start
  PROVE  ExecInv' /\ Source!Begin
<1>1. PICK f, e :
        /\ f \in {fn[b] : b \in Block}
        /\ e = Min({b \in Block : fn[b] = f})
        /\ run' = [st |-> "running", node |-> f, val |-> 0]
        /\ loc' = [b |-> e, i |-> 1]
  BY DEF Start
<1>2. /\ pc = "done" /\ JumpsHaveMeaning /\ UNCHANGED vars /\ ast' = ast /\ run.st = "idle"
      /\ Tree(ast) /\ JumpsInLoops(ast)
  BY DEF Start, vars, JumpsHaveMeaning, GraphInv, Nested
<1>3. PICK E : Fixed(ast, E)
  BY <1>2, SourcePoint
<1>4. PICK m : GraphMeant(ast, E, m)
  BY <1>2, <1>3, OwnGraph
<1>5. e \in Block /\ f \in Nat /\ (f # 0 => f \in DOMAIN ast /\ Kind(ast, f) = "fun")
  BY <1>1, <1>4, EntryMeant
<1>6. \A D : Fixed(ast, D) =>
        \E n : /\ GraphMeant(ast, D, n)
               /\ Follow(ast, D, run'.node, run'.val) = Heading(ast, D, n, loc')
  <2>1. TAKE D
  <2>2. HAVE Fixed(ast, D)
  <2>3. PICK n : GraphMeant(ast, D, n)
    BY <1>2, <2>2, OwnGraph
  <2>4. n[e] = Follow(ast, D, f, 0)
    BY <1>1, <2>3, EntryMeant
  <2>5. Heading(ast, D, n, loc') = n[e] /\ run'.node = f /\ run'.val = 0
    BY <1>1 DEF Heading
  <2>6. QED
    BY <2>3, <2>4, <2>5
<1>7. ExecInv'
  <2>1. /\ run' \in RunType /\ run'.st = "running" /\ loc' \in [b : Nat, i : Nat]
        /\ loc'.b = e /\ loc'.i = 1
    BY <1>1, <1>5 DEF RunType, Block
  <2>2. Len(code[e]) \in Nat
    BY <1>5 DEF GraphInv, EmitterInv, TypeOK
  <2>3. loc'.i \in 1..(Len(code[loc'.b]) + 1)
    BY <2>1, <2>2
  <2>4. QED
    BY <1>2, <1>5, <1>6, <2>1, <2>3, RunStays
<1>8. Source!Begin
  <2>1. f \in {0} \cup {p \in DOMAIN ast : Source!Kind(ast, p) = "fun"}
    BY <1>5, SameTree
  <2>2. QED
    BY <1>1, <1>2, <2>1 DEF Source!Begin
<1>9. QED
  BY <1>7, <1>8

LEMMA InstructionStep ==
  ASSUME GraphInv, ExecInv, Instruction
  PROVE  ExecInv' /\ Source!Pass
<1>1. /\ run.st = "running" /\ ~Ended /\ UNCHANGED vars /\ ast' = ast
  BY DEF Instruction, Running, vars
<1>2. PICK b \in Block, i \in Nat : b = loc.b /\ i = loc.i /\ i \in 1..Len(code[b])
  BY <1>1, RunParts DEF Ended
<1>3. /\ run \in RunType /\ loc \in [b : Nat, i : Nat] /\ Len(code[b]) \in Nat
      /\ code[b][i] \in Nat /\ b \in Nat /\ i \in Nat
  BY <1>1, <1>2, RunParts DEF ExecInv, Block
<1>4. /\ run' = [st |-> "running", node |-> code[b][i], val |-> 1]
      /\ loc' = [b |-> b, i |-> i + 1]
  BY <1>1, <1>2, <1>3 DEF Instruction, RunType
<1>5. /\ run' \in RunType /\ run'.st = "running" /\ loc' \in [b : Nat, i : Nat]
      /\ loc'.b = b /\ loc'.i = i + 1 /\ run'.node = code[b][i] /\ run'.val = 1
  BY <1>3, <1>4 DEF RunType
<1>6. ASSUME NEW D, NEW m PROVE Heading(ast, D, m, loc') = Follow(ast, D, code[b][i], 1)
  <2>1. loc'.i # 1 /\ loc'.i - 1 = i
    BY <1>2, <1>3, <1>5
  <2>2. QED
    BY <1>5, <2>1 DEF Heading
<1>7. ExecInv'
  <2>1. \A D : Fixed(ast, D) =>
          \E m : /\ GraphMeant(ast, D, m)
                 /\ Follow(ast, D, run'.node, run'.val) = Heading(ast, D, m, loc')
    <3>1. TAKE D
    <3>2. HAVE Fixed(ast, D)
    <3>3. PICK m : GraphMeant(ast, D, m)
      BY <1>1, <3>2, RunMeans
    <3>4. QED
      BY <1>5, <1>6, <3>3
  <2>2. loc'.i \in 1..(Len(code[loc'.b]) + 1)
    BY <1>2, <1>3, <1>5
  <2>3. QED
    BY <1>1, <1>5, <2>1, <2>2, RunParts, RunStays
<1>8. Source!Pass
  <2>1. PICK D : D = Source!Point(ast)
    OBVIOUS
  <2>2. Tree(ast) /\ JumpsInLoops(ast)
    BY <1>1, RunParts DEF JumpsHaveMeaning
  <2>3. Fixed(ast, D)
    BY <2>1, <2>2, SourcePoint
  <2>4. Follow(ast, D, run.node, run.val) = At(code[b][i])
    BY <1>1, <1>2, <2>3, RunMeans
  <2>5. PICK to : to = Follow(ast, D, run.node, run.val)
    OBVIOUS
  <2>6. to.st = "running" /\ to.node = code[b][i] /\ 1 \in Outcomes(ast, code[b][i])
    BY <2>2, <2>4, <2>5, OneIsOutcome DEF At
  <2>7. \E v \in Outcomes(ast, to.node) : run' = [st |-> "running", node |-> to.node, val |-> v]
    BY <1>4, <2>6
  <2>8. QED
    BY <1>1, <2>1, <2>5, <2>6, <2>7, StepPass
<1>9. QED
  BY <1>7, <1>8

LEMMA BranchStep ==
  ASSUME GraphInv, ExecInv, Branch
  PROVE  ExecInv' /\ (Source!Pass \/ run' = run)
<1>1. /\ run.st = "running" /\ Ended /\ UNCHANGED vars /\ ast' = ast
  BY DEF Branch, Running, vars
<1>2. PICK v \in DOMAIN Exit.to :
        /\ loc' = [b |-> Exit.to[v], i |-> 1]
        /\ run' = IF Exit.op = "br" THEN run
                  ELSE [run EXCEPT !.node = Exit.node, !.val = v]
  BY DEF Branch
<1>3. PICK u : u = Exit
  OBVIOUS
<1>4. /\ run \in RunType /\ u \in TermType /\ u.op # "none" /\ Tree(ast) /\ JumpsInLoops(ast)
      /\ pc = "done" /\ JumpsHaveMeaning /\ TypeOK
  BY <1>1, <1>3, RunParts DEF JumpsHaveMeaning
<1>5. /\ v \in DOMAIN u.to /\ u.to[v] \in Block /\ u.node \in Nat /\ v \in Nat
      /\ u.op \in {"br", "cond", "switch", "unreachable", "ret"}
  BY <1>2, <1>3, <1>4 DEF TermType, TermsTo
<1>6. PICK e \in Block : e = u.to[v]
  BY <1>5
<1>7. /\ loc' = [b |-> e, i |-> 1]
      /\ u.op = "br" => run' = run
      /\ u.op # "br" => run' = [st |-> "running", node |-> u.node, val |-> v]
  BY <1>1, <1>2, <1>3, <1>4, <1>6 DEF RunType
<1>8. ASSUME NEW D, Fixed(ast, D)
      PROVE  \E m : /\ GraphMeant(ast, D, m)
                    /\ u.op = "br" => m[e] = Follow(ast, D, run.node, run.val)
                    /\ u.op # "br" =>
                         /\ Follow(ast, D, run.node, run.val) = At(u.node)
                         /\ v \in Outcomes(ast, u.node) /\ m[e] = Follow(ast, D, u.node, v)
  <2>1. PICK m : /\ GraphMeant(ast, D, m)
                 /\ Follow(ast, D, run.node, run.val) = Heading(ast, D, m, loc)
                 /\ Goes(ast, D, m, Exit, Heading(ast, D, m, loc))
    BY <1>1, <1>8, RunMeans
  <2>2. PICK w : w = Follow(ast, D, run.node, run.val)
    OBVIOUS
  <2>3. Goes(ast, D, m, u, w)
    BY <1>3, <2>1, <2>2
  <2>4. u.op \notin {"unreachable", "ret"}
    <3>1. u.to # <<>>
      BY <1>5
    <3>2. QED
      BY <2>3, <3>1 DEF Goes
  <2>5. u.op = "br" => m[e] = w
    BY <1>5, <1>6, <2>3 DEF Goes
  <2>6. u.op # "br" => w = At(u.node) /\ v \in Outcomes(ast, u.node)
                       /\ m[e] = Follow(ast, D, u.node, v)
    BY <1>5, <1>6, <2>3, <2>4 DEF Goes
  <2>7. QED
    BY <2>1, <2>2, <2>5, <2>6
<1>9. ExecInv'
  <2>1. /\ loc' \in [b : Nat, i : Nat] /\ loc'.b = e /\ loc'.i = 1
        /\ e \in Nat
    BY <1>7 DEF Block
  <2>2. run' \in RunType /\ run'.st = "running"
    BY <1>1, <1>4, <1>5, <1>7 DEF RunType
  <2>3. loc'.i \in 1..(Len(code[loc'.b]) + 1)
    <3>1. Len(code[e]) \in Nat
      BY <1>4 DEF TypeOK
    <3>2. QED
      BY <2>1, <3>1
  <2>4. \A D : Fixed(ast, D) =>
          \E m : /\ GraphMeant(ast, D, m)
                 /\ Follow(ast, D, run'.node, run'.val) = Heading(ast, D, m, loc')
    <3>1. TAKE D
    <3>2. HAVE Fixed(ast, D)
    <3>3. PICK m : /\ GraphMeant(ast, D, m)
                   /\ u.op = "br" => m[e] = Follow(ast, D, run.node, run.val)
                   /\ u.op # "br" => m[e] = Follow(ast, D, u.node, v)
      BY <1>8, <3>2
    <3>4. Heading(ast, D, m, loc') = m[e]
      BY <2>1 DEF Heading
    <3>5. Follow(ast, D, run'.node, run'.val) = m[e]
      BY <1>7, <3>3
    <3>6. QED
      BY <3>3, <3>4, <3>5
  <2>5. QED
    BY <1>1, <1>4, <2>1, <2>2, <2>3, <2>4, RunStays
<1>10. Source!Pass \/ run' = run
  <2>1. CASE u.op = "br"
    BY <1>7, <2>1
  <2>2. CASE u.op # "br"
    <3>1. PICK D : D = Source!Point(ast)
      OBVIOUS
    <3>2. Fixed(ast, D)
      BY <1>4, <3>1, SourcePoint
    <3>3. Follow(ast, D, run.node, run.val) = At(u.node) /\ v \in Outcomes(ast, u.node)
      BY <1>8, <2>2, <3>2
    <3>4. PICK to : to = Follow(ast, D, run.node, run.val)
      OBVIOUS
    <3>5. to.st = "running" /\ to.node = u.node
      BY <3>3, <3>4 DEF At
    <3>6. \E x \in Outcomes(ast, to.node) : run' = [st |-> "running", node |-> to.node, val |-> x]
      BY <1>7, <2>2, <3>3, <3>5
    <3>7. Source!Pass
      BY <1>1, <3>1, <3>4, <3>5, <3>6, StepPass
    <3>8. QED
      BY <3>7
  <2>3. QED
    BY <2>1, <2>2
<1>11. QED
  BY <1>9, <1>10

LEMMA StopStep ==
  ASSUME GraphInv, ExecInv, Stop
  PROVE  ExecInv' /\ Source!Pass
<1>1. /\ run.st = "running" /\ Ended /\ UNCHANGED vars /\ ast' = ast /\ loc' = loc
      /\ \/ Exit.op = "ret" /\ run' = [run EXCEPT !.st = "return"]
         \/ Exit.op = "unreachable" /\ run' = [run EXCEPT !.st = "revert"]
  BY DEF Stop, Running, vars
<1>2. /\ run \in RunType /\ Tree(ast) /\ JumpsInLoops(ast) /\ pc = "done"
  BY <1>1, RunParts DEF JumpsHaveMeaning
<1>3. /\ run' \in RunType /\ run'.st \in {"return", "revert"}
      /\ pc' = "done" /\ loc' \in [b : Nat, i : Nat]
  BY <1>1, <1>2 DEF RunType, vars, ExecInv
<1>4. ExecInv'
  BY <1>3 DEF ExecInv
<1>5. PICK D : D = Source!Point(ast)
  OBVIOUS
<1>6. Fixed(ast, D)
  BY <1>2, <1>5, SourcePoint
<1>7. PICK to : to = Follow(ast, D, run.node, run.val)
  OBVIOUS
<1>8. PICK m : Goes(ast, D, m, Exit, to)
  BY <1>1, <1>6, <1>7, RunMeans
<1>9. to.st # "running" /\ run' = [run EXCEPT !.st = to.st]
  BY <1>1, <1>8 DEF Goes, Returned, Reverted
<1>10. Source!Pass
  BY <1>1, <1>5, <1>7, <1>9, StepPass
<1>11. QED
  BY <1>4, <1>10

LEMMA EmissionStep ==
  ASSUME GraphInv, ExecInv, Emission
  PROVE  ExecInv' /\ (Source!Read \/ (ast' = ast /\ run' = run))
<1>1. pc = "emit" /\ run.st = "idle" /\ run' = run /\ loc' = loc
  BY StepEmits DEF Emission, ExecInv
<1>2. ExecInv'
  BY <1>1 DEF ExecInv
<1>3. ASSUME NEW k, Visit(k) PROVE Source!Read
  <2>1. ast \in Seq(NodeType)
    BY DEF GraphInv, EmitterInv, TypeOK
  <2>2. PICK x : ast' = Append(ast, x)
    BY <1>3 DEF Visit
  <2>3. Len(ast') = Len(ast) + 1 /\ SubSeq(ast', 1, Len(ast)) = ast
    BY <2>1, <2>2
  <2>4. QED
    BY <1>1, <2>3 DEF Source!Read
<1>4. QED
  BY <1>1, <1>2, <1>3, StepReads DEF Emission

LEMMA NextStep ==
  ASSUME GraphInv, ExecInv, [NextExec]_evars
  PROVE  GraphInv' /\ ExecInv' /\ [Source!Next]_(Source!vars)
<1>1. [Next]_vars
  BY DEF NextExec, Emission, Next, Start, Instruction, Branch, Stop, Stopped, evars, vars
<1>2. GraphInv'
  BY <1>1, GraphStays
<1>3. CASE UNCHANGED evars
  <2>1. ast' = ast /\ run' = run
    BY <1>3 DEF evars
  <2>2. QED
    BY <1>2, <1>3, <2>1, ExecStays DEF Source!vars
<1>4. CASE Emission
  BY <1>2, <1>4, EmissionStep DEF Source!Next, Source!vars
<1>5. CASE Start
  BY <1>2, <1>5, StartStep DEF Source!Next
<1>6. CASE Instruction
  BY <1>2, <1>6, InstructionStep DEF Source!Next
<1>7. CASE Branch
  <2>1. ast' = ast
    BY <1>7 DEF Branch, vars
  <2>2. QED
    BY <1>2, <1>7, <2>1, BranchStep DEF Source!Next, Source!vars
<1>8. CASE Stop
  BY <1>2, <1>8, StopStep DEF Source!Next
<1>9. QED
  BY <1>3, <1>4, <1>5, <1>6, <1>7, <1>8 DEF NextExec, Stopped

LEMMA BeginsRight == InitExec => GraphInv /\ ExecInv /\ Source!Init
<1>1. SUFFICES ASSUME InitExec PROVE GraphInv /\ ExecInv /\ Source!Init
  OBVIOUS
<1>2. Init
  BY <1>1 DEF InitExec
<1>4. GraphInv
  BY <1>2, GraphBegins
<1>5. ExecInv
  BY <1>1 DEF InitExec, ExecInv, RunType
<1>6. Len(ast) \in {0, 1}
  BY <1>2 DEF Init, InitSol, InitYul
<1>7. Source!Init
  BY <1>1, <1>6 DEF InitExec, Source!Init
<1>8. QED
  BY <1>4, <1>5, <1>7

\* Every run of the blocks is a run of the statements: what CodeGenFunction
\* emits for any nesting of statements, of any number of nodes, passes the
\* points of the AST in their order, takes an outcome only where the source
\* has it, and returns or reverts where the source does.
THEOREM LoweringImplementsSource == SpecExec => ImplementsSource
<1>1. InitExec => GraphInv /\ ExecInv /\ Source!Init
  BY BeginsRight
<1>2. GraphInv /\ ExecInv /\ [NextExec]_evars
        => (GraphInv /\ ExecInv)' /\ [Source!Next]_(Source!vars)
  BY NextStep
<1>3. QED
  BY <1>1, <1>2, PTL DEF SpecExec, ImplementsSource, Source!Spec
=============================================================================
