-------------------------- MODULE ExpressionProofs --------------------------
(***************************************************************************)
(* What TLAPS proves about the code of expressions: the blocks of && and   *)
(* || implement the short-circuit rules and their phi nodes are complete   *)
(* where the right operand stays in its block; the integer lowering pass   *)
(* leaves nothing wide, and its functions do not call themselves.  For     *)
(* every expression, and for every operation of every width.               *)
(***************************************************************************)
EXTENDS BoolExprLowering, IntegerLowering, SequenceLemmas

-----------------------------------------------------------------------------
(* The blocks of && and ||, where the right operand stays in one block: the *)
(* expression is a chain of k operators to the left, nodes 1 to k, above    *)
(* the innermost operand, node k+1.                                         *)

NodeType == [k : {"leaf", "chk", "and", "or"}, up : Nat,
             sec : {"root", "lhs", "rhs"}]
FrameType == [op : {"and", "or"}, node : Nat, sec : {"lhs", "rhs"},
              cont : Nat, rhs : Nat]

\* Operator i has these two blocks, and this node for its right operand.
Cont(i) == 2 * i + 2
Rhs(i)  == 2 * i + 3
Right(k, i) == 2 * k + 2 - i

Guarded(k) == ast[k + 1].k = "chk"

\* The block where the left operand of operator i ends, and its value; for 0
\* those of the whole expression.
ExitOf(k, i) == IF i # k THEN Cont(i + 1) ELSE IF Guarded(k) THEN 2 * k + 4 ELSE 1
ValOf(k, i) == IF i # k THEN Phi(Cont(i + 1)) ELSE Leaf(k + 1)

Branch(k, i) ==
  IF ast[i].k = "and" THEN CondBr(ValOf(k, i), Rhs(i), Cont(i))
  ELSE CondBr(ValOf(k, i), Cont(i), Rhs(i))

Section(i, sec) == IF i = 1 THEN "root" ELSE sec
Operators(k) ==
  \A i \in 1..k : /\ ast[i].k \in {"and", "or"} /\ ast[i].up = i - 1
                  /\ ast[i].sec = Section(i, "lhs")
Innermost(k) ==
  /\ k + 1 <= Len(ast)
  /\ ast[k + 1].k \in {"leaf", "chk"} /\ ast[k + 1].up = k
  /\ ast[k + 1].sec = Section(k + 1, "lhs")
RightOperands(k) ==
  \A i \in 1..k : Right(k, i) <= Len(ast) =>
    /\ ast[Right(k, i)].k = "leaf" /\ ast[Right(k, i)].up = i
    /\ ast[Right(k, i)].sec = "rhs"

Frames(j) ==
  /\ Len(work) = j
  /\ \A i \in 1..j :
       /\ work[i].op = ast[i].k /\ work[i].node = i
       /\ work[i].cont = Cont(i) /\ work[i].rhs = Rhs(i)
       /\ i # j => work[i].sec = "lhs"

\* The terminators: the branches on the left operands of the operators from lo
\* to k, the ends of the right operands of those from hi to k.
Terms(k, lo, hi) ==
  /\ nb = IF Guarded(k) THEN 2 * k + 5 ELSE 2 * k + 3
  /\ Guarded(k) => /\ term[1] = Check(k + 1, 2 * k + 4, 2 * k + 5)
                   /\ term[2 * k + 5] = Unreachable(k + 1)
  /\ term[Then] = None /\ term[End] = None
  /\ \A i \in 1..k : /\ term[ExitOf(k, i)] = IF i >= lo THEN Branch(k, i) ELSE None
                    /\ term[Rhs(i)] = IF i >= hi THEN Br(Cont(i)) ELSE None
  /\ term[ExitOf(k, 0)] =
       IF pc = "done" THEN CondBr(ValOf(k, 0), Then, End) ELSE None

\* The operands in the blocks.
Contents(k) ==
  /\ code[Then] = <<>> /\ code[End] = <<>>
  /\ ~ Guarded(k) => code[1] = <<k + 1>>
  /\ Guarded(k) => /\ code[1] = <<>> /\ code[2 * k + 4] = <<k + 1>>
                   /\ code[2 * k + 5] = <<>>
  /\ \A i \in 1..k :
       /\ code[Cont(i)] = <<>>
       /\ code[Rhs(i)] = IF Right(k, i) <= Len(ast) THEN <<Right(k, i)>> ELSE <<>>

\* What the phi node of operator i has from the left operand and from the right.
FromLeft(k, i)  == [from |-> ExitOf(k, i), val |-> Const(ast[i].k = "or")]
FromRight(k, i) == [from |-> Rhs(i), val |-> Leaf(Right(k, i))]

Phis(k, lo, hi) ==
  /\ phi[1] = {} /\ phi[Then] = {} /\ phi[End] = {}
  /\ Guarded(k) => phi[2 * k + 4] = {} /\ phi[2 * k + 5] = {}
  /\ \A i \in 1..k :
       /\ phi[Rhs(i)] = {}
       /\ phi[Cont(i)] = (IF i >= lo THEN {FromLeft(k, i)} ELSE {})
                           \cup (IF i >= hi THEN {FromRight(k, i)} ELSE {})

Built(k, lo, hi) ==
  /\ Operators(k) /\ Innermost(k) /\ RightOperands(k)
  /\ Terms(k, lo, hi) /\ Contents(k) /\ Phis(k, lo, hi)

\* Going down the left operands.
Down(k) ==
  /\ pc = "emit" /\ ret = NoValue /\ ins = 1 /\ nb = 2 * k + 3
  /\ Len(ast) = k /\ Operators(k)
  /\ Frames(k) /\ \A i \in 1..k : work[i].sec = "lhs"
  /\ \A x \in 1..nb : term[x] = None /\ code[x] = <<>> /\ phi[x] = {}

\* Back at operator j: its left operand has its value; the whole expression if
\* j is 0.
Up(k, j) ==
  /\ pc = "emit" \/ j = 0
  /\ ret = ValOf(k, j) /\ ins = ExitOf(k, j)
  /\ Len(ast) = 2 * k + 1 - j /\ Built(k, j + 1, j + 1)
  /\ Frames(j) /\ \A i \in 1..j : work[i].sec = "lhs"

\* At the right operand of operator j, before its leaf and after it.
AtRight(k, j) ==
  /\ pc = "emit" /\ ins = Rhs(j)
  /\ \/ ret = NoValue /\ Len(ast) = 2 * k + 1 - j
     \/ ret = Leaf(Right(k, j)) /\ Len(ast) = 2 * k + 2 - j
  /\ Built(k, j, j + 1)
  /\ Frames(j) /\ work[j].sec = "rhs"

Typed ==
  /\ ast \in Seq(NodeType) /\ work \in Seq(FrameType) /\ nb \in Nat
  /\ pc \in {"emit", "done"}
  /\ DOMAIN term = 1..nb /\ DOMAIN code = 1..nb /\ DOMAIN phi = 1..nb

EmitInv ==
  /\ Typed
  /\ \E k \in Nat : \/ Down(k)
                    \/ \E j \in 0..k : Up(k, j)
                    \/ \E j \in 1..k : AtRight(k, j)
-----------------------------------------------------------------------------
\* What the helpers of the model do.

LEMMA GrowProps ==
  ASSUME Typed, NEW n \in Nat, NEW t, Grow(n, t)
  PROVE  /\ nb' = nb + n /\ nb' \in Nat /\ DOMAIN term' = 1..(nb + n)
         /\ \A x \in 1..(nb + n) :
              term'[x] = IF x \in DOMAIN t THEN t[x]
                         ELSE IF x <= nb THEN term[x] ELSE None
BY DEF Grow, Typed

LEMMA PlaceProps ==
  ASSUME Typed, NEW n \in Nat, NEW b, NEW p, Place(n, b, p),
         b \in 1..nb => code[b] = <<>>
  PROVE  /\ DOMAIN code' = 1..(nb + n)
         /\ \A x \in 1..(nb + n) :
              code'[x] = IF x = b THEN <<p>> ELSE IF x <= nb THEN code[x] ELSE <<>>
<1>1. Append(<<>>, p) = <<p>>
  OBVIOUS
<1>2. code' = [x \in 1..(nb + n) |->
                 IF x = b THEN Append(IF x <= nb THEN code[x] ELSE <<>>, p)
                 ELSE IF x <= nb THEN code[x] ELSE <<>>]
  BY DEF Place
<1>3. \A x \in 1..(nb + n) : x <= nb => x \in 1..nb
  BY DEF Typed
<1>4. QED
  BY <1>1, <1>2, <1>3

LEMMA PhiAtProps ==
  ASSUME Typed, NEW n \in Nat, NEW b, NEW in, PhiAt(n, b, in)
  PROVE  /\ DOMAIN phi' = 1..(nb + n)
         /\ \A x \in 1..(nb + n) :
              phi'[x] = IF x = b THEN in ELSE IF x <= nb THEN phi[x] ELSE {}
BY DEF PhiAt, Typed

LEMMA TopProps ==
  ASSUME Typed
  PROVE  /\ Len(work) \in Nat /\ (work = <<>> <=> Len(work) = 0)
         /\ work # <<>> => Top = work[Len(work)] /\ Top \in FrameType
BY DEF Typed, Top

LEMMA VisitProps ==
  ASSUME Typed, NEW kind \in {"leaf", "chk", "and", "or"}, Visit(kind)
  PROVE  /\ ast' \in Seq(NodeType) /\ Len(ast) \in Nat
         /\ Len(ast') = Len(ast) + 1
         /\ \A i \in 1..Len(ast) : ast'[i] = ast[i]
         /\ ast'[Len(ast) + 1].k = kind
         /\ ast'[Len(ast) + 1].up = IF work = <<>> THEN 0 ELSE Top.node
         /\ ast'[Len(ast) + 1].sec = IF work = <<>> THEN "root" ELSE Top.sec
<1>1. PICK e : e = [k |-> kind,
                    up |-> IF work = <<>> THEN 0 ELSE Top.node,
                    sec |-> IF work = <<>> THEN "root" ELSE Top.sec]
  OBVIOUS
<1>2. ast' = Append(ast, e)
  BY <1>1 DEF Visit
<1>3. e \in NodeType
  BY <1>1, TopProps DEF NodeType, FrameType
<1>4. /\ ast' \in Seq(NodeType) /\ Len(ast) \in Nat
      /\ Len(ast') = Len(ast) + 1
      /\ \A i \in 1..Len(ast) : ast'[i] = ast[i]
      /\ ast'[Len(ast) + 1] = e
  BY <1>2, <1>3, AppendProperties, LenProperties DEF Typed
<1>5. QED
  BY <1>1, <1>4

\* The last value and none.
LEMMA HasValue ==
  ASSUME NEW k \in Nat, NEW j \in Nat
  PROVE  ValOf(k, j) # NoValue /\ Leaf(j) # NoValue
BY DEF ValOf, Phi, Leaf, Value, NoValue

\* The blocks have numbers of their own.
LEMMA Numbers ==
  ASSUME NEW k \in Nat, NEW i \in 1..k, NEW h \in 1..k
  PROVE  /\ Cont(i) \in 4..(2 * k + 2) /\ Rhs(i) \in 5..(2 * k + 3)
         /\ Cont(i) # Rhs(h)
         /\ i # h => Cont(i) # Cont(h) /\ Rhs(i) # Rhs(h)
BY DEF Cont, Rhs

LEMMA Exits ==
  ASSUME NEW k \in Nat, NEW i \in 0..k, NEW h \in 0..k
  PROVE  /\ ExitOf(k, i) \in IF Guarded(k) THEN 4..(2 * k + 4) ELSE {1} \cup 4..(2 * k + 2)
         /\ i # k => ExitOf(k, i) = Cont(i + 1)
         /\ i # h => ExitOf(k, i) # ExitOf(k, h)
         /\ \A g \in 1..k : ExitOf(k, i) # Rhs(g)
<1>1. CASE i = k /\ h = k
  BY <1>1 DEF ExitOf, Rhs
<1>2. CASE i # k /\ h = k
  BY <1>2 DEF ExitOf, Rhs, Cont
<1>3. CASE i = k /\ h # k
  BY <1>3 DEF ExitOf, Rhs, Cont
<1>4. CASE i # k /\ h # k
  BY <1>4 DEF ExitOf, Rhs, Cont
<1>5. QED
  BY <1>1, <1>2, <1>3, <1>4

-----------------------------------------------------------------------------
\* The first value: the innermost operand.
LEMMA VisitDown ==
  ASSUME Typed, NEW k \in Nat, Down(k),
         NEW kind \in {"leaf", "chk", "and", "or"}, Visit(kind)
  PROVE  /\ ast' \in Seq(NodeType) /\ Len(ast') = k + 1 /\ Len(ast) = k
         /\ \A i \in 1..k : ast'[i] = ast[i]
         /\ ast'[k + 1].k = kind /\ ast'[k + 1].up = k
         /\ ast'[k + 1].sec = Section(k + 1, "lhs")
<1>1. Len(ast) = k /\ Len(work) = k
  BY DEF Down, Frames
<1>2. CASE k = 0
  <2>1. work = <<>>
    BY <1>1, <1>2, TopProps
  <2>2. QED
    BY <1>1, <1>2, <2>1, VisitProps DEF Section
<1>3. CASE k # 0
  <2>1. work # <<>> /\ Top = work[k]
    BY <1>1, <1>3, TopProps
  <2>2. Top.node = k /\ Top.sec = "lhs"
    BY <1>3, <2>1 DEF Down, Frames
  <2>3. QED
    BY <1>1, <1>3, <2>1, <2>2, VisitProps DEF Section
<1>4. QED
  BY <1>2, <1>3

\* The frames of the visits in progress do not depend on the new nodes.
LEMMA SameFrames ==
  ASSUME NEW j \in Nat, Frames(j), work' = work,
         \A i \in 1..j : ast'[i] = ast[i]
  PROVE  Frames(j)'
BY DEF Frames

LEMMA LeafDown ==
  ASSUME Typed, NEW k \in Nat, Down(k), EmitLeaf
  PROVE  Typed' /\ Up(k, k)'
<1>1. /\ Visit("leaf") /\ Grow(0, <<>>) /\ Place(0, 1, k + 1) /\ phi' = phi
      /\ ret' = Leaf(k + 1) /\ ins' = 1 /\ work' = work /\ pc' = "emit"
  BY DEF EmitLeaf, Down, NewNode
<1>2. /\ ast' \in Seq(NodeType) /\ Len(ast') = k + 1 /\ Len(ast) = k
      /\ \A i \in 1..k : ast'[i] = ast[i]
      /\ ast'[k + 1].k = "leaf" /\ ast'[k + 1].up = k
      /\ ast'[k + 1].sec = Section(k + 1, "lhs")
  BY <1>1, VisitDown
<1>3. /\ nb' = 2 * k + 3 /\ nb = 2 * k + 3 /\ nb' \in Nat /\ DOMAIN term' = 1..nb
      /\ \A x \in 1..nb : term'[x] = None
  BY <1>1, GrowProps DEF Down
<1>4. /\ DOMAIN code' = 1..nb /\ 1 \in 1..nb
      /\ \A x \in 1..nb : x # 1 => code'[x] = <<>>
      /\ code'[1] = <<k + 1>>
  <2>1. nb = 2 * k + 3 /\ Place(0, 1, k + 1) /\ \A x \in 1..nb : code[x] = <<>>
    BY <1>1 DEF Down
  <2>2. /\ DOMAIN code' = 1..(nb + 0)
        /\ \A x \in 1..(nb + 0) :
             code'[x] = IF x = 1 THEN <<k + 1>> ELSE IF x <= nb THEN code[x] ELSE <<>>
    BY <2>1, PlaceProps
  <2>3. QED
    BY <1>3, <2>1, <2>2
<1>5. \A x \in 1..nb : phi'[x] = {}
  BY <1>1 DEF Down
<1>6. \A i \in 1..k : Cont(i) \in 1..nb /\ Rhs(i) \in 1..nb /\ Cont(i) # 1 /\ Rhs(i) # 1
  BY <1>3, Numbers
<1>7. ~ Guarded(k)' /\ Operators(k)' /\ Innermost(k)' /\ RightOperands(k)'
  BY <1>2 DEF Guarded, Operators, Innermost, RightOperands, Right, Down
<1>8. Then \in 1..nb /\ End \in 1..nb /\ Then # 1 /\ End # 1 /\ 1 \in 1..nb
  BY <1>3 DEF Then, End
<1>9. \A i \in 0..k : ExitOf(k, i)' \in 1..nb
  BY <1>3, <1>7 DEF ExitOf, Cont
<1>10. Built(k, k + 1, k + 1)'
  <2>1. Terms(k, k + 1, k + 1)'
    BY <1>1, <1>3, <1>6, <1>7, <1>8, <1>9 DEF Terms
  <2>2. Contents(k)'
    <3>1. \A i \in 1..k : ~ Right(k, i) <= k + 1
      BY DEF Right
    <3>2. QED
      BY <3>1, <1>2, <1>4, <1>6, <1>7, <1>8 DEF Contents
  <2>3. Phis(k, k + 1, k + 1)'
    BY <1>5, <1>6, <1>7, <1>8 DEF Phis
  <2>4. QED
    BY <1>7, <2>1, <2>2, <2>3 DEF Built
<1>11. Typed'
  BY <1>1, <1>2, <1>3, <1>4 DEF Typed
<1>12. Frames(k)'
  BY <1>1, <1>2, SameFrames DEF Down
<1>13. QED
  BY <1>1, <1>2, <1>7, <1>10, <1>11, <1>12 DEF Up, ValOf, ExitOf, Down

LEMMA CheckedDown ==
  ASSUME Typed, NEW k \in Nat, Down(k), EmitChecked
  PROVE  Typed' /\ Up(k, k)'
<1>1. /\ Visit("chk") /\ Place(2, 2 * k + 4, k + 1) /\ PhiAt(2, 0, {})
      /\ Grow(2, [x \in {1, 2 * k + 5} |->
                   IF x = 1 THEN Check(k + 1, 2 * k + 4, 2 * k + 5)
                   ELSE Unreachable(k + 1)])
      /\ ret' = Leaf(k + 1) /\ ins' = 2 * k + 4 /\ work' = work /\ pc' = "emit"
  BY DEF EmitChecked, Down, NewNode
<1>2. /\ ast' \in Seq(NodeType) /\ Len(ast') = k + 1 /\ Len(ast) = k
      /\ \A i \in 1..k : ast'[i] = ast[i]
      /\ ast'[k + 1].k = "chk" /\ ast'[k + 1].up = k
      /\ ast'[k + 1].sec = Section(k + 1, "lhs")
  BY <1>1, VisitDown
<1>3. /\ nb' = 2 * k + 5 /\ nb = 2 * k + 3 /\ nb' \in Nat /\ DOMAIN term' = 1..nb'
      /\ \A x \in 1..nb' : x \notin {1, 2 * k + 5} => term'[x] = None
      /\ term'[1] = Check(k + 1, 2 * k + 4, 2 * k + 5)
      /\ term'[2 * k + 5] = Unreachable(k + 1)
  <2> DEFINE t == [x \in {1, 2 * k + 5} |->
                     IF x = 1 THEN Check(k + 1, 2 * k + 4, 2 * k + 5)
                     ELSE Unreachable(k + 1)]
  <2>1. /\ DOMAIN t = {1, 2 * k + 5} /\ t[2 * k + 5] = Unreachable(k + 1)
        /\ t[1] = Check(k + 1, 2 * k + 4, 2 * k + 5)
    <3>1. 1 # 2 * k + 5
      OBVIOUS
    <3>2. QED
      BY <3>1
  <2>2. Grow(2, t) /\ nb = 2 * k + 3 /\ \A x \in 1..nb : term[x] = None
    BY <1>1 DEF Down
  <2> HIDE DEF t
  <2>3. /\ nb' = nb + 2 /\ nb' \in Nat /\ DOMAIN term' = 1..(nb + 2)
        /\ \A x \in 1..(nb + 2) :
             term'[x] = IF x \in DOMAIN t THEN t[x]
                        ELSE IF x <= nb THEN term[x] ELSE None
    BY <2>2, GrowProps
  <2>4. QED
    BY <2>1, <2>2, <2>3
<1>4. /\ DOMAIN code' = 1..nb'
      /\ \A x \in 1..nb' : x # 2 * k + 4 => code'[x] = <<>>
      /\ code'[2 * k + 4] = <<k + 1>>
  <2>1. nb = 2 * k + 3 /\ Place(2, 2 * k + 4, k + 1) /\ \A x \in 1..nb : code[x] = <<>>
    BY <1>1 DEF Down
  <2>2. /\ DOMAIN code' = 1..(nb + 2)
        /\ \A x \in 1..(nb + 2) :
             code'[x] = IF x = 2 * k + 4 THEN <<k + 1>> ELSE IF x <= nb THEN code[x] ELSE <<>>
    BY <2>1, PlaceProps
  <2>3. nb' = nb + 2 /\ \A x \in 1..nb' : x <= nb => x \in 1..nb
    BY <1>3
  <2>4. 2 * k + 4 \in 1..nb'
    BY <1>3
  <2>5. QED
    BY <2>1, <2>2, <2>3, <2>4
<1>5. DOMAIN phi' = 1..nb' /\ \A x \in 1..nb' : phi'[x] = {}
  <2>1. nb = 2 * k + 3 /\ PhiAt(2, 0, {}) /\ \A x \in 1..nb : phi[x] = {}
    BY <1>1 DEF Down
  <2>2. /\ DOMAIN phi' = 1..(nb + 2)
        /\ \A x \in 1..(nb + 2) :
             phi'[x] = IF x = 0 THEN {} ELSE IF x <= nb THEN phi[x] ELSE {}
    BY <2>1, PhiAtProps
  <2>3. QED
    BY <1>3, <2>1, <2>2
<1>6. \A i \in 1..k : /\ Cont(i) \in 1..nb' /\ Rhs(i) \in 1..nb'
                      /\ Cont(i) \notin {1, 2 * k + 4, 2 * k + 5}
                      /\ Rhs(i) \notin {1, 2 * k + 4, 2 * k + 5}
  BY <1>3, Numbers
<1>7. Guarded(k)' /\ Operators(k)' /\ Innermost(k)' /\ RightOperands(k)'
  BY <1>2 DEF Guarded, Operators, Innermost, RightOperands, Right, Down
<1>8. /\ {Then, End} \cap {1, 2 * k + 4, 2 * k + 5} = {}
      /\ {1, 2 * k + 4, 2 * k + 5, Then, End} \subseteq 1..nb'
  BY <1>3 DEF Then, End
<1>9. \A i \in 0..k : ExitOf(k, i)' \in 1..nb' /\ ExitOf(k, i)' \notin {1, 2 * k + 5}
  BY <1>3, <1>7 DEF ExitOf, Cont
<1>10. Built(k, k + 1, k + 1)'
  <2>1. Terms(k, k + 1, k + 1)'
    <3>1. /\ term'[Then] = None /\ term'[End] = None
          /\ \A i \in 0..k : term'[ExitOf(k, i)'] = None
          /\ \A i \in 1..k : term'[Rhs(i)] = None
      BY <1>3, <1>6, <1>8, <1>9
    <3>2. /\ \A i \in 1..k : ~ i >= k + 1 /\ i \in 0..k
          /\ 0 \in 0..k
      OBVIOUS
    <3>3. QED
      BY <1>1, <1>3, <1>7, <3>1, <3>2 DEF Terms
  <2>2. Contents(k)'
    <3>1. \A i \in 1..k : ~ Right(k, i) <= k + 1
      BY DEF Right
    <3>2. 1 # 2 * k + 4 /\ 2 * k + 5 # 2 * k + 4
      OBVIOUS
    <3>3. QED
      BY <3>1, <3>2, <1>2, <1>4, <1>6, <1>7, <1>8 DEF Contents
  <2>3. Phis(k, k + 1, k + 1)'
    BY <1>5, <1>6, <1>7, <1>8 DEF Phis
  <2>4. QED
    BY <1>7, <2>1, <2>2, <2>3 DEF Built
<1>11. Typed'
  BY <1>1, <1>2, <1>3, <1>4, <1>5 DEF Typed
<1>12. Frames(k)'
  BY <1>1, <1>2, SameFrames DEF Down
<1>13. QED
  BY <1>1, <1>2, <1>7, <1>10, <1>11, <1>12 DEF Up, ValOf, ExitOf, Down

LEMMA OpenDown ==
  ASSUME Typed, NEW k \in Nat, Down(k), OpenLogical
  PROVE  Typed' /\ Down(k + 1)'
<1>1. PICK kind \in {"and", "or"} :
        /\ Visit(kind) /\ Grow(2, <<>>) /\ Place(2, 0, 0) /\ PhiAt(2, 0, {})
        /\ work' = Append(work, [op |-> kind, node |-> k + 1, sec |-> "lhs",
                                 cont |-> 2 * k + 4, rhs |-> 2 * k + 5])
  BY DEF OpenLogical, Down, NewNode
<1>2. /\ ast' \in Seq(NodeType) /\ Len(ast') = k + 1 /\ Len(ast) = k
      /\ \A i \in 1..k : ast'[i] = ast[i]
      /\ ast'[k + 1].k = kind /\ ast'[k + 1].up = k
      /\ ast'[k + 1].sec = Section(k + 1, "lhs")
  BY <1>1, VisitDown
<1>3. /\ nb' = 2 * k + 5 /\ nb = 2 * k + 3 /\ nb' \in Nat /\ DOMAIN term' = 1..nb'
      /\ \A x \in 1..nb' : term'[x] = None
  <2>1. /\ nb' = nb + 2 /\ nb' \in Nat /\ DOMAIN term' = 1..(nb + 2)
        /\ \A x \in 1..(nb + 2) :
             term'[x] = IF x \in DOMAIN <<>> THEN <<>>[x]
                        ELSE IF x <= nb THEN term[x] ELSE None
    BY <1>1, GrowProps
  <2>2. nb = 2 * k + 3 /\ \A x \in 1..nb : term[x] = None
    BY DEF Down
  <2>3. QED
    BY <2>1, <2>2
<1>4. /\ DOMAIN code' = 1..nb' /\ \A x \in 1..nb' : code'[x] = <<>>
  <2>1. nb = 2 * k + 3 /\ Place(2, 0, 0) /\ \A x \in 1..nb : code[x] = <<>>
    BY <1>1 DEF Down
  <2>2. /\ DOMAIN code' = 1..(nb + 2)
        /\ \A x \in 1..(nb + 2) :
             code'[x] = IF x = 0 THEN <<0>> ELSE IF x <= nb THEN code[x] ELSE <<>>
    BY <2>1, PlaceProps
  <2>3. QED
    BY <1>3, <2>1, <2>2
<1>5. DOMAIN phi' = 1..nb' /\ \A x \in 1..nb' : phi'[x] = {}
  <2>1. nb = 2 * k + 3 /\ PhiAt(2, 0, {}) /\ \A x \in 1..nb : phi[x] = {}
    BY <1>1 DEF Down
  <2>2. /\ DOMAIN phi' = 1..(nb + 2)
        /\ \A x \in 1..(nb + 2) :
             phi'[x] = IF x = 0 THEN {} ELSE IF x <= nb THEN phi[x] ELSE {}
    BY <2>1, PhiAtProps
  <2>3. QED
    BY <1>3, <2>1, <2>2
<1>6. PICK f \in FrameType :
        /\ f.op = kind /\ f.node = k + 1 /\ f.sec = "lhs"
        /\ f.cont = 2 * k + 4 /\ f.rhs = 2 * k + 5
        /\ work' = Append(work, f)
  BY <1>1 DEF FrameType
<1>7. /\ work' \in Seq(FrameType) /\ Len(work') = k + 1 /\ work'[k + 1] = f
      /\ \A i \in 1..k : work'[i] = work[i]
  BY <1>6, AppendProperties, LenProperties DEF Typed, Down, Frames
<1>8. Operators(k + 1)'
  BY <1>2 DEF Operators, Down, Section
<1>9. /\ Len(work') = k + 1
      /\ \A i \in 1..(k + 1) :
           /\ work'[i].op = ast'[i].k /\ work'[i].node = i
           /\ work'[i].cont = Cont(i) /\ work'[i].rhs = Rhs(i)
           /\ work'[i].sec = "lhs"
  <2>1. SUFFICES ASSUME NEW i \in 1..(k + 1)
                 PROVE  /\ work'[i].op = ast'[i].k /\ work'[i].node = i
                        /\ work'[i].cont = Cont(i) /\ work'[i].rhs = Rhs(i)
                        /\ work'[i].sec = "lhs"
    BY <1>7
  <2>2. CASE i = k + 1
    <3>1. 2 * k + 4 = Cont(k + 1) /\ 2 * k + 5 = Rhs(k + 1)
      BY DEF Cont, Rhs
    <3>2. QED
      BY <1>2, <1>6, <1>7, <2>2, <3>1
  <2>3. CASE i \in 1..k
    BY <1>2, <1>7, <2>3 DEF Down, Frames
  <2>4. QED
    BY <2>1, <2>2, <2>3
<1>10. ret' = NoValue /\ ins' = 1 /\ pc' = "emit"
  BY DEF OpenLogical, Down
<1>11. 2 * (k + 1) + 3 = 2 * k + 5
  OBVIOUS
<1>12. Typed'
  BY <1>2, <1>3, <1>4, <1>5, <1>7, <1>10 DEF Typed
<1>13. Frames(k + 1)'
  BY <1>9 DEF Frames
<1>14. QED
  BY <1>2, <1>3, <1>4, <1>5, <1>8, <1>9, <1>10, <1>11, <1>12, <1>13 DEF Down

-----------------------------------------------------------------------------
\* The predecessors of the blocks of the operators.
LEMMA Targets ==
  ASSUME NEW a, NEW b, NEW v
  PROVE  /\ ToSet(None.to) = {} /\ ToSet(Br(a).to) = {a}
         /\ ToSet(CondBr(v, a, b).to) = {a, b}
         /\ ToSet(Check(v, a, b).to) = {a, b} /\ ToSet(Unreachable(v).to) = {}
<1>1. ToSet(<<>>) = {} /\ ToSet(<<a>>) = {a} /\ ToSet(<<a, b>>) = {a, b}
  BY DEF ToSet
<1>2. QED
  BY <1>1 DEF None, Br, CondBr, Check, Unreachable, Terminator

LEMMA Enumerate ==
  ASSUME NEW k \in Nat, NEW x \in 1..(IF Guarded(k) THEN 2 * k + 5 ELSE 2 * k + 3)
  PROVE  \/ x \in {Then, End}
         \/ \E i \in 0..k : x = ExitOf(k, i)
         \/ \E i \in 1..k : x = Rhs(i)
         \/ Guarded(k) /\ x \in {1, 2 * k + 5}
<1>1. x \in Nat /\ x # 0
  OBVIOUS
<1>2. CASE x = 1
  BY <1>2 DEF ExitOf
<1>3. CASE x \in {2, 3}
  BY <1>3 DEF Then, End
<1>4. CASE x \in 4..(2 * k + 3)
  <2>1. PICK h \in Nat : x = 2 * h \/ x = 2 * h + 1
    <3>1. x \div 2 \in Nat /\ (x = 2 * (x \div 2) \/ x = 2 * (x \div 2) + 1)
      BY <1>1
    <3>2. QED
      BY <3>1
  <2>2. CASE x = 2 * h
    <3>1. h - 2 \in 0..k /\ h - 2 # k /\ Cont(h - 2 + 1) = x
      BY <1>4, <2>1, <2>2 DEF Cont
    <3>2. QED
      BY <3>1 DEF ExitOf
  <2>3. CASE x = 2 * h + 1
    <3>1. h - 1 \in 1..k /\ Rhs(h - 1) = x
      BY <1>4, <2>1, <2>3 DEF Rhs
    <3>2. QED
      BY <3>1
  <2>4. QED
    BY <2>1, <2>2, <2>3
<1>5. CASE Guarded(k) /\ x = 2 * k + 4
  BY <1>5 DEF ExitOf
<1>6. CASE Guarded(k) /\ x = 2 * k + 5
  BY <1>6
<1>7. QED
  BY <1>1, <1>2, <1>3, <1>4, <1>5, <1>6

LEMMA PredsOf ==
  ASSUME Typed, NEW k \in Nat, NEW lo \in Nat, NEW hi \in Nat,
         Terms(k, lo, hi), NEW i \in 1..k
  PROVE  Preds(term, Cont(i)) = (IF i >= lo THEN {ExitOf(k, i)} ELSE {})
                                  \cup (IF i >= hi THEN {Rhs(i)} ELSE {})
<1>1. DOMAIN term = 1..nb /\ nb = IF Guarded(k) THEN 2 * k + 5 ELSE 2 * k + 3
  BY DEF Typed, Terms
<1>2. /\ Cont(i) \in 4..(2 * k + 2) /\ Cont(i) \notin {Then, End, 2 * k + 4, 2 * k + 5}
      /\ ExitOf(k, i) \in 1..nb /\ Rhs(i) \in 1..nb
  <2>1. Cont(i) \in 4..(2 * k + 2) /\ Rhs(i) \in 5..(2 * k + 3)
    BY Numbers
  <2>2. ExitOf(k, i) \in IF Guarded(k) THEN 4..(2 * k + 4) ELSE {1} \cup 4..(2 * k + 2)
    BY Exits
  <2>3. QED
    BY <1>1, <2>1, <2>2 DEF Then, End
<1>3. ASSUME NEW h \in 0..k
      PROVE  Cont(i) \in ToSet(term[ExitOf(k, h)].to) <=> h = i /\ i >= lo
  <2>1. CASE h = 0
    <3>1. term[ExitOf(k, 0)] \in {None, CondBr(ValOf(k, 0), Then, End)}
      BY DEF Terms
    <3>2. Cont(i) \notin ToSet(term[ExitOf(k, 0)].to)
      <4>1. /\ ToSet(CondBr(ValOf(k, 0), Then, End).to) = {Then, End}
            /\ ToSet(None.to) = {}
        BY Targets
      <4>2. QED
        BY <1>2, <3>1, <4>1
    <3>3. QED
      BY <2>1, <3>2
  <2>2. CASE h \in 1..k
    <3>1. term[ExitOf(k, h)] = IF h >= lo THEN Branch(k, h) ELSE None
      BY <2>2 DEF Terms
    <3>2. ToSet(Branch(k, h).to) = {Cont(h), Rhs(h)}
      BY Targets DEF Branch
    <3>3. Cont(i) # Rhs(h) /\ (h # i => Cont(i) # Cont(h))
      BY <2>2, Numbers
    <3>4. CASE h >= lo
      BY <3>1, <3>2, <3>3, <3>4
    <3>5. CASE ~ h >= lo
      BY <3>1, <3>5, Targets
    <3>6. QED
      BY <3>4, <3>5
  <2>3. QED
    BY <2>1, <2>2
<1>4. ASSUME NEW h \in 1..k
      PROVE  Cont(i) \in ToSet(term[Rhs(h)].to) <=> h = i /\ i >= hi
  <2>1. term[Rhs(h)] = IF h >= hi THEN Br(Cont(h)) ELSE None
    BY DEF Terms
  <2>2. h # i => Cont(i) # Cont(h)
    BY Numbers
  <2>3. CASE h >= hi
    <3>1. ToSet(term[Rhs(h)].to) = {Cont(h)}
      BY <2>1, <2>3, Targets
    <3>2. QED
      BY <2>2, <2>3, <3>1
  <2>4. CASE ~ h >= hi
    BY <2>1, <2>4, Targets
  <2>5. QED
    BY <2>3, <2>4
<1>5. /\ Cont(i) \notin ToSet(term[Then].to) /\ Cont(i) \notin ToSet(term[End].to)
      /\ Guarded(k) => /\ Cont(i) \notin ToSet(term[1].to)
                       /\ Cont(i) \notin ToSet(term[2 * k + 5].to)
  BY <1>2, Targets DEF Terms
<1>6. ASSUME NEW x \in 1..nb
      PROVE  Cont(i) \in ToSet(term[x].to)
               <=> (x = ExitOf(k, i) /\ i >= lo) \/ (x = Rhs(i) /\ i >= hi)
  <2>1. \/ x \in {Then, End}
        \/ \E h \in 0..k : x = ExitOf(k, h)
        \/ \E h \in 1..k : x = Rhs(h)
        \/ Guarded(k) /\ x \in {1, 2 * k + 5}
    BY <1>1, <1>6, Enumerate
  <2>2. i \in 0..k /\ i \in 1..k
    OBVIOUS
  <2>3. CASE \E h \in 0..k : x = ExitOf(k, h)
    <3>1. PICK h \in 0..k : x = ExitOf(k, h)
      BY <2>3
    <3>2. x # Rhs(i) /\ (h # i => x # ExitOf(k, i))
      BY <2>2, <3>1, Exits
    <3>3. QED
      BY <1>3, <3>1, <3>2
  <2>4. CASE \E h \in 1..k : x = Rhs(h)
    <3>1. PICK h \in 1..k : x = Rhs(h)
      BY <2>4
    <3>2. x # ExitOf(k, i)
      BY <2>2, <3>1, Exits
    <3>3. h # i => x # Rhs(i)
      BY <3>1, Numbers
    <3>4. QED
      BY <1>4, <3>1, <3>2, <3>3
  <2>5. CASE x \in {Then, End} \/ (Guarded(k) /\ x \in {1, 2 * k + 5})
    <3>1. Cont(i) \notin ToSet(term[x].to)
      BY <1>5, <2>5
    <3>2. QED
      BY <1>3, <1>4, <2>2, <3>1
  <2>6. QED
    BY <2>1, <2>3, <2>4, <2>5
<1>7. QED
  <2>1. Preds(term, Cont(i)) = {x \in 1..nb : (x = ExitOf(k, i) /\ i >= lo) \/ (x = Rhs(i) /\ i >= hi)}
    BY <1>1, <1>6 DEF Preds
  <2>2. QED
    BY <1>2, <2>1

-----------------------------------------------------------------------------
\* Back at operator j, whose left operand ends here.
LEMMA EndOfLhs ==
  ASSUME Typed, NEW k \in Nat, NEW j \in 1..k, Up(k, j), EndLhs
  PROVE  Typed' /\ AtRight(k, j)'
<1>1. /\ work \in Seq(FrameType) /\ Len(work) = j /\ work # <<>>
      /\ Top = work[j] /\ Top \in FrameType
      /\ Top.op = ast[j].k /\ Top.node = j /\ Top.sec = "lhs"
      /\ Top.cont = Cont(j) /\ Top.rhs = Rhs(j)
  <2>1. Frames(j) /\ work[j].sec = "lhs"
    BY DEF Up
  <2>2. work \in Seq(FrameType) /\ Len(work) = j
    BY <2>1 DEF Frames, Typed
  <2>3. work # <<>> /\ Top = work[j] /\ Top \in FrameType
    BY <2>2, TopProps
  <2>4. /\ work[j].op = ast[j].k /\ work[j].node = j
        /\ work[j].cont = Cont(j) /\ work[j].rhs = Rhs(j)
    BY <2>1 DEF Frames
  <2>5. QED
    BY <2>1, <2>2, <2>3, <2>4
<1>2. /\ Grow(0, [x \in {ExitOf(k, j)} |-> Branch(k, j)])
      /\ PhiAt(0, Cont(j), {[from |-> b, val |-> Const(ast[j].k = "or")] :
                              b \in Preds(term', Cont(j))})
      /\ ins' = Rhs(j) /\ ret' = NoValue /\ pc' = pc /\ pc = "emit"
      /\ work' = Append(Front(work), [Top EXCEPT !.sec = "rhs"])
      /\ ast' = ast /\ code' = code
  BY <1>1 DEF EndLhs, Up, Branch
<1>3. j \in Nat /\ j \in 0..k /\ 0 \in 0..k /\ 0 # j
  OBVIOUS
<1>4. /\ nb' = nb /\ DOMAIN term' = 1..nb
      /\ \A x \in 1..nb : term'[x] = IF x = ExitOf(k, j) THEN Branch(k, j) ELSE term[x]
  <2> DEFINE t == [x \in {ExitOf(k, j)} |-> Branch(k, j)]
  <2>1. DOMAIN t = {ExitOf(k, j)} /\ t[ExitOf(k, j)] = Branch(k, j) /\ Grow(0, t)
    BY <1>2
  <2> HIDE DEF t
  <2>2. /\ nb' = nb + 0 /\ DOMAIN term' = 1..(nb + 0)
        /\ \A x \in 1..(nb + 0) :
             term'[x] = IF x \in DOMAIN t THEN t[x]
                        ELSE IF x <= nb THEN term[x] ELSE None
    BY <2>1, GrowProps
  <2>3. nb \in Nat
    BY DEF Typed
  <2>4. QED
    BY <2>1, <2>2, <2>3
<1>5. /\ Operators(k) /\ Innermost(k) /\ RightOperands(k)
      /\ Terms(k, j + 1, j + 1) /\ Contents(k) /\ Phis(k, j + 1, j + 1)
  BY DEF Up, Built
<1>6. nb = IF Guarded(k) THEN 2 * k + 5 ELSE 2 * k + 3
  BY <1>5 DEF Terms
<1>7. \A i \in 0..k : /\ ExitOf(k, i) \in 1..nb
                      /\ i # j => ExitOf(k, i) # ExitOf(k, j)
                      /\ ExitOf(k, i) \notin {Then, End, 2 * k + 5}
                      /\ Guarded(k) => ExitOf(k, i) # 1
                      /\ \A g \in 1..k : Rhs(g) # ExitOf(k, i)
  <2>1. SUFFICES ASSUME NEW i \in 0..k
                 PROVE  /\ ExitOf(k, i) \in 1..nb
                        /\ i # j => ExitOf(k, i) # ExitOf(k, j)
                        /\ ExitOf(k, i) \notin {Then, End, 2 * k + 5}
                        /\ Guarded(k) => ExitOf(k, i) # 1
                        /\ \A g \in 1..k : Rhs(g) # ExitOf(k, i)
    OBVIOUS
  <2>2. /\ ExitOf(k, i) \in IF Guarded(k) THEN 4..(2 * k + 4) ELSE {1} \cup 4..(2 * k + 2)
        /\ i # j => ExitOf(k, i) # ExitOf(k, j)
        /\ \A g \in 1..k : ExitOf(k, i) # Rhs(g)
    BY <1>3, Exits
  <2>3. QED
    BY <1>6, <2>2 DEF Then, End
<1>8. \A i \in 1..k : Cont(i) \in 1..nb /\ Rhs(i) \in 1..nb
  BY <1>6, Numbers
<1>9. Preds(term', Cont(j)) = {ExitOf(k, j)}
  <2>1. Preds(term, Cont(j)) = {}
    BY <1>3, <1>5, PredsOf
  <2>2. Cont(j) \in ToSet(Branch(k, j).to)
    BY Targets DEF Branch
  <2>3. DOMAIN term = 1..nb
    BY DEF Typed
  <2>4. QED
    BY <1>3, <1>4, <1>7, <2>1, <2>2, <2>3 DEF Preds
<1>10. /\ DOMAIN phi' = 1..nb
       /\ \A x \in 1..nb : phi'[x] = IF x = Cont(j) THEN {FromLeft(k, j)} ELSE phi[x]
  <2> DEFINE in == {[from |-> b, val |-> Const(ast[j].k = "or")] :
                      b \in Preds(term', Cont(j))}
  <2>1. in = {FromLeft(k, j)}
    BY <1>9 DEF FromLeft
  <2>2. PhiAt(0, Cont(j), in)
    BY <1>2
  <2> HIDE DEF in
  <2>3. /\ DOMAIN phi' = 1..(nb + 0)
        /\ \A x \in 1..(nb + 0) :
             phi'[x] = IF x = Cont(j) THEN in ELSE IF x <= nb THEN phi[x] ELSE {}
    BY <2>2, PhiAtProps
  <2>4. nb \in Nat
    BY DEF Typed
  <2>5. QED
    BY <2>1, <2>3, <2>4
<1>11. /\ Guarded(k)' = Guarded(k) /\ Operators(k)' /\ Innermost(k)' /\ RightOperands(k)'
       /\ \A i \in 0..k : /\ ExitOf(k, i)' = ExitOf(k, i) /\ ValOf(k, i)' = ValOf(k, i)
                          /\ Branch(k, i)' = Branch(k, i)
       /\ \A i \in 1..k : FromLeft(k, i)' = FromLeft(k, i) /\ FromRight(k, i)' = FromRight(k, i)
  BY <1>2, <1>5 DEF Guarded, Operators, Innermost, RightOperands, ExitOf, ValOf, Branch,
                    FromLeft, FromRight
<1>12. Terms(k, j, j + 1)'
  <2>1. /\ Guarded(k) => /\ term'[1] = Check(k + 1, 2 * k + 4, 2 * k + 5)
                         /\ term'[2 * k + 5] = Unreachable(k + 1)
        /\ term'[Then] = None /\ term'[End] = None
    <3>1. Guarded(k) => 1 \in 1..nb /\ 2 * k + 5 \in 1..nb
      BY <1>6
    <3>2. Then \in 1..nb /\ End \in 1..nb
      BY <1>6 DEF Then, End
    <3>3. QED
      BY <1>3, <1>4, <1>5, <1>7, <3>1, <3>2 DEF Terms
  <2>2. ASSUME NEW i \in 1..k
        PROVE  term'[ExitOf(k, i)] = IF i >= j THEN Branch(k, i) ELSE None
    <3>1. /\ i \in 0..k /\ (i = j => i >= j) /\ (i # j => (i >= j <=> i >= j + 1))
          /\ ExitOf(k, i) \in 1..nb
      BY <1>7
    <3>2. term[ExitOf(k, i)] = IF i >= j + 1 THEN Branch(k, i) ELSE None
      BY <1>5 DEF Terms
    <3>3. CASE i = j
      BY <1>4, <3>1, <3>3
    <3>4. CASE i # j
      <4>1. ExitOf(k, i) # ExitOf(k, j)
        BY <1>7, <3>1, <3>4
      <4>2. QED
        BY <1>4, <3>1, <3>2, <3>4, <4>1
    <3>5. QED
      BY <3>3, <3>4
  <2>3. \A i \in 1..k : term'[Rhs(i)] = IF i >= j + 1 THEN Br(Cont(i)) ELSE None
    BY <1>3, <1>4, <1>5, <1>7, <1>8 DEF Terms
  <2>4. term'[ExitOf(k, 0)] = None
    BY <1>2, <1>3, <1>4, <1>5, <1>7 DEF Terms
  <2>5. QED
    BY <1>2, <1>3, <1>4, <1>6, <1>11, <2>1, <2>2, <2>3, <2>4 DEF Terms
<1>13. Contents(k)'
  BY <1>2, <1>5, <1>11 DEF Contents
<1>14. Phis(k, j, j + 1)'
  <2>1. /\ Cont(j) \notin {1, Then, End, 2 * k + 4, 2 * k + 5}
        /\ \A i \in 1..k : Rhs(i) # Cont(j) /\ (i # j => Cont(i) # Cont(j))
    <3>1. Cont(j) \in 4..(2 * k + 2)
      BY Numbers
    <3>2. \A i \in 1..k : Rhs(i) # Cont(j) /\ (i # j => Cont(i) # Cont(j))
      BY Numbers
    <3>3. QED
      BY <3>1, <3>2 DEF Then, End
  <2>2. /\ 1 \in 1..nb /\ Then \in 1..nb /\ End \in 1..nb
        /\ Guarded(k) => 2 * k + 4 \in 1..nb /\ 2 * k + 5 \in 1..nb
    BY <1>6 DEF Then, End
  <2>3. /\ phi'[1] = {} /\ phi'[Then] = {} /\ phi'[End] = {}
        /\ Guarded(k) => phi'[2 * k + 4] = {} /\ phi'[2 * k + 5] = {}
        /\ \A i \in 1..k : phi'[Rhs(i)] = {}
    BY <1>5, <1>8, <1>10, <2>1, <2>2 DEF Phis
  <2>4. ASSUME NEW i \in 1..k
        PROVE  phi'[Cont(i)] = (IF i >= j THEN {FromLeft(k, i)} ELSE {})
                                 \cup (IF i >= j + 1 THEN {FromRight(k, i)} ELSE {})
    <3>1. CASE i = j
      BY <1>8, <1>10, <3>1
    <3>2. CASE i # j
      <4>1. i >= j <=> i >= j + 1
        BY <3>2
      <4>2. QED
        BY <1>5, <1>8, <1>10, <2>1, <3>2, <4>1 DEF Phis
    <3>3. QED
      BY <3>1, <3>2
  <2>5. QED
    BY <1>11, <2>3, <2>4 DEF Phis
<1>15. Frames(j)' /\ work' \in Seq(FrameType) /\ work'[j].sec = "rhs"
  <2>1. PICK f \in FrameType :
          /\ f.op = ast[j].k /\ f.node = j /\ f.sec = "rhs"
          /\ f.cont = Cont(j) /\ f.rhs = Rhs(j)
          /\ work' = Append(Front(work), f)
    BY <1>1, <1>2 DEF FrameType
  <2>2. /\ Front(work) \in Seq(FrameType) /\ Len(Front(work)) = j - 1
        /\ \A i \in 1..(j - 1) : Front(work)[i] = work[i]
    BY <1>1, FrontProps
  <2>3. /\ work' \in Seq(FrameType) /\ Len(work') = j - 1 + 1
        /\ \A i \in 1..(j - 1) : work'[i] = work[i]
        /\ work'[j - 1 + 1] = f
    BY <2>1, <2>2, AppendElements
  <2>4. j - 1 + 1 = j /\ \A i \in 1..j : i # j => i \in 1..(j - 1)
    OBVIOUS
  <2>5. \A i \in 1..j : i # j => work'[i] = work[i] /\ i \in 1..j
    BY <2>3, <2>4
  <2>6. Frames(j) /\ \A i \in 1..j : work[i].sec = "lhs"
    BY DEF Up
  <2>7. work'[j] = f /\ Len(work') = j
    BY <2>3, <2>4
  <2>8. Frames(j)'
    <3>1. SUFFICES ASSUME NEW i \in 1..j
                   PROVE  /\ work'[i].op = ast'[i].k /\ work'[i].node = i
                          /\ work'[i].cont = Cont(i) /\ work'[i].rhs = Rhs(i)
                          /\ i # j => work'[i].sec = "lhs"
      BY <2>7 DEF Frames
    <3>2. CASE i = j
      BY <1>2, <2>1, <2>7, <3>2
    <3>3. CASE i # j
      BY <1>2, <2>5, <2>6, <3>3 DEF Frames
    <3>4. QED
      BY <3>2, <3>3
  <2>9. QED
    BY <2>1, <2>3, <2>7, <2>8
<1>16. Typed'
  BY <1>2, <1>4, <1>10, <1>15 DEF Typed
<1>17. QED
  BY <1>2, <1>5, <1>11, <1>12, <1>13, <1>14, <1>15, <1>16 DEF AtRight, Built, Up

\* The leaf of the right operand of operator j.
LEMMA LeafAtRight ==
  ASSUME Typed, NEW k \in Nat, NEW j \in 1..k, AtRight(k, j), EmitLeaf
  PROVE  Typed' /\ AtRight(k, j)'
<1>1. /\ work # <<>> /\ Top = work[j] /\ Top.node = j /\ Top.sec = "rhs"
      /\ Frames(j)
  BY TopProps DEF AtRight, Frames
<1>2. ret = NoValue /\ Len(ast) = 2 * k + 1 - j
  <2>1. ret = NoValue
    BY DEF EmitLeaf, Wanted
  <2>2. Right(k, j) \in Nat
    BY DEF Right
  <2>3. Leaf(Right(k, j)) # NoValue
    BY <2>2, HasValue
  <2>4. QED
    BY <2>1, <2>3 DEF AtRight
<1>3. /\ Visit("leaf") /\ Grow(0, <<>>) /\ Place(0, Rhs(j), Right(k, j)) /\ phi' = phi
      /\ ret' = Leaf(Right(k, j)) /\ ins' = ins /\ work' = work /\ pc' = pc
  <2>1. NewNode = Right(k, j)
    BY <1>2 DEF NewNode, Right
  <2>2. QED
    BY <2>1 DEF EmitLeaf, AtRight
<1>4. /\ ast' \in Seq(NodeType) /\ Len(ast') = Right(k, j)
      /\ Len(ast) = Right(k, j) - 1 /\ Right(k, j) \in (k + 2)..(2 * k + 1)
      /\ \A i \in 1..Len(ast) : ast'[i] = ast[i]
      /\ ast'[Right(k, j)].k = "leaf" /\ ast'[Right(k, j)].up = j
      /\ ast'[Right(k, j)].sec = "rhs"
  <2>1. Right(k, j) = Len(ast) + 1 /\ Right(k, j) \in (k + 2)..(2 * k + 1)
    BY <1>2 DEF Right
  <2>2. QED
    BY <1>1, <1>3, <2>1, VisitProps
<1>5. /\ Operators(k) /\ Innermost(k) /\ RightOperands(k)
      /\ Terms(k, j, j + 1) /\ Contents(k) /\ Phis(k, j, j + 1)
  BY DEF AtRight, Built
<1>6. nb \in Nat /\ nb = IF Guarded(k) THEN 2 * k + 5 ELSE 2 * k + 3
  BY <1>5 DEF Terms, Typed
<1>7. nb' = nb /\ DOMAIN term' = 1..nb /\ \A x \in 1..nb : term'[x] = term[x]
  <2>1. /\ nb' = nb + 0 /\ DOMAIN term' = 1..(nb + 0)
        /\ \A x \in 1..(nb + 0) :
             term'[x] = IF x \in DOMAIN <<>> THEN <<>>[x]
                        ELSE IF x <= nb THEN term[x] ELSE None
    BY <1>3, GrowProps
  <2>2. QED
    BY <1>6, <2>1
<1>8. /\ \A i \in 0..k : ExitOf(k, i) \in 1..nb
      /\ \A i \in 1..k : Rhs(i) \in 1..nb
      /\ {1, Then, End} \subseteq 1..nb /\ (Guarded(k) => 2 * k + 5 \in 1..nb)
  <2>1. ASSUME NEW i \in 0..k PROVE ExitOf(k, i) \in 1..nb
    <3>1. ExitOf(k, i) \in IF Guarded(k) THEN 4..(2 * k + 4) ELSE {1} \cup 4..(2 * k + 2)
      BY Exits
    <3>2. QED
      BY <1>6, <3>1
  <2>2. ASSUME NEW i \in 1..k PROVE Rhs(i) \in 1..nb
    <3>1. Rhs(i) \in 5..(2 * k + 3)
      BY Numbers
    <3>2. QED
      BY <1>6, <3>1
  <2>3. QED
    BY <1>6, <2>1, <2>2 DEF Then, End
<1>9. Rhs(j) \in 1..nb /\ code[Rhs(j)] = <<>>
  <2>1. ~ Right(k, j) <= Len(ast)
    BY <1>4
  <2>2. QED
    BY <1>5, <1>8, <2>1 DEF Contents
<1>10. /\ DOMAIN code' = 1..nb
       /\ \A x \in 1..nb : code'[x] = IF x = Rhs(j) THEN <<Right(k, j)>> ELSE code[x]
  <2>1. /\ DOMAIN code' = 1..(nb + 0)
        /\ \A x \in 1..(nb + 0) :
             code'[x] = IF x = Rhs(j) THEN <<Right(k, j)>>
                        ELSE IF x <= nb THEN code[x] ELSE <<>>
    BY <1>3, <1>9, PlaceProps
  <2>2. QED
    BY <1>6, <2>1
<1>11. \A i \in 1..k : i \in 1..Len(ast) /\ ast'[i] = ast[i]
  BY <1>4
<1>12. /\ Guarded(k)' = Guarded(k) /\ Operators(k)' /\ Innermost(k)'
       /\ \A i \in 0..k : ExitOf(k, i)' = ExitOf(k, i) /\ ValOf(k, i)' = ValOf(k, i)
       /\ \A i \in 1..k : Branch(k, i)' = Branch(k, i)
       /\ \A i \in 1..k : FromLeft(k, i)' = FromLeft(k, i) /\ FromRight(k, i)' = FromRight(k, i)
  <2>1. ast'[k + 1] = ast[k + 1]
    BY <1>4
  <2>2. Guarded(k)' = Guarded(k) /\ Operators(k)' /\ Innermost(k)'
    BY <1>4, <1>5, <1>11, <2>1 DEF Guarded, Operators, Innermost
  <2>3. \A i \in 0..k : ExitOf(k, i)' = ExitOf(k, i) /\ ValOf(k, i)' = ValOf(k, i)
    BY <2>2 DEF ExitOf, ValOf
  <2>4. \A i \in 1..k : i \in 0..k
    OBVIOUS
  <2>5. \A i \in 1..k : Branch(k, i)' = Branch(k, i)
    BY <1>11, <2>3, <2>4 DEF Branch
  <2>6. QED
    BY <1>11, <2>2, <2>3, <2>4, <2>5 DEF FromLeft, FromRight
<1>13. RightOperands(k)'
  <2>1. SUFFICES ASSUME NEW i \in 1..k, Right(k, i) <= Len(ast')
                 PROVE  /\ ast'[Right(k, i)].k = "leaf" /\ ast'[Right(k, i)].up = i
                        /\ ast'[Right(k, i)].sec = "rhs"
    BY DEF RightOperands
  <2>2. Right(k, i) \in 1..Len(ast) \/ i = j
    BY <1>4, <2>1 DEF Right
  <2>3. QED
    BY <1>4, <1>5, <2>2 DEF RightOperands
<1>14. Terms(k, j, j + 1)'
  <2>1. \A i \in 1..k : i \in 0..k
    OBVIOUS
  <2>2. 0 \in 0..k
    OBVIOUS
  <2>3. QED
    BY <1>3, <1>5, <1>7, <1>8, <1>12, <2>1, <2>2 DEF Terms
<1>15. Contents(k)'
  <2>1. /\ Rhs(j) \notin {1, Then, End, 2 * k + 4}
        /\ Guarded(k) => Rhs(j) # 2 * k + 5
        /\ \A i \in 1..k : Cont(i) # Rhs(j) /\ (i # j => Rhs(i) # Rhs(j))
    <3>1. Rhs(j) \in 5..(2 * k + 3) /\ Rhs(j) # 2 * k + 4
      BY Numbers
    <3>2. \A i \in 1..k : Cont(i) # Rhs(j) /\ (i # j => Rhs(i) # Rhs(j))
      BY Numbers
    <3>3. QED
      BY <3>1, <3>2 DEF Then, End
  <2>2. /\ 1 \in 1..nb /\ Then \in 1..nb /\ End \in 1..nb
        /\ Guarded(k) => 2 * k + 4 \in 1..nb /\ 2 * k + 5 \in 1..nb
    BY <1>6 DEF Then, End
  <2>3. \A i \in 1..k : Cont(i) \in 1..nb /\ Rhs(i) \in 1..nb
    BY <1>6, Numbers
  <2>4. \A i \in 1..k : i # j => (Right(k, i) <= Len(ast') <=> Right(k, i) <= Len(ast))
    BY <1>2, <1>4 DEF Right
  <2>5. /\ code'[Then] = <<>> /\ code'[End] = <<>>
        /\ ~ Guarded(k) => code'[1] = <<k + 1>>
        /\ Guarded(k) => /\ code'[1] = <<>> /\ code'[2 * k + 4] = <<k + 1>>
                         /\ code'[2 * k + 5] = <<>>
        /\ \A i \in 1..k : code'[Cont(i)] = <<>>
    BY <1>5, <1>10, <2>1, <2>2, <2>3 DEF Contents
  <2>6. ASSUME NEW i \in 1..k
        PROVE  code'[Rhs(i)] = IF Right(k, i) <= Len(ast') THEN <<Right(k, i)>> ELSE <<>>
    <3>1. CASE i = j
      <4>1. Right(k, j) <= Len(ast')
        BY <1>4
      <4>2. QED
        BY <1>9, <1>10, <3>1, <4>1
    <3>2. CASE i # j
      BY <1>5, <1>10, <2>1, <2>3, <2>4, <3>2 DEF Contents
    <3>3. QED
      BY <3>1, <3>2
  <2>7. QED
    BY <1>12, <2>5, <2>6 DEF Contents
<1>16. Phis(k, j, j + 1)'
  BY <1>3, <1>5, <1>12 DEF Phis
<1>17. Frames(j)'
  BY <1>1, <1>3, <1>11, SameFrames
<1>18. Typed'
  BY <1>3, <1>4, <1>7, <1>10 DEF Typed
<1>19. pc' = "emit" /\ ins' = Rhs(j) /\ work'[j].sec = "rhs" /\ Len(ast') = 2 * k + 2 - j
  BY <1>3, <1>4 DEF AtRight, Right
<1>20. QED
  BY <1>3, <1>12, <1>13, <1>14, <1>15, <1>16, <1>17, <1>18, <1>19 DEF AtRight, Built

\* The right operand of operator j ends in the block it began in.
LEMMA EndOfRhs ==
  ASSUME Typed, NEW k \in Nat, NEW j \in 1..k, AtRight(k, j), EndRhs
  PROVE  Typed' /\ Up(k, j - 1)'
<1>1. /\ work \in Seq(FrameType) /\ Len(work) = j /\ work # <<>>
      /\ Top = work[j] /\ Top \in FrameType /\ Frames(j)
      /\ Top.op = ast[j].k /\ Top.node = j /\ Top.sec = "rhs"
      /\ Top.cont = Cont(j) /\ Top.rhs = Rhs(j)
  <2>1. Frames(j) /\ work[j].sec = "rhs"
    BY DEF AtRight
  <2>2. work \in Seq(FrameType) /\ Len(work) = j
    BY <2>1 DEF Frames, Typed
  <2>3. work # <<>> /\ Top = work[j] /\ Top \in FrameType
    BY <2>2, TopProps
  <2>4. /\ work[j].op = ast[j].k /\ work[j].node = j
        /\ work[j].cont = Cont(j) /\ work[j].rhs = Rhs(j)
    BY <2>1 DEF Frames
  <2>5. QED
    BY <2>1, <2>2, <2>3, <2>4
<1>2. ret = Leaf(Right(k, j)) /\ Len(ast) = 2 * k + 2 - j
  BY DEF AtRight, EndRhs
<1>3. /\ Grow(0, [x \in {Rhs(j)} |-> Br(Cont(j))])
      /\ PhiAt(0, Cont(j), phi[Cont(j)] \cup {FromRight(k, j)})
      /\ ins' = Cont(j) /\ ret' = Phi(Cont(j)) /\ pc' = pc /\ pc = "emit"
      /\ work' = Front(work) /\ ast' = ast /\ code' = code
  BY <1>1, <1>2 DEF EndRhs, AtRight, IncomingFromRhs, FromRight
<1>4. /\ j \in Nat /\ j - 1 \in 0..k /\ 0 \in 0..k /\ j - 1 # k /\ j - 1 + 1 = j
      /\ \A i \in 1..k : i \in 0..k
  OBVIOUS
<1>5. /\ Operators(k) /\ Innermost(k) /\ RightOperands(k)
      /\ Terms(k, j, j + 1) /\ Contents(k) /\ Phis(k, j, j + 1)
  BY DEF AtRight, Built
<1>6. nb \in Nat /\ nb = IF Guarded(k) THEN 2 * k + 5 ELSE 2 * k + 3
  BY <1>5 DEF Terms, Typed
<1>7. /\ \A i \in 0..k : ExitOf(k, i) \in 1..nb /\ ExitOf(k, i) # Rhs(j)
      /\ \A i \in 1..k : /\ Rhs(i) \in 1..nb /\ Cont(i) \in 1..nb
                         /\ Rhs(i) # Cont(j)
                         /\ i # j => Rhs(i) # Rhs(j) /\ Cont(i) # Cont(j)
      /\ {1, Then, End} \subseteq 1..nb
      /\ Guarded(k) => 2 * k + 5 \in 1..nb /\ 2 * k + 4 \in 1..nb
      /\ Rhs(j) \notin {1, Then, End} /\ (Guarded(k) => Rhs(j) # 2 * k + 5)
      /\ Cont(j) \notin {1, Then, End, 2 * k + 4, 2 * k + 5}
  <2>1. ASSUME NEW i \in 0..k PROVE ExitOf(k, i) \in 1..nb /\ ExitOf(k, i) # Rhs(j)
    <3>1. /\ ExitOf(k, i) \in IF Guarded(k) THEN 4..(2 * k + 4) ELSE {1} \cup 4..(2 * k + 2)
          /\ ExitOf(k, i) # Rhs(j)
      BY Exits
    <3>2. QED
      BY <1>6, <3>1
  <2>2. ASSUME NEW i \in 1..k
        PROVE  /\ Rhs(i) \in 1..nb /\ Cont(i) \in 1..nb
               /\ Rhs(i) # Cont(j)
               /\ i # j => Rhs(i) # Rhs(j) /\ Cont(i) # Cont(j)
    <3>1. /\ Rhs(i) \in 5..(2 * k + 3) /\ Cont(i) \in 4..(2 * k + 2)
          /\ Rhs(i) # Cont(j)
          /\ i # j => Rhs(i) # Rhs(j) /\ Cont(i) # Cont(j)
      BY Numbers
    <3>2. QED
      BY <1>6, <3>1
  <2>3. Rhs(j) \in 5..(2 * k + 3) /\ Cont(j) \in 4..(2 * k + 2)
    BY Numbers
  <2>4. QED
    BY <1>6, <2>1, <2>2, <2>3 DEF Then, End
<1>8. /\ nb' = nb /\ DOMAIN term' = 1..nb
      /\ \A x \in 1..nb : term'[x] = IF x = Rhs(j) THEN Br(Cont(j)) ELSE term[x]
  <2> DEFINE t == [x \in {Rhs(j)} |-> Br(Cont(j))]
  <2>1. DOMAIN t = {Rhs(j)} /\ t[Rhs(j)] = Br(Cont(j)) /\ Grow(0, t)
    BY <1>3
  <2> HIDE DEF t
  <2>2. /\ nb' = nb + 0 /\ DOMAIN term' = 1..(nb + 0)
        /\ \A x \in 1..(nb + 0) :
             term'[x] = IF x \in DOMAIN t THEN t[x]
                        ELSE IF x <= nb THEN term[x] ELSE None
    BY <2>1, GrowProps
  <2>3. QED
    BY <1>6, <2>1, <2>2
<1>9. /\ DOMAIN phi' = 1..nb
      /\ \A x \in 1..nb : phi'[x] = IF x = Cont(j) THEN phi[Cont(j)] \cup {FromRight(k, j)}
                                    ELSE phi[x]
  <2> DEFINE in == phi[Cont(j)] \cup {FromRight(k, j)}
  <2>1. PhiAt(0, Cont(j), in)
    BY <1>3
  <2> HIDE DEF in
  <2>2. /\ DOMAIN phi' = 1..(nb + 0)
        /\ \A x \in 1..(nb + 0) :
             phi'[x] = IF x = Cont(j) THEN in ELSE IF x <= nb THEN phi[x] ELSE {}
    BY <2>1, PhiAtProps
  <2>3. /\ DOMAIN phi' = 1..nb
        /\ \A x \in 1..nb : phi'[x] = IF x = Cont(j) THEN in ELSE phi[x]
    BY <1>6, <2>2
  <2>4. QED
    BY <2>3 DEF in
<1>10. /\ Guarded(k)' = Guarded(k) /\ Operators(k)' /\ Innermost(k)' /\ RightOperands(k)'
       /\ \A i \in 0..k : ExitOf(k, i)' = ExitOf(k, i) /\ ValOf(k, i)' = ValOf(k, i)
       /\ \A i \in 1..k : Branch(k, i)' = Branch(k, i)
       /\ \A i \in 1..k : FromLeft(k, i)' = FromLeft(k, i) /\ FromRight(k, i)' = FromRight(k, i)
  BY <1>3, <1>5 DEF Guarded, Operators, Innermost, RightOperands, ExitOf, ValOf, Branch,
                    FromLeft, FromRight
<1>11. Terms(k, j, j)'
  <2>1. /\ Guarded(k) => /\ term'[1] = Check(k + 1, 2 * k + 4, 2 * k + 5)
                         /\ term'[2 * k + 5] = Unreachable(k + 1)
        /\ term'[Then] = None /\ term'[End] = None
    BY <1>5, <1>7, <1>8 DEF Terms
  <2>2. \A i \in 1..k : term'[ExitOf(k, i)] = IF i >= j THEN Branch(k, i) ELSE None
    BY <1>4, <1>5, <1>7, <1>8 DEF Terms
  <2>3. ASSUME NEW i \in 1..k
        PROVE  term'[Rhs(i)] = IF i >= j THEN Br(Cont(i)) ELSE None
    <3>1. CASE i = j
      BY <1>7, <1>8, <3>1
    <3>2. CASE i # j
      <4>1. i >= j <=> i >= j + 1
        BY <3>2
      <4>2. QED
        BY <1>5, <1>7, <1>8, <3>2, <4>1 DEF Terms
    <3>3. QED
      BY <3>1, <3>2
  <2>4. term'[ExitOf(k, 0)] = None
    BY <1>3, <1>4, <1>5, <1>7, <1>8 DEF Terms
  <2>5. QED
    BY <1>3, <1>4, <1>6, <1>8, <1>10, <2>1, <2>2, <2>3, <2>4 DEF Terms
<1>12. Contents(k)'
  BY <1>3, <1>5, <1>10 DEF Contents
<1>13. Phis(k, j, j)'
  <2>1. /\ phi'[1] = {} /\ phi'[Then] = {} /\ phi'[End] = {}
        /\ Guarded(k) => phi'[2 * k + 4] = {} /\ phi'[2 * k + 5] = {}
        /\ \A i \in 1..k : phi'[Rhs(i)] = {}
    BY <1>5, <1>7, <1>9 DEF Phis
  <2>2. ASSUME NEW i \in 1..k
        PROVE  phi'[Cont(i)] = (IF i >= j THEN {FromLeft(k, i)} ELSE {})
                                 \cup (IF i >= j THEN {FromRight(k, i)} ELSE {})
    <3>1. phi[Cont(i)] = (IF i >= j THEN {FromLeft(k, i)} ELSE {})
                           \cup (IF i >= j + 1 THEN {FromRight(k, i)} ELSE {})
      BY <1>5 DEF Phis
    <3>2. CASE i = j
      <4>1. phi[Cont(j)] = {FromLeft(k, j)}
        BY <1>4, <3>1, <3>2
      <4>2. phi'[Cont(j)] = {FromLeft(k, j)} \cup {FromRight(k, j)}
        BY <1>7, <1>9, <4>1
      <4>3. QED
        BY <1>4, <3>2, <4>2
    <3>3. CASE i # j
      <4>1. i >= j <=> i >= j + 1
        BY <3>3
      <4>2. QED
        BY <1>7, <1>9, <3>1, <3>3, <4>1
    <3>4. QED
      BY <3>2, <3>3
  <2>3. QED
    BY <1>10, <2>1, <2>2 DEF Phis
<1>14. Frames(j - 1)' /\ work' \in Seq(FrameType) /\ \A i \in 1..(j - 1) : work'[i].sec = "lhs"
  <2>1. /\ work' \in Seq(FrameType) /\ Len(work') = j - 1
        /\ \A i \in 1..(j - 1) : work'[i] = work[i]
    BY <1>1, <1>3, FrontProps
  <2>2. \A i \in 1..(j - 1) : i \in 1..j /\ i # j
    OBVIOUS
  <2>3. QED
    BY <1>1, <1>3, <2>1, <2>2 DEF Frames
<1>15. Typed'
  BY <1>3, <1>6, <1>8, <1>9, <1>14 DEF Typed
<1>16. /\ pc' = "emit" /\ ret' = ValOf(k, j - 1)' /\ ins' = ExitOf(k, j - 1)'
       /\ Len(ast') = 2 * k + 1 - (j - 1)
  BY <1>2, <1>3, <1>4 DEF ValOf, ExitOf
<1>17. QED
  BY <1>4, <1>5, <1>10, <1>11, <1>12, <1>13, <1>14, <1>15, <1>16 DEF Up, Built

\* The branch on the whole condition.
LEMMA EndOfCondition ==
  ASSUME Typed, NEW k \in Nat, Up(k, 0), EndCondition
  PROVE  Typed' /\ Up(k, 0)'
<1>1. /\ Grow(0, [x \in {ExitOf(k, 0)} |-> CondBr(ValOf(k, 0), Then, End)])
      /\ pc' = "done" /\ UNCHANGED <<ast, code, phi, ins, work, ret>>
  BY DEF Up, EndCondition
<1>2. /\ Operators(k) /\ Innermost(k) /\ RightOperands(k)
      /\ Terms(k, 1, 1) /\ Contents(k) /\ Phis(k, 1, 1) /\ Frames(0)
  BY DEF Up, Built
<1>3. nb \in Nat /\ nb = IF Guarded(k) THEN 2 * k + 5 ELSE 2 * k + 3
  BY <1>2 DEF Terms, Typed
<1>4. /\ 0 \in 0..k /\ \A i \in 1..k : i \in 0..k /\ i # 0
  OBVIOUS
<1>5. /\ nb' = nb /\ DOMAIN term' = 1..nb
      /\ \A x \in 1..nb : term'[x] = IF x = ExitOf(k, 0) THEN CondBr(ValOf(k, 0), Then, End)
                                     ELSE term[x]
  <2> DEFINE t == [x \in {ExitOf(k, 0)} |-> CondBr(ValOf(k, 0), Then, End)]
  <2>1. /\ DOMAIN t = {ExitOf(k, 0)} /\ Grow(0, t)
        /\ t[ExitOf(k, 0)] = CondBr(ValOf(k, 0), Then, End)
    BY <1>1
  <2> HIDE DEF t
  <2>2. /\ nb' = nb + 0 /\ DOMAIN term' = 1..(nb + 0)
        /\ \A x \in 1..(nb + 0) :
             term'[x] = IF x \in DOMAIN t THEN t[x]
                        ELSE IF x <= nb THEN term[x] ELSE None
    BY <2>1, GrowProps
  <2>3. QED
    BY <1>3, <2>1, <2>2
<1>6. /\ \A i \in 0..k : /\ ExitOf(k, i) \in 1..nb
                         /\ i # 0 => ExitOf(k, i) # ExitOf(k, 0)
      /\ \A i \in 1..k : Rhs(i) \in 1..nb /\ Rhs(i) # ExitOf(k, 0)
      /\ {1, Then, End} \subseteq 1..nb
      /\ Guarded(k) => 2 * k + 5 \in 1..nb
      /\ ExitOf(k, 0) \notin {Then, End}
      /\ Guarded(k) => ExitOf(k, 0) \notin {1, 2 * k + 5}
  <2>1. ASSUME NEW i \in 0..k
        PROVE  /\ ExitOf(k, i) \in 1..nb
               /\ i # 0 => ExitOf(k, i) # ExitOf(k, 0)
               /\ ExitOf(k, i) \notin {Then, End}
               /\ Guarded(k) => ExitOf(k, i) \notin {1, 2 * k + 5}
    <3>1. /\ ExitOf(k, i) \in IF Guarded(k) THEN 4..(2 * k + 4) ELSE {1} \cup 4..(2 * k + 2)
          /\ i # 0 => ExitOf(k, i) # ExitOf(k, 0)
      BY <1>4, Exits
    <3>2. QED
      BY <1>3, <3>1 DEF Then, End
  <2>2. ASSUME NEW i \in 1..k PROVE Rhs(i) \in 1..nb /\ Rhs(i) # ExitOf(k, 0)
    <3>1. Rhs(i) \in 5..(2 * k + 3)
      BY Numbers
    <3>2. ExitOf(k, 0) # Rhs(i)
      BY <1>4, Exits
    <3>3. QED
      BY <1>3, <3>1, <3>2
  <2>3. QED
    BY <1>3, <1>4, <2>1, <2>2 DEF Then, End
<1>7. /\ Guarded(k)' = Guarded(k) /\ Operators(k)' /\ Innermost(k)' /\ RightOperands(k)'
      /\ \A i \in 0..k : ExitOf(k, i)' = ExitOf(k, i) /\ ValOf(k, i)' = ValOf(k, i)
      /\ \A i \in 1..k : Branch(k, i)' = Branch(k, i)
      /\ \A i \in 1..k : FromLeft(k, i)' = FromLeft(k, i) /\ FromRight(k, i)' = FromRight(k, i)
  BY <1>1, <1>2 DEF Guarded, Operators, Innermost, RightOperands, ExitOf, ValOf, Branch,
                    FromLeft, FromRight
<1>8. Terms(k, 1, 1)'
  <2>1. /\ Guarded(k) => /\ term'[1] = Check(k + 1, 2 * k + 4, 2 * k + 5)
                         /\ term'[2 * k + 5] = Unreachable(k + 1)
        /\ term'[Then] = None /\ term'[End] = None
    BY <1>2, <1>5, <1>6 DEF Terms
  <2>2. \A i \in 1..k : /\ term'[ExitOf(k, i)] = IF i >= 1 THEN Branch(k, i) ELSE None
                        /\ term'[Rhs(i)] = IF i >= 1 THEN Br(Cont(i)) ELSE None
    BY <1>2, <1>4, <1>5, <1>6 DEF Terms
  <2>3. term'[ExitOf(k, 0)] = CondBr(ValOf(k, 0), Then, End)
    BY <1>4, <1>5, <1>6
  <2>4. QED
    BY <1>1, <1>3, <1>4, <1>5, <1>7, <2>1, <2>2, <2>3 DEF Terms
<1>9. Contents(k)' /\ Phis(k, 1, 1)'
  BY <1>1, <1>2, <1>7 DEF Contents, Phis
<1>10. Typed'
  BY <1>1, <1>5 DEF Typed
<1>11. QED
  BY <1>1, <1>2, <1>4, <1>7, <1>8, <1>9, <1>10 DEF Up, Built, Frames

-----------------------------------------------------------------------------
(* With RhsMayBranch false, EmitInv holds throughout. *)

LEMMA Triple ==
  ASSUME NEW a
  PROVE  DOMAIN <<a, a, a>> = 1..3 /\ \A x \in 1..3 : <<a, a, a>>[x] = a
OBVIOUS

LEMMA EmitInit == Init => EmitInv
<1>1. SUFFICES ASSUME Init PROVE Typed /\ Down(0)
  BY DEF EmitInv
<1>2. /\ ast = <<>> /\ nb = 3 /\ ins = 1 /\ work = <<>>
      /\ term = <<None, None, None>> /\ code = <<<<>>, <<>>, <<>>>>
      /\ phi = <<{}, {}, {}>> /\ ret = NoValue /\ pc = "emit"
  BY <1>1 DEF Init
<1>3. /\ DOMAIN term = 1..nb /\ DOMAIN code = 1..nb /\ DOMAIN phi = 1..nb
      /\ \A x \in 1..nb : term[x] = None /\ code[x] = <<>> /\ phi[x] = {}
      /\ ast \in Seq(NodeType) /\ work \in Seq(FrameType) /\ nb \in Nat
      /\ Len(ast) = 0 /\ Len(work) = 0 /\ pc = "emit" /\ nb = 2 * 0 + 3
      /\ ins = 1 /\ ret = NoValue
  BY <1>2, EmptySeq, Triple
<1>4. Typed
  BY <1>3 DEF Typed
<1>5. Operators(0) /\ Frames(0) /\ \A i \in 1..0 : work[i].sec = "lhs"
  BY <1>3 DEF Operators, Frames
<1>6. QED
  BY <1>3, <1>4, <1>5 DEF Down

LEMMA EmitStep ==
  ASSUME EmitInv, Emission, ~ RhsMayBranch
  PROVE  EmitInv'
<1>1. PICK k \in Nat : \/ Down(k)
                       \/ \E j \in 0..k : Up(k, j)
                       \/ \E j \in 1..k : AtRight(k, j)
  BY DEF EmitInv
<1>2. Typed
  BY DEF EmitInv
<1>3. k + 1 \in Nat /\ k \in 0..k /\ 0 \in 0..k
  OBVIOUS
<1>4. CASE Down(k)
  <2>1. EmitLeaf \/ EmitChecked \/ OpenLogical
    BY <1>4 DEF Emission, EndLhs, EndRhs, EndCondition, Down
  <2>2. CASE EmitLeaf
    BY <1>2, <1>3, <1>4, <2>2, LeafDown DEF EmitInv
  <2>3. CASE EmitChecked
    BY <1>2, <1>3, <1>4, <2>3, CheckedDown DEF EmitInv
  <2>4. CASE OpenLogical
    BY <1>2, <1>3, <1>4, <2>4, OpenDown DEF EmitInv
  <2>5. QED
    BY <2>1, <2>2, <2>3, <2>4
<1>5. ASSUME NEW j \in 0..k, Up(k, j) PROVE EmitInv'
  <2>1. ret # NoValue
    BY <1>5, HasValue DEF Up
  <2>2. EndLhs \/ EndRhs \/ EndCondition
    BY <2>1 DEF Emission, EmitLeaf, EmitChecked, OpenLogical, Wanted
  <2>3. CASE j = 0
    <3>1. work = <<>>
      BY <1>2, <1>5, <2>3, TopProps DEF Up, Frames
    <3>2. EndCondition
      BY <2>2, <3>1 DEF EndLhs, EndRhs
    <3>3. QED
      BY <1>2, <1>3, <1>5, <2>3, <3>2, EndOfCondition DEF EmitInv
  <2>4. CASE j # 0
    <3>1. j \in 1..k
      BY <2>4
    <3>2. work # <<>> /\ Top.sec = "lhs"
      BY <1>2, <1>5, <3>1, TopProps DEF Up, Frames
    <3>3. EndLhs
      BY <2>2, <3>2 DEF EndRhs, EndCondition
    <3>4. QED
      BY <1>2, <1>5, <3>1, <3>3, EndOfLhs DEF EmitInv
  <2>5. QED
    BY <2>3, <2>4
<1>6. ASSUME NEW j \in 1..k, AtRight(k, j) PROVE EmitInv'
  <2>1. work # <<>> /\ Top.sec = "rhs"
    BY <1>2, <1>6, TopProps DEF AtRight, Frames
  <2>2. EmitLeaf \/ EndRhs
    BY <2>1 DEF Emission, EmitChecked, OpenLogical, MayBranch, EndLhs, EndCondition
  <2>3. CASE EmitLeaf
    BY <1>2, <1>6, <2>3, LeafAtRight DEF EmitInv
  <2>4. CASE EndRhs
    <3>1. j - 1 \in 0..k
      OBVIOUS
    <3>2. QED
      BY <1>2, <1>6, <2>4, <3>1, EndOfRhs DEF EmitInv
  <2>5. QED
    BY <2>2, <2>3, <2>4
<1>7. QED
  BY <1>1, <1>4, <1>5, <1>6

LEMMA EmitSame ==
  ASSUME EmitInv, UNCHANGED evars
  PROVE  EmitInv'
<1>1. /\ Typed' <=> Typed
      /\ \A k \in Nat : Down(k)' <=> Down(k)
  BY DEF evars, Typed, Down, Operators, Frames
<1>2. ASSUME NEW k \in Nat, NEW lo \in Nat, NEW hi \in Nat
      PROVE  Built(k, lo, hi)' <=> Built(k, lo, hi)
  BY DEF evars, Built, Operators, Innermost, RightOperands, Terms, Contents, Phis,
         Guarded, ExitOf, ValOf, Branch, FromLeft, FromRight
<1>3. ASSUME NEW k \in Nat, NEW j \in Nat
      PROVE  (Up(k, j)' <=> Up(k, j)) /\ (AtRight(k, j)' <=> AtRight(k, j))
  <2>1. Frames(j)' <=> Frames(j)
    BY DEF evars, Frames
  <2>2. ValOf(k, j)' = ValOf(k, j) /\ ExitOf(k, j)' = ExitOf(k, j)
    BY DEF evars, ValOf, ExitOf, Guarded
  <2>3. /\ Built(k, j, j + 1)' <=> Built(k, j, j + 1)
        /\ Built(k, j + 1, j + 1)' <=> Built(k, j + 1, j + 1)
    BY <1>2
  <2>4. Up(k, j)' <=> Up(k, j)
    BY <2>1, <2>2, <2>3 DEF evars, Up
  <2>5. AtRight(k, j)' <=> AtRight(k, j)
    BY <2>1, <2>3 DEF evars, AtRight
  <2>6. QED
    BY <2>4, <2>5
<1>4. QED
  BY <1>1, <1>3 DEF EmitInv

\* The invariant of the emission.
LEMMA EmitInvariant ==
  ASSUME ~ RhsMayBranch
  PROVE  Spec => []EmitInv
<1>1. Init => EmitInv
  BY EmitInit
<1>2. EmitInv /\ [Next]_vars => EmitInv'
  <2>1. SUFFICES ASSUME EmitInv, [Next]_vars PROVE EmitInv'
    OBVIOUS
  <2>2. Emission \/ UNCHANGED evars
    BY <2>1 DEF Next, Start, Evaluate, Jump, Revert, Result, Stopped, vars, evars
  <2>3. QED
    BY <2>1, <2>2, EmitStep, EmitSame
<1>3. QED
  BY <1>1, <1>2, PTL DEF Spec

LEMMA PairSize ==
  ASSUME NEW a, NEW b, a # b
  PROVE  Cardinality({a, b}) = 2
<1>1. {a, b} = {a} \cup {b} /\ b \notin {a}
  OBVIOUS
<1>2. IsFiniteSet({a}) /\ Cardinality({a}) = 1
  BY FS_Singleton
<1>3. QED
  BY <1>1, <1>2, FS_AddElement

LEMMA EmittedPhis == EmitInv => PhiCoversPredecessors
<1>1. SUFFICES ASSUME EmitInv, pc = "done", NEW b \in 1..nb, phi[b] # {}
               PROVE  /\ {p.from : p \in phi[b]} = Preds(term, b)
                      /\ Cardinality(phi[b]) = Cardinality(Preds(term, b))
  BY DEF PhiCoversPredecessors
<1>2. PICK k \in Nat : Up(k, 0)
  BY <1>1 DEF EmitInv, Down, Up, AtRight
<1>3. Typed /\ Terms(k, 1, 1) /\ Phis(k, 1, 1)
  BY <1>1, <1>2 DEF EmitInv, Up, Built
<1>4. PICK i \in 1..k : b = Cont(i)
  <2>1. nb = IF Guarded(k) THEN 2 * k + 5 ELSE 2 * k + 3
    BY <1>3 DEF Terms
  <2>2. \/ b \in {Then, End}
        \/ \E i \in 0..k : b = ExitOf(k, i)
        \/ \E i \in 1..k : b = Rhs(i)
        \/ Guarded(k) /\ b \in {1, 2 * k + 5}
    BY <2>1, Enumerate
  <2>3. PICK i \in 0..k : b = ExitOf(k, i)
    BY <1>1, <1>3, <2>2 DEF Phis
  <2>4. i # k
    BY <1>1, <1>3, <2>3 DEF Phis, ExitOf
  <2>5. i + 1 \in 1..k /\ b = Cont(i + 1)
    BY <2>3, <2>4 DEF ExitOf
  <2>6. QED
    BY <2>5
<1>5. i \in 0..k /\ i >= 1
  OBVIOUS
<1>6. Preds(term, b) = {ExitOf(k, i), Rhs(i)} /\ ExitOf(k, i) # Rhs(i)
  <2>1. Preds(term, Cont(i)) = (IF i >= 1 THEN {ExitOf(k, i)} ELSE {})
                                 \cup (IF i >= 1 THEN {Rhs(i)} ELSE {})
    BY <1>3, PredsOf
  <2>2. ExitOf(k, i) # Rhs(i)
    BY <1>5, Exits
  <2>3. QED
    BY <1>4, <1>5, <2>1, <2>2
<1>7. phi[b] = {FromLeft(k, i), FromRight(k, i)}
  BY <1>3, <1>4, <1>5 DEF Phis
<1>8. FromLeft(k, i).from = ExitOf(k, i) /\ FromRight(k, i).from = Rhs(i)
  BY DEF FromLeft, FromRight
<1>9. FromLeft(k, i) # FromRight(k, i)
  BY <1>6, <1>8
<1>10. Cardinality(phi[b]) = 2 /\ Cardinality(Preds(term, b)) = 2
  <2>1. Cardinality({ExitOf(k, i), Rhs(i)}) = 2
    BY <1>6, PairSize
  <2>2. Cardinality({FromLeft(k, i), FromRight(k, i)}) = 2
    BY <1>9, PairSize
  <2>3. QED
    BY <1>6, <1>7, <2>1, <2>2
<1>11. {p.from : p \in phi[b]} = {ExitOf(k, i), Rhs(i)}
  BY <1>7, <1>8
<1>12. QED
  BY <1>6, <1>10, <1>11

\* PhiCoversPredecessors of every expression whose right operands stay in one
\* block.
THEOREM PhisComplete ==
  ASSUME ~ RhsMayBranch
  PROVE  Spec => []PhiCoversPredecessors
BY EmitInvariant, EmittedPhis, PTL

-----------------------------------------------------------------------------
(* What the chain means: the operands that follow, in closed form. *)

Chain(k) ==
  /\ ast \in Seq(NodeType) /\ Len(ast) = 2 * k + 1
  /\ Operators(k) /\ Innermost(k) /\ RightOperands(k)

\* The operators from 1 to u that the value v of their left operand does not
\* decide, and what follows when the operand below operator u has value v.
Undecided(u, v) == {i \in 1..u : v = (ast[i].k = "and")}
Largest(T) == CHOOSE i \in T : \A h \in T : h <= i
After(k, u, v) ==
  IF Undecided(u, v) = {} THEN [st |-> "result", node |-> 0, val |-> v]
  ELSE [st |-> "next", node |-> Right(k, Largest(Undecided(u, v)))]

\* The operator whose left operand node p ends, 0 if none.
Above(k, p) == IF p <= k + 1 THEN p - 1 ELSE 2 * k + 1 - p

LEMMA AfterProps ==
  ASSUME NEW k \in Nat, NEW u \in 0..k, NEW v \in BOOLEAN
  PROVE  /\ u = 0 => After(k, u, v) = [st |-> "result", node |-> 0, val |-> v]
         /\ u # 0 /\ v = (ast[u].k = "and") =>
              After(k, u, v) = [st |-> "next", node |-> Right(k, u)]
         /\ u # 0 /\ v # (ast[u].k = "and") => After(k, u, v) = After(k, u - 1, v)
<1>1. CASE u = 0
  <2>1. Undecided(u, v) = {}
    BY <1>1 DEF Undecided
  <2>2. QED
    BY <1>1, <2>1 DEF After
<1>2. CASE u # 0 /\ v = (ast[u].k = "and")
  <2>1. u \in Undecided(u, v) /\ \A h \in Undecided(u, v) : h \in 1..u
    BY <1>2 DEF Undecided
  <2>2. Largest(Undecided(u, v)) = u
    <3>1. \A h \in Undecided(u, v) : h <= u
      BY <2>1
    <3>2. /\ Largest(Undecided(u, v)) \in Undecided(u, v)
          /\ \A h \in Undecided(u, v) : h <= Largest(Undecided(u, v))
      BY <2>1, <3>1 DEF Largest
    <3>3. QED
      BY <2>1, <3>2
  <2>3. QED
    BY <1>2, <2>1, <2>2 DEF After
<1>3. CASE u # 0 /\ v # (ast[u].k = "and")
  <2>1. Undecided(u, v) = Undecided(u - 1, v)
    <3>1. \A i \in 1..u : i = u \/ i \in 1..(u - 1)
      OBVIOUS
    <3>2. \A i \in 1..(u - 1) : i \in 1..u
      OBVIOUS
    <3>3. QED
      BY <1>3, <3>1, <3>2 DEF Undecided
  <2>2. QED
    BY <1>3, <2>1 DEF After
<1>4. QED
  BY <1>1, <1>2, <1>3

LEMMA Nodes ==
  ASSUME NEW k \in Nat, Chain(k)
  PROVE  /\ DOMAIN ast = 1..(2 * k + 1)
         /\ \A p \in 1..k : /\ ast[p].k \in {"and", "or"} /\ ast[p].up = p - 1
                            /\ p # 1 => ast[p].sec = "lhs"
         /\ ast[k + 1].k \in {"leaf", "chk"} /\ ast[k + 1].up = k
         /\ k # 0 => ast[k + 1].sec = "lhs"
         /\ \A p \in (k + 2)..(2 * k + 1) :
              /\ ast[p].k = "leaf" /\ ast[p].up = 2 * k + 2 - p /\ ast[p].sec = "rhs"
         /\ ast[1].up = 0 /\ ast[1].sec = "root"
<1>1. DOMAIN ast = 1..(2 * k + 1)
  BY LenProperties DEF Chain
<1>2. \A p \in 1..k : /\ ast[p].k \in {"and", "or"} /\ ast[p].up = p - 1
                      /\ p # 1 => ast[p].sec = "lhs"
  BY DEF Chain, Operators, Section
<1>3. /\ ast[k + 1].k \in {"leaf", "chk"} /\ ast[k + 1].up = k
      /\ k # 0 => ast[k + 1].sec = "lhs"
  BY DEF Chain, Innermost, Section
<1>4. ASSUME NEW p \in (k + 2)..(2 * k + 1)
      PROVE  ast[p].k = "leaf" /\ ast[p].up = 2 * k + 2 - p /\ ast[p].sec = "rhs"
  <2>1. 2 * k + 2 - p \in 1..k /\ Right(k, 2 * k + 2 - p) = p /\ p <= Len(ast)
    BY DEF Right, Chain
  <2>2. QED
    BY <2>1 DEF Chain, RightOperands
<1>5. ast[1].up = 0 /\ ast[1].sec = "root"
  <2>1. CASE k = 0
    BY <2>1 DEF Chain, Innermost, Section
  <2>2. CASE k # 0
    BY <2>2 DEF Chain, Operators, Section
  <2>3. QED
    BY <2>1, <2>2
<1>6. QED
  BY <1>1, <1>2, <1>3, <1>4, <1>5

LEMMA Children ==
  ASSUME NEW k \in Nat, Chain(k), NEW p \in 1..k
  PROVE  /\ Meaning!Child(p, "lhs") = p + 1
         /\ Meaning!Child(p, "rhs") = Right(k, p)
<1>1. Right(k, p) \in (k + 2)..(2 * k + 1) /\ 2 * k + 2 - Right(k, p) = p
  BY DEF Right
<1>2. p + 1 \in DOMAIN ast /\ ast[p + 1].up = p /\ ast[p + 1].sec = "lhs"
  <2>1. p + 1 \in 1..k \/ p + 1 = k + 1
    OBVIOUS
  <2>2. p + 1 \in 1..(2 * k + 1) /\ p + 1 # 1 /\ p + 1 - 1 = p /\ k # 0
    OBVIOUS
  <2>3. CASE p + 1 \in 1..k
    BY <2>2, <2>3, Nodes
  <2>4. CASE p + 1 = k + 1
    BY <2>2, <2>4, Nodes
  <2>5. QED
    BY <2>1, <2>3, <2>4
<1>3. /\ Right(k, p) \in DOMAIN ast
      /\ ast[Right(k, p)].up = p /\ ast[Right(k, p)].sec = "rhs"
  BY <1>1, Nodes
<1>4. ASSUME NEW q \in DOMAIN ast, ast[q].up = p
      PROVE  /\ ast[q].sec = "lhs" => q = p + 1
             /\ ast[q].sec = "rhs" => q = Right(k, p)
  <2>1. q \in 1..(2 * k + 1)
    BY <1>4, Nodes
  <2>2. CASE q \in 1..k
    <3>1. q # 1
      BY <1>4, Nodes
    <3>2. q = p + 1 /\ ast[q].sec = "lhs"
      <4>1. ast[q].up = q - 1 /\ ast[q].sec = "lhs"
        BY <2>2, <3>1, Nodes
      <4>2. QED
        BY <1>4, <2>1, <4>1
    <3>3. QED
      BY <3>2
  <2>3. CASE q = k + 1
    <3>1. ast[q].up = k /\ k # 0 /\ ast[q].sec = "lhs"
      BY <2>3, Nodes
    <3>2. QED
      BY <1>4, <2>3, <3>1
  <2>4. CASE q \in (k + 2)..(2 * k + 1)
    <3>1. ast[q].up = 2 * k + 2 - q /\ ast[q].sec = "rhs"
      BY <2>4, Nodes
    <3>2. QED
      BY <1>4, <2>1, <3>1 DEF Right
  <2>5. QED
    BY <2>1, <2>2, <2>3, <2>4
<1>5. Meaning!Child(p, "lhs") = p + 1
  BY <1>2, <1>4 DEF Meaning!Child
<1>6. Meaning!Child(p, "rhs") = Right(k, p)
  BY <1>3, <1>4 DEF Meaning!Child
<1>7. QED
  BY <1>5, <1>6

LEMMA FirstOperands ==
  ASSUME NEW k \in Nat, Chain(k)
  PROVE  /\ Meaning!FirstOperand[1] = k + 1
         /\ \A i \in 1..k : Meaning!FirstOperand[Right(k, i)] = Right(k, i)
<1> DEFINE g == [p \in DOMAIN ast |-> IF p <= k + 1 THEN k + 1 ELSE p]
           F == Meaning!FirstOperand
<1>1. DOMAIN ast = 1..(2 * k + 1)
  BY Nodes
<1>2. ASSUME NEW p \in DOMAIN ast
      PROVE  Meaning!Kind(p) \in {"and", "or"} <=> p \in 1..k
  <2>1. p \in 1..k \/ p = k + 1 \/ p \in (k + 2)..(2 * k + 1)
    BY <1>1
  <2>2. QED
    BY <2>1, Nodes DEF Meaning!Kind
<1>3. g = [p \in DOMAIN ast |->
             IF Meaning!Kind(p) \in {"and", "or"} THEN g[Meaning!Child(p, "lhs")] ELSE p]
  <2>1. SUFFICES ASSUME NEW p \in DOMAIN ast
                 PROVE  (IF p <= k + 1 THEN k + 1 ELSE p)
                          = IF Meaning!Kind(p) \in {"and", "or"}
                            THEN g[Meaning!Child(p, "lhs")] ELSE p
    OBVIOUS
  <2>2. CASE p \in 1..k
    <3>1. Meaning!Child(p, "lhs") = p + 1
      BY <2>2, Children
    <3>2. p + 1 \in DOMAIN ast /\ g[p + 1] = k + 1
      BY <1>1, <2>2
    <3>3. QED
      BY <1>1, <1>2, <2>2, <3>1, <3>2
  <2>3. CASE p \notin 1..k
    BY <1>1, <1>2, <2>3
  <2>4. QED
    BY <2>2, <2>3
<1>4. F = [p \in DOMAIN ast |->
             IF Meaning!Kind(p) \in {"and", "or"} THEN F[Meaning!Child(p, "lhs")] ELSE p]
  <2>1. \E f : f = [p \in DOMAIN ast |->
             IF Meaning!Kind(p) \in {"and", "or"} THEN f[Meaning!Child(p, "lhs")] ELSE p]
    BY <1>3
  <2>2. QED
    BY <2>1, Zenon DEF Meaning!FirstOperand
<1> HIDE DEF F
<1>5. \A p \in 1..k : F[p] = F[p + 1]
  <2>1. SUFFICES ASSUME NEW p \in 1..k PROVE F[p] = F[p + 1]
    OBVIOUS
  <2>2. p \in DOMAIN ast
    BY <1>1
  <2>3. QED
    BY <1>2, <1>4, <2>2, Children
<1>6. F[k + 1] = k + 1
  <2>1. k + 1 \in DOMAIN ast /\ k + 1 \notin 1..k
    BY <1>1
  <2>2. QED
    BY <1>2, <1>4, <2>1
<1>7. F[1] = k + 1
  <2> DEFINE S == {n \in Nat : n <= k => F[k + 1 - n] = k + 1}
  <2>1. 0 \in S
    BY <1>6
  <2>2. ASSUME NEW n \in Nat, n \in S PROVE n + 1 \in S
    <3>1. SUFFICES ASSUME n + 1 <= k PROVE F[k + 1 - (n + 1)] = k + 1
      OBVIOUS
    <3>2. k - n \in 1..k /\ k + 1 - (n + 1) = k - n /\ k - n + 1 = k + 1 - n
      BY <3>1
    <3>3. F[k + 1 - n] = k + 1
      BY <2>2, <3>1
    <3>4. QED
      BY <1>5, <3>2, <3>3
  <2> HIDE DEF S
  <2>3. k \in S
    BY <2>1, <2>2, NaturalInduction
  <2>4. k + 1 - k = 1
    OBVIOUS
  <2>5. QED
    BY <2>3, <2>4 DEF S
<1>8. ASSUME NEW i \in 1..k PROVE F[Right(k, i)] = Right(k, i)
  <2>1. Right(k, i) \in DOMAIN ast /\ Right(k, i) \notin 1..k
    BY <1>1 DEF Right
  <2>2. QED
    BY <1>2, <1>4, <2>1
<1>9. QED
  BY <1>7, <1>8 DEF F

\* Decide, in closed form.
LEMMA Decisions ==
  ASSUME NEW k \in Nat, Chain(k), NEW p \in 1..(2 * k + 1), NEW v \in BOOLEAN
  PROVE  Meaning!Decide[p][v] = After(k, Above(k, p), v)
<1> DEFINE R(p0, v0) == [st |-> "result", node |-> 0, val |-> v0]
           N(p0) == [st |-> "next",
                     node |-> Meaning!FirstOperand[Meaning!Child(ast[p0].up, "rhs")]]
           Stays(p0, v0) == ast[p0].sec = "lhs" /\ v0 = (Meaning!Kind(ast[p0].up) = "and")
           g == [p0 \in DOMAIN ast |-> [v0 \in BOOLEAN |-> After(k, Above(k, p0), v0)]]
           D == Meaning!Decide
<1>1. DOMAIN ast = 1..(2 * k + 1)
  BY Nodes
<1>2. ASSUME NEW p0 \in DOMAIN ast
      PROVE  /\ ast[p0].up = 0 => Above(k, p0) = 0
             /\ ast[p0].up # 0 =>
                  /\ ast[p0].up \in 1..k /\ ast[p0].up < p0
                  /\ Above(k, ast[p0].up) = ast[p0].up - 1
                  /\ ast[p0].sec = "lhs" => Above(k, p0) = ast[p0].up
                  /\ ast[p0].sec # "lhs" => Above(k, p0) = ast[p0].up - 1
  <2>1. p0 \in 1..k \/ p0 = k + 1 \/ p0 \in (k + 2)..(2 * k + 1)
    BY <1>1
  <2>2. CASE p0 \in 1..k
    <3>1. ast[p0].up = p0 - 1 /\ (p0 # 1 => ast[p0].sec = "lhs")
      BY <2>2, Nodes
    <3>2. QED
      BY <2>2, <3>1 DEF Above
  <2>3. CASE p0 = k + 1
    <3>1. ast[p0].up = k /\ (k # 0 => ast[p0].sec = "lhs")
      BY <2>3, Nodes
    <3>2. QED
      BY <2>3, <3>1 DEF Above
  <2>4. CASE p0 \in (k + 2)..(2 * k + 1)
    <3>1. ast[p0].up = 2 * k + 2 - p0 /\ ast[p0].sec = "rhs"
      BY <2>4, Nodes
    <3>2. QED
      BY <2>4, <3>1 DEF Above
  <2>5. QED
    BY <2>1, <2>2, <2>3, <2>4
<1>3. ASSUME NEW p0 \in DOMAIN ast, NEW v0 \in BOOLEAN
      PROVE  After(k, Above(k, p0), v0) =
               IF ast[p0].up = 0 THEN R(p0, v0)
               ELSE IF Stays(p0, v0) THEN N(p0)
               ELSE After(k, Above(k, ast[p0].up), v0)
  <2>1. CASE ast[p0].up = 0
    BY <1>2, <2>1, AfterProps
  <2>2. CASE ast[p0].up # 0
    <3>1. PICK i \in 1..k : i = ast[p0].up
      BY <1>2, <2>2
    <3>2. N(p0) = [st |-> "next", node |-> Right(k, i)]
      BY <3>1, Children, FirstOperands
    <3>3. i \in 0..k /\ i # 0 /\ Above(k, i) = i - 1 /\ i - 1 \in 0..k
      BY <1>2, <3>1
    <3>4. CASE ast[p0].sec = "lhs"
      <4>1. Above(k, p0) = i
        BY <1>2, <3>1, <3>3, <3>4
      <4>2. CASE v0 = (ast[i].k = "and")
        BY <2>2, <3>1, <3>2, <3>3, <3>4, <4>1, <4>2, AfterProps DEF Meaning!Kind
      <4>3. CASE v0 # (ast[i].k = "and")
        BY <2>2, <3>1, <3>3, <3>4, <4>1, <4>3, AfterProps DEF Meaning!Kind
      <4>4. QED
        BY <4>2, <4>3
    <3>5. CASE ast[p0].sec # "lhs"
      <4>1. Above(k, p0) = i - 1
        BY <1>2, <3>1, <3>3, <3>5
      <4>2. QED
        BY <2>2, <3>1, <3>3, <3>5, <4>1
    <3>6. QED
      BY <3>4, <3>5
  <2>3. QED
    BY <2>1, <2>2
<1>4. g = [p0 \in DOMAIN ast |-> [v0 \in BOOLEAN |->
             IF ast[p0].up = 0 THEN R(p0, v0)
             ELSE IF Stays(p0, v0) THEN N(p0) ELSE g[ast[p0].up][v0]]]
  <2>1. ASSUME NEW p0 \in DOMAIN ast, NEW v0 \in BOOLEAN
        PROVE  After(k, Above(k, p0), v0) =
                 IF ast[p0].up = 0 THEN R(p0, v0)
                 ELSE IF Stays(p0, v0) THEN N(p0) ELSE g[ast[p0].up][v0]
    <3>1. ast[p0].up # 0 => ast[p0].up \in DOMAIN ast
      BY <1>1, <1>2
    <3>2. ast[p0].up # 0 => g[ast[p0].up][v0] = After(k, Above(k, ast[p0].up), v0)
      BY <3>1
    <3> HIDE DEF g, N, R, Stays
    <3>3. QED
      BY <1>3, <3>2
  <2> HIDE DEF N, R, Stays
  <2>2. QED
    BY <2>1, Zenon
<1>5. D = [p0 \in DOMAIN ast |-> [v0 \in BOOLEAN |->
             IF ast[p0].up = 0 THEN R(p0, v0)
             ELSE IF Stays(p0, v0) THEN N(p0) ELSE D[ast[p0].up][v0]]]
  <2>1. \E f : f = [p0 \in DOMAIN ast |-> [v0 \in BOOLEAN |->
             IF ast[p0].up = 0 THEN R(p0, v0)
             ELSE IF Stays(p0, v0) THEN N(p0) ELSE f[ast[p0].up][v0]]]
    BY <1>4
  <2>2. QED
    BY <2>1, Zenon DEF Meaning!Decide
<1> HIDE DEF D, g
<1>6. ASSUME NEW p0 \in DOMAIN ast, NEW v0 \in BOOLEAN,
             ast[p0].up # 0 => D[ast[p0].up][v0] = After(k, Above(k, ast[p0].up), v0)
      PROVE  D[p0][v0] = After(k, Above(k, p0), v0)
  <2> HIDE DEF N, R, Stays
  <2>1. D[p0][v0] = IF ast[p0].up = 0 THEN R(p0, v0)
                    ELSE IF Stays(p0, v0) THEN N(p0) ELSE D[ast[p0].up][v0]
    <3>1. D[p0] = [v1 \in BOOLEAN |->
             IF ast[p0].up = 0 THEN R(p0, v1)
             ELSE IF Stays(p0, v1) THEN N(p0) ELSE D[ast[p0].up][v1]]
      BY <1>5, Zenon
    <3>2. QED
      BY <3>1, Zenon
  <2>2. QED
    BY <1>3, <1>6, <2>1
<1>7. \A n \in 1..k : D[n][v] = After(k, Above(k, n), v)
  <2> DEFINE S == {n \in Nat : n \in 1..k => D[n][v] = After(k, Above(k, n), v)}
  <2>1. 0 \in S
    OBVIOUS
  <2>2. ASSUME NEW n \in Nat, n \in S PROVE n + 1 \in S
    <3>1. SUFFICES ASSUME n + 1 \in 1..k
                   PROVE  D[n + 1][v] = After(k, Above(k, n + 1), v)
      OBVIOUS
    <3>2. n + 1 \in DOMAIN ast /\ ast[n + 1].up = n
      <4>1. n + 1 \in 1..(2 * k + 1) /\ n + 1 - 1 = n
        BY <3>1
      <4>2. QED
        BY <3>1, <4>1, <1>1, Nodes
    <3>3. n # 0 => D[n][v] = After(k, Above(k, n), v)
      BY <2>2, <3>1
    <3>4. QED
      BY <1>6, <3>2, <3>3
  <2> HIDE DEF S
  <2>3. Nat \subseteq S
    BY <2>1, <2>2, NaturalInduction
  <2>4. QED
    BY <2>3 DEF S
<1>8. p \in DOMAIN ast
  BY <1>1
<1>9. ast[p].up # 0 => ast[p].up \in 1..k
  BY <1>2, <1>8
<1>10. D[p][v] = After(k, Above(k, p), v)
  BY <1>6, <1>7, <1>8, <1>9
<1>11. QED
  BY <1>10 DEF D

-----------------------------------------------------------------------------
(* Where the execution is: before the innermost operand (a), at the end of  *)
(* the left operand of operator i with its value computed (b), before and   *)
(* after its right operand (c, d), and at a target of the branch (e).  What *)
(* follows the last operand evaluated is what the rules give.               *)

Loc(b, i) == [b |-> b, i |-> i]
RunType == [st : {"idle", "running", "revert", "result"}, node : Nat, val : BOOLEAN]
Follows(k) == After(k, Above(k, run.node), run.val)

AtFirst(k) ==
  /\ run.node = 0
  /\ \/ loc = Loc(1, 1)
     \/ Guarded(k) /\ loc \in {Loc(2 * k + 4, 1), Loc(2 * k + 5, 1)}
AtExit(k, i) ==
  /\ run.node \in 1..(2 * k + 1)
  /\ loc = Loc(ExitOf(k, i), IF i = k THEN 2 ELSE 1)
  /\ ValOf(k, i) \in DOMAIN env /\ env[ValOf(k, i)] \in BOOLEAN
  /\ Follows(k) = After(k, i, env[ValOf(k, i)])
BeforeRhs(k, i) ==
  /\ run.node \in 1..(2 * k + 1) /\ loc = Loc(Rhs(i), 1)
  /\ Follows(k) = [st |-> "next", node |-> Right(k, i)]
AfterRhs(k, i) ==
  /\ run.node = Right(k, i) /\ loc = Loc(Rhs(i), 2)
  /\ Leaf(Right(k, i)) \in DOMAIN env /\ env[Leaf(Right(k, i))] = run.val
AtTarget(k, b) ==
  /\ run.node \in 1..(2 * k + 1) /\ loc = Loc(b, 1)
  /\ Follows(k) = [st |-> "result", node |-> 0, val |-> b = Then]

Where(k) ==
  \/ AtFirst(k)
  \/ \E i \in 0..k : AtExit(k, i)
  \/ \E i \in 1..k : BeforeRhs(k, i) \/ AfterRhs(k, i)
  \/ \E b \in {Then, End} : AtTarget(k, b)

ExecInv ==
  /\ run \in RunType
  /\ pc = "emit" => run.st = "idle"
  /\ run.st = "idle" => loc = Loc(1, 1) /\ run.node = 0
  /\ run.st = "running" => \E k \in Nat : Up(k, 0) /\ Where(k)

\* The blocks of a finished expression.
LEMMA Finished ==
  ASSUME NEW k \in Nat, Typed, Up(k, 0), pc = "done"
  PROVE  /\ Chain(k)
         /\ ~ Guarded(k) => code[1] = <<k + 1>>
         /\ Guarded(k) =>
              /\ code[1] = <<>> /\ code[2 * k + 4] = <<k + 1>> /\ code[2 * k + 5] = <<>>
              /\ term[1] = Check(k + 1, 2 * k + 4, 2 * k + 5)
              /\ term[2 * k + 5] = Unreachable(k + 1)
              /\ phi[2 * k + 4] = {} /\ phi[2 * k + 5] = {}
         /\ phi[Then] = {} /\ phi[End] = {}
         /\ \A i \in 1..k :
              /\ term[ExitOf(k, i)] = Branch(k, i) /\ term[Rhs(i)] = Br(Cont(i))
              /\ code[Cont(i)] = <<>> /\ code[Rhs(i)] = <<Right(k, i)>>
              /\ phi[Rhs(i)] = {}
              /\ phi[Cont(i)] = {FromLeft(k, i), FromRight(k, i)}
         /\ term[ExitOf(k, 0)] = CondBr(ValOf(k, 0), Then, End)
<1>1. /\ Operators(k) /\ Innermost(k) /\ RightOperands(k) /\ Len(ast) = 2 * k + 1
      /\ Terms(k, 1, 1) /\ Contents(k) /\ Phis(k, 1, 1)
  BY DEF Up, Built
<1>2. Chain(k)
  BY <1>1 DEF Chain, Typed
<1>3. \A i \in 1..k : Right(k, i) <= Len(ast) /\ i >= 1
  BY <1>1 DEF Right
<1>4. \A i \in 1..k : /\ code[Cont(i)] = <<>> /\ code[Rhs(i)] = <<Right(k, i)>>
                      /\ term[ExitOf(k, i)] = Branch(k, i) /\ term[Rhs(i)] = Br(Cont(i))
  BY <1>1, <1>3 DEF Contents, Terms
<1>5. \A i \in 1..k : phi[Rhs(i)] = {} /\ phi[Cont(i)] = {FromLeft(k, i), FromRight(k, i)}
  BY <1>1, <1>3 DEF Phis
<1>6. QED
  BY <1>1, <1>2, <1>4, <1>5 DEF Contents, Terms, Phis

\* A step of the execution leaves what was emitted.
LEMMA SameCode ==
  ASSUME UNCHANGED evars, NEW k \in Nat, Up(k, 0)
  PROVE  /\ Up(k, 0)' /\ Guarded(k)' = Guarded(k)
         /\ \A i \in 0..k : ExitOf(k, i)' = ExitOf(k, i) /\ ValOf(k, i)' = ValOf(k, i)
<1>1. Built(k, 1, 1)' <=> Built(k, 1, 1)
  BY DEF evars, Built, Operators, Innermost, RightOperands, Terms, Contents, Phis,
         Guarded, ExitOf, ValOf, Branch, FromLeft, FromRight
<1>2. QED
  BY <1>1 DEF evars, Up, Frames, ValOf, ExitOf, Guarded

LEMMA SameAfter ==
  ASSUME ast' = ast, NEW k, NEW u, NEW v
  PROVE  After(k, u, v)' = After(k, u, v)
BY DEF After, Undecided

\* The step of the rules that evaluates operand p or reverts at its check.
LEMMA RulesPass ==
  ASSUME NEW k \in Nat, Chain(k), run \in RunType, run.st = "running",
         ast' = ast, NEW p,
         IF run.node = 0 THEN p = k + 1
         ELSE /\ run.node \in 1..(2 * k + 1)
              /\ Follows(k) = [st |-> "next", node |-> p],
         \/ \E v \in BOOLEAN : run' = [st |-> "running", node |-> p, val |-> v]
         \/ ast[p].k = "chk" /\ run' = [st |-> "revert", node |-> p, val |-> FALSE]
  PROVE  Meaning!Pass
<1> DEFINE to == IF run.node = 0
                 THEN [st |-> "next", node |-> Meaning!FirstOperand[1]]
                 ELSE Meaning!Decide[run.node][run.val]
<1>1. to = [st |-> "next", node |-> p]
  <2>1. CASE run.node = 0
    BY <2>1, FirstOperands
  <2>2. CASE run.node # 0
    <3>1. Meaning!Decide[run.node][run.val] = Follows(k)
      BY <2>2, Decisions DEF Follows, RunType
    <3>2. QED
      BY <2>2, <3>1
  <2>3. QED
    BY <2>1, <2>2
<1>2. run' \in Meaning!Evaluated(p)
  BY DEF Meaning!Evaluated, Meaning!Kind
<1> HIDE DEF to
<1>3. to.st = "next" /\ to.node = p
  BY <1>1
<1>4. IF to.st = "next" THEN run' \in Meaning!Evaluated(to.node) ELSE run' = to
  BY <1>2, <1>3
<1>5. QED
  BY <1>4 DEF Meaning!Pass, to

LEMMA RulesResult ==
  ASSUME NEW k \in Nat, Chain(k), run \in RunType, run.st = "running",
         ast' = ast, NEW v, run.node \in 1..(2 * k + 1),
         Follows(k) = [st |-> "result", node |-> 0, val |-> v],
         run' = [st |-> "result", node |-> 0, val |-> v]
  PROVE  Meaning!Pass
<1> DEFINE to == IF run.node = 0
                 THEN [st |-> "next", node |-> Meaning!FirstOperand[1]]
                 ELSE Meaning!Decide[run.node][run.val]
<1>1. Meaning!Decide[run.node][run.val] = Follows(k)
  BY Decisions DEF Follows, RunType
<1>2. to = run' /\ to.st # "next"
  BY <1>1
<1> HIDE DEF to
<1>3. IF to.st = "next" THEN run' \in Meaning!Evaluated(to.node) ELSE run' = to
  BY <1>2
<1>4. QED
  BY <1>3 DEF Meaning!Pass, to

LEMMA ComputedProps ==
  ASSUME NEW x, NEW v
  PROVE  /\ x \in DOMAIN Computed(x, v) /\ Computed(x, v)[x] = v
BY DEF Computed

LEMMA BlockEnds ==
  ASSUME NEW b, NEW i \in Nat, loc = Loc(b, i)
  PROVE  /\ code[b] = <<>> => (Ended <=> i > 0)
         /\ \A p : code[b] = <<p>> => (Ended <=> i > 1) /\ code[b][1] = p
<1>1. loc.b = b /\ loc.i = i
  BY DEF Loc
<1>2. Len(<<>>) = 0 /\ \A p : Len(<<p>>) = 1 /\ <<p>>[1] = p
  OBVIOUS
<1>3. QED
  BY <1>1, <1>2 DEF Ended

-----------------------------------------------------------------------------
\* The steps from each place.
LEMMA FromFirst ==
  ASSUME Typed, NEW k \in Nat, Up(k, 0), pc = "done", run \in RunType,
         run.st = "running", AtFirst(k),
         Evaluate \/ Jump \/ Revert \/ Result
  PROVE  /\ run' \in RunType
         /\ run'.st = "running" => Where(k)'
         /\ Meaning!Pass \/ (UNCHANGED <<ast, run>>)
<1>1. /\ Chain(k)
      /\ ~ Guarded(k) => code[1] = <<k + 1>>
      /\ Guarded(k) =>
           /\ code[1] = <<>> /\ code[2 * k + 4] = <<k + 1>> /\ code[2 * k + 5] = <<>>
           /\ term[1] = Check(k + 1, 2 * k + 4, 2 * k + 5)
           /\ term[2 * k + 5] = Unreachable(k + 1)
           /\ phi[2 * k + 4] = {} /\ phi[2 * k + 5] = {}
  BY Finished
<1>2. /\ UNCHANGED evars /\ ast' = ast /\ Guarded(k)' = Guarded(k)
      /\ ExitOf(k, k)' = ExitOf(k, k) /\ ValOf(k, k)' = ValOf(k, k)
  <2>1. UNCHANGED evars
    BY DEF Evaluate, Jump, Revert, Result
  <2>2. k \in 0..k
    OBVIOUS
  <2>3. QED
    BY <2>1, <2>2, SameCode DEF evars
<1>3. loc.b \notin {Then, End}
  BY DEF AtFirst, Loc, Then, End
<1>4. run.node = 0 /\ k + 1 \in 1..(2 * k + 1)
  BY DEF AtFirst
<1>5. CASE loc = Loc(ExitOf(k, k), 1)
  <2>1. code[ExitOf(k, k)] = <<k + 1>>
    BY <1>1 DEF ExitOf
  <2>2. ~ Ended /\ code[loc.b][loc.i] = k + 1 /\ loc.i = 1
    BY <1>5, <2>1, BlockEnds DEF Loc
  <2>3. PICK v \in BOOLEAN :
          /\ env' = Computed(Leaf(k + 1), v)
          /\ run' = [run EXCEPT !.node = k + 1, !.val = v]
          /\ loc' = [loc EXCEPT !.i = loc.i + 1]
    <3>1. Evaluate
      BY <1>3, <2>2 DEF Jump, Revert, Result
    <3>2. QED
      BY <2>2, <3>1 DEF Evaluate
  <2>4. run' = [st |-> "running", node |-> k + 1, val |-> v]
    BY <2>3 DEF RunType
  <2>5. Meaning!Pass
    BY <1>1, <1>2, <1>4, <2>4, RulesPass
  <2>6. AtExit(k, k)'
    <3>1. loc' = Loc(ExitOf(k, k), 2)
      BY <1>5, <2>3 DEF Loc
    <3>2. Leaf(k + 1) \in DOMAIN env' /\ env'[Leaf(k + 1)] = v
      BY <2>3, ComputedProps
    <3>3. Follows(k)' = After(k, k, v)'
      BY <2>4 DEF Follows, Above
    <3>4. ValOf(k, k)' = Leaf(k + 1)
      BY DEF ValOf
    <3>5. QED
      BY <1>2, <1>4, <2>4, <3>1, <3>2, <3>3, <3>4 DEF AtExit
  <2>7. Where(k)'
    <3>1. k \in 0..k
      OBVIOUS
    <3>2. QED
      BY <2>6, <3>1 DEF Where
  <2>8. QED
    BY <1>4, <2>4, <2>5, <2>7 DEF RunType
<1>6. CASE Guarded(k) /\ loc = Loc(1, 1)
  <2>1. Ended /\ Exit = Check(k + 1, 2 * k + 4, 2 * k + 5)
    BY <1>1, <1>6, BlockEnds DEF Exit, Loc
  <2>2. Jump
    BY <1>3, <2>1 DEF Evaluate, Revert, Result, Check, Terminator
  <2>3. Taken = {2 * k + 4, 2 * k + 5}
    BY <2>1 DEF Taken, Check, Terminator
  <2>4. PICK b \in {2 * k + 4, 2 * k + 5} : loc' = Loc(b, 1)
    BY <2>2, <2>3 DEF Jump, Loc
  <2>5. run' = run
    BY <2>2 DEF Jump
  <2>6. AtFirst(k)'
    BY <1>2, <1>4, <1>6, <2>4, <2>5 DEF AtFirst
  <2>7. QED
    BY <1>2, <2>5, <2>6 DEF Where
<1>7. CASE Guarded(k) /\ loc = Loc(2 * k + 5, 1)
  <2>1. Ended /\ Exit = Unreachable(k + 1)
    BY <1>1, <1>7, BlockEnds DEF Exit, Loc
  <2>2. Taken = {}
    BY <2>1 DEF Taken, Unreachable, Terminator
  <2>3. Revert
    BY <1>3, <2>1, <2>2 DEF Evaluate, Jump, Result
  <2>4. run' = [st |-> "revert", node |-> k + 1, val |-> FALSE]
    BY <2>1, <2>3 DEF Revert, Unreachable, Terminator
  <2>5. ast[k + 1].k = "chk"
    BY <1>7 DEF Guarded
  <2>6. Meaning!Pass
    BY <1>1, <1>2, <1>4, <2>4, <2>5, RulesPass
  <2>7. QED
    BY <1>4, <2>4, <2>6 DEF RunType
<1>8. QED
  BY <1>5, <1>6, <1>7 DEF AtFirst, ExitOf

LEMMA FromExit ==
  ASSUME Typed, NEW k \in Nat, Up(k, 0), pc = "done", run \in RunType,
         run.st = "running", NEW i \in 0..k, AtExit(k, i),
         Evaluate \/ Jump \/ Revert \/ Result
  PROVE  UNCHANGED <<ast, run>> /\ Where(k)'
<1>0. PICK v : v = env[ValOf(k, i)]
  OBVIOUS
<1>1. /\ Chain(k)
      /\ ~ Guarded(k) => code[1] = <<k + 1>>
      /\ Guarded(k) => code[2 * k + 4] = <<k + 1>>
      /\ phi[Then] = {} /\ phi[End] = {}
      /\ \A h \in 1..k :
           /\ term[ExitOf(k, h)] = Branch(k, h)
           /\ code[Cont(h)] = <<>>
           /\ phi[Rhs(h)] = {}
           /\ phi[Cont(h)] = {FromLeft(k, h), FromRight(k, h)}
      /\ term[ExitOf(k, 0)] = CondBr(ValOf(k, 0), Then, End)
  BY Finished
<1>2. UNCHANGED evars /\ ast' = ast
  BY DEF Evaluate, Jump, Revert, Result, evars
<1>3. /\ Guarded(k)' = Guarded(k)
      /\ \A h \in 0..k : ExitOf(k, h)' = ExitOf(k, h) /\ ValOf(k, h)' = ValOf(k, h)
  BY <1>2, SameCode
<1>4. loc.b = ExitOf(k, i) /\ loc.i \in {1, 2} /\ v \in BOOLEAN
  BY <1>0 DEF AtExit, Loc
<1>5. Ended
  <2>1. CASE i = k
    <3>1. code[ExitOf(k, i)] = <<k + 1>> /\ loc = Loc(ExitOf(k, i), 2)
      BY <1>1, <2>1 DEF ExitOf, AtExit
    <3>2. QED
      BY <3>1, BlockEnds
  <2>2. CASE i # k
    <3>1. i + 1 \in 1..k /\ ExitOf(k, i) = Cont(i + 1)
      BY <2>2 DEF ExitOf
    <3>2. code[ExitOf(k, i)] = <<>> /\ loc = Loc(ExitOf(k, i), 1)
      BY <1>1, <2>2, <3>1 DEF AtExit
    <3>3. QED
      BY <3>2, BlockEnds
  <2>3. QED
    BY <2>1, <2>2
<1>6. loc.b \notin {Then, End}
  <2>1. ExitOf(k, i) \in IF Guarded(k) THEN 4..(2 * k + 4) ELSE {1} \cup 4..(2 * k + 2)
    BY Exits
  <2>2. QED
    BY <1>4, <2>1 DEF Then, End
<1>7. /\ Exit = IF i = 0 THEN CondBr(ValOf(k, 0), Then, End) ELSE Branch(k, i)
      /\ Exit.op = "cond" /\ Exit.on = ValOf(k, i)
  <2>1. Exit = IF i = 0 THEN CondBr(ValOf(k, 0), Then, End) ELSE Branch(k, i)
    BY <1>1, <1>4 DEF Exit
  <2>2. QED
    BY <2>1 DEF CondBr, Terminator, Branch
<1>8. Jump
  BY <1>5, <1>6, <1>7 DEF Evaluate, Revert, Result
<1>9. ValueOf(ValOf(k, i)) = v
  BY <1>0 DEF ValueOf, ValOf, Leaf, Phi, Value
<1>10. PICK b : /\ b = IF v THEN Exit.to[1] ELSE Exit.to[2]
                /\ loc' = Loc(b, 1)
                /\ IF phi[b] = {} THEN UNCHANGED env
                   ELSE \E w \in PhiValues(loc.b, b) : env' = Computed(Phi(b), w)
  <2>1. Taken = {IF v THEN Exit.to[1] ELSE Exit.to[2]}
    BY <1>7, <1>9 DEF Taken
  <2>2. QED
    BY <1>8, <2>1 DEF Jump, Loc
<1>11. run' = run /\ run.node \in 1..(2 * k + 1) /\ Follows(k) = After(k, i, v)
  BY <1>0, <1>8 DEF Jump, AtExit
<1>12. Follows(k)' = Follows(k)
  BY <1>2, <1>11, SameAfter DEF Follows, Above
<1>13. CASE i = 0
  <2>1. b = IF v THEN Then ELSE End
    BY <1>7, <1>10, <1>13 DEF CondBr, Terminator
  <2>2. b \in {Then, End} /\ (b = Then <=> v)
    BY <1>4, <2>1 DEF Then, End
  <2>3. Follows(k) = [st |-> "result", node |-> 0, val |-> b = Then]
    <3>1. After(k, 0, v) = [st |-> "result", node |-> 0, val |-> v]
      BY <1>4, AfterProps
    <3>2. v = (b = Then)
      BY <1>4, <2>2
    <3>3. QED
      BY <1>11, <1>13, <3>1, <3>2
  <2>4. AtTarget(k, b)'
    BY <1>10, <1>11, <1>12, <2>3 DEF AtTarget
  <2>5. QED
    BY <1>2, <1>11, <2>2, <2>4 DEF Where
<1>14. CASE i # 0
  <2>1. /\ i \in 1..k /\ i - 1 \in 0..k /\ i - 1 # k /\ i - 1 + 1 = i
        /\ ast[i].k \in {"and", "or"}
    BY <1>1, <1>14, Nodes
  <2>2. b = IF v = (ast[i].k = "and") THEN Rhs(i) ELSE Cont(i)
    <3>1. Exit.to = IF ast[i].k = "and" THEN <<Rhs(i), Cont(i)>> ELSE <<Cont(i), Rhs(i)>>
      BY <1>7, <1>14 DEF Branch, CondBr, Terminator
    <3>2. CASE ast[i].k = "and"
      BY <1>4, <1>10, <3>1, <3>2
    <3>3. CASE ast[i].k # "and"
      BY <1>4, <1>10, <3>1, <3>3
    <3>4. QED
      BY <3>2, <3>3
  <2>3. CASE v = (ast[i].k = "and")
    <3>1. b = Rhs(i) /\ loc' = Loc(Rhs(i), 1)
      BY <1>10, <2>2, <2>3
    <3>2. Follows(k) = [st |-> "next", node |-> Right(k, i)]
      BY <1>4, <1>11, <1>14, <2>3, AfterProps
    <3>3. BeforeRhs(k, i)'
      BY <1>11, <1>12, <3>1, <3>2 DEF BeforeRhs
    <3>4. QED
      BY <1>2, <1>11, <2>1, <3>3 DEF Where
  <2>4. CASE v # (ast[i].k = "and")
    <3>1. b = Cont(i) /\ loc' = Loc(Cont(i), 1)
      BY <1>10, <2>2, <2>4
    <3>2. PhiValues(loc.b, Cont(i)) = {v}
      <4>1. /\ FromLeft(k, i).from = loc.b /\ FromRight(k, i).from # loc.b
            /\ ValueOf(FromLeft(k, i).val) = v
        <5>1. Rhs(i) # ExitOf(k, i)
          BY <2>1, Exits
        <5>2. ValueOf(Const(ast[i].k = "or")) = (ast[i].k = "or")
          BY DEF ValueOf, Const, Value
        <5>3. (ast[i].k = "or") = v
          BY <1>4, <2>1, <2>4
        <5>4. QED
          BY <1>4, <5>1, <5>2, <5>3 DEF FromLeft, FromRight
      <4>2. {p \in phi[Cont(i)] : p.from = loc.b} = {FromLeft(k, i)}
        BY <1>1, <2>1, <4>1
      <4>3. QED
        BY <4>1, <4>2 DEF PhiValues
    <3>3. env' = Computed(Phi(Cont(i)), v)
      <4>1. phi[Cont(i)] # {}
        BY <1>1, <2>1
      <4>2. QED
        BY <1>10, <3>1, <3>2, <4>1
    <3>4. ExitOf(k, i - 1) = Cont(i) /\ ValOf(k, i - 1) = Phi(Cont(i))
      BY <2>1 DEF ExitOf, ValOf
    <3>5. Phi(Cont(i)) \in DOMAIN env' /\ env'[Phi(Cont(i))] = v
      BY <3>3, ComputedProps
    <3>6. After(k, i, v) = After(k, i - 1, v)
      BY <1>4, <1>14, <2>4, AfterProps
    <3>7. After(k, i - 1, v)' = After(k, i - 1, v)
      BY <1>2, SameAfter
    <3>8. /\ ValOf(k, i - 1)' = Phi(Cont(i)) /\ loc' = Loc(ExitOf(k, i - 1)', 1)
          /\ env'[ValOf(k, i - 1)'] = v /\ ValOf(k, i - 1)' \in DOMAIN env'
          /\ Follows(k)' = After(k, i - 1, env[ValOf(k, i - 1)])'
      BY <1>3, <1>11, <1>12, <2>1, <3>1, <3>4, <3>5, <3>6, <3>7
    <3>9. AtExit(k, i - 1)'
      BY <1>4, <1>11, <2>1, <3>8 DEF AtExit
    <3>10. QED
      BY <1>2, <1>11, <2>1, <3>9 DEF Where
  <2>5. QED
    BY <2>3, <2>4
<1>15. QED
  BY <1>13, <1>14

LEMMA FromBeforeRhs ==
  ASSUME Typed, NEW k \in Nat, Up(k, 0), pc = "done", run \in RunType,
         run.st = "running", NEW i \in 1..k, BeforeRhs(k, i),
         Evaluate \/ Jump \/ Revert \/ Result
  PROVE  run' \in RunType /\ Where(k)' /\ Meaning!Pass
<1>1. Chain(k) /\ code[Rhs(i)] = <<Right(k, i)>>
  BY Finished
<1>2. UNCHANGED evars /\ ast' = ast
  BY DEF Evaluate, Jump, Revert, Result, evars
<1>3. loc = Loc(Rhs(i), 1) /\ loc.b = Rhs(i) /\ loc.i = 1
  BY DEF BeforeRhs, Loc
<1>4. loc.b \notin {Then, End}
  <2>1. Rhs(i) \in 5..(2 * k + 3)
    BY Numbers
  <2>2. QED
    BY <1>3, <2>1 DEF Then, End
<1>5. ~ Ended /\ code[loc.b][loc.i] = Right(k, i)
  BY <1>1, <1>3, BlockEnds
<1>6. PICK v \in BOOLEAN :
        /\ env' = Computed(Leaf(Right(k, i)), v)
        /\ run' = [run EXCEPT !.node = Right(k, i), !.val = v]
        /\ loc' = [loc EXCEPT !.i = loc.i + 1]
  <2>1. Evaluate
    BY <1>4, <1>5 DEF Jump, Revert, Result
  <2>2. QED
    BY <1>5, <2>1 DEF Evaluate
<1>7. run' = [st |-> "running", node |-> Right(k, i), val |-> v] /\ loc' = Loc(Rhs(i), 2)
  <2>1. run = [st |-> "running", node |-> run.node, val |-> run.val]
    BY DEF RunType
  <2>2. loc = [b |-> Rhs(i), i |-> 1]
    BY <1>3 DEF Loc
  <2>3. 1 + 1 = 2
    OBVIOUS
  <2>4. QED
    BY <1>6, <2>1, <2>2, <2>3 DEF Loc
<1>8. run' \in RunType
  BY <1>7 DEF RunType, Right
<1>9. Meaning!Pass
  <2>1. /\ run.node # 0 /\ run.node \in 1..(2 * k + 1)
        /\ Follows(k) = [st |-> "next", node |-> Right(k, i)]
    BY DEF BeforeRhs
  <2>2. QED
    BY <1>1, <1>2, <1>7, <2>1, RulesPass
<1>10. AfterRhs(k, i)'
  <2>1. Leaf(Right(k, i)) \in DOMAIN env' /\ env'[Leaf(Right(k, i))] = v
    BY <1>6, ComputedProps
  <2>2. QED
    BY <1>7, <2>1 DEF AfterRhs
<1>11. QED
  BY <1>8, <1>9, <1>10 DEF Where

LEMMA FromAfterRhs ==
  ASSUME Typed, NEW k \in Nat, Up(k, 0), pc = "done", run \in RunType,
         run.st = "running", NEW i \in 1..k, AfterRhs(k, i),
         Evaluate \/ Jump \/ Revert \/ Result
  PROVE  UNCHANGED <<ast, run>> /\ Where(k)'
<1>0. PICK v : v = run.val
  OBVIOUS
<1>1. /\ Chain(k) /\ code[Rhs(i)] = <<Right(k, i)>> /\ term[Rhs(i)] = Br(Cont(i))
      /\ phi[Cont(i)] = {FromLeft(k, i), FromRight(k, i)}
  BY Finished
<1>2. UNCHANGED evars /\ ast' = ast
  BY DEF Evaluate, Jump, Revert, Result, evars
<1>3. /\ Guarded(k)' = Guarded(k)
      /\ \A h \in 0..k : ExitOf(k, h)' = ExitOf(k, h) /\ ValOf(k, h)' = ValOf(k, h)
  BY <1>2, SameCode
<1>4. loc = Loc(Rhs(i), 2) /\ loc.b = Rhs(i) /\ v \in BOOLEAN
  BY <1>0 DEF AfterRhs, Loc, RunType
<1>5. Ended /\ loc.b \notin {Then, End}
  <2>1. Rhs(i) \in 5..(2 * k + 3)
    BY Numbers
  <2>2. QED
    BY <1>1, <1>4, <2>1, BlockEnds DEF Then, End
<1>6. Exit.op = "br" /\ Exit.to[1] = Cont(i)
  BY <1>1, <1>4 DEF Exit, Br, Terminator
<1>7. Jump
  BY <1>5, <1>6 DEF Evaluate, Revert, Result
<1>8. /\ i - 1 \in 0..k /\ i \in 0..k /\ i - 1 # k /\ i - 1 + 1 = i
      /\ Right(k, i) \in 1..(2 * k + 1) /\ Above(k, Right(k, i)) = i - 1
  BY DEF Right, Above
<1>9. /\ loc' = Loc(Cont(i), 1) /\ run' = run
      /\ \E w \in PhiValues(Rhs(i), Cont(i)) : env' = Computed(Phi(Cont(i)), w)
  <2>1. Taken = {Cont(i)} /\ phi[Cont(i)] # {}
    BY <1>1, <1>6 DEF Taken
  <2>2. QED
    BY <1>4, <1>7, <2>1 DEF Jump, Loc
<1>10. PhiValues(Rhs(i), Cont(i)) = {v}
  <2>1. ExitOf(k, i) # Rhs(i)
    BY <1>8, Exits
  <2>2. {p \in phi[Cont(i)] : p.from = Rhs(i)} = {FromRight(k, i)}
    BY <1>1, <2>1 DEF FromLeft, FromRight
  <2>3. ValueOf(FromRight(k, i).val) = v
    BY <1>0 DEF ValueOf, FromRight, Leaf, Value, AfterRhs
  <2>4. QED
    BY <2>2, <2>3 DEF PhiValues
<1>11. env' = Computed(Phi(Cont(i)), v)
  BY <1>9, <1>10
<1>12. Phi(Cont(i)) \in DOMAIN env' /\ env'[Phi(Cont(i))] = v
  BY <1>11, ComputedProps
<1>13. ExitOf(k, i - 1) = Cont(i) /\ ValOf(k, i - 1) = Phi(Cont(i))
  BY <1>8 DEF ExitOf, ValOf
<1>14. run.node = Right(k, i)
  BY DEF AfterRhs
<1>15. Follows(k)' = After(k, i - 1, v)'
  BY <1>0, <1>8, <1>9, <1>14 DEF Follows
<1>16. AtExit(k, i - 1)'
  <2>1. /\ ValOf(k, i - 1)' = Phi(Cont(i)) /\ loc' = Loc(ExitOf(k, i - 1)', 1)
        /\ env'[ValOf(k, i - 1)'] = v /\ ValOf(k, i - 1)' \in DOMAIN env'
        /\ Follows(k)' = After(k, i - 1, env[ValOf(k, i - 1)])'
    BY <1>3, <1>8, <1>9, <1>12, <1>13, <1>15
  <2>2. QED
    BY <1>4, <1>8, <1>9, <1>14, <2>1 DEF AtExit
<1>17. QED
  BY <1>2, <1>8, <1>9, <1>16 DEF Where

LEMMA FromTarget ==
  ASSUME Typed, NEW k \in Nat, Up(k, 0), pc = "done", run \in RunType,
         run.st = "running", NEW b \in {Then, End}, AtTarget(k, b),
         Evaluate \/ Jump \/ Revert \/ Result
  PROVE  run' \in RunType /\ run'.st # "running" /\ Meaning!Pass
<1>1. loc.b = b
  BY DEF AtTarget, Loc
<1>2. Result
  BY <1>1 DEF Evaluate, Jump, Revert, Running
<1>3. run' = [st |-> "result", node |-> 0, val |-> b = Then] /\ ast' = ast
  BY <1>1, <1>2 DEF Result, evars
<1>4. Chain(k)
  BY Finished
<1>5. /\ run.node \in 1..(2 * k + 1)
      /\ Follows(k) = [st |-> "result", node |-> 0, val |-> b = Then]
  BY DEF AtTarget
<1>6. Meaning!Pass
  BY <1>3, <1>4, <1>5, RulesResult
<1>7. QED
  BY <1>3, <1>6 DEF RunType

-----------------------------------------------------------------------------
(* The refinement. *)

\* A visit adds one node, which the rules read.
LEMMA ReadsOne ==
  ASSUME EmitInv, ExecInv, Emission
  PROVE  run' = run /\ (ast' = ast \/ Meaning!Read)
<1>1. run' = run /\ run.st = "idle"
  <2>1. pc = "emit"
    BY DEF Emission, EmitLeaf, EmitChecked, OpenLogical, Wanted, EndLhs, EndRhs, EndCondition
  <2>2. QED
    BY <2>1 DEF Emission, ExecInv
<1>2. ast' = ast \/ \E kind \in {"leaf", "chk", "and", "or"} : Visit(kind)
  BY DEF Emission, EmitLeaf, EmitChecked, OpenLogical, EndLhs, EndRhs, EndCondition
<1>3. CASE ast' # ast
  <2>1. /\ ast' \in Seq(NodeType) /\ Len(ast) \in Nat /\ Len(ast') = Len(ast) + 1
        /\ \A i \in 1..Len(ast) : ast'[i] = ast[i]
    BY <1>2, <1>3, VisitProps DEF EmitInv
  <2>2. SubSeq(ast', 1, Len(ast)) = ast
    <3>1. ast \in Seq(NodeType)
      BY DEF EmitInv, Typed
    <3>2. /\ SubSeq(ast', 1, Len(ast)) \in Seq(NodeType)
          /\ Len(SubSeq(ast', 1, Len(ast))) = Len(ast)
          /\ \A i \in 1..Len(ast) : SubSeq(ast', 1, Len(ast))[i] = ast'[i]
      BY <2>1, PrefixProps
    <3>3. QED
      BY <2>1, <3>1, <3>2, SeqEqual
  <2>3. QED
    BY <1>1, <2>1, <2>2 DEF Meaning!Read
<1>4. QED
  BY <1>1, <1>3

LEMMA ExecInit == Init => ExecInv
BY DEF Init, ExecInv, RunType, Loc

LEMMA ExecStep ==
  ASSUME EmitInv, EmitInv', ExecInv, [Next]_vars
  PROVE  ExecInv' /\ [Meaning!Next]_(Meaning!vars)
<1>1. CASE Emission
  <2>1. run' = run /\ loc' = loc /\ run.st = "idle"
    <3>1. pc = "emit"
      BY <1>1 DEF Emission, EmitLeaf, EmitChecked, OpenLogical, Wanted, EndLhs, EndRhs,
                  EndCondition
    <3>2. QED
      BY <1>1, <3>1 DEF Emission, ExecInv
  <2>2. ExecInv'
    BY <2>1 DEF ExecInv
  <2>3. QED
    BY <1>1, <2>2, ReadsOne DEF Meaning!Next, Meaning!vars
<1>2. CASE Start
  <2>1. /\ pc = "done" /\ run.st = "idle" /\ UNCHANGED <<evars, loc, env>>
        /\ run' = [run EXCEPT !.st = "running"] /\ run \in RunType
        /\ loc = Loc(1, 1) /\ run.node = 0
    BY <1>2 DEF Start, ExecInv
  <2>2. PICK k \in Nat : Up(k, 0)
    BY <2>1 DEF EmitInv, Down, Up, AtRight
  <2>3. Up(k, 0)' /\ ast # <<>> /\ ast' = ast
    <3>1. Len(ast) = 2 * k + 1 /\ Len(ast) # 0
      BY <2>2 DEF Up
    <3>2. ast \in Seq(NodeType)
      BY DEF EmitInv, Typed
    <3>3. ast # <<>>
      BY <3>1, <3>2, EmptySeq
    <3>4. QED
      BY <2>1, <2>2, <3>3, SameCode DEF evars
  <2>4. /\ run' \in RunType /\ run'.st = "running" /\ run'.node = 0 /\ loc' = Loc(1, 1)
        /\ pc' = "done"
    BY <2>1 DEF RunType, evars
  <2>5. Where(k)'
    BY <2>4 DEF Where, AtFirst
  <2>6. Meaning!Begin
    BY <2>1, <2>3 DEF Meaning!Begin
  <2>7. QED
    BY <2>3, <2>4, <2>5, <2>6 DEF ExecInv, Meaning!Next
<1>3. CASE run.st = "running" /\ (Evaluate \/ Jump \/ Revert \/ Result)
  <2>1. PICK k \in Nat : Up(k, 0) /\ Where(k)
    BY <1>3 DEF ExecInv
  <2>2. /\ Typed /\ run \in RunType /\ pc = "done"
    <3>1. pc # "emit"
      BY <1>3 DEF ExecInv
    <3>2. QED
      BY <3>1 DEF ExecInv, EmitInv, Typed
  <2>3. UNCHANGED evars /\ pc' = "done" /\ ast' = ast
    BY <1>3, <2>2 DEF Evaluate, Jump, Revert, Result, evars
  <2>4. Up(k, 0)'
    BY <2>1, <2>3, SameCode
  <2>5. /\ run' \in RunType
        /\ run'.st = "running" => Where(k)'
        /\ Meaning!Pass \/ (UNCHANGED <<ast, run>>)
    <3>1. CASE AtFirst(k)
      BY <1>3, <2>1, <2>2, <3>1, FromFirst
    <3>2. CASE \E i \in 0..k : AtExit(k, i)
      BY <1>3, <2>1, <2>2, <3>2, FromExit
    <3>3. CASE \E i \in 1..k : BeforeRhs(k, i)
      BY <1>3, <2>1, <2>2, <3>3, FromBeforeRhs
    <3>4. CASE \E i \in 1..k : AfterRhs(k, i)
      BY <1>3, <2>1, <2>2, <3>4, FromAfterRhs
    <3>5. CASE \E b \in {Then, End} : AtTarget(k, b)
      BY <1>3, <2>1, <2>2, <3>5, FromTarget
    <3>6. QED
      BY <2>1, <3>1, <3>2, <3>3, <3>4, <3>5 DEF Where
  <2>6. run'.st # "idle"
    <3>1. run \in RunType
      BY <2>2
    <3>2. CASE Evaluate
      <4>1. \E p : \E v \in BOOLEAN : run' = [run EXCEPT !.node = p, !.val = v]
        BY <3>2 DEF Evaluate
      <4>2. run'.st = run.st
        BY <3>1, <4>1 DEF RunType
      <4>3. QED
        BY <1>3, <4>2
    <3>3. CASE Jump
      BY <1>3, <3>3 DEF Jump
    <3>4. CASE Revert
      BY <3>4 DEF Revert
    <3>5. CASE Result
      BY <3>5 DEF Result
    <3>6. QED
      BY <1>3, <3>2, <3>3, <3>4, <3>5
  <2>7. ExecInv'
    BY <2>3, <2>4, <2>5, <2>6 DEF ExecInv
  <2>8. QED
    BY <2>5, <2>7 DEF Meaning!Next, Meaning!vars
<1>4. CASE UNCHANGED vars
  <2>1. UNCHANGED <<evars, loc, env, run, pc, ast>>
    BY <1>4 DEF vars, evars
  <2>2. \A k \in Nat : Up(k, 0) => Up(k, 0)'
    BY <2>1, SameCode
  <2>3. ASSUME NEW k \in Nat, Up(k, 0), Where(k) PROVE Where(k)'
    <3>1. /\ Guarded(k)' = Guarded(k)
          /\ \A i \in 0..k : ExitOf(k, i)' = ExitOf(k, i) /\ ValOf(k, i)' = ValOf(k, i)
      BY <2>1, <2>3, SameCode
    <3>2. \A u, v : After(k, u, v)' = After(k, u, v)
      BY <2>1, SameAfter
    <3>3. Follows(k)' = Follows(k)
      BY <2>1, <3>2 DEF Follows
    <3>4. AtFirst(k) => AtFirst(k)'
      BY <2>1, <3>1 DEF AtFirst
    <3>5. ASSUME NEW i \in 0..k, AtExit(k, i) PROVE AtExit(k, i)'
      <4>1. After(k, i, env[ValOf(k, i)])' = After(k, i, env[ValOf(k, i)])
        <5>1. PICK v : v = env[ValOf(k, i)]
          OBVIOUS
        <5>2. env'[ValOf(k, i)'] = v
          BY <2>1, <3>1, <5>1
        <5>3. QED
          BY <3>2, <5>1, <5>2
      <4>2. QED
        BY <2>1, <3>1, <3>3, <3>5, <4>1 DEF AtExit
    <3>6. \A i \in 1..k : /\ BeforeRhs(k, i) => BeforeRhs(k, i)'
                          /\ AfterRhs(k, i) => AfterRhs(k, i)'
      BY <2>1, <3>3 DEF BeforeRhs, AfterRhs
    <3>7. \A b \in {Then, End} : AtTarget(k, b) => AtTarget(k, b)'
      BY <2>1, <3>3 DEF AtTarget
    <3>8. QED
      BY <2>3, <3>4, <3>5, <3>6, <3>7 DEF Where
  <2>4. ExecInv'
    BY <2>1, <2>2, <2>3 DEF ExecInv
  <2>5. QED
    BY <2>1, <2>4 DEF Meaning!vars
<1>5. QED
  BY <1>1, <1>2, <1>3, <1>4 DEF Next, Evaluate, Jump, Revert, Result, Running, Stopped

\* The blocks implement the short-circuit rules.
THEOREM BlocksFollowRules ==
  ASSUME ~ RhsMayBranch
  PROVE  Spec => ImplementsShortCircuit
<1>1. Init => EmitInv /\ ExecInv /\ Meaning!Init
  BY EmitInit, ExecInit DEF Init, Meaning!Init
<1>2. EmitInv /\ ExecInv /\ [Next]_vars => EmitInv' /\ ExecInv'
  <2>1. SUFFICES ASSUME EmitInv, ExecInv, [Next]_vars PROVE EmitInv' /\ ExecInv'
    OBVIOUS
  <2>2. EmitInv'
    <3>1. Emission \/ UNCHANGED evars
      BY <2>1 DEF Next, Start, Evaluate, Jump, Revert, Result, Stopped, vars, evars
    <3>2. QED
      BY <2>1, <3>1, EmitStep, EmitSame
  <2>3. QED
    BY <2>1, <2>2, ExecStep
<1>3. EmitInv /\ EmitInv' /\ ExecInv /\ [Next]_vars => [Meaning!Next]_(Meaning!vars)
  BY ExecStep
<1>4. QED
  BY <1>1, <1>2, <1>3, PTL DEF Spec, ImplementsShortCircuit, Meaning!Spec

-----------------------------------------------------------------------------
(* The lowering pass.                                                      *)

LoweringSpec == LoweringInit /\ [][LoweringNext]_loweringVars

Replaced == Opcodes \ Signed

\* What Get...Function is called for: a replaced operation on operands of the
\* width they were extended to.
IsHelper(f) ==
  f[1] \in Replaced /\ f[2] \in Nat /\ f[2] > Word /\ Widened(f[2]) = f[2]

Item == [op : Opcodes, w : Nat, nr : Nat,
         in : (Opcodes \cup {"main", "Exp"}) \X Nat]

\* Helpers are ordered: a function calls others of less width, and of its own
\* width only those that come before it.
Rank(f) ==
  3 * f[2] + (IF f[1] = "URem" THEN 2 ELSE IF f[1] = "UDiv" THEN 1 ELSE 0)
MayCall(f, g) ==
  IsHelper(g) /\ (IF f[1] \in Opcodes THEN IsHelper(f) /\ Rank(g) < Rank(f) ELSE TRUE)

\* An instruction of the worklist is wide, and the function that replaces it
\* comes before the one it stands in.
Queued(i) ==
  Wide(i) /\ (i.op \in Replaced => MayCall(i.in, <<i.op, Widened(i.w)>>))

\* What is left to replace is on the worklist, as long as there is any; what
\* was replaced is a call of a function that comes before.
PassInv ==
  /\ worklist \in Seq(Item)
  /\ \A i \in ToSet(worklist) : Queued(i)
  /\ \A i \in instrs : Wide(i) /\ i.op \in Replaced => i \in ToSet(worklist)
  /\ at # "lower" => worklist = <<>>
  /\ \A c \in calls : MayCall(c[1], c[2])

-----------------------------------------------------------------------------
LEMMA OpcodeNames ==
  /\ Opcodes = {"SDiv", "SRem", "AShr", "Mul", "UDiv", "URem", "Shl", "LShr"}
  /\ Replaced = {"Mul", "UDiv", "URem", "Shl", "LShr"}
BY DEF Opcodes, Signed, Replaced

\* Extending twice is extending once, and leaves a wide operand wide.
LEMMA WidenedProps ==
  ASSUME NEW w \in Nat, w > Word
  PROVE  /\ Widened(w) \in Nat /\ Widened(w) >= w
         /\ Widened(Widened(w)) = Widened(w)
BY WordAssumption DEF Widened

\* Half the width of a helper is no wide operand any more, or one of a smaller
\* helper.
LEMMA HalfIsNarrower ==
  ASSUME NEW w \in Nat, w > Word, Widened(w) = w, HalfWidth(w) > Word
  PROVE  Widened(HalfWidth(w)) < w
<1>1. HalfWidth(w) \in Nat /\ 2 * HalfWidth(w) <= w
  BY DEF HalfWidth
<1>2. Word \in Nat /\ Word > 0
  BY WordAssumption
<1>3. w > 2 * Word
  BY <1>1, <1>2
<1>4. w = 4 * Word \/ w > 4 * Word
  BY <1>2, <1>3 DEF Widened
<1>5. CASE w = 4 * Word
  BY <1>1, <1>2, <1>5 DEF Widened
<1>6. CASE w > 4 * Word
  BY <1>1, <1>2, <1>6 DEF Widened
<1>7. QED
  BY <1>4, <1>5, <1>6

\* The instructions that are checked are the wide ones.
LEMMA CheckedProps ==
  ASSUME NEW S, NEW is \in Seq(S), is # <<>>
  PROVE  /\ Checked(is) \in Seq(S)
         /\ \A i \in ToSet(Checked(is)) : i \in ToSet(is) /\ Wide(i)
         /\ \A i \in ToSet(is) : Wide(i) => i \in ToSet(Checked(is))
<1>1. PICK n \in Nat : n = Len(is) /\ n # 0 /\ DOMAIN is = 1..n
  BY EmptySeq, LenProperties
<1>2. PICK ss : ss = [k \in 1..n |-> IF Wide(is[k]) THEN <<is[k]>> ELSE <<>>]
  OBVIOUS
<1>3. \A k \in 1..n :
        /\ ss[k] \in Seq(S)
        /\ Wide(is[k]) => ss[k] = <<is[k]>> /\ DOMAIN ss[k] = {1}
        /\ ~ Wide(is[k]) => ss[k] = <<>> /\ DOMAIN ss[k] = {}
  <2>1. SUFFICES ASSUME NEW k \in 1..n
                 PROVE  /\ ss[k] \in Seq(S)
                        /\ Wide(is[k]) => ss[k] = <<is[k]>> /\ DOMAIN ss[k] = {1}
                        /\ ~ Wide(is[k]) => ss[k] = <<>> /\ DOMAIN ss[k] = {}
    OBVIOUS
  <2>2. is[k] \in S
    BY <1>1, ElementOfSeq
  <2>3. ss[k] = IF Wide(is[k]) THEN <<is[k]>> ELSE <<>>
    BY <1>2
  <2>4. QED
    BY <2>2, <2>3
<1>4. ss \in Seq(Seq(S)) /\ ss # <<>> /\ Len(ss) = n
  BY <1>1, <1>2, <1>3
<1>5. Checked(is) = FlattenSeq(ss)
  BY <1>1, <1>2 DEF Checked
<1>t. PICK t : t \in Seq(S) /\ \E w : t = Checked(is) /\ Joins(ss, n, t, w)
  BY <1>4, <1>5, FlattenProps
<1>6. PICK w : t \in Seq(S) /\ t = Checked(is) /\ Joins(ss, n, t, w)
  BY <1>t
<1>7. \A i \in DOMAIN t : w[i][1] \in 1..n /\ Wide(is[w[i][1]]) /\ t[i] = is[w[i][1]]
  <2>1. SUFFICES ASSUME NEW i \in DOMAIN t, NEW k, k = w[i][1]
                 PROVE  k \in 1..n /\ Wide(is[k]) /\ t[i] = is[k]
    OBVIOUS
  <2>2. k \in 1..n /\ w[i][2] \in DOMAIN ss[k] /\ t[i] = ss[k][w[i][2]]
    BY <1>6, <2>1 DEF Joins
  <2>3. Wide(is[k]) /\ w[i][2] = 1
    BY <1>3, <2>2
  <2>4. QED
    BY <1>3, <2>2, <2>3
<1>8. \A k \in 1..n : Wide(is[k]) => \E i \in DOMAIN t : w[i][1] = k
  <2>1. SUFFICES ASSUME NEW k \in 1..n, Wide(is[k])
                 PROVE  \E i \in DOMAIN t : w[i][1] = k
    OBVIOUS
  <2>2. 1 \in DOMAIN ss[k]
    BY <1>3, <2>1
  <2>3. QED
    BY <1>6, <2>2 DEF Joins
<1>9. \A i \in ToSet(t) : i \in ToSet(is) /\ Wide(i)
  BY <1>1, <1>7 DEF ToSet
<1>10. \A i \in ToSet(is) : Wide(i) => i \in ToSet(t)
  BY <1>1, <1>7, <1>8 DEF ToSet
<1>11. QED
  BY <1>6, <1>9, <1>10

\* What a helper holds, operation and width.
Holds(f, o, v) ==
  /\ o \in Replaced
  /\ \/ v = HalfWidth(f[2])
     \/ v = f[2] /\ f[1] = "URem" /\ o \in {"UDiv", "Mul"}
     \/ v = f[2] /\ f[1] = "UDiv" /\ o \in {"Shl", "LShr"}

LEMMA BodyHolds ==
  ASSUME NEW f, f[1] \in Replaced
  PROVE  \E n \in Nat :
           /\ n # 0 /\ DOMAIN Body(f) = 1..n
           /\ \A i \in 1..n : \E o, v :
                Body(f)[i] = Instr(o, v, f, i) /\ Holds(f, o, v)
<1>. USE OpcodeNames
<1>1. CASE f[1] = "Mul"
  <2>1. Body(f) = [i \in 1..6 |-> Instr("Mul", HalfWidth(f[2]), f, i)]
    BY <1>1 DEF Body
  <2>2. Holds(f, "Mul", HalfWidth(f[2]))
    BY DEF Holds
  <2>3. QED
    BY <2>1, <2>2
<1>2. CASE f[1] = "UDiv"
  <2>1. /\ DOMAIN Body(f) = 1..2
        /\ Body(f)[1] = Instr("Shl", f[2], f, 1)
        /\ Body(f)[2] = Instr("LShr", f[2], f, 2)
    BY <1>2 DEF Body
  <2>2. Holds(f, "Shl", f[2]) /\ Holds(f, "LShr", f[2])
    BY <1>2 DEF Holds
  <2>3. \A i \in 1..2 : i = 1 \/ i = 2
    OBVIOUS
  <2>4. QED
    BY <2>1, <2>2, <2>3
<1>3. CASE f[1] = "URem"
  <2>1. /\ DOMAIN Body(f) = 1..2
        /\ Body(f)[1] = Instr("UDiv", f[2], f, 1)
        /\ Body(f)[2] = Instr("Mul", f[2], f, 2)
    BY <1>3 DEF Body
  <2>2. Holds(f, "UDiv", f[2]) /\ Holds(f, "Mul", f[2])
    BY <1>3 DEF Holds
  <2>3. \A i \in 1..2 : i = 1 \/ i = 2
    OBVIOUS
  <2>4. QED
    BY <2>1, <2>2, <2>3
<1>4. CASE f[1] \in {"Shl", "LShr"}
  <2>1. DOMAIN Body(f) = 1..4
    BY <1>4 DEF Body
  <2>2. \A i \in 1..4 : \E o \in {"Shl", "LShr"} :
          Body(f)[i] = Instr(o, HalfWidth(f[2]), f, i)
    BY <1>4 DEF Body
  <2>3. \A o \in {"Shl", "LShr"} : Holds(f, o, HalfWidth(f[2]))
    BY DEF Holds
  <2>4. QED
    BY <2>1, <2>2, <2>3
<1>5. QED
  BY <1>1, <1>2, <1>3, <1>4

\* So a helper calls others that come before it.
LEMMA HoldsCalls ==
  ASSUME NEW f, IsHelper(f), NEW o, NEW v, Holds(f, o, v), v > Word
  PROVE  v \in Nat /\ MayCall(f, <<o, Widened(v)>>)
<1>1. PICK w \in Nat : w = f[2] /\ w > Word /\ Widened(w) = w
  BY DEF IsHelper
<1>2. Word \in Nat /\ HalfWidth(w) \in Nat
  BY WordAssumption DEF HalfWidth
<1>3. v \in Nat /\ (v = HalfWidth(w) \/ v = w)
  BY <1>1, <1>2 DEF Holds
<1>x. PICK x \in Nat : x = Widened(v) /\ x >= v /\ Widened(x) = x
  BY <1>3, WidenedProps
<1>4. PICK g : x = Widened(v) /\ x >= v /\ Widened(x) = x /\ g = <<o, x>>
  BY <1>x
<1>5. IsHelper(g)
  BY <1>2, <1>3, <1>4 DEF IsHelper, Holds
<1>6. Rank(g) < Rank(f)
  <2>1. CASE v = w
    <3>1. g[2] = f[2] /\ f[1] \in {"URem", "UDiv"} /\ g[1] # "URem"
          /\ (f[1] = "UDiv" => g[1] # "UDiv")
      <4>1. v # HalfWidth(f[2])
        BY <1>1, <1>2, <2>1, WordAssumption DEF HalfWidth
      <4>2. QED
        BY <1>1, <1>4, <2>1, <4>1 DEF Holds
    <3>2. QED
      BY <1>1, <3>1 DEF Rank
  <2>2. CASE v = HalfWidth(w)
    <3>1. x < w
      BY <1>1, <1>4, <2>2, HalfIsNarrower
    <3>2. QED
      BY <1>1, <1>4, <3>1 DEF Rank
  <2>3. QED
    BY <1>3, <2>1, <2>2
<1>7. QED
  BY <1>3, <1>4, <1>5, <1>6 DEF MayCall, IsHelper

\* The body of a new helper: what is wide in it may be queued.
LEMMA BodyProps ==
  ASSUME NEW f \in Replaced \X Nat, IsHelper(f)
  PROVE  /\ Body(f) \in Seq(Item)
         /\ Body(f) # <<>>
         /\ \A i \in ToSet(Body(f)) : Wide(i) => Queued(i)
<1>1. PICK n \in Nat :
        /\ n # 0 /\ DOMAIN Body(f) = 1..n
        /\ \A i \in 1..n : \E o, v :
             Body(f)[i] = Instr(o, v, f, i) /\ Holds(f, o, v)
  BY BodyHolds
<1>2. Replaced \subseteq Opcodes
  BY DEF Replaced
<1>3. ASSUME NEW i \in 1..n
      PROVE  Body(f)[i] \in Item /\ (Wide(Body(f)[i]) => Queued(Body(f)[i]))
  <2>1. PICK o, v : Body(f)[i] = Instr(o, v, f, i) /\ Holds(f, o, v)
    BY <1>1
  <2>2. v \in Nat
    BY <2>1 DEF Holds, HalfWidth
  <2>3. Instr(o, v, f, i) \in Item
    BY <1>2, <2>1, <2>2 DEF Instr, Item, Holds
  <2>4. v > Word => MayCall(f, <<o, Widened(v)>>)
    BY <2>1, HoldsCalls
  <2>5. QED
    BY <2>1, <2>3, <2>4 DEF Queued, Wide, Instr
<1>4. Body(f) = [i \in 1..n |-> Body(f)[i]]
  BY <1>1 DEF Body
<1>5. Body(f) \in Seq(Item) /\ Len(Body(f)) = n
  <2>1. PICK b : b = Body(f)
    OBVIOUS
  <2>2. b \in [1..n -> Item]
    BY <1>3, <1>4, <2>1
  <2>3. QED
    BY <2>1, <2>2
<1>6. Body(f) # <<>>
  BY <1>1, <1>5, EmptySeq
<1>7. \A i \in ToSet(Body(f)) : Wide(i) => Queued(i)
  BY <1>1, <1>3 DEF ToSet
<1>8. QED
  BY <1>5, <1>6, <1>7

\* Popping the last item leaves the others.
LEMMA PopProps ==
  ASSUME PassInv, Lowering
  PROVE  /\ Popped \in Item /\ Popped \in ToSet(worklist)
         /\ Front(worklist) \in Seq(Item)
         /\ ToSet(Front(worklist)) \subseteq ToSet(worklist)
         /\ \A i \in ToSet(worklist) : i = Popped \/ i \in ToSet(Front(worklist))
<1>1. worklist \in Seq(Item) /\ worklist # <<>>
  BY DEF PassInv, Lowering
<1>2. PICK n \in Nat : n = Len(worklist) /\ n # 0 /\ DOMAIN worklist = 1..n
  BY <1>1, EmptySeq, LenProperties
<1>3. Popped = worklist[n] /\ Popped \in Item
  BY <1>1, <1>2, LastProps DEF Popped, Last
<1>4. /\ Front(worklist) \in Seq(Item) /\ DOMAIN Front(worklist) = 1..(n - 1)
      /\ \A i \in 1..(n - 1) : Front(worklist)[i] = worklist[i]
  BY <1>1, <1>2, FrontProps
<1>5. \A i \in 1..n : i = n \/ i \in 1..(n - 1)
  BY <1>2
<1>6. QED
  BY <1>2, <1>3, <1>4, <1>5 DEF ToSet

\* The instruction whose operands are extended is still one to replace, and
\* its helper one.
LEMMA HelperProps ==
  ASSUME PassInv, Lowering, Popped.op \notin Signed
  PROVE  /\ Helper \in Replaced \X Nat /\ IsHelper(Helper)
         /\ MayCall(Popped.in, Helper)
<1>1. Popped \in Item /\ Queued(Popped)
  BY PopProps DEF PassInv
<1>2. Popped.op \in Replaced /\ Popped.w \in Nat /\ Popped.w > Word
  BY <1>1 DEF Item, Replaced, Queued, Wide
<1>3. Helper = <<Popped.op, Widened(Popped.w)>>
  BY <1>1 DEF Helper, Extended, Item
<1>4. Widened(Popped.w) \in Nat
  BY <1>2, WidenedProps
<1>5. MayCall(Popped.in, Helper)
  BY <1>1, <1>2, <1>3 DEF Queued
<1>6. QED
  BY <1>2, <1>3, <1>4, <1>5 DEF MayCall

LEMMA ElementsOfBoth ==
  ASSUME NEW S, NEW s \in Seq(S), NEW t \in Seq(S)
  PROVE  s \o t \in Seq(S) /\ ToSet(s \o t) = ToSet(s) \cup ToSet(t)
<1>1. PICK m \in Nat, n \in Nat : m = Len(s) /\ n = Len(t)
  BY LenProperties
<1>2. PICK r \in Seq(S) :
        /\ r = s \o t /\ DOMAIN r = 1..(m + n)
        /\ \A i \in 1..(m + n) : r[i] = IF i <= m THEN s[i] ELSE t[i - m]
  <2>1. /\ s \o t \in Seq(S) /\ Len(s \o t) = m + n
        /\ \A i \in 1..(m + n) : (s \o t)[i] = IF i <= m THEN s[i] ELSE t[i - m]
    BY <1>1, ConcatProperties
  <2>2. DOMAIN (s \o t) = 1..(m + n)
    BY <2>1, LenProperties
  <2>3. QED
    BY <2>1, <2>2
<1>3. DOMAIN s = 1..m /\ DOMAIN t = 1..n
  BY <1>1
<1>4. \A i \in 1..(m + n) : i \in 1..m \/ (i - m \in 1..n /\ ~ (i <= m))
  OBVIOUS
<1>5. \A i \in 1..m : i \in 1..(m + n) /\ i <= m
  OBVIOUS
<1>6. \A i \in 1..n : i + m \in 1..(m + n) /\ ~ (i + m <= m) /\ (i + m) - m = i
  OBVIOUS
<1>7. \A x \in ToSet(r) : x \in ToSet(s) \cup ToSet(t)
  BY <1>2, <1>3, <1>4 DEF ToSet
<1>8. \A x \in ToSet(s) : x \in ToSet(r)
  BY <1>2, <1>3, <1>5 DEF ToSet
<1>9. \A x \in ToSet(t) : x \in ToSet(r)
  <2>1. SUFFICES ASSUME NEW i \in 1..n
                 PROVE  t[i] \in ToSet(r)
    BY <1>3 DEF ToSet
  <2>2. PICK j \in 1..(m + n) : j = i + m /\ ~ (j <= m) /\ j - m = i
    BY <1>6
  <2>3. r[j] = t[i]
    BY <1>2, <2>2
  <2>4. QED
    BY <1>2, <2>3 DEF ToSet
<1>10. QED
  BY <1>2, <1>7, <1>8, <1>9

LEMMA NarrowAlone ==
  ASSUME NEW a, ~ Wide(a)
  PROVE  Checked(<<a>>) = <<>> /\ ToSet(<<a>>) = {a}
<1>1. <<a>> \in Seq({a}) /\ <<a>> # <<>> /\ DOMAIN <<a>> = {1} /\ <<a>>[1] = a
  OBVIOUS
<1>2. ToSet(<<a>>) = {a}
  BY <1>1 DEF ToSet
<1>3. Checked(<<a>>) \in Seq({a}) /\ ToSet(Checked(<<a>>)) = {}
  <2>1. /\ Checked(<<a>>) \in Seq({a})
        /\ \A i \in ToSet(Checked(<<a>>)) : i \in ToSet(<<a>>) /\ Wide(i)
    BY <1>1, CheckedProps
  <2>2. QED
    BY <1>2, <2>1
<1>4. PICK c \in Seq({a}) : c = Checked(<<a>>) /\ ToSet(c) = {}
  BY <1>3
<1>5. c = <<>>
  <2>1. ASSUME c # <<>> PROVE FALSE
    <3>1. c[1] \in {c[i] : i \in DOMAIN c}
      BY <2>1, EmptySeq, LenProperties
    <3>2. QED
      BY <1>4, <3>1 DEF ToSet
  <2>2. QED
    BY <2>1
<1>6. QED
  BY <1>2, <1>4, <1>5

LEMMA PassInit ==
  ASSUME LoweringInit
  PROVE  PassInv
<1>. DEFINE f == IF job.op = "Exp" THEN <<"Exp", job.w>> ELSE <<"main", job.w>>
            src == Source(job.op, job.w)
<1>1. job.w \in Nat
  BY JobsAssumption DEF LoweringInit
<1>. DEFINE w == job.w
<1>2. f \in {"main", "Exp"} \X Nat /\ f[1] \notin Opcodes
  BY <1>1, OpcodeNames
<1>. HIDE DEF f
<1>3. CASE job.op \in Opcodes \/ job.op = "Exp"
  <2>1. PICK o \in Opcodes : o = IF job.op = "Exp" THEN "Mul" ELSE job.op
    BY <1>3, OpcodeNames
  <2>2. \A n \in Nat : Instr(o, w, f, n) \in Item
    BY <1>1, <1>2 DEF Instr, Item
  <2>3. \A n \in Nat : Wide(Instr(o, w, f, n)) => Queued(Instr(o, w, f, n))
    <3>1. SUFFICES ASSUME o \in Replaced, w > Word
                   PROVE  MayCall(f, <<o, Widened(w)>>)
      BY DEF Queued, Wide, Instr
    <3>2. IsHelper(<<o, Widened(w)>>)
      BY <1>1, <3>1, WidenedProps, WordAssumption DEF IsHelper
    <3>3. QED
      BY <1>2, <3>2 DEF MayCall
  <2>4. \/ src = <<Instr(o, w, f, 1), Instr(o, w, f, 2)>>
        \/ src = <<Instr(o, w, f, 1)>>
    BY <2>1 DEF Source, f
  <2>5. src \in Seq(Item) /\ src # <<>> /\ \A i \in ToSet(src) : Wide(i) => Queued(i)
    <3>1. CASE src = <<Instr(o, w, f, 1), Instr(o, w, f, 2)>>
      <4>1. PICK a \in Item, b \in Item : a = Instr(o, w, f, 1) /\ b = Instr(o, w, f, 2)
        BY <2>2
      <4>2. src \in Seq(Item) /\ src # <<>> /\ DOMAIN src = 1..2 /\ src[1] = a /\ src[2] = b
        BY <3>1, <4>1
      <4>3. ToSet(src) = {a, b}
        BY <4>2 DEF ToSet
      <4>4. QED
        BY <2>3, <4>1, <4>2, <4>3
    <3>2. CASE src = <<Instr(o, w, f, 1)>>
      <4>1. PICK a \in Item : a = Instr(o, w, f, 1)
        BY <2>2
      <4>2. src \in Seq(Item) /\ src # <<>> /\ DOMAIN src = {1} /\ src[1] = a
        BY <3>2, <4>1
      <4>3. ToSet(src) = {a}
        BY <4>2 DEF ToSet
      <4>4. QED
        BY <2>3, <4>1, <4>2, <4>3
    <3>3. QED
      BY <2>4, <3>1, <3>2
  <2>6. QED
    BY <2>5, CheckedProps DEF LoweringInit, PassInv
<1>4. CASE job.op \notin Opcodes /\ job.op # "Exp"
  <2>1. PICK a : a = Instr(job.op, w, <<"main", w>>, 1)
    OBVIOUS
  <2>2. src = <<a>> /\ ~ Wide(a)
    BY <1>4, <2>1 DEF Source, Wide, Instr
  <2>3. QED
    <3>1. worklist = <<>> /\ instrs = {a} /\ calls = {} /\ ToSet(worklist) = {}
      BY <2>2, NarrowAlone DEF LoweringInit, ToSet
    <3>2. QED
      BY <2>2, <3>1 DEF PassInv
<1>5. QED
  BY <1>3, <1>4

\* Outside the pass nothing it works on is touched.
LEMMA OutsideThePass ==
  ASSUME LoweringNext, ~ Lower
  PROVE  UNCHANGED <<job, instrs, worklist, calls>> /\ at # "lower" /\ at' # "lower"
<1>1. CASE Call \/ InOneBlock
  BY <1>1 DEF Call, InOneBlock, Return, Inside, Passed
<1>2. CASE Exp
  BY <1>2 DEF Exp, ExpOfZero, ExpEntry, ExpLoop, Return, Inside, Passed
<1>3. CASE Div
  BY <1>3
  DEF Div, DivEntry, SpecialCases, Preheader, DoWhile, LoopExit, Inside, Passed
<1>4. CASE Rem
  BY <1>4 DEF Rem, RemByZero, RemEntry, LoopEnd, Return, Inside, Passed
<1>5. CASE at = "done" /\ UNCHANGED loweringVars
  BY <1>5 DEF loweringVars
<1>6. QED
  BY <1>1, <1>2, <1>3, <1>4, <1>5 DEF LoweringNext

LEMMA PassStep ==
  ASSUME PassInv, [LoweringNext]_loweringVars
  PROVE  PassInv'
<1>1. CASE KeepSigned
  <2>1. /\ instrs' = (instrs \ {Popped}) \cup {Extended}
        /\ worklist' = Front(worklist) /\ calls' = calls /\ at' = at
        /\ Lowering /\ Popped.op \notin Replaced
    BY <1>1 DEF KeepSigned, Replaced
  <2>2. Extended.op \notin Replaced
    BY <2>1, PopProps DEF Extended, Item
  <2>3. QED
    BY <2>1, <2>2, PopProps DEF PassInv, Lowering
<1>2. CASE CallHelper
  <2>1. /\ instrs' = instrs \ {Popped} /\ worklist' = Front(worklist) /\ at' = at
        /\ calls' = calls \cup {<<Popped.in, Helper>>}
        /\ Lowering /\ Popped.op \notin Signed
    BY <1>2 DEF CallHelper
  <2>2. MayCall(Popped.in, Helper)
    BY <2>1, HelperProps
  <2>3. QED
    BY <2>1, <2>2, PopProps DEF PassInv, Lowering
<1>3. CASE MakeHelper
  <2>1. /\ instrs' = (instrs \ {Popped}) \cup ToSet(Body(Helper))
        /\ worklist' = Front(worklist) \o Pushed(Helper) /\ at' = at
        /\ calls' = calls \cup {<<Popped.in, Helper>>}
        /\ Lowering /\ Popped.op \notin Signed
    BY <1>3 DEF MakeHelper
  <2>2. MayCall(Popped.in, Helper) /\ Helper \in Replaced \X Nat /\ IsHelper(Helper)
    BY <2>1, HelperProps
  <2>3. PICK b : b = Body(Helper)
    OBVIOUS
  <2>4. b \in Seq(Item) /\ b # <<>> /\ \A i \in ToSet(b) : Wide(i) => Queued(i)
    BY <2>2, <2>3, BodyProps
  <2>5. PICK p \in Seq(Item) :
          /\ p = Pushed(Helper)
          /\ \A i \in ToSet(p) : i \in ToSet(b) /\ Wide(i)
          /\ \A i \in ToSet(b) : Wide(i) => i \in ToSet(p)
    BY <2>3, <2>4, CheckedProps DEF Pushed
  <2>6. /\ worklist' \in Seq(Item)
        /\ ToSet(worklist') = ToSet(Front(worklist)) \cup ToSet(p)
    BY <2>1, <2>5, PopProps, ElementsOfBoth
  <2>7. \A i \in ToSet(worklist') : Queued(i)
    BY <2>1, <2>4, <2>5, <2>6, PopProps DEF PassInv
  <2>8. \A i \in instrs' : Wide(i) /\ i.op \in Replaced => i \in ToSet(worklist')
    BY <2>1, <2>3, <2>5, <2>6, PopProps DEF PassInv
  <2>9. \A c \in calls' : MayCall(c[1], c[2])
    BY <2>1, <2>2 DEF PassInv
  <2>10. QED
    BY <2>1, <2>6, <2>7, <2>8, <2>9 DEF PassInv, Lowering
<1>4. CASE Lowered
  BY <1>4 DEF Lowered, PassInv
<1>5. CASE LoweringNext /\ ~ Lower
  BY <1>5, OutsideThePass DEF PassInv
<1>6. CASE UNCHANGED loweringVars
  BY <1>6 DEF loweringVars, PassInv
<1>7. QED
  BY <1>1, <1>2, <1>3, <1>4, <1>5, <1>6 DEF Lower

\* PassInv holds of the lowering pass and of the code it makes.
THEOREM PassIsInvariant == LoweringSpec => []PassInv
<1>1. LoweringInit => PassInv
  BY PassInit
<1>2. PassInv /\ [LoweringNext]_loweringVars => PassInv'
  BY PassStep
<1>3. QED
  BY <1>1, <1>2, PTL DEF LoweringSpec

\* When the worklist is empty nothing unsigned is wider than a machine word,
\* whatever its width and that of the operations: every function that was made
\* was looked at (checkWorllist, checkInstruction).
THEOREM NothingWideIsLeft == LoweringSpec => []LoweringIsComplete
<1>1. PassInv => LoweringIsComplete
  <2>1. SUFFICES ASSUME PassInv, at # "lower", NEW i \in instrs, Wide(i), i.op \notin Signed
                 PROVE  FALSE
    BY DEF LoweringIsComplete
  <2>2. i.op \in Replaced
    BY <2>1 DEF Wide, Replaced
  <2>3. i \in ToSet(worklist) /\ worklist = <<>>
    BY <2>1, <2>2 DEF PassInv
  <2>4. QED
    BY <2>3 DEF ToSet
<1>2. QED
  BY <1>1, PassIsInvariant, PTL

\* The functions the pass makes never call themselves, by whatever way round:
\* each calls those of less width or, at its own, the shifts and products that
\* division and remainder are made from (Get...Function).
THEOREM HelpersEnd == LoweringSpec => []HelpersDoNotRecur
<1>1. PassInv => HelpersDoNotRecur
  <2>1. SUFFICES ASSUME PassInv, NEW fs \in SUBSET Helpers, fs # {}
                 PROVE  \E f \in fs : \A g \in fs : <<f, g>> \notin calls
    BY DEF HelpersDoNotRecur
  <2>2. \A f \in fs : IsHelper(f) /\ Rank(f) \in Nat
    <3>1. SUFFICES ASSUME NEW f \in fs PROVE IsHelper(f) /\ Rank(f) \in Nat
      OBVIOUS
    <3>2. PICK c \in calls : f = c[2]
      BY <2>1, <3>1 DEF Helpers
    <3>3. IsHelper(f)
      BY <2>1, <3>2 DEF PassInv, MayCall
    <3>4. QED
      BY <3>3 DEF IsHelper, Rank
  <2>. DEFINE ranks == {Rank(f) : f \in fs}
  <2>3. ranks \subseteq Nat /\ ranks # {}
    BY <2>1, <2>2
  <2>4. PICK n \in ranks : \A r \in ranks : n <= r
    BY <2>3, LeastNatural
  <2>5. PICK f \in fs : Rank(f) = n
    BY <2>4
  <2>6. ASSUME NEW g \in fs, <<f, g>> \in calls PROVE FALSE
    <3>1. MayCall(f, g) /\ f[1] \in Opcodes
      <4>1. PICK c : c = <<f, g>>
        OBVIOUS
      <4>2. MayCall(c[1], c[2])
        BY <2>1, <2>6, <4>1 DEF PassInv
      <4>3. QED
        BY <2>2, <4>1, <4>2 DEF IsHelper, Replaced
    <3>2. Rank(g) < Rank(f)
      BY <3>1 DEF MayCall
    <3>3. Rank(g) >= n
      BY <2>4
    <3>4. QED
      BY <2>2, <2>5, <3>2, <3>3
  <2>7. QED
    BY <2>6
<1>2. QED
  BY <1>1, PassIsInvariant, PTL
=============================================================================
