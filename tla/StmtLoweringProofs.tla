------------------------- MODULE StmtLoweringProofs -------------------------
(***************************************************************************)
(* What TLAPS proves about StmtLowering for every MaxNodes.                *)
(***************************************************************************)
EXTENDS StmtLowering, SequenceLemmas

-----------------------------------------------------------------------------
(* Types. *)

\* Creating blocks only adds values to the types of the state.
LEMMA TypesGrow ==
  ASSUME nb \in Nat, nb' \in Nat, nb <= nb'
  PROVE  /\ Block \subseteq Block'
         /\ BlockOr0 \subseteq BlockOr0'
         /\ LoopsType \subseteq LoopsType'
         /\ FrameType \subseteq FrameType'
         /\ TermType \subseteq TermType'
         /\ Seq(FrameType) \subseteq Seq(FrameType')
<1>1. Block \subseteq Block' /\ BlockOr0 \subseteq BlockOr0'
  BY DEF Block, BlockOr0
<1>2. [brk : Block, cnt : Block] \subseteq [brk : Block', cnt : Block']
  BY <1>1
<1>3. LoopsType \subseteq LoopsType'
  BY <1>2, SeqGrows DEF LoopsType
<1>4. FrameType \subseteq FrameType'
  BY <1>1, <1>3 DEF FrameType
<1>5. Seq(Block) \subseteq Seq(Block')
  BY <1>1, SeqGrows
<1>6. TermType \subseteq TermType'
  BY <1>5 DEF TermType, TermsTo
<1>7. QED
  BY <1>1, <1>3, <1>4, <1>6, SeqGrows

\* The part of TypeOK that the builder writes.
GraphOK ==
  /\ nb \in Nat \ {0}
  /\ fn \in [Block -> Nat]
  /\ term \in [Block -> TermType]
  /\ code \in [Block -> Seq(Nat)]

\* One builder call leaves the control flow graph well typed if the new
\* terminators are.
LEMMA EmitTypes ==
  ASSUME TypeOK,
         NEW n \in Nat, NEW f \in Nat, NEW t, NEW b, NEW c \in Nat,
         Emit(n, f, t, b, c),
         \A x \in DOMAIN t : t[x] \in TermType'
  PROVE  GraphOK'
<1>1. nb' \in Nat \ {0} /\ nb' = nb + n
  BY DEF TypeOK, Emit
<1>2. fn' \in [Block' -> Nat]
  BY <1>1 DEF TypeOK, Emit, Block
<1>3. None \in TermType'
  BY DEF None, Terminator, TermType, TermsTo
<1>4. term' \in [Block' -> TermType']
  <2>1. TermType \subseteq TermType'
    BY <1>1, TypesGrow DEF TypeOK
  <2>2. \A x \in 1..nb : term[x] \in TermType'
    BY <2>1 DEF TypeOK, Block
  <2>3. QED
    BY <1>1, <1>3, <2>2 DEF Emit, Block
<1>5. code' \in [Block' -> Seq(Nat)]
  <2>1. \A x \in 1..nb : code[x] \in Seq(Nat)
    BY DEF TypeOK, Block
  <2>2. \A x \in 1..nb : Append(code[x], c) \in Seq(Nat)
    BY <2>1
  <2>3. Append(<<>>, c) \in Seq(Nat) /\ <<>> \in Seq(Nat)
    OBVIOUS
  <2>4. QED
    BY <1>1, <2>1, <2>2, <2>3 DEF Emit, Block
<1>6. QED
  BY <1>1, <1>2, <1>4, <1>5 DEF GraphOK

-----------------------------------------------------------------------------
(* The call stack. *)

LEMMA TopType ==
  ASSUME TypeOK, StackShape
  PROVE  /\ Len(work) \in Nat \ {0}
         /\ work \in Seq(FrameType)
         /\ Top \in FrameType
         /\ FrameShape(Top, lang)
         /\ Top.k = "root" <=> Len(work) = 1
<1>1. Len(work) \in Nat \ {0} /\ work \in Seq(FrameType)
  BY EmptySeq, LenProperties DEF TypeOK, StackShape
<1>2. Len(work) \in DOMAIN work /\ work[Len(work)] \in FrameType
  BY <1>1
<1>3. FrameShape(Top, lang) /\ (Top.k = "root" <=> Len(work) = 1)
  BY <1>2 DEF StackShape, Top
<1>4. QED
  BY <1>1, <1>2, <1>3 DEF Top

LEMMA PushKeeps ==
  ASSUME TypeOK, StackShape, nb' \in Nat, nb <= nb', lang' = lang,
         NEW f, f \in FrameType', FrameShape(f, lang), f.k # "root", Push(f)
  PROVE  /\ work' \in Seq(FrameType') /\ StackShape'
         /\ Len(work') = Len(work) + 1
         /\ \A i \in 1..Len(work) : work'[i] = work[i]
         /\ work'[Len(work) + 1] = f
<1>1. FrameType \subseteq FrameType'
  BY TypesGrow DEF TypeOK
<1>2. work \in Seq(FrameType') /\ Len(work) \in Nat \ {0}
  BY <1>1, SeqGrows, TopType
<1>3. work' = Append(work, f)
  BY DEF Push
<1>4. /\ work' \in Seq(FrameType')
      /\ Len(work') = Len(work) + 1
      /\ \A i \in 1..Len(work) : work'[i] = work[i]
      /\ work'[Len(work) + 1] = f
  BY <1>2, <1>3
<1>5. StackShape'
  BY <1>2, <1>4 DEF StackShape
<1>6. QED
  BY <1>4, <1>5

LEMMA ReturnKeeps ==
  ASSUME TypeOK, StackShape, nb' \in Nat, nb <= nb', lang' = lang,
         Top.k # "root", Return
  PROVE  /\ work' \in Seq(FrameType') /\ StackShape'
         /\ Len(work') = Len(work) - 1
         /\ \A i \in 1..(Len(work) - 1) : work'[i] = work[i]
<1>1. FrameType \subseteq FrameType'
  BY TypesGrow DEF TypeOK
<1>2. work \in Seq(FrameType') /\ Len(work) \in Nat \ {0} /\ Len(work) # 1
  BY <1>1, SeqGrows, TopType
<1>3. /\ work' \in Seq(FrameType')
      /\ Len(work') = Len(work) - 1
      /\ \A i \in 1..(Len(work) - 1) : work'[i] = work[i]
  BY <1>2, FrontProps DEF Return, StackShape
<1>4. StackShape'
  BY <1>2, <1>3 DEF StackShape
<1>5. QED
  BY <1>3, <1>4

LEMMA BecomeKeeps ==
  ASSUME TypeOK, StackShape, nb' \in Nat, nb <= nb', lang' = lang,
         Top.k # "root",
         NEW f, f \in FrameType', FrameShape(f, lang), f.k # "root", Become(f)
  PROVE  /\ work' \in Seq(FrameType') /\ StackShape'
         /\ Len(work') = Len(work)
         /\ \A i \in 1..(Len(work) - 1) : work'[i] = work[i]
         /\ work'[Len(work)] = f
<1>1. FrameType \subseteq FrameType'
  BY TypesGrow DEF TypeOK
<1>2. work \in Seq(FrameType') /\ Len(work) \in Nat \ {0} /\ Len(work) # 1
  BY <1>1, SeqGrows, TopType
<1>. DEFINE rest == Front(work)
<1>3. /\ rest \in Seq(FrameType')
      /\ Len(rest) = Len(work) - 1
      /\ \A i \in 1..(Len(work) - 1) : rest[i] = work[i]
  BY <1>2, FrontProps DEF StackShape
<1>4. work' = Append(rest, f)
  BY DEF Become
<1>. HIDE DEF rest
<1>5. /\ work' \in Seq(FrameType')
      /\ Len(work') = Len(work)
      /\ \A i \in 1..(Len(work) - 1) : work'[i] = work[i]
      /\ work'[Len(work)] = f
  BY <1>2, <1>3, <1>4
<1>6. StackShape'
  BY <1>2, <1>5 DEF StackShape
<1>7. QED
  BY <1>5, <1>6

\* OpenDefault replaces the innermost frame and pushes one.
LEMMA BecomeAndPushKeeps ==
  ASSUME TypeOK, StackShape, nb' = nb, lang' = lang, Top.k # "root",
         NEW f \in FrameType, FrameShape(f, lang), f.k # "root",
         NEW g \in FrameType, FrameShape(g, lang), g.k # "root",
         work' = Append(Append(Front(work), f), g)
  PROVE  /\ work' \in Seq(FrameType') /\ StackShape'
         /\ Len(work') = Len(work) + 1
         /\ \A i \in 1..(Len(work) - 1) : work'[i] = work[i]
         /\ work'[Len(work)] = f /\ work'[Len(work) + 1] = g
<1>1. FrameType' = FrameType
  BY DEF FrameType, BlockOr0, LoopsType, Block
<1>2. work \in Seq(FrameType) /\ Len(work) \in Nat \ {0} /\ Len(work) # 1
  BY TopType
<1>. DEFINE rest == Front(work)
            mid == Append(rest, f)
<1>3. /\ rest \in Seq(FrameType)
      /\ Len(rest) = Len(work) - 1
      /\ \A i \in 1..(Len(work) - 1) : rest[i] = work[i]
  BY <1>2, FrontProps DEF StackShape
<1>. HIDE DEF rest
<1>4. /\ mid \in Seq(FrameType)
      /\ Len(mid) = Len(work)
      /\ \A i \in 1..(Len(work) - 1) : mid[i] = work[i]
      /\ mid[Len(work)] = f
  BY <1>2, <1>3
<1>5. work' = Append(mid, g)
  BY DEF rest
<1>. HIDE DEF mid
<1>6. /\ work' \in Seq(FrameType')
      /\ Len(work') = Len(work) + 1
      /\ \A i \in 1..(Len(work) - 1) : work'[i] = work[i]
      /\ work'[Len(work)] = f /\ work'[Len(work) + 1] = g
  BY <1>1, <1>2, <1>4, <1>5
<1>7. StackShape'
  <2>1. \A i \in 1..(Len(work) - 1) :
          FrameShape(work[i], lang) /\ (work[i].k = "root" <=> i = 1)
    BY <1>2 DEF StackShape
  <2>2. \A i \in DOMAIN work' :
          FrameShape(work'[i], lang) /\ (work'[i].k = "root" <=> i = 1)
    <3>1. TAKE i \in DOMAIN work'
    <3>2. CASE i \in 1..(Len(work) - 1)
      BY <1>6, <2>1, <3>2
    <3>3. CASE i = Len(work)
      <4>1. work'[i] = f /\ i # 1
        BY <1>2, <1>6, <3>3
      <4>2. QED
        BY <4>1
    <3>4. CASE i = Len(work) + 1
      <4>1. work'[i] = g /\ i # 1
        BY <1>2, <1>6, <3>4
      <4>2. QED
        BY <4>1
    <3>5. QED
      BY <1>2, <1>6, <3>1, <3>2, <3>3, <3>4
  <2>3. work' # <<>>
    BY <1>2, <1>6
  <2>4. QED
    BY <2>2, <2>3 DEF StackShape
<1>8. QED
  BY <1>6, <1>7

-----------------------------------------------------------------------------
(* Terminators and nodes. *)

LEMMA OneEntry ==
  ASSUME NEW T, NEW b, NEW t \in T
  PROVE  \A x \in DOMAIN One(b, t) : One(b, t)[x] \in T
BY DEF One

LEMMA TwoEntries ==
  ASSUME NEW T, NEW b, NEW t \in T, NEW c, NEW u \in T
  PROVE  \A x \in DOMAIN Two(b, t, c, u) : Two(b, t, c, u)[x] \in T
BY DEF Two

LEMMA TermTypes ==
  ASSUME NEW B
  PROVE  /\ \A b \in B : Br(b) \in TermsTo(B)
         /\ \A b, c \in B, n \in Nat : CondBr(b, c, n) \in TermsTo(B)
         /\ \A b \in B, n \in Nat : Terminator("switch", <<b>>, n) \in TermsTo(B)
         /\ \A n \in Nat : Unreachable(n) \in TermsTo(B)
         /\ Ret \in TermsTo(B)
<1>1. \A b, c \in B : <<b>> \in Seq(B) /\ <<b, c>> \in Seq(B)
  OBVIOUS
<1>2. <<>> \in Seq(B)
  OBVIOUS
<1>3. QED
  BY <1>1, <1>2
  DEF TermsTo, Br, CondBr, Unreachable, Ret, Terminator

\* The terminators that a step adds.
LEMMA NewTermTypes ==
  /\ \A b \in Block' : Br(b) \in TermType'
  /\ \A b, c \in Block', n \in Nat : CondBr(b, c, n) \in TermType'
  /\ \A b \in Block', n \in Nat : Terminator("switch", <<b>>, n) \in TermType'
  /\ \A n \in Nat : Unreachable(n) \in TermType'
  /\ Ret \in TermType'
<1>1. TermType' = TermsTo(Block')
  BY DEF TermType
<1>2. QED
  BY <1>1, TermTypes

Kinds == SolKinds \cup YulKinds \cup {"payable", "case", "default"}

LEMMA VisitTypes ==
  ASSUME TypeOK, StackShape, NEW k \in Kinds, Visit(k)
  PROVE  ast' \in Seq(NodeType) /\ NewNode \in Nat
<1>1. ast \in Seq(NodeType)
  BY DEF TypeOK
<1>2. Top.node \in Nat /\ Top.k \in StmtLists \cup {"switch"}
  BY TopType DEF FrameType
<1>3. [k |-> k, up |-> Top.node, sec |-> Top.k] \in NodeType
  BY <1>2 DEF NodeType, Kinds
<1>4. QED
  BY <1>1, <1>3 DEF Visit, NewNode

\* What a step leaves alone keeps its type when blocks are created.
LEMMA OthersKeep ==
  ASSUME TypeOK, nb' \in Nat, nb <= nb'
  PROVE  /\ ins \in Block' /\ ret \in BlockOr0' /\ loops \in LoopsType'
         /\ work \in Seq(FrameType') /\ fn[ins] \in Nat
BY TypesGrow DEF TypeOK

LEMMA EmitCount ==
  ASSUME TypeOK, NEW n \in Nat, NEW f, NEW t, NEW b, NEW c, Emit(n, f, t, b, c)
  PROVE  nb' = nb + n /\ nb' \in Nat /\ nb <= nb'
BY DEF TypeOK, Emit

LEMMA EmitNoneTypes ==
  ASSUME TypeOK, NEW n \in Nat, NEW b, NEW c \in Nat,
         Emit(n, fn[ins], <<>>, b, c)
  PROVE  GraphOK'
<1>1. \A x \in DOMAIN <<>> : <<>>[x] \in TermType'
  OBVIOUS
<1>2. fn[ins] \in Nat
  BY DEF TypeOK
<1>3. QED
  BY <1>1, <1>2, EmitTypes

LEMMA EmitOneTypes ==
  ASSUME TypeOK, NEW n \in Nat, NEW d, NEW t, t \in TermType',
         NEW b, NEW c \in Nat, Emit(n, fn[ins], One(d, t), b, c)
  PROVE  GraphOK'
<1>1. \A x \in DOMAIN One(d, t) : One(d, t)[x] \in TermType'
  BY OneEntry
<1>2. fn[ins] \in Nat
  BY DEF TypeOK
<1>3. QED
  BY <1>1, <1>2, EmitTypes

LEMMA EmitTwoTypes ==
  ASSUME TypeOK, NEW n \in Nat, NEW d, NEW t, t \in TermType',
         NEW e, NEW u, u \in TermType',
         NEW b, NEW c \in Nat, Emit(n, fn[ins], Two(d, t, e, u), b, c)
  PROVE  GraphOK'
<1>1. \A x \in DOMAIN Two(d, t, e, u) : Two(d, t, e, u)[x] \in TermType'
  BY TwoEntries
<1>2. fn[ins] \in Nat
  BY DEF TypeOK
<1>3. QED
  BY <1>1, <1>2, EmitTypes

\* The parts make up TypeOK.
LEMMA TypeParts ==
  ASSUME GraphOK', lang' \in {"sol", "yul"}, ast' \in Seq(NodeType),
         ins' \in Block', ret' \in BlockOr0', loops' \in LoopsType',
         work' \in Seq(FrameType'),
         pc' \in {"emit", "done", "assert", "undefined"}
  PROVE  TypeOK'
BY DEF GraphOK, TypeOK

-----------------------------------------------------------------------------
(* Straight-line statements keep the types and the stack. *)

LEMMA EmitActTypes ==
  ASSUME TypeOK, StackShape, EmitAct
  PROVE  TypeOK' /\ StackShape'
<1>1. /\ Visit("act") /\ Emit(0, fn[ins], <<>>, ins, NewNode)
      /\ UNCHANGED <<lang, ins, ret, loops, work, pc>>
  BY DEF EmitAct
<1>2. ast' \in Seq(NodeType) /\ NewNode \in Nat
  BY <1>1, VisitTypes DEF Kinds, SolKinds
<1>3. nb' \in Nat /\ nb <= nb'
  BY <1>1, EmitCount
<1>4. GraphOK'
  BY <1>1, <1>2, EmitNoneTypes
<1>5. TypeOK'
  BY <1>1, <1>2, <1>3, <1>4, OthersKeep, TypeParts DEF TypeOK
<1>6. QED
  BY <1>1, <1>5 DEF StackShape

LEMMA EmitRequireTypes ==
  ASSUME TypeOK, StackShape, EmitRequire
  PROVE  TypeOK' /\ StackShape'
<1>. DEFINE t == CondBr(nb + 1, nb + 2, NewNode)
            u == Unreachable(NewNode)
<1>1. /\ Visit("req") /\ Emit(2, fn[ins], Two(ins, t, nb + 2, u), 0, 0)
      /\ ins' = nb + 1
      /\ UNCHANGED <<lang, ret, loops, work, pc>>
  BY DEF EmitRequire, Create
<1>2. ast' \in Seq(NodeType) /\ NewNode \in Nat
  BY <1>1, VisitTypes DEF Kinds, SolKinds
<1>3. nb' \in Nat /\ nb <= nb' /\ nb + 1 \in Block' /\ nb + 2 \in Block'
  BY <1>1, EmitCount DEF TypeOK, Block
<1>4. t \in TermType' /\ u \in TermType'
  BY <1>2, <1>3, NewTermTypes
<1>5. GraphOK'
  BY <1>1, <1>4, EmitTwoTypes
<1>6. TypeOK'
  BY <1>1, <1>2, <1>3, <1>5, OthersKeep, TypeParts DEF TypeOK
<1>7. QED
  BY <1>1, <1>6 DEF StackShape

LEMMA EmitRevertTypes ==
  ASSUME TypeOK, StackShape, EmitRevert
  PROVE  TypeOK' /\ StackShape'
<1>1. /\ Visit("revert")
      /\ Emit(1, fn[ins], One(ins, Unreachable(NewNode)), 0, 0)
      /\ ins' = nb + 1
      /\ UNCHANGED <<lang, ret, loops, work, pc>>
  BY DEF EmitRevert, Create
<1>2. ast' \in Seq(NodeType) /\ NewNode \in Nat
  BY <1>1, VisitTypes DEF Kinds, SolKinds
<1>3. nb' \in Nat /\ nb <= nb' /\ nb + 1 \in Block'
  BY <1>1, EmitCount DEF TypeOK, Block
<1>4. Unreachable(NewNode) \in TermType'
  BY <1>2, NewTermTypes
<1>5. GraphOK'
  BY <1>1, <1>4, EmitOneTypes
<1>6. TypeOK'
  BY <1>1, <1>2, <1>3, <1>5, OthersKeep, TypeParts DEF TypeOK
<1>7. QED
  BY <1>1, <1>6 DEF StackShape

LEMMA EmitReturnTypes ==
  ASSUME TypeOK, StackShape, EmitReturn
  PROVE  TypeOK' /\ StackShape'
<1>1. PICK k \in {"ret", "leave"} : Visit(k)
  BY DEF EmitReturn
<1>2. /\ Emit(1, fn[ins], One(ins, Br(ret)), ins, NewNode)
      /\ ret # 0
      /\ ins' = nb + 1
      /\ UNCHANGED <<lang, ret, loops, work, pc>>
  BY DEF EmitReturn
<1>3. ast' \in Seq(NodeType) /\ NewNode \in Nat
  BY <1>1, VisitTypes DEF Kinds, SolKinds, YulKinds
<1>4. nb' \in Nat /\ nb <= nb' /\ nb + 1 \in Block'
  BY <1>2, EmitCount DEF TypeOK, Block
<1>5. Br(ret) \in TermType'
  <2>1. ret \in Block'
    BY <1>2, <1>4, OthersKeep DEF BlockOr0, Block
  <2>2. QED
    BY <2>1, NewTermTypes
<1>6. GraphOK'
  BY <1>2, <1>3, <1>5, EmitOneTypes
<1>7. TypeOK'
  BY <1>2, <1>3, <1>4, <1>6, OthersKeep, TypeParts DEF TypeOK
<1>8. QED
  BY <1>2, <1>7 DEF StackShape

LEMMA EmitJumpTypes ==
  ASSUME TypeOK, StackShape, EmitJump
  PROVE  TypeOK' /\ StackShape'
<1>1. PICK k \in {"brk", "cnt"}, d \in {Last(loops).brk, Last(loops).cnt} :
        Visit(k) /\ Emit(1, fn[ins], One(ins, Br(d)), 0, 0)
  BY DEF EmitJump, Create
<1>2. /\ loops # <<>>
      /\ ins' = nb + 1
      /\ UNCHANGED <<lang, ret, loops, work, pc>>
  BY DEF EmitJump
<1>3. ast' \in Seq(NodeType) /\ NewNode \in Nat
  BY <1>1, VisitTypes DEF Kinds, SolKinds, YulKinds
<1>4. nb' \in Nat /\ nb <= nb' /\ nb + 1 \in Block'
  BY <1>1, EmitCount DEF TypeOK, Block
<1>5. Br(d) \in TermType'
  <2>1. loops \in Seq([brk : Block', cnt : Block'])
    BY <1>4, OthersKeep DEF LoopsType
  <2>2. Last(loops) \in [brk : Block', cnt : Block']
    BY <1>2, <2>1, LastProps
  <2>3. QED
    BY <1>1, <2>2, NewTermTypes
<1>6. GraphOK'
  BY <1>1, <1>5, EmitOneTypes
<1>7. TypeOK'
  BY <1>2, <1>3, <1>4, <1>6, OthersKeep, TypeParts DEF TypeOK
<1>8. QED
  BY <1>2, <1>7 DEF StackShape

-----------------------------------------------------------------------------
(* The constructs that open a frame. *)

LEMMA CallTypes ==
  ASSUME NEW k \in StmtLists \cup {"switch"}, NEW n \in Nat, nb' \in Nat
  PROVE  Call(k, n) \in FrameType'
<1>1. 0 \in BlockOr0' /\ <<>> \in LoopsType'
  BY DEF BlockOr0, LoopsType
<1>2. QED
  BY <1>1 DEF FrameType, Call

LEMMA OpenThenTypes ==
  ASSUME TypeOK, StackShape,
         NEW k \in {"if", "ifelse"}, NEW n \in Nat, NEW else \in Nat, NEW next \in Nat,
         else \in 1..(nb + n), next \in 0..(nb + n), n >= 2,
         OpenThen(k, n, else, next)
  PROVE  TypeOK' /\ StackShape'
<1>. DEFINE f == [Call("then", NewNode) EXCEPT !.next = next, !.exit = nb + 2]
<1>1. /\ Visit(k)
      /\ Emit(n, fn[ins], One(ins, CondBr(nb + 1, else, NewNode)), 0, 0)
      /\ Push(f) /\ ins' = nb + 1
      /\ UNCHANGED <<lang, ret, loops, pc>>
  BY DEF OpenThen, Create
<1>2. ast' \in Seq(NodeType) /\ NewNode \in Nat
  BY <1>1, VisitTypes DEF Kinds, SolKinds, YulKinds
<1>3. nb \in Nat \ {0} /\ nb' = nb + n /\ nb' \in Nat /\ nb <= nb'
  <2>1. nb \in Nat \ {0}
    BY DEF TypeOK
  <2>2. QED
    BY <1>1, <2>1, EmitCount
<1>4. /\ nb + 1 \in Block' /\ nb + 2 \in BlockOr0'
      /\ else \in Block' /\ next \in BlockOr0'
  BY <1>3 DEF Block, BlockOr0
<1>5. GraphOK'
  <2>1. CondBr(nb + 1, else, NewNode) \in TermType'
    BY <1>2, <1>4, NewTermTypes
  <2>2. QED
    BY <1>1, <2>1, EmitOneTypes
<1>6. f \in FrameType'
  <2>1. Call("then", NewNode) \in FrameType'
    BY <1>2, <1>3, CallTypes DEF StmtLists
  <2>2. QED
    BY <1>4, <2>1 DEF FrameType
<1>7. FrameShape(f, lang) /\ f.k # "root"
  BY <1>3 DEF FrameShape, SlotsInUse, Slots, Call
<1>8. work' \in Seq(FrameType') /\ StackShape'
  <2>. HIDE DEF f
  <2>. QED
    BY <1>1, <1>3, <1>6, <1>7, PushKeeps
<1>9. TypeOK'
  BY <1>1, <1>2, <1>3, <1>4, <1>5, <1>8, OthersKeep, TypeParts DEF TypeOK
<1>10. QED
  BY <1>8, <1>9

LEMMA OpenIfTypes ==
  ASSUME TypeOK, StackShape, OpenIf
  PROVE  TypeOK' /\ StackShape'
<1>1. nb \in Nat
  BY DEF TypeOK
<1>2. CASE OpenThen("if", 2, nb + 2, 0)
  BY <1>1, <1>2, OpenThenTypes
<1>3. CASE OpenThen("ifelse", 3, nb + 3, nb + 3)
  BY <1>1, <1>3, OpenThenTypes
<1>4. QED
  BY <1>2, <1>3 DEF OpenIf

LEMMA LoopTypes ==
  ASSUME TypeOK, nb' \in Nat, nb <= nb', NEW b \in Block', NEW c \in Block',
         EnterLoop(b, c) \/ LeaveLoop
  PROVE  loops' \in LoopsType'
<1>1. loops \in Seq([brk : Block', cnt : Block'])
  BY OthersKeep DEF LoopsType
<1>2. CASE EnterLoop(b, c)
  BY <1>1, <1>2 DEF EnterLoop, LoopsType
<1>3. CASE LeaveLoop
  BY <1>1, <1>3, FrontType DEF LeaveLoop, LoopsType
<1>4. QED
  BY <1>2, <1>3

LEMMA OpenWhileTypes ==
  ASSUME TypeOK, StackShape, OpenWhile
  PROVE  TypeOK' /\ StackShape'
<1>. DEFINE first(k) == Br(IF k = "do" THEN nb + 3 ELSE nb + 1)
            test == CondBr(nb + 3, nb + 2, NewNode)
            f == [Call("body", NewNode) EXCEPT !.exit = nb + 2, !.back = nb + 1]
<1>1. PICK k \in {"while", "do"} :
        /\ Visit(k)
        /\ Emit(3, fn[ins], Two(ins, first(k), nb + 1, test), 0, 0)
        /\ EnterLoop(nb + 2, nb + 1) /\ Push(f) /\ ins' = nb + 3
  BY DEF OpenWhile, Create
<1>2. UNCHANGED <<lang, ret, pc>>
  BY DEF OpenWhile
<1>3. ast' \in Seq(NodeType) /\ NewNode \in Nat
  BY <1>1, VisitTypes DEF Kinds, SolKinds
<1>4. nb \in Nat \ {0} /\ nb' = nb + 3 /\ nb' \in Nat /\ nb <= nb'
  <2>1. nb \in Nat \ {0}
    BY DEF TypeOK
  <2>2. QED
    BY <1>1, <2>1, EmitCount
<1>5. /\ nb + 1 \in Block' /\ nb + 2 \in Block' /\ nb + 3 \in Block'
      /\ nb + 1 \in BlockOr0' /\ nb + 2 \in BlockOr0'
  BY <1>4 DEF Block, BlockOr0
<1>6. GraphOK'
  <2>1. first(k) \in TermType' /\ test \in TermType'
    BY <1>3, <1>5, NewTermTypes
  <2>. HIDE DEF first, test
  <2>2. QED
    BY <1>1, <2>1, EmitTwoTypes
<1>7. f \in FrameType'
  <2>1. Call("body", NewNode) \in FrameType'
    BY <1>3, <1>4, CallTypes DEF StmtLists
  <2>2. QED
    BY <1>5, <2>1 DEF FrameType
<1>8. FrameShape(f, lang) /\ f.k # "root"
  BY <1>4 DEF FrameShape, SlotsInUse, Slots, Call
<1>9. work' \in Seq(FrameType') /\ StackShape'
  <2>. HIDE DEF f
  <2>. QED
    BY <1>1, <1>2, <1>4, <1>7, <1>8, PushKeeps
<1>10. loops' \in LoopsType'
  BY <1>1, <1>4, <1>5, LoopTypes
<1>11. TypeOK'
  BY <1>1, <1>2, <1>3, <1>4, <1>5, <1>6, <1>9, <1>10, OthersKeep, TypeParts
  DEF TypeOK
<1>12. QED
  BY <1>9, <1>11

LEMMA OpenForTypes ==
  ASSUME TypeOK, StackShape, OpenFor
  PROVE  TypeOK' /\ StackShape'
<1>. DEFINE test == CondBr(nb + 2, nb + 4, NewNode)
            f == [Call("forbody", NewNode) EXCEPT
                    !.next = nb + 3, !.exit = nb + 4, !.back = nb + 1]
<1>1. PICK k \in {"for", "forever"} :
        /\ Visit(k)
        /\ \/ Emit(4, fn[ins], Two(ins, Br(nb + 1), nb + 1, test), 0, 0)
           \/ Emit(4, fn[ins], Two(ins, Br(nb + 1), nb + 1, Br(nb + 2)), nb + 1, NewNode)
        /\ EnterLoop(nb + 4, nb + 3) /\ Push(f) /\ ins' = nb + 2
  BY DEF OpenFor, Create
<1>2. UNCHANGED <<lang, ret, pc>>
  BY DEF OpenFor
<1>3. ast' \in Seq(NodeType) /\ NewNode \in Nat
  BY <1>1, VisitTypes DEF Kinds, SolKinds
<1>4. nb \in Nat \ {0} /\ nb' = nb + 4 /\ nb' \in Nat /\ nb <= nb'
  <2>1. nb \in Nat \ {0}
    BY DEF TypeOK
  <2>2. QED
    BY <1>1, <2>1, EmitCount
<1>5. /\ nb + 1 \in Block' /\ nb + 2 \in Block' /\ nb + 3 \in Block' /\ nb + 4 \in Block'
      /\ nb + 1 \in BlockOr0' /\ nb + 3 \in BlockOr0' /\ nb + 4 \in BlockOr0'
  BY <1>4 DEF Block, BlockOr0
<1>6. GraphOK'
  <2>1. /\ Br(nb + 1) \in TermType' /\ Br(nb + 2) \in TermType'
        /\ test \in TermType'
    BY <1>3, <1>5, NewTermTypes
  <2>. HIDE DEF test
  <2>2. QED
    BY <1>1, <1>3, <2>1, EmitTwoTypes
<1>7. f \in FrameType'
  <2>1. Call("forbody", NewNode) \in FrameType'
    BY <1>3, <1>4, CallTypes DEF StmtLists
  <2>2. QED
    BY <1>5, <2>1 DEF FrameType
<1>8. FrameShape(f, lang) /\ f.k # "root"
  BY <1>4 DEF FrameShape, SlotsInUse, Slots, Call
<1>9. work' \in Seq(FrameType') /\ StackShape'
  <2>. HIDE DEF f
  <2>. QED
    BY <1>1, <1>2, <1>4, <1>7, <1>8, PushKeeps
<1>10. loops' \in LoopsType'
  BY <1>1, <1>4, <1>5, LoopTypes
<1>11. TypeOK'
  BY <1>1, <1>2, <1>3, <1>4, <1>5, <1>6, <1>9, <1>10, OthersKeep, TypeParts
  DEF TypeOK
<1>12. QED
  BY <1>9, <1>11

LEMMA OpenAsmForTypes ==
  ASSUME TypeOK, StackShape, OpenAsmFor
  PROVE  TypeOK' /\ StackShape'
<1>. DEFINE f == [Call("asminit", NewNode) EXCEPT
                    !.cond = nb + 1, !.body = nb + 2, !.next = nb + 3,
                    !.exit = nb + 4]
<1>1. /\ Visit("asmfor") /\ Emit(4, fn[ins], <<>>, 0, 0) /\ Push(f)
      /\ UNCHANGED <<lang, ins, ret, loops, pc>>
  BY DEF OpenAsmFor, Create
<1>2. ast' \in Seq(NodeType) /\ NewNode \in Nat
  BY <1>1, VisitTypes DEF Kinds, YulKinds
<1>3. nb \in Nat \ {0} /\ nb' = nb + 4 /\ nb' \in Nat /\ nb <= nb'
  <2>1. nb \in Nat \ {0}
    BY DEF TypeOK
  <2>2. QED
    BY <1>1, <2>1, EmitCount
<1>4. /\ nb + 1 \in BlockOr0' /\ nb + 2 \in BlockOr0'
      /\ nb + 3 \in BlockOr0' /\ nb + 4 \in BlockOr0'
  BY <1>3 DEF BlockOr0
<1>5. GraphOK'
  BY <1>1, EmitNoneTypes
<1>6. f \in FrameType'
  <2>1. Call("asminit", NewNode) \in FrameType'
    BY <1>2, <1>3, CallTypes DEF StmtLists
  <2>2. QED
    BY <1>4, <2>1 DEF FrameType
<1>7. FrameShape(f, lang) /\ f.k # "root"
  BY <1>3 DEF FrameShape, SlotsInUse, Slots, Call
<1>8. work' \in Seq(FrameType') /\ StackShape'
  <2>. HIDE DEF f
  <2>. QED
    BY <1>1, <1>3, <1>6, <1>7, PushKeeps
<1>9. TypeOK'
  BY <1>1, <1>2, <1>3, <1>5, <1>8, OthersKeep, TypeParts DEF TypeOK
<1>10. QED
  BY <1>8, <1>9

LEMMA OpenSwitchTypes ==
  ASSUME TypeOK, StackShape, OpenSwitch
  PROVE  TypeOK' /\ StackShape'
<1>. DEFINE t == Terminator("switch", <<nb + 1>>, NewNode)
            f == [Call("switch", NewNode) EXCEPT
                    !.next = nb + 1, !.exit = nb + 2, !.back = nb + 1, !.sw = ins]
<1>1. /\ Visit("switch") /\ Emit(2, fn[ins], One(ins, t), 0, 0) /\ Push(f)
      /\ UNCHANGED <<lang, ins, ret, loops, pc>>
  BY DEF OpenSwitch, Create
<1>2. ast' \in Seq(NodeType) /\ NewNode \in Nat
  BY <1>1, VisitTypes DEF Kinds, YulKinds
<1>3. nb \in Nat \ {0} /\ nb' = nb + 2 /\ nb' \in Nat /\ nb <= nb'
  <2>1. nb \in Nat \ {0}
    BY DEF TypeOK
  <2>2. QED
    BY <1>1, <2>1, EmitCount
<1>4. nb + 1 \in Block' /\ nb + 1 \in BlockOr0' /\ nb + 2 \in BlockOr0'
  BY <1>3 DEF Block, BlockOr0
<1>5. ins \in BlockOr0' /\ ins # 0
  BY <1>3, OthersKeep DEF TypeOK, Block, BlockOr0
<1>6. GraphOK'
  <2>1. t \in TermType'
    BY <1>2, <1>4, NewTermTypes
  <2>. HIDE DEF t
  <2>2. QED
    BY <1>1, <2>1, EmitOneTypes
<1>7. f \in FrameType'
  <2>1. Call("switch", NewNode) \in FrameType'
    BY <1>2, <1>3, CallTypes
  <2>2. QED
    BY <1>4, <1>5, <2>1 DEF FrameType
<1>8. FrameShape(f, lang) /\ f.k # "root"
  BY <1>3, <1>5 DEF FrameShape, SlotsInUse, Slots, Call
<1>9. work' \in Seq(FrameType') /\ StackShape'
  <2>. HIDE DEF f
  <2>. QED
    BY <1>1, <1>3, <1>7, <1>8, PushKeeps
<1>10. TypeOK'
  BY <1>1, <1>2, <1>3, <1>6, <1>9, OthersKeep, TypeParts DEF TypeOK
<1>11. QED
  BY <1>9, <1>10

LEMMA OpenFunTypes ==
  ASSUME TypeOK, StackShape, OpenFun
  PROVE  TypeOK' /\ StackShape'
<1>. DEFINE o == [ret |-> ret, loops |-> loops]
            f == [Call("fun", NewNode) EXCEPT
                    !.exit = nb + 2, !.next = ins, !.outer = o]
<1>1. /\ Visit("fun") /\ Emit(2, NewNode, <<>>, 0, 0) /\ Push(f)
      /\ ret' = nb + 2 /\ loops' = <<>> /\ ins' = nb + 1
      /\ UNCHANGED <<lang, pc>>
  BY DEF OpenFun
<1>2. ast' \in Seq(NodeType) /\ NewNode \in Nat
  BY <1>1, VisitTypes DEF Kinds, YulKinds
<1>3. nb \in Nat \ {0} /\ nb' = nb + 2 /\ nb' \in Nat /\ nb <= nb'
  <2>1. nb \in Nat \ {0}
    BY DEF TypeOK
  <2>2. QED
    BY <1>1, <1>2, <2>1, EmitCount
<1>4. nb + 1 \in Block' /\ nb + 2 \in BlockOr0' /\ <<>> \in LoopsType'
  BY <1>3 DEF Block, BlockOr0, LoopsType
<1>5. ins \in BlockOr0' /\ ins # 0
  BY <1>3, OthersKeep DEF TypeOK, Block, BlockOr0
<1>6. GraphOK'
  BY <1>1, <1>2, <1>3, EmitTypes
<1>7. f \in FrameType'
  <2>1. Call("fun", NewNode) \in FrameType'
    BY <1>2, <1>3, CallTypes DEF StmtLists
  <2>2. o \in [ret : BlockOr0', loops : LoopsType']
    BY <1>3, OthersKeep
  <2>. HIDE DEF o
  <2>3. QED
    BY <1>4, <1>5, <2>1, <2>2 DEF FrameType
<1>8. FrameShape(f, lang) /\ f.k # "root"
  BY <1>3, <1>5 DEF FrameShape, SlotsInUse, Slots, Call
<1>9. work' \in Seq(FrameType') /\ StackShape'
  <2>. HIDE DEF f
  <2>. QED
    BY <1>1, <1>3, <1>7, <1>8, PushKeeps
<1>10. TypeOK'
  BY <1>1, <1>2, <1>3, <1>4, <1>6, <1>9, TypeParts DEF TypeOK
<1>11. QED
  BY <1>9, <1>10

-----------------------------------------------------------------------------
(* The ends of sections. *)

\* The fields of the innermost call.
LEMMA TopFields ==
  ASSUME TypeOK, StackShape, nb' \in Nat, nb <= nb'
  PROVE  /\ Top \in FrameType'
         /\ \A s \in Slots : s \in SlotsInUse(Top, lang) => Top[s] \in Block'
         /\ Top.k \in {"body", "forbody", "forpost", "case", "switch"} => Top.back \in Block'
         /\ Top.k = "switch" => Top.sw \in Block /\ Top.sw \in Block'
         /\ Top.node \in Nat
<1>1. Top \in FrameType' /\ Top \in FrameType
  BY TopType, TypesGrow DEF TypeOK
<1>2. FrameShape(Top, lang)
  BY TopType
<1>3. \A s \in Slots : Top[s] \in BlockOr0'
  BY <1>1 DEF FrameType, Slots
<1>4. /\ Top.back \in BlockOr0' /\ Top.sw \in BlockOr0' /\ Top.sw \in BlockOr0
      /\ Top.node \in Nat
  BY <1>1 DEF FrameType
<1>5. nb \in Nat
  BY DEF TypeOK
<1>6. QED
  BY <1>1, <1>2, <1>3, <1>4, <1>5 DEF FrameShape, Block, BlockOr0

LEMMA EndThenTypes ==
  ASSUME TypeOK, StackShape, EndThen
  PROVE  TypeOK' /\ StackShape'
<1>. DEFINE f == [Top EXCEPT !.k = "else", !.next = 0]
<1>1. /\ Top.k = "then"
      /\ Emit(0, fn[ins], One(ins, Br(Top.exit)), 0, 0)
      /\ UNCHANGED <<lang, ast, ret, loops, pc>>
  BY DEF EndThen, Create
<1>2. nb' \in Nat /\ nb <= nb'
  BY <1>1, EmitCount
<1>3. Top.exit \in Block' /\ Top \in FrameType'
  BY <1>1, <1>2, TopFields DEF SlotsInUse, Slots
<1>4. GraphOK'
  BY <1>1, <1>3, NewTermTypes, EmitOneTypes
<1>5. ins' \in Block' /\ work' \in Seq(FrameType') /\ StackShape'
  <2>1. CASE Top.next # 0
    <3>1. ins' = Top.next /\ Become(f)
      BY <2>1 DEF EndThen
    <3>2. Top.next \in Block'
      BY <1>1, <1>2, <2>1, TopFields DEF SlotsInUse, Slots
    <3>3. f \in FrameType'
      <4>1. 0 \in BlockOr0'
        BY <1>2 DEF BlockOr0
      <4>2. QED
        BY <1>3, <4>1 DEF FrameType, StmtLists
    <3>4. FrameShape(f, lang) /\ f.k # "root"
      <4>1. FrameShape(Top, lang)
        BY TopType
      <4>2. QED
        BY <1>1, <1>3, <4>1 DEF FrameType, FrameShape, SlotsInUse, Slots
    <3>. HIDE DEF f
    <3>5. QED
      BY <1>1, <1>2, <3>1, <3>2, <3>3, <3>4, BecomeKeeps
  <2>2. CASE Top.next = 0
    <3>1. ins' = Top.exit /\ Return
      BY <2>2 DEF EndThen
    <3>2. QED
      BY <1>1, <1>2, <1>3, <3>1, ReturnKeeps
  <2>3. QED
    BY <2>1, <2>2
<1>6. TypeOK'
  BY <1>1, <1>2, <1>4, <1>5, OthersKeep, TypeParts DEF TypeOK
<1>7. QED
  BY <1>5, <1>6

LEMMA EndElseTypes ==
  ASSUME TypeOK, StackShape, EndElse
  PROVE  TypeOK' /\ StackShape'
<1>1. /\ Top.k = "else" /\ ins' = Top.exit /\ Return
      /\ Emit(0, fn[ins], One(ins, Br(Top.exit)), 0, 0)
      /\ UNCHANGED <<lang, ast, ret, loops, pc>>
  BY DEF EndElse, Create
<1>2. nb' \in Nat /\ nb <= nb'
  BY <1>1, EmitCount
<1>3. Top.exit \in Block'
  BY <1>1, <1>2, TopFields DEF SlotsInUse, Slots
<1>4. GraphOK'
  BY <1>1, <1>3, NewTermTypes, EmitOneTypes
<1>5. work' \in Seq(FrameType') /\ StackShape'
  BY <1>1, <1>2, ReturnKeeps
<1>6. TypeOK'
  BY <1>1, <1>2, <1>3, <1>4, <1>5, OthersKeep, TypeParts DEF TypeOK
<1>7. QED
  BY <1>5, <1>6

\* The two ends of a loop.
LEMMA EndLoopTypes ==
  ASSUME TypeOK, StackShape, EndWhile \/ EndFor
  PROVE  TypeOK' /\ StackShape'
<1>1. /\ Top.k \in {"body", "forpost"} /\ ins' = Top.exit /\ Return
      /\ Emit(0, fn[ins], One(ins, Br(Top.back)), 0, 0)
      /\ LeaveLoop
      /\ UNCHANGED <<lang, ast, ret, pc>>
  BY DEF EndWhile, EndFor, Create
<1>2. nb' \in Nat /\ nb <= nb'
  BY <1>1, EmitCount
<1>3. Top.exit \in Block' /\ Top.back \in Block'
  BY <1>1, <1>2, TopFields DEF SlotsInUse, Slots
<1>4. GraphOK'
  BY <1>1, <1>3, NewTermTypes, EmitOneTypes
<1>5. work' \in Seq(FrameType') /\ StackShape'
  BY <1>1, <1>2, ReturnKeeps
<1>6. loops' \in LoopsType'
  BY <1>1, <1>2, <1>3, LoopTypes
<1>7. TypeOK'
  BY <1>1, <1>2, <1>3, <1>4, <1>5, <1>6, OthersKeep, TypeParts DEF TypeOK
<1>8. QED
  BY <1>5, <1>7

LEMMA EndAsmInitTypes ==
  ASSUME TypeOK, StackShape, EndAsmInit
  PROVE  TypeOK' /\ StackShape'
<1>. DEFINE test == CondBr(Top.body, Top.exit, Top.node)
            f == [Top EXCEPT !.k = "forbody", !.cond = 0, !.body = 0,
                             !.back = Top.cond]
<1>1. /\ Top.k = "asminit" /\ ins' = Top.body /\ Become(f)
      /\ Emit(0, fn[ins], Two(ins, Br(Top.cond), Top.cond, test), 0, 0)
      /\ EnterLoop(Top.exit, Top.next)
      /\ UNCHANGED <<lang, ast, ret, pc>>
  BY DEF EndAsmInit, Create
<1>2. nb' \in Nat /\ nb <= nb'
  BY <1>1, EmitCount
<1>3. /\ Top.cond \in Block' /\ Top.body \in Block' /\ Top.next \in Block'
      /\ Top.exit \in Block' /\ Top.node \in Nat /\ Top \in FrameType'
  BY <1>1, <1>2, TopFields DEF SlotsInUse, Slots
<1>4. GraphOK'
  <2>1. Br(Top.cond) \in TermType' /\ test \in TermType'
    BY <1>3, NewTermTypes
  <2>. HIDE DEF test
  <2>2. QED
    BY <1>1, <2>1, EmitTwoTypes
<1>5. f \in FrameType'
  <2>1. 0 \in BlockOr0' /\ Top.cond \in BlockOr0'
    BY <1>2, <1>3 DEF Block, BlockOr0
  <2>2. QED
    BY <1>3, <2>1 DEF FrameType, StmtLists
<1>6. FrameShape(f, lang) /\ f.k # "root"
  <2>1. FrameShape(Top, lang)
    BY TopType
  <2>2. Top.cond # 0
    BY <1>2, <1>3 DEF Block
  <2>3. QED
    BY <1>1, <1>3, <2>1, <2>2 DEF FrameType, FrameShape, SlotsInUse, Slots
<1>7. work' \in Seq(FrameType') /\ StackShape'
  <2>. HIDE DEF f
  <2>. QED
    BY <1>1, <1>2, <1>5, <1>6, BecomeKeeps
<1>8. loops' \in LoopsType'
  BY <1>1, <1>2, <1>3, LoopTypes
<1>9. TypeOK'
  BY <1>1, <1>2, <1>3, <1>4, <1>7, <1>8, OthersKeep, TypeParts DEF TypeOK
<1>10. QED
  BY <1>7, <1>9

LEMMA EndForBodyTypes ==
  ASSUME TypeOK, StackShape, EndForBody
  PROVE  TypeOK' /\ StackShape'
<1>. DEFINE f == [Top EXCEPT !.k = "forpost", !.next = 0]
<1>1. /\ Top.k = "forbody" /\ ins' = Top.next /\ Become(f)
      /\ Emit(0, fn[ins], One(ins, Br(Top.next)), 0, 0)
      /\ UNCHANGED <<lang, ast, ret, loops, pc>>
  BY DEF EndForBody, Create
<1>2. nb' \in Nat /\ nb <= nb'
  BY <1>1, EmitCount
<1>3. Top.next \in Block' /\ Top \in FrameType'
  BY <1>1, <1>2, TopFields DEF SlotsInUse, Slots
<1>4. GraphOK'
  BY <1>1, <1>3, NewTermTypes, EmitOneTypes
<1>5. f \in FrameType'
  <2>1. 0 \in BlockOr0'
    BY <1>2 DEF BlockOr0
  <2>2. QED
    BY <1>3, <2>1 DEF FrameType, StmtLists
<1>6. FrameShape(f, lang) /\ f.k # "root"
  <2>1. FrameShape(Top, lang)
    BY TopType
  <2>2. QED
    BY <1>1, <1>3, <2>1 DEF FrameType, FrameShape, SlotsInUse, Slots
<1>7. work' \in Seq(FrameType') /\ StackShape'
  <2>. HIDE DEF f
  <2>. QED
    BY <1>1, <1>2, <1>5, <1>6, BecomeKeeps
<1>8. TypeOK'
  BY <1>1, <1>2, <1>3, <1>4, <1>7, OthersKeep, TypeParts DEF TypeOK
<1>9. QED
  BY <1>7, <1>8

LEMMA OpenCaseTypes ==
  ASSUME TypeOK, StackShape, OpenCase
  PROVE  TypeOK' /\ StackShape'
<1>. DEFINE t == [term[Top.sw] EXCEPT !.to = Append(@, nb + 1)]
            f == [Call("case", NewNode) EXCEPT !.back = Top.exit]
<1>1. /\ Top.k = "switch" /\ Visit("case") /\ Push(f)
      /\ Emit(1, fn[ins], One(Top.sw, t), 0, 0)
      /\ ins' = nb + 1
      /\ UNCHANGED <<lang, ret, loops, pc>>
  BY DEF OpenCase, Create
<1>2. ast' \in Seq(NodeType) /\ NewNode \in Nat
  BY <1>1, VisitTypes DEF Kinds
<1>3. nb \in Nat \ {0} /\ nb' = nb + 1 /\ nb' \in Nat /\ nb <= nb'
  <2>1. nb \in Nat \ {0}
    BY DEF TypeOK
  <2>2. QED
    BY <1>1, <2>1, EmitCount
<1>4. nb + 1 \in Block'
  BY <1>3 DEF Block
<1>5. Top.exit \in Block' /\ Top.sw \in Block
  BY <1>1, <1>3, TopFields DEF SlotsInUse, Slots
<1>6. Top.exit \in BlockOr0' /\ Top.exit # 0
  BY <1>3, <1>5 DEF Block, BlockOr0
<1>7. GraphOK'
  <2>1. term[Top.sw] \in TermType'
    BY <1>3, <1>5, TypesGrow DEF TypeOK
  <2>2. Append(term[Top.sw].to, nb + 1) \in Seq(Block')
    BY <1>4, <2>1 DEF TermType, TermsTo
  <2>3. t \in TermType'
    BY <2>1, <2>2 DEF TermType, TermsTo
  <2>. HIDE DEF t
  <2>4. QED
    BY <1>1, <2>3, EmitOneTypes
<1>8. f \in FrameType'
  <2>1. Call("case", NewNode) \in FrameType'
    BY <1>2, <1>3, CallTypes DEF StmtLists
  <2>2. QED
    BY <1>6, <2>1 DEF FrameType
<1>9. FrameShape(f, lang) /\ f.k # "root"
  BY <1>6 DEF FrameShape, SlotsInUse, Slots, Call
<1>10. work' \in Seq(FrameType') /\ StackShape'
  <2>. HIDE DEF f
  <2>. QED
    BY <1>1, <1>3, <1>8, <1>9, PushKeeps
<1>11. TypeOK'
  BY <1>1, <1>2, <1>3, <1>4, <1>7, <1>10, OthersKeep, TypeParts DEF TypeOK
<1>12. QED
  BY <1>10, <1>11

LEMMA EndCaseTypes ==
  ASSUME TypeOK, StackShape, EndCase
  PROVE  TypeOK' /\ StackShape'
<1>1. /\ Top.k = "case" /\ Return
      /\ Emit(0, fn[ins], One(ins, Br(Top.back)), 0, 0)
      /\ UNCHANGED <<lang, ast, ins, ret, loops, pc>>
  BY DEF EndCase, Create
<1>2. nb' \in Nat /\ nb <= nb'
  BY <1>1, EmitCount
<1>3. Top.back \in Block'
  BY <1>1, <1>2, TopFields
<1>4. GraphOK'
  BY <1>1, <1>3, NewTermTypes, EmitOneTypes
<1>5. work' \in Seq(FrameType') /\ StackShape'
  BY <1>1, <1>2, ReturnKeeps
<1>6. TypeOK'
  BY <1>1, <1>2, <1>4, <1>5, OthersKeep, TypeParts DEF TypeOK
<1>7. QED
  BY <1>5, <1>6

LEMMA EndSwitchTypes ==
  ASSUME TypeOK, StackShape, EndSwitch
  PROVE  TypeOK' /\ StackShape'
<1>1. /\ Top.k = "switch" /\ Return /\ ins' = Top.exit
      /\ \/ Emit(0, fn[ins], One(Top.back, Br(Top.exit)), 0, 0)
         \/ Emit(0, fn[ins], <<>>, 0, 0)
      /\ UNCHANGED <<lang, ast, ret, loops, pc>>
  BY DEF EndSwitch, Create
<1>2. nb' \in Nat /\ nb <= nb'
  BY <1>1, EmitCount
<1>3. Top.exit \in Block'
  BY <1>1, <1>2, TopFields DEF SlotsInUse, Slots
<1>4. GraphOK'
  BY <1>1, <1>3, NewTermTypes, EmitOneTypes, EmitNoneTypes
<1>5. work' \in Seq(FrameType') /\ StackShape'
  BY <1>1, <1>2, ReturnKeeps
<1>6. TypeOK'
  BY <1>1, <1>2, <1>3, <1>4, <1>5, OthersKeep, TypeParts DEF TypeOK
<1>7. QED
  BY <1>5, <1>6

LEMMA TailTypes ==
  ASSUME TypeOK, Top.exit \in Block', Emit(0, fn[ins], FunctionTail, 0, 0)
  PROVE  GraphOK'
<1>1. Br(Top.exit) \in TermType' /\ Ret \in TermType'
  BY NewTermTypes
<1>2. CASE Terminated(ins)
  <2>1. Emit(0, fn[ins], One(Top.exit, Ret), 0, 0)
    BY <1>2 DEF FunctionTail
  <2>2. QED
    BY <1>1, <2>1, EmitOneTypes
<1>3. CASE ~Terminated(ins)
  <2>1. Emit(0, fn[ins], Two(ins, Br(Top.exit), Top.exit, Ret), 0, 0)
    BY <1>3 DEF FunctionTail
  <2>2. QED
    BY <1>1, <2>1, EmitTwoTypes
<1>4. QED
  BY <1>2, <1>3

LEMMA EndFunTypes ==
  ASSUME TypeOK, StackShape, EndFun
  PROVE  TypeOK' /\ StackShape'
<1>1. /\ Top.k = "fun" /\ Return /\ ins' = Top.next
      /\ Emit(0, fn[ins], FunctionTail, 0, 0)
      /\ ret' = Top.outer.ret /\ loops' = Top.outer.loops
      /\ UNCHANGED <<lang, ast, pc>>
  BY DEF EndFun, Create
<1>2. nb' \in Nat /\ nb <= nb'
  BY <1>1, EmitCount
<1>3. Top.exit \in Block' /\ Top.next \in Block' /\ Top \in FrameType'
  BY <1>1, <1>2, TopFields DEF SlotsInUse, Slots
<1>4. Top.outer.ret \in BlockOr0' /\ Top.outer.loops \in LoopsType'
  BY <1>3 DEF FrameType
<1>5. GraphOK'
  BY <1>1, <1>3, TailTypes
<1>6. work' \in Seq(FrameType') /\ StackShape'
  BY <1>1, <1>2, ReturnKeeps
<1>7. TypeOK'
  BY <1>1, <1>2, <1>3, <1>4, <1>5, <1>6, TypeParts DEF TypeOK
<1>8. QED
  BY <1>6, <1>7

LEMMA EndRootTypes ==
  ASSUME TypeOK, StackShape, EndRoot
  PROVE  TypeOK' /\ pc' = "done"
<1>1. /\ Top.k = "root" /\ Return /\ pc' = "done"
      /\ UNCHANGED <<lang, ast, ret, loops>>
  BY DEF EndRoot
<1>2. CASE lang = "sol"
  <2>1. Emit(0, fn[ins], FunctionTail, 0, 0) /\ ins' = Top.exit
    BY <1>2 DEF EndRoot, Create
  <2>2. nb' \in Nat /\ nb <= nb'
    BY <2>1, EmitCount
  <2>3. Top.exit \in Block'
    BY <1>1, <1>2, <2>2, TopFields DEF SlotsInUse, Slots
  <2>4. work' \in Seq(FrameType')
    BY <1>1, <2>2, OthersKeep, FrontType DEF Return
  <2>5. GraphOK'
    BY <2>1, <2>3, TailTypes
  <2>6. QED
    BY <1>1, <2>1, <2>2, <2>3, <2>4, <2>5, OthersKeep, TypeParts DEF TypeOK
<1>3. CASE lang # "sol"
  <2>1. Emit(0, fn[ins], One(ins, Ret), 0, 0) /\ UNCHANGED ins
    BY <1>3 DEF EndRoot, Create
  <2>2. nb' \in Nat /\ nb <= nb'
    BY <2>1, EmitCount
  <2>3. work' \in Seq(FrameType')
    BY <1>1, <2>2, OthersKeep, FrontType DEF Return
  <2>4. GraphOK'
    BY <2>1, NewTermTypes, EmitOneTypes
  <2>5. QED
    BY <1>1, <2>1, <2>2, <2>3, <2>4, OthersKeep, TypeParts DEF TypeOK
<1>4. QED
  BY <1>2, <1>3

LEMMA OpenDefaultTypes ==
  ASSUME TypeOK, StackShape, OpenDefault
  PROVE  TypeOK' /\ StackShape'
<1>. DEFINE f == [Top EXCEPT !.next = 0]
            g == [Call("case", NewNode) EXCEPT !.back = Top.exit]
<1>1. /\ Top.k = "switch" /\ Visit("default") /\ ins' = Top.back
      /\ work' = Append(Append(Front(work), f), g)
      /\ UNCHANGED <<lang, nb, fn, term, code, ret, loops, pc>>
  BY DEF OpenDefault
<1>2. ast' \in Seq(NodeType) /\ NewNode \in Nat
  BY <1>1, VisitTypes DEF Kinds
<1>3. nb \in Nat \ {0} /\ nb' \in Nat /\ nb <= nb'
  BY <1>1 DEF TypeOK
<1>4. FrameType' = FrameType /\ Block' = Block /\ BlockOr0' = BlockOr0
  BY <1>1 DEF FrameType, BlockOr0, LoopsType, Block
<1>5. Top.exit \in Block /\ Top.back \in Block /\ Top \in FrameType
  BY <1>1, <1>3, <1>4, TopFields DEF SlotsInUse, Slots
<1>6. Top.exit \in BlockOr0 /\ Top.exit # 0 /\ 0 \in BlockOr0
  BY <1>3, <1>5 DEF Block, BlockOr0
<1>7. f \in FrameType /\ g \in FrameType
  <2>1. Call("case", NewNode) \in FrameType
    BY <1>2, <1>3, <1>4, CallTypes DEF StmtLists
  <2>2. QED
    BY <1>5, <1>6, <2>1 DEF FrameType
<1>8. FrameShape(f, lang) /\ f.k # "root"
  <2>1. FrameShape(Top, lang)
    BY TopType
  <2>2. QED
    BY <1>1, <1>5, <2>1 DEF FrameType, FrameShape, SlotsInUse, Slots
<1>9. FrameShape(g, lang) /\ g.k # "root"
  BY <1>6 DEF FrameShape, SlotsInUse, Slots, Call
<1>10. work' \in Seq(FrameType') /\ StackShape'
  <2>. HIDE DEF f, g
  <2>. QED
    BY <1>1, <1>7, <1>8, <1>9, BecomeAndPushKeeps
<1>11. GraphOK'
  BY <1>1 DEF GraphOK, TypeOK, Block, TermType
<1>12. TypeOK'
  BY <1>1, <1>2, <1>3, <1>4, <1>5, <1>10, <1>11, OthersKeep, TypeParts
  DEF TypeOK
<1>13. QED
  BY <1>10, <1>12

\* The compiler is gone: an assertion failed, or the generated code is not
\* defined.
LEMMA GoneTypes ==
  ASSUME TypeOK, StackShape, LeaveUndefined \/ JumpOutsideLoop
  PROVE  TypeOK' /\ pc' # "emit" /\ pc' # "done"
<1>1. PICK k \in {"leave", "brk", "cnt"} : Visit(k)
  BY DEF LeaveUndefined, JumpOutsideLoop
<1>2. /\ UNCHANGED <<lang, nb, fn, term, code, ins, ret, loops, work>>
      /\ pc' \in {"assert", "undefined"}
  BY DEF LeaveUndefined, JumpOutsideLoop
<1>3. ast' \in Seq(NodeType)
  BY <1>1, VisitTypes DEF Kinds, SolKinds, YulKinds
<1>4. nb' \in Nat /\ nb <= nb'
  BY <1>2 DEF TypeOK
<1>5. GraphOK'
  BY <1>2 DEF GraphOK, TypeOK, Block, TermType
<1>6. QED
  BY <1>2, <1>3, <1>4, <1>5, OthersKeep, TypeParts DEF TypeOK

-----------------------------------------------------------------------------
(* Type correctness. *)

TypeInv == TypeOK /\ (pc = "emit" => StackShape)

LEMMA InitTypes == Init => TypeInv
<1>1. SUFFICES ASSUME Init PROVE TypeInv
  OBVIOUS
<1>. DEFINE top == [Call("root", 0) EXCEPT !.exit = 2]
<1>2. CASE InitSol
  <2>1. nb \in {2, 4} /\ ins \in Block /\ ret \in BlockOr0 /\ pc = "emit"
        /\ lang = "sol" /\ loops = <<>> /\ work = <<top>>
    BY <1>1, <1>2 DEF Init, InitSol, Block, BlockOr0
  <2>2. ast \in Seq(NodeType)
    <3>. DEFINE n == [k |-> "payable", up |-> 0, sec |-> "root"]
    <3>1. n \in NodeType
      BY DEF NodeType, StmtLists
    <3>2. ast = <<>> \/ ast = <<n>>
      BY <1>2 DEF InitSol
    <3>. HIDE DEF n
    <3>3. <<n>> \in Seq(NodeType) /\ <<>> \in Seq(NodeType)
      BY <3>1
    <3>4. QED
      BY <3>2, <3>3
  <2>3. term \in [Block -> TermType]
    <3>1. None \in TermType
      BY DEF None, Terminator, TermType, TermsTo
    <3>2. CASE nb = 2
      BY <1>2, <3>1, <3>2 DEF InitSol, Block
    <3>3. CASE nb = 4
      <4>1. 3 \in Block /\ 4 \in Block
        BY <3>3 DEF Block
      <4>2. CondBr(4, 3, 1) \in TermType /\ Unreachable(1) \in TermType
        BY <4>1, TermTypes DEF TermType
      <4>3. term = <<CondBr(4, 3, 1), None, None, Unreachable(1)>>
        BY <1>2, <3>3 DEF InitSol
      <4>4. QED
        BY <3>1, <3>3, <4>2, <4>3 DEF Block
    <3>4. QED
      BY <2>1, <3>2, <3>3
  <2>4. fn \in [Block -> Nat] /\ code \in [Block -> Seq(Nat)]
    BY <1>1 DEF Init, Block
  <2>5. top \in FrameType
    <3>1. 0 \in BlockOr0 /\ 2 \in BlockOr0 /\ <<>> \in LoopsType
      BY <2>1 DEF BlockOr0, LoopsType
    <3>2. QED
      BY <3>1 DEF FrameType, StmtLists, Call
  <2>6. FrameShape(top, "sol") /\ top.k = "root"
    BY DEF FrameShape, SlotsInUse, Slots, Call
  <2>7. TypeOK
    BY <2>1, <2>2, <2>3, <2>4, <2>5 DEF TypeOK, LoopsType
  <2>. HIDE DEF top
  <2>8. StackShape
    BY <2>1, <2>6 DEF StackShape
  <2>9. QED
    BY <2>7, <2>8 DEF TypeInv
<1>3. CASE InitYul
  <2>1. nb = 1 /\ ins \in Block /\ ret \in BlockOr0 /\ pc = "emit"
        /\ lang = "yul" /\ loops = <<>> /\ work = <<Call("root", 0)>>
        /\ ast \in Seq(NodeType)
    BY <1>1, <1>3 DEF Init, InitYul, Block, BlockOr0
  <2>2. term \in [Block -> TermType]
    <3>1. None \in TermType
      BY DEF None, Terminator, TermType, TermsTo
    <3>2. QED
      BY <1>3, <2>1, <3>1 DEF InitYul, Block
  <2>3. fn \in [Block -> Nat] /\ code \in [Block -> Seq(Nat)]
    BY <1>1 DEF Init, Block
  <2>4. Call("root", 0) \in FrameType
    BY <2>1 DEF FrameType, BlockOr0, LoopsType, StmtLists, Call
  <2>5. FrameShape(Call("root", 0), "yul") /\ Call("root", 0).k = "root"
    BY DEF FrameShape, SlotsInUse, Slots, Call
  <2>6. TypeOK
    BY <2>1, <2>2, <2>3, <2>4 DEF TypeOK, LoopsType
  <2>7. StackShape
    BY <2>1, <2>5 DEF StackShape
  <2>8. QED
    BY <2>6, <2>7 DEF TypeInv
<1>4. QED
  BY <1>1, <1>2, <1>3 DEF Init

LEMMA NextTypes == TypeInv /\ [Next]_vars => TypeInv'
<1>1. SUFFICES ASSUME TypeInv, [Next]_vars PROVE TypeInv'
  OBVIOUS
<1>2. CASE UNCHANGED vars
  BY <1>1, <1>2
  DEF TypeInv, vars, TypeOK, StackShape, Block, BlockOr0, LoopsType,
      FrameType, TermType
<1>3. CASE Statement
  <2>1. StackShape /\ TypeOK
    <3>1. pc = "emit"
      BY <1>3
      DEF Statement, EmitAct, EmitRequire, EmitRevert, EmitReturn,
          LeaveUndefined, EmitJump, JumpOutsideLoop, MayJump, OpenIf,
          OpenThen, OpenWhile, OpenFor, OpenAsmFor, OpenSwitch, OpenFun,
          MayCome
    <3>2. QED
      BY <1>1, <3>1 DEF TypeInv
  <2>2. QED
    BY <1>3, <2>1, EmitActTypes, EmitRequireTypes, EmitRevertTypes,
       EmitReturnTypes, EmitJumpTypes, GoneTypes, OpenIfTypes,
       OpenWhileTypes, OpenForTypes, OpenAsmForTypes, OpenSwitchTypes,
       OpenFunTypes
    DEF Statement, TypeInv
<1>4. CASE Section
  <2>1. StackShape /\ TypeOK
    <3>1. pc = "emit"
      BY <1>4
      DEF Section, EndThen, EndElse, EndWhile, EndAsmInit, EndForBody, EndFor,
          OpenCase, OpenDefault, EndCase, EndSwitch, EndFun, EndRoot
    <3>2. QED
      BY <1>1, <3>1 DEF TypeInv
  <2>2. QED
    BY <1>4, <2>1, EndThenTypes, EndElseTypes, EndLoopTypes, EndAsmInitTypes,
       EndForBodyTypes, OpenCaseTypes, OpenDefaultTypes, EndCaseTypes,
       EndSwitchTypes, EndFunTypes, EndRootTypes
    DEF Section, TypeInv
<1>5. CASE Finished
  BY <1>2, <1>5 DEF Finished
<1>6. QED
  BY <1>1, <1>2, <1>3, <1>4, <1>5 DEF Next

\* Every block that the emitter's state or a terminator names exists, for
\* any number of nodes and any nesting (CodeGenFunction.cpp).
THEOREM TypeCorrect == Spec => []TypeOK
<1>1. TypeInv => TypeOK
  BY DEF TypeInv
<1>2. QED
  BY <1>1, InitTypes, NextTypes, PTL DEF Spec

-----------------------------------------------------------------------------
(* One step of the emitter, seen from the blocks.  The first m frames stay *)
(* as they are.  L holds the blocks in play: the insert block, those of    *)
(* the frames that are dropped and the new ones.  Only these change, and   *)
(* each that stays open is in use again after the step.                    *)

InPlay(m) ==
  {ins} \cup {work[j][t] : j \in (m + 1)..Len(work), t \in Slots}
        \cup ((nb + 1)..nb')

Closed(t, b) == t[b].op # "none"

PendingInv == PendingOpen /\ PendingDistinct /\ OpenIsPending

StepFacts(m) ==
  /\ m \in 0..Len(work) /\ m <= Len(work')
  /\ \A i \in 1..m : work'[i] = work[i]
  /\ \A b \in Block : Closed(term, b) => Closed(term', b)
  /\ \A b \in Block \ InPlay(m) :
       (Closed(term', b) => Closed(term, b)) /\ code'[b] = code[b]
  /\ ins' \in InPlay(m)

NewFacts(m) ==
  /\ \A b \in InPlay(m) : b # 0 /\ ~Closed(term', b) =>
       b = ins' \/ \E i \in (m + 1)..Len(work'), s \in Slots : work'[i][s] = b
  /\ \A i \in (m + 1)..Len(work'), s \in Slots : work'[i][s] # 0 =>
       /\ work'[i][s] \in InPlay(m)
       /\ ~Closed(term', work'[i][s])
       /\ work'[i][s] # ins'
  /\ \A i, j \in (m + 1)..Len(work'), s, t \in Slots :
       work'[i][s] # 0 /\ work'[i][s] = work'[j][t] => i = j /\ s = t

\* A slot of a frame that stays is not in play.
LEMMA KeptNotInPlay ==
  ASSUME TypeOK, PendingInv, NEW m \in Nat, StepFacts(m),
         NEW i \in 1..m, NEW s \in Slots, work[i][s] # 0
  PROVE  /\ work[i][s] \in Block
         /\ work[i][s] \notin InPlay(m)
<1>1. /\ work \in Seq(FrameType) /\ Len(work) \in Nat /\ i \in DOMAIN work
      /\ nb \in Nat
  BY DEF TypeOK, StepFacts
<1>2. work[i][s] \in Block
  <2>1. work[i] \in FrameType
    BY <1>1
  <2>2. work[i][s] \in BlockOr0
    BY <2>1 DEF FrameType, Slots
  <2>3. QED
    BY <1>1, <2>2 DEF Block, BlockOr0
<1>3. work[i][s] # ins
  BY <1>1 DEF PendingInv, PendingOpen
<1>4. \A j \in (m + 1)..Len(work), t \in Slots : work[j][t] # work[i][s]
  BY <1>1 DEF PendingInv, PendingDistinct, StepFacts
<1>5. work[i][s] \notin (nb + 1)..nb'
  BY <1>1, <1>2 DEF Block
<1>6. QED
  BY <1>2, <1>3, <1>4, <1>5 DEF InPlay

LEMMA StepPending ==
  ASSUME TypeOK, TypeOK', nb <= nb', PendingInv,
         NEW m \in Nat, StepFacts(m), NewFacts(m)
  PROVE  PendingInv'
<1>1. /\ Len(work) \in Nat /\ DOMAIN work = 1..Len(work)
      /\ Len(work') \in Nat /\ DOMAIN work' = 1..Len(work')
      /\ m <= Len(work) /\ m <= Len(work')
      /\ nb \in Nat /\ nb' \in Nat
  BY DEF TypeOK, StepFacts
<1>2. \A i \in 1..m : work'[i] = work[i]
  BY DEF StepFacts
<1>3. PendingOpen'
  <2>1. SUFFICES ASSUME NEW i \in DOMAIN work', NEW s \in Slots, work'[i][s] # 0
                 PROVE  ~Closed(term', work'[i][s]) /\ work'[i][s] # ins'
    BY DEF PendingOpen, Terminated, Closed
  <2>2. CASE i \in 1..m
    <3>1. work[i][s] \in Block /\ work[i][s] \notin InPlay(m)
      BY <1>2, <2>1, <2>2, KeptNotInPlay
    <3>2. ~Closed(term, work[i][s])
      BY <1>1, <1>2, <2>1, <2>2 DEF PendingInv, PendingOpen, Terminated, Closed
    <3>3. QED
      BY <1>2, <2>2, <3>1, <3>2 DEF StepFacts
  <2>3. CASE i \in (m + 1)..Len(work')
    BY <2>1, <2>3 DEF NewFacts
  <2>4. QED
    BY <1>1, <2>2, <2>3
<1>4. PendingDistinct'
  <2>1. SUFFICES ASSUME NEW i \in DOMAIN work', NEW j \in DOMAIN work',
                        NEW s \in Slots, NEW t \in Slots,
                        work'[i][s] # 0, work'[i][s] = work'[j][t]
                 PROVE  i = j /\ s = t
    BY DEF PendingDistinct
  <2>2. CASE i \in 1..m /\ j \in 1..m
    BY <1>1, <1>2, <2>1, <2>2 DEF PendingInv, PendingDistinct
  <2>3. CASE i \in 1..m /\ j \in (m + 1)..Len(work')
    <3>1. work[i][s] \notin InPlay(m)
      BY <1>2, <2>1, <2>3, KeptNotInPlay
    <3>2. QED
      BY <1>2, <2>1, <2>3, <3>1 DEF NewFacts
  <2>4. CASE j \in 1..m /\ i \in (m + 1)..Len(work')
    <3>1. work[j][t] \notin InPlay(m)
      BY <1>2, <2>1, <2>4, KeptNotInPlay
    <3>2. QED
      BY <1>2, <2>1, <2>4, <3>1 DEF NewFacts
  <2>5. CASE i \in (m + 1)..Len(work') /\ j \in (m + 1)..Len(work')
    BY <2>1, <2>5 DEF NewFacts
  <2>6. QED
    BY <1>1, <2>2, <2>3, <2>4, <2>5
<1>5. OpenIsPending'
  <2>1. SUFFICES ASSUME NEW b \in Block', ~Closed(term', b)
                 PROVE  b = ins' \/ \E i \in DOMAIN work', s \in Slots : work'[i][s] = b
    BY DEF OpenIsPending, Terminated, Closed
  <2>2. b # 0
    BY DEF Block
  <2>3. CASE b \in InPlay(m)
    <3>1. b = ins' \/ \E i \in (m + 1)..Len(work'), s \in Slots : work'[i][s] = b
      BY <2>1, <2>2, <2>3 DEF NewFacts
    <3>2. (m + 1)..Len(work') \subseteq DOMAIN work'
      BY <1>1
    <3>3. QED
      BY <3>1, <3>2
  <2>4. CASE b \notin InPlay(m)
    <3>1. b \in Block /\ b # ins
      BY <1>1, <2>4 DEF InPlay, Block
    <3>2. ~Closed(term, b)
      BY <2>1, <3>1 DEF StepFacts
    <3>3. PICK i \in DOMAIN work, s \in Slots : work[i][s] = b
      BY <3>1, <3>2 DEF PendingInv, OpenIsPending, Terminated, Closed
    <3>4. i \in 1..m
      BY <1>1, <2>4, <3>3 DEF InPlay
    <3>5. QED
      BY <1>1, <1>2, <3>3, <3>4
  <2>5. QED
    BY <2>3, <2>4
<1>6. QED
  BY <1>3, <1>4, <1>5 DEF PendingInv

SwitchFrame(i, w, tm, cd, at) ==
  /\ Closed(tm, w[i].sw)
  /\ w[i].next # 0 => w[i].next = w[i].back /\ cd[w[i].back] = <<>>
  /\ w[i].next = 0 =>
       \/ Closed(tm, w[i].back)
       \/ w[i].back = at
       \/ \E j \in (i + 1)..Len(w), s \in Slots : w[j][s] = w[i].back

LEMMA SwitchFrames ==
  /\ SwitchShape <=> \A i \in DOMAIN work :
       work[i].k = "switch" => SwitchFrame(i, work, term, code, ins)
  /\ SwitchShape' <=> \A i \in DOMAIN work' :
       work'[i].k = "switch" => SwitchFrame(i, work', term', code', ins')
BY DEF SwitchShape, SwitchFrame, Terminated, Closed

LEMMA StepSwitch ==
  ASSUME TypeOK, TypeOK', PendingInv, StackShape, SwitchShape,
         NEW m \in Nat, StepFacts(m), NewFacts(m),
         \A i \in (m + 1)..Len(work') : work'[i].k = "switch" =>
           SwitchFrame(i, work', term', code', ins')
  PROVE  SwitchShape'
<1>1. /\ Len(work) \in Nat /\ DOMAIN work = 1..Len(work)
      /\ Len(work') \in Nat /\ DOMAIN work' = 1..Len(work')
      /\ m <= Len(work) /\ m <= Len(work')
      /\ nb \in Nat /\ \A i \in 1..m : work'[i] = work[i]
  BY DEF TypeOK, StepFacts
<1>2. SUFFICES ASSUME NEW i \in 1..m, work[i].k = "switch"
               PROVE  SwitchFrame(i, work', term', code', ins')
  BY <1>1, SwitchFrames
<1>3. SwitchFrame(i, work, term, code, ins)
  BY <1>1, <1>2, SwitchFrames
<1>4. work'[i] = work[i] /\ i \in DOMAIN work
  BY <1>1
<1>5. work[i].sw \in Block /\ work[i].back \in Block
  <2>1. work[i] \in FrameType
    BY <1>4 DEF TypeOK
  <2>2. work[i].sw \in BlockOr0 /\ work[i].back \in BlockOr0
    BY <2>1 DEF FrameType
  <2>3. work[i].sw # 0 /\ work[i].back # 0
    BY <1>2, <1>4 DEF StackShape, FrameShape
  <2>4. QED
    BY <1>1, <2>2, <2>3 DEF Block, BlockOr0
<1>6. Closed(term', work[i].sw)
  BY <1>3, <1>5 DEF SwitchFrame, StepFacts
<1>7. CASE work[i].next # 0
  <2>1. work[i].next = work[i].back /\ code[work[i].back] = <<>>
    BY <1>3, <1>7 DEF SwitchFrame
  <2>2. work[i]["next"] \notin InPlay(m)
    BY <1>7, KeptNotInPlay DEF Slots
  <2>3. code'[work[i].back] = <<>>
    BY <1>5, <2>1, <2>2 DEF StepFacts
  <2>4. QED
    BY <1>4, <1>6, <1>7, <2>1, <2>3 DEF SwitchFrame
<1>8. CASE work[i].next = 0
  <2>. DEFINE b == work[i].back
  <2>1. SUFFICES ASSUME ~Closed(term', b)
                 PROVE  b = ins' \/ \E j \in (i + 1)..Len(work'), s \in Slots : work'[j][s] = b
    BY <1>4, <1>6, <1>8 DEF SwitchFrame
  <2>2. ~Closed(term, b)
    BY <1>5, <2>1 DEF StepFacts
  <2>3. b = ins \/ \E j \in (i + 1)..Len(work), s \in Slots : work[j][s] = b
    BY <1>3, <1>8, <2>2 DEF SwitchFrame
  <2>4. b # 0
    BY <1>5 DEF Block
  <2>. HIDE DEF b
  <2>5. CASE b \in InPlay(m)
    <3>1. b = ins' \/ \E j \in (m + 1)..Len(work'), s \in Slots : work'[j][s] = b
      BY <2>1, <2>4, <2>5 DEF NewFacts
    <3>2. (m + 1)..Len(work') \subseteq (i + 1)..Len(work')
      BY <1>1
    <3>3. QED
      BY <3>1, <3>2
  <2>6. CASE b \notin InPlay(m)
    <3>1. b # ins /\ \A j \in (m + 1)..Len(work), s \in Slots : work[j][s] # b
      BY <2>6 DEF InPlay
    <3>2. PICK j \in (i + 1)..Len(work), s \in Slots : work[j][s] = b
      BY <2>3, <3>1
    <3>3. j \in (i + 1)..m
      BY <1>1, <3>1, <3>2
    <3>4. work'[j][s] = b /\ j \in (i + 1)..Len(work')
      BY <1>1, <3>2, <3>3
    <3>5. QED
      BY <3>4
  <2>7. QED
    BY <2>5, <2>6
<1>9. QED
  BY <1>7, <1>8

-----------------------------------------------------------------------------
(* What a builder call closes. *)

LEMMA ClosedByOne ==
  ASSUME TypeOK, NEW n \in Nat, NEW f, NEW d, NEW t, t.op # "none",
         NEW b, NEW c, Emit(n, f, One(d, t), b, c)
  PROVE  \A x \in Block' :
           Closed(term', x) <=> x = d \/ (x \in Block /\ Closed(term, x))
BY DEF TypeOK, Emit, One, Closed, Block, None, Terminator

LEMMA ClosedByTwo ==
  ASSUME TypeOK, NEW n \in Nat, NEW f, NEW d, NEW t, t.op # "none",
         NEW e, NEW u, u.op # "none",
         NEW b, NEW c, Emit(n, f, Two(d, t, e, u), b, c)
  PROVE  \A x \in Block' :
           Closed(term', x) <=> x \in {d, e} \/ (x \in Block /\ Closed(term, x))
BY DEF TypeOK, Emit, Two, Closed, Block, None, Terminator

LEMMA ClosedByNone ==
  ASSUME TypeOK, NEW n \in Nat, NEW f, NEW b, NEW c, Emit(n, f, <<>>, b, c)
  PROVE  \A x \in Block' :
           Closed(term', x) <=> x \in Block /\ Closed(term, x)
BY DEF TypeOK, Emit, Closed, Block, None, Terminator

LEMMA CodeKept ==
  ASSUME TypeOK, NEW n \in Nat, NEW f, NEW t, NEW b, NEW c, Emit(n, f, t, b, c)
  PROVE  /\ \A x \in Block : x # b => code'[x] = code[x]
         /\ \A x \in (nb + 1)..nb' : x # b => code'[x] = <<>>
BY DEF TypeOK, Emit, Block

LEMMA CodeSame ==
  ASSUME TypeOK, NEW n \in Nat, NEW f, NEW t, NEW c, Emit(n, f, t, 0, c)
  PROVE  /\ \A x \in Block : x # 0 /\ code'[x] = code[x]
         /\ \A i \in 1..n : code'[nb + i] = <<>>
<1>1. nb \in Nat /\ nb' = nb + n
  BY EmitCount DEF TypeOK
<1>2. \A x \in Block : x # 0
  BY <1>1 DEF Block
<1>3. \A i \in 1..n : nb + i \in (nb + 1)..nb' /\ nb + i # 0
  BY <1>1
<1>4. QED
  BY <1>2, <1>3, CodeKept

LEMMA ClosingTerms ==
  /\ \A b : Br(b).op # "none"
  /\ \A b, c, n : CondBr(b, c, n).op # "none"
  /\ \A n : Unreachable(n).op # "none"
  /\ Ret.op # "none"
BY DEF Br, CondBr, Unreachable, Ret, Terminator

-----------------------------------------------------------------------------
(* The four ways a step treats the call stack. *)

Shape ==
  /\ TypeOK /\ StackShape /\ CaseInSwitch
  /\ PendingInv /\ InsertBlockState /\ SwitchShape

\* Blocks only get closed, and only the blocks in S change.
OnlyIn(S) ==
  /\ nb <= nb'
  /\ \A x \in Block : Closed(term, x) => Closed(term', x)
  /\ \A x \in Block \ S : (Closed(term', x) => Closed(term, x)) /\ code'[x] = code[x]
  /\ ins' \in S

NewBlocks == (nb + 1)..nb'

SlotSet(f) == {f.cond, f.body, f.next, f.exit}

SlotsDiffer(f) ==
  /\ f.cond # 0 => f.cond \notin {f.body, f.next, f.exit}
  /\ f.body # 0 => f.body \notin {f.next, f.exit}
  /\ f.next # 0 => f.next # f.exit

TopBlocks == SlotSet(Top)

LEMMA SlotSets ==
  ASSUME NEW f
  PROVE  /\ \A s \in Slots : f[s] \in SlotSet(f)
         /\ \A x \in SlotSet(f) : \E s \in Slots : f[s] = x
         /\ SlotsDiffer(f) =>
              \A s, t \in Slots : f[s] # 0 /\ f[s] = f[t] => s = t
BY DEF Slots, SlotSet, SlotsDiffer

LEMMA InsertState ==
  ASSUME work' # <<>>, Len(work') \in Nat
  PROVE  InsertBlockState' <=> (Closed(term', ins') <=> work'[Len(work')].k = "switch")
BY DEF InsertBlockState, Terminated, Closed, Top

LEMMA StayShape ==
  ASSUME Shape, TypeOK', StackShape', work' = work, Top.k # "switch",
         OnlyIn({ins} \cup NewBlocks),
         \A x \in {ins} \cup NewBlocks : Closed(term', x) <=> x # ins'
  PROVE  Shape'
<1>. DEFINE m == Len(work)
<1>1. /\ m \in Nat /\ m = Len(work') /\ work # <<>> /\ nb <= nb'
      /\ TypeOK /\ PendingInv /\ StackShape /\ SwitchShape
  BY TopType DEF Shape, StackShape, OnlyIn
<1>2. InPlay(m) = {ins} \cup NewBlocks
  BY <1>1 DEF InPlay, NewBlocks
<1>3. StepFacts(m)
  BY <1>1, <1>2 DEF StepFacts, OnlyIn
<1>4. NewFacts(m)
  BY <1>1, <1>2 DEF NewFacts
<1>5. PendingInv' /\ SwitchShape'
  BY <1>1, <1>3, <1>4, StepPending, StepSwitch
<1>6. InsertBlockState'
  <2>1. ~Closed(term', ins')
    BY DEF OnlyIn
  <2>2. QED
    BY <1>1, <2>1, InsertState DEF Top
<1>7. CaseInSwitch'
  BY DEF Shape, CaseInSwitch
<1>8. QED
  BY <1>5, <1>6, <1>7 DEF Shape

LEMMA PushShape ==
  ASSUME Shape, TypeOK', StackShape', NEW f,
         Len(work') = Len(work) + 1, work'[Len(work) + 1] = f,
         \A i \in 1..Len(work) : work'[i] = work[i],
         f.k = "case" <=> Top.k = "switch",
         OnlyIn({ins} \cup NewBlocks),
         \A x \in {ins} \cup NewBlocks :
           ~Closed(term', x) => x = ins' \/ x \in SlotSet(f),
         Closed(term', ins') <=> f.k = "switch",
         \A x \in SlotSet(f) \ {0} :
           x \in {ins} \cup NewBlocks /\ ~Closed(term', x) /\ x # ins',
         SlotsDiffer(f),
         f.k = "switch" =>
           /\ Closed(term', f.sw)
           /\ f.next # 0 /\ f.next = f.back /\ code'[f.back] = <<>>
  PROVE  Shape'
<1>. DEFINE m == Len(work)
<1>1. /\ m \in Nat /\ m # 0 /\ Len(work') = m + 1 /\ nb <= nb'
      /\ TypeOK /\ PendingInv /\ StackShape /\ SwitchShape
  BY TopType DEF Shape, OnlyIn
<1>2. InPlay(m) = {ins} \cup NewBlocks
  BY <1>1 DEF InPlay, NewBlocks
<1>3. (m + 1)..Len(work') = {m + 1}
  BY <1>1
<1>4. StepFacts(m)
  BY <1>1, <1>2 DEF StepFacts, OnlyIn
<1>5. NewFacts(m)
  BY <1>1, <1>2, <1>3, SlotSets DEF NewFacts
<1>6. PendingInv'
  BY <1>1, <1>4, <1>5, StepPending
<1>7. SwitchShape'
  <2>1. \A i \in (m + 1)..Len(work') : work'[i].k = "switch" =>
          SwitchFrame(i, work', term', code', ins')
    BY <1>3 DEF SwitchFrame
  <2>2. QED
    BY <1>1, <1>4, <1>5, <2>1, StepSwitch
<1>8. InsertBlockState'
  BY <1>1, InsertState DEF StackShape
<1>9. CaseInSwitch'
  BY <1>1 DEF Shape, CaseInSwitch, Top
<1>10. QED
  BY <1>6, <1>7, <1>8, <1>9 DEF Shape

LEMMA ReturnShape ==
  ASSUME Shape, TypeOK', StackShape',
         Len(work') = Len(work) - 1,
         \A i \in 1..(Len(work) - 1) : work'[i] = work[i],
         nb' = nb,
         OnlyIn({ins} \cup TopBlocks),
         \A x \in {ins} \cup TopBlocks : x # 0 /\ ~Closed(term', x) => x = ins',
         Closed(term', ins') <=> Top.k = "case"
  PROVE  Shape'
<1>. DEFINE m == Len(work) - 1
<1>1. /\ m \in Nat /\ Len(work') = m /\ nb <= nb' /\ m + 1 = Len(work)
      /\ TypeOK /\ PendingInv /\ StackShape /\ SwitchShape
  BY TopType DEF Shape, OnlyIn
<1>2. InPlay(m) = {ins} \cup TopBlocks
  <2>1. (m + 1)..Len(work) = {Len(work)} /\ (nb + 1)..nb' = {}
    BY <1>1 DEF TypeOK
  <2>2. {work[Len(work)][t] : t \in Slots} = TopBlocks
    BY SlotSets DEF TopBlocks, Top
  <2>3. QED
    BY <2>1, <2>2 DEF InPlay
<1>3. (m + 1)..Len(work') = {}
  BY <1>1
<1>4. StepFacts(m)
  BY <1>1, <1>2 DEF StepFacts, OnlyIn
<1>5. NewFacts(m)
  BY <1>2, <1>3 DEF NewFacts
<1>6. PendingInv' /\ SwitchShape'
  BY <1>1, <1>3, <1>4, <1>5, StepPending, StepSwitch
<1>7. InsertBlockState'
  <2>1. m # 0
    BY <1>1 DEF StackShape
  <2>2. Top.k = "case" <=> work[m].k = "switch"
    BY <1>1, <2>1 DEF Shape, CaseInSwitch, Top
  <2>3. QED
    BY <1>1, <2>1, <2>2, InsertState DEF StackShape
<1>8. CaseInSwitch'
  BY <1>1 DEF Shape, CaseInSwitch
<1>9. QED
  BY <1>6, <1>7, <1>8 DEF Shape

LEMMA BecomeShape ==
  ASSUME Shape, TypeOK', StackShape', NEW f,
         Len(work') = Len(work), work'[Len(work)] = f,
         \A i \in 1..(Len(work) - 1) : work'[i] = work[i],
         nb' = nb,
         Top.k \notin {"case", "switch"}, f.k \notin {"case", "switch"},
         OnlyIn({ins} \cup TopBlocks),
         \A x \in {ins} \cup TopBlocks : x # 0 /\ ~Closed(term', x) =>
           x = ins' \/ x \in SlotSet(f),
         ~Closed(term', ins'),
         \A x \in SlotSet(f) \ {0} :
           x \in TopBlocks /\ ~Closed(term', x) /\ x # ins',
         SlotsDiffer(f)
  PROVE  Shape'
<1>. DEFINE m == Len(work) - 1
<1>1. /\ m \in Nat /\ Len(work') = m + 1 /\ nb <= nb' /\ m + 1 = Len(work)
      /\ TypeOK /\ PendingInv /\ StackShape /\ SwitchShape
  BY TopType DEF Shape, OnlyIn
<1>2. InPlay(m) = {ins} \cup TopBlocks
  <2>1. (m + 1)..Len(work) = {Len(work)} /\ (nb + 1)..nb' = {}
    BY <1>1 DEF TypeOK
  <2>2. {work[Len(work)][t] : t \in Slots} = TopBlocks
    BY SlotSets DEF TopBlocks, Top
  <2>3. QED
    BY <2>1, <2>2 DEF InPlay
<1>3. (m + 1)..Len(work') = {m + 1}
  BY <1>1
<1>4. StepFacts(m)
  BY <1>1, <1>2 DEF StepFacts, OnlyIn
<1>5. NewFacts(m)
  BY <1>1, <1>2, <1>3, SlotSets DEF NewFacts
<1>6. PendingInv' /\ SwitchShape'
  BY <1>1, <1>3, <1>4, <1>5, StepPending, StepSwitch
<1>7. InsertBlockState'
  BY <1>1, InsertState DEF StackShape
<1>8. CaseInSwitch'
  <2>1. SUFFICES ASSUME NEW i \in 2..(m + 1)
                 PROVE  work'[i].k = "case" <=> work'[i - 1].k = "switch"
    BY <1>1 DEF CaseInSwitch
  <2>2. work[i].k = "case" <=> work[i - 1].k = "switch"
    BY <1>1 DEF Shape, CaseInSwitch
  <2>3. work'[i - 1] = work[i - 1] /\ i - 1 \in 1..m
    BY <1>1
  <2>4. CASE i = m + 1
    <3>1. work[i].k # "case" /\ work'[i].k # "case"
      BY <1>1, <2>4 DEF Top
    <3>2. QED
      BY <2>2, <2>3, <3>1
  <2>5. CASE i # m + 1
    <3>1. work'[i] = work[i]
      BY <1>1, <2>5
    <3>2. QED
      BY <2>2, <2>3, <3>1
  <2>6. QED
    BY <2>4, <2>5
<1>9. QED
  BY <1>6, <1>7, <1>8 DEF Shape

-----------------------------------------------------------------------------
(* Straight-line statements keep the shape. *)

LEMMA Here ==
  ASSUME Shape, Top.k # "switch"
  PROVE  /\ ~Closed(term, ins) /\ ins \in Block /\ nb \in Nat \ {0}
         /\ TypeOK /\ StackShape
BY DEF Shape, InsertBlockState, TypeOK, Terminated, Closed

LEMMA StatementsHere ==
  ASSUME NEW k, MayCome(k)
  PROVE  Top.k # "switch" /\ pc = "emit"
BY DEF MayCome, StmtLists

LEMMA EmitActShape ==
  ASSUME Shape, EmitAct
  PROVE  Shape'
<1>1. /\ Emit(0, fn[ins], <<>>, ins, NewNode)
      /\ ins' = ins /\ work' = work /\ Top.k # "switch"
  BY StatementsHere DEF EmitAct
<1>2. /\ ~Closed(term, ins) /\ ins \in Block /\ nb \in Nat \ {0}
      /\ TypeOK /\ StackShape /\ TypeOK' /\ StackShape'
  BY <1>1, Here, EmitActTypes
<1>3. nb' = nb + 0
  BY <1>1, <1>2, EmitCount
<1>4. \A x \in Block : Closed(term', x) <=> Closed(term, x)
  BY <1>1, <1>2, <1>3, ClosedByNone DEF Block
<1>5. NewBlocks = {}
  BY <1>2, <1>3 DEF NewBlocks
<1>6. OnlyIn({ins} \cup NewBlocks)
  BY <1>1, <1>2, <1>3, <1>4, CodeKept DEF OnlyIn
<1>7. QED
  BY <1>1, <1>2, <1>4, <1>5, <1>6, StayShape

LEMMA EmitRequireShape ==
  ASSUME Shape, EmitRequire
  PROVE  Shape'
<1>. DEFINE t == CondBr(nb + 1, nb + 2, NewNode)
            u == Unreachable(NewNode)
<1>1. /\ Emit(2, fn[ins], Two(ins, t, nb + 2, u), 0, 0)
      /\ ins' = nb + 1 /\ work' = work /\ Top.k # "switch"
  BY StatementsHere DEF EmitRequire, Create
<1>2. /\ ~Closed(term, ins) /\ ins \in Block /\ nb \in Nat \ {0}
      /\ TypeOK /\ StackShape /\ TypeOK' /\ StackShape'
  BY <1>1, Here, EmitRequireTypes
<1>3. nb' = nb + 2
  BY <1>1, <1>2, EmitCount
<1>4. \A x \in Block' :
        Closed(term', x) <=> x \in {ins, nb + 2} \/ (x \in Block /\ Closed(term, x))
  <2>1. t.op # "none" /\ u.op # "none"
    BY ClosingTerms
  <2>. HIDE DEF t, u
  <2>2. QED
    BY <1>1, <1>2, <2>1, ClosedByTwo
<1>5. NewBlocks = {nb + 1, nb + 2} /\ Block' = Block \cup NewBlocks
  BY <1>2, <1>3 DEF NewBlocks, Block
<1>6. \A x \in Block : x # nb + 1 /\ x # nb + 2 /\ x # 0
  BY <1>2 DEF Block
<1>7. OnlyIn({ins} \cup NewBlocks)
  BY <1>1, <1>2, <1>3, <1>4, <1>5, <1>6, CodeKept DEF OnlyIn
<1>8. \A x \in {ins} \cup NewBlocks : Closed(term', x) <=> x # ins'
  BY <1>1, <1>2, <1>4, <1>5, <1>6
<1>9. QED
  BY <1>1, <1>2, <1>7, <1>8, StayShape

\* A terminator for the insert block, and a new block to go on in.
LEMMA JumpShape ==
  ASSUME Shape, TypeOK', StackShape', work' = work, Top.k # "switch",
         NEW t, t.op # "none", NEW b \in {0, ins}, NEW c,
         Emit(1, fn[ins], One(ins, t), b, c), ins' = nb + 1
  PROVE  Shape'
<1>1. /\ ~Closed(term, ins) /\ ins \in Block /\ nb \in Nat \ {0} /\ TypeOK
  BY Here
<1>2. nb' = nb + 1
  BY <1>1, EmitCount
<1>3. \A x \in Block' :
        Closed(term', x) <=> x = ins \/ (x \in Block /\ Closed(term, x))
  BY <1>1, ClosedByOne
<1>4. NewBlocks = {nb + 1} /\ Block' = Block \cup NewBlocks
  BY <1>1, <1>2 DEF NewBlocks, Block
<1>5. \A x \in Block : x # nb + 1 /\ x # 0
  BY <1>1 DEF Block
<1>6. OnlyIn({ins} \cup NewBlocks)
  BY <1>1, <1>2, <1>3, <1>4, <1>5, CodeKept DEF OnlyIn
<1>7. \A x \in {ins} \cup NewBlocks : Closed(term', x) <=> x # ins'
  BY <1>1, <1>3, <1>4, <1>5
<1>8. QED
  BY <1>6, <1>7, StayShape

LEMMA JumpsShape ==
  ASSUME Shape, EmitRevert \/ EmitReturn \/ EmitJump
  PROVE  Shape'
<1>1. Top.k # "switch" /\ work' = work /\ ins' = nb + 1
  BY StatementsHere DEF EmitRevert, EmitReturn, EmitJump, MayJump
<1>2. TypeOK' /\ StackShape'
  BY <1>1, Here, EmitRevertTypes, EmitReturnTypes, EmitJumpTypes
<1>3. CASE EmitRevert
  <2>1. Emit(1, fn[ins], One(ins, Unreachable(NewNode)), 0, 0)
    BY <1>3 DEF EmitRevert, Create
  <2>2. QED
    BY <1>1, <1>2, <2>1, ClosingTerms, JumpShape
<1>4. CASE EmitReturn
  <2>1. Emit(1, fn[ins], One(ins, Br(ret)), ins, NewNode)
    BY <1>4 DEF EmitReturn
  <2>2. QED
    BY <1>1, <1>2, <2>1, ClosingTerms, JumpShape
<1>5. CASE EmitJump
  <2>1. PICK d \in {Last(loops).brk, Last(loops).cnt} :
          Emit(1, fn[ins], One(ins, Br(d)), 0, 0)
    BY <1>5 DEF EmitJump, Create
  <2>2. QED
    BY <1>1, <1>2, <2>1, ClosingTerms, JumpShape
<1>6. QED
  BY <1>3, <1>4, <1>5

-----------------------------------------------------------------------------
(* Opening a construct keeps the shape. *)

\* Of the insert block and n new blocks, those of D get closed, one is the
\* next insert block and the others wait in the frame f.
OpenSets(n, D, f) ==
  LET P == {ins} \cup ((nb + 1)..(nb + n))
  IN /\ D \subseteq P /\ ins' \in P
     /\ ins' \in D <=> f.k = "switch"
     /\ P \subseteq D \cup SlotSet(f) \cup {ins'}
     /\ \A x \in SlotSet(f) \ {0} : x \in P /\ x \notin D /\ x # ins'
     /\ SlotsDiffer(f)

\* n blocks are created, those of D get closed, and the frame f is pushed.
LEMMA OpenShape ==
  ASSUME Shape, TypeOK', StackShape', Top.k # "switch",
         NEW n \in Nat, nb' = nb + n,
         NEW D, NEW f, f.k # "case", Push(f),
         \A x \in Block' :
           Closed(term', x) <=> x \in D \/ (x \in Block /\ Closed(term, x)),
         \A x \in Block : x # ins => code'[x] = code[x],
         OpenSets(n, D, f),
         f.k = "switch" =>
           f.sw = ins' /\ f.next # 0 /\ f.next = f.back /\ code'[f.back] = <<>>
  PROVE  Shape'
<1>1. /\ ~Closed(term, ins) /\ ins \in Block /\ nb \in Nat \ {0}
      /\ TypeOK /\ StackShape
  BY Here
<1>2. /\ Len(work') = Len(work) + 1
      /\ \A i \in 1..Len(work) : work'[i] = work[i]
      /\ work'[Len(work) + 1] = f
  BY <1>1 DEF Push, TypeOK
<1>. DEFINE P == {ins} \cup NewBlocks
<1>3. P = {ins} \cup ((nb + 1)..(nb + n)) /\ Block' = Block \cup NewBlocks
  BY <1>1 DEF NewBlocks, Block
<1>4. \A x \in NewBlocks : x \notin Block
  BY <1>1 DEF NewBlocks, Block
<1>5. nb <= nb' /\ P \subseteq Block'
  BY <1>1, <1>3
<1>6. /\ D \subseteq P /\ ins' \in P
      /\ ins' \in D <=> f.k = "switch"
      /\ P \subseteq D \cup SlotSet(f) \cup {ins'}
      /\ \A x \in SlotSet(f) \ {0} : x \in P /\ x \notin D /\ x # ins'
      /\ SlotsDiffer(f)
  BY <1>3 DEF OpenSets
<1>. HIDE DEF P
<1>7. \A x \in P : Closed(term', x) <=> x \in D
  BY <1>1, <1>3, <1>4, <1>5 DEF P
<1>8. OnlyIn(P)
  BY <1>1, <1>3, <1>5, <1>6 DEF OnlyIn, P
<1>9. \A x \in P : ~Closed(term', x) => x = ins' \/ x \in SlotSet(f)
  BY <1>7, <1>6
<1>10. Closed(term', ins') <=> f.k = "switch"
  BY <1>7, <1>6
<1>11. \A x \in SlotSet(f) \ {0} : x \in P /\ ~Closed(term', x) /\ x # ins'
  BY <1>7, <1>6
<1>12. f.k = "switch" =>
         /\ Closed(term', f.sw)
         /\ f.next # 0 /\ f.next = f.back /\ code'[f.back] = <<>>
  BY <1>10
<1>13. QED
  BY <1>2, <1>8, <1>9, <1>10, <1>11, <1>12, <1>6, PushShape DEF P

LEMMA OpenThenShape ==
  ASSUME Shape,
         NEW k \in {"if", "ifelse"}, NEW n \in Nat, NEW else \in Nat, NEW next \in Nat,
         \/ n = 2 /\ else = nb + 2 /\ next = 0
         \/ n = 3 /\ else = nb + 3 /\ next = nb + 3,
         OpenThen(k, n, else, next)
  PROVE  Shape'
<1>. DEFINE f == [Call("then", NewNode) EXCEPT !.next = next, !.exit = nb + 2]
<1>1. /\ Emit(n, fn[ins], One(ins, CondBr(nb + 1, else, NewNode)), 0, 0)
      /\ Push(f) /\ ins' = nb + 1
      /\ Top.k # "switch"
  BY StatementsHere DEF OpenThen, Create
<1>2. /\ ins \in Block /\ nb \in Nat \ {0} /\ TypeOK /\ StackShape
  BY <1>1, Here
<1>3. TypeOK' /\ StackShape'
  BY <1>2, OpenThenTypes
<1>4. nb' = nb + n
  BY <1>1, <1>2, EmitCount
<1>5. \A x \in Block' :
        Closed(term', x) <=> x \in {ins} \/ (x \in Block /\ Closed(term, x))
  BY <1>1, <1>2, ClosingTerms, ClosedByOne
<1>6. \A x \in Block : x # 0 /\ code'[x] = code[x]
  BY <1>1, <1>2, CodeSame
<1>7. /\ f.cond = 0 /\ f.body = 0 /\ f.next = next /\ f.exit = nb + 2
      /\ f.k = "then"
  BY DEF Call
<1>. HIDE DEF f
<1>8. OpenSets(n, {ins}, f)
  <2>1. SlotSet(f) = {0, next, nb + 2} /\ SlotsDiffer(f) /\ ins <= nb
    BY <1>2, <1>7 DEF SlotSet, SlotsDiffer, Block
  <2>2. QED
    BY <1>1, <1>2, <1>7, <2>1 DEF OpenSets
<1>9. QED
  BY <1>1, <1>3, <1>4, <1>5, <1>6, <1>7, <1>8, OpenShape

LEMMA OpenIfShape ==
  ASSUME Shape, OpenIf
  PROVE  Shape'
<1>1. nb \in Nat
  BY DEF Shape, TypeOK
<1>2. CASE OpenThen("if", 2, nb + 2, 0)
  BY <1>1, <1>2, OpenThenShape
<1>3. CASE OpenThen("ifelse", 3, nb + 3, nb + 3)
  BY <1>1, <1>3, OpenThenShape
<1>4. QED
  BY <1>2, <1>3 DEF OpenIf

LEMMA OpenWhileShape ==
  ASSUME Shape, OpenWhile
  PROVE  Shape'
<1>. DEFINE test == CondBr(nb + 3, nb + 2, NewNode)
            f == [Call("body", NewNode) EXCEPT !.exit = nb + 2, !.back = nb + 1]
<1>1. PICK d : Emit(3, fn[ins], Two(ins, Br(d), nb + 1, test), 0, 0)
  BY DEF OpenWhile, Create
<1>2. Push(f) /\ ins' = nb + 3 /\ Top.k # "switch"
  BY StatementsHere DEF OpenWhile
<1>3. ins \in Block /\ nb \in Nat \ {0} /\ TypeOK /\ StackShape
  BY <1>2, Here
<1>4. TypeOK' /\ StackShape'
  BY <1>3, OpenWhileTypes
<1>5. nb' = nb + 3
  BY <1>1, <1>3, EmitCount
<1>6. \A x \in Block' :
        Closed(term', x) <=> x \in {ins, nb + 1} \/ (x \in Block /\ Closed(term, x))
  BY <1>1, <1>3, ClosingTerms, ClosedByTwo
<1>7. \A x \in Block : x # 0 /\ code'[x] = code[x]
  BY <1>1, <1>3, CodeSame
<1>8. /\ f.cond = 0 /\ f.body = 0 /\ f.next = 0 /\ f.exit = nb + 2
      /\ f.k = "body"
  BY DEF Call
<1>. HIDE DEF f
<1>9. OpenSets(3, {ins, nb + 1}, f)
  <2>1. SlotSet(f) = {0, nb + 2} /\ SlotsDiffer(f) /\ ins <= nb
    BY <1>3, <1>8 DEF SlotSet, SlotsDiffer, Block
  <2>2. QED
    BY <1>2, <1>3, <1>8, <2>1 DEF OpenSets
<1>10. QED
  BY <1>2, <1>4, <1>5, <1>6, <1>7, <1>8, <1>9, OpenShape

LEMMA OpenForShape ==
  ASSUME Shape, OpenFor
  PROVE  Shape'
<1>. DEFINE f == [Call("forbody", NewNode) EXCEPT
                    !.next = nb + 3, !.exit = nb + 4, !.back = nb + 1]
<1>1. PICK t, b, c :
        /\ t.op # "none" /\ b \in {0, nb + 1}
        /\ Emit(4, fn[ins], Two(ins, Br(nb + 1), nb + 1, t), b, c)
  <2>1. PICK k \in {"for", "forever"} :
          \/ Emit(4, fn[ins], Two(ins, Br(nb + 1), nb + 1, CondBr(nb + 2, nb + 4, NewNode)), 0, 0)
          \/ Emit(4, fn[ins], Two(ins, Br(nb + 1), nb + 1, Br(nb + 2)), nb + 1, NewNode)
    BY DEF OpenFor, Create
  <2>2. QED
    BY <2>1, ClosingTerms
<1>2. Push(f) /\ ins' = nb + 2 /\ Top.k # "switch"
  BY StatementsHere DEF OpenFor
<1>3. ins \in Block /\ nb \in Nat \ {0} /\ TypeOK /\ StackShape
  BY <1>2, Here
<1>4. TypeOK' /\ StackShape'
  BY <1>3, OpenForTypes
<1>5. nb' = nb + 4
  BY <1>1, <1>3, EmitCount
<1>6. \A x \in Block' :
        Closed(term', x) <=> x \in {ins, nb + 1} \/ (x \in Block /\ Closed(term, x))
  BY <1>1, <1>3, ClosingTerms, ClosedByTwo
<1>7. \A x \in Block : code'[x] = code[x]
  <2>1. \A x \in Block : x # 0 /\ x # nb + 1
    BY <1>3 DEF Block
  <2>2. QED
    BY <1>1, <1>3, <2>1, CodeKept
<1>8. /\ f.cond = 0 /\ f.body = 0 /\ f.next = nb + 3 /\ f.exit = nb + 4
      /\ f.k = "forbody"
  BY DEF Call
<1>. HIDE DEF f
<1>9. OpenSets(4, {ins, nb + 1}, f)
  <2>1. SlotSet(f) = {0, nb + 3, nb + 4} /\ SlotsDiffer(f) /\ ins <= nb
    BY <1>3, <1>8 DEF SlotSet, SlotsDiffer, Block
  <2>2. QED
    BY <1>2, <1>3, <1>8, <2>1 DEF OpenSets
<1>10. QED
  BY <1>2, <1>4, <1>5, <1>6, <1>7, <1>8, <1>9, OpenShape

LEMMA OpenAsmForShape ==
  ASSUME Shape, OpenAsmFor
  PROVE  Shape'
<1>. DEFINE f == [Call("asminit", NewNode) EXCEPT
                    !.cond = nb + 1, !.body = nb + 2, !.next = nb + 3,
                    !.exit = nb + 4]
<1>1. /\ Emit(4, fn[ins], <<>>, 0, 0)
      /\ Push(f) /\ ins' = ins /\ Top.k # "switch"
  BY StatementsHere DEF OpenAsmFor, Create
<1>2. ins \in Block /\ nb \in Nat \ {0} /\ TypeOK /\ StackShape
  BY <1>1, Here
<1>3. TypeOK' /\ StackShape'
  BY <1>2, OpenAsmForTypes
<1>4. nb' = nb + 4
  BY <1>1, <1>2, EmitCount
<1>5. \A x \in Block' :
        Closed(term', x) <=> x \in {} \/ (x \in Block /\ Closed(term, x))
  BY <1>1, <1>2, ClosedByNone
<1>6. \A x \in Block : x # 0 /\ code'[x] = code[x]
  BY <1>1, <1>2, CodeSame
<1>7. /\ f.cond = nb + 1 /\ f.body = nb + 2 /\ f.next = nb + 3 /\ f.exit = nb + 4
      /\ f.k = "asminit"
  BY DEF Call
<1>. HIDE DEF f
<1>8. OpenSets(4, {}, f)
  <2>1. /\ SlotSet(f) = {nb + 1, nb + 2, nb + 3, nb + 4} /\ SlotsDiffer(f)
        /\ ins <= nb
    BY <1>2, <1>7 DEF SlotSet, SlotsDiffer, Block
  <2>2. QED
    BY <1>1, <1>2, <1>7, <2>1 DEF OpenSets
<1>9. QED
  BY <1>1, <1>3, <1>4, <1>5, <1>6, <1>7, <1>8, OpenShape

LEMMA OpenSwitchShape ==
  ASSUME Shape, OpenSwitch
  PROVE  Shape'
<1>. DEFINE t == Terminator("switch", <<nb + 1>>, NewNode)
            f == [Call("switch", NewNode) EXCEPT
                    !.next = nb + 1, !.exit = nb + 2, !.back = nb + 1, !.sw = ins]
<1>1. /\ Emit(2, fn[ins], One(ins, t), 0, 0)
      /\ Push(f) /\ ins' = ins /\ Top.k # "switch"
  BY StatementsHere DEF OpenSwitch, Create
<1>2. ins \in Block /\ nb \in Nat \ {0} /\ TypeOK /\ StackShape
  BY <1>1, Here
<1>3. TypeOK' /\ StackShape'
  BY <1>2, OpenSwitchTypes
<1>4. nb' = nb + 2
  BY <1>1, <1>2, EmitCount
<1>5. \A x \in Block' :
        Closed(term', x) <=> x \in {ins} \/ (x \in Block /\ Closed(term, x))
  <2>1. t.op # "none"
    BY DEF Terminator
  <2>. HIDE DEF t
  <2>2. QED
    BY <1>1, <1>2, <2>1, ClosedByOne
<1>6. /\ \A x \in Block : x # 0 /\ code'[x] = code[x]
      /\ code'[nb + 1] = <<>>
  <2>1. 1 \in 1..2
    OBVIOUS
  <2>. HIDE DEF t
  <2>2. QED
    BY <1>1, <1>2, <2>1, CodeSame
<1>7. /\ f.cond = 0 /\ f.body = 0 /\ f.next = nb + 1 /\ f.exit = nb + 2
      /\ f.k = "switch" /\ f.back = nb + 1 /\ f.sw = ins
  BY DEF Call
<1>. HIDE DEF f
<1>8. OpenSets(2, {ins}, f)
  <2>1. SlotSet(f) = {0, nb + 1, nb + 2} /\ SlotsDiffer(f) /\ ins <= nb
    BY <1>2, <1>7 DEF SlotSet, SlotsDiffer, Block
  <2>2. QED
    BY <1>1, <1>2, <1>7, <2>1 DEF OpenSets
<1>9. nb + 1 # 0
  BY <1>2
<1>10. QED
  BY <1>1, <1>3, <1>4, <1>5, <1>6, <1>7, <1>8, <1>9, OpenShape

LEMMA OpenFunShape ==
  ASSUME Shape, OpenFun
  PROVE  Shape'
<1>. DEFINE o == [ret |-> ret, loops |-> loops]
            f == [Call("fun", NewNode) EXCEPT
                    !.exit = nb + 2, !.next = ins, !.outer = o]
<1>1. /\ Emit(2, NewNode, <<>>, 0, 0)
      /\ Push(f) /\ ins' = nb + 1 /\ Top.k # "switch"
  BY StatementsHere DEF OpenFun
<1>2. ins \in Block /\ nb \in Nat \ {0} /\ TypeOK /\ StackShape
  BY <1>1, Here
<1>3. TypeOK' /\ StackShape'
  BY <1>2, OpenFunTypes
<1>4. nb' = nb + 2
  BY <1>1, <1>2, EmitCount
<1>5. \A x \in Block' :
        Closed(term', x) <=> x \in {} \/ (x \in Block /\ Closed(term, x))
  BY <1>1, <1>2, ClosedByNone
<1>6. \A x \in Block : x # 0 /\ code'[x] = code[x]
  BY <1>1, <1>2, CodeSame
<1>7. /\ f.cond = 0 /\ f.body = 0 /\ f.next = ins /\ f.exit = nb + 2
      /\ f.k = "fun"
  BY DEF Call
<1>. HIDE DEF f
<1>8. OpenSets(2, {}, f)
  <2>1. SlotSet(f) = {0, ins, nb + 2} /\ SlotsDiffer(f) /\ ins <= nb
    BY <1>2, <1>7 DEF SlotSet, SlotsDiffer, Block
  <2>2. QED
    BY <1>1, <1>2, <1>7, <2>1 DEF OpenSets
<1>9. QED
  BY <1>1, <1>3, <1>4, <1>5, <1>6, <1>7, <1>8, OpenShape

-----------------------------------------------------------------------------
(* Ending a section keeps the shape. *)

\* The blocks of the innermost call are open, differ from each other and
\* from the insert block.
LEMMA TopPending ==
  ASSUME Shape
  PROVE  /\ \A x \in TopBlocks \ {0} : x \in Block /\ ~Closed(term, x) /\ x # ins
         /\ SlotsDiffer(Top)
         /\ nb \in Nat \ {0} /\ ins \in Block /\ TypeOK /\ StackShape
         /\ Top \in FrameType /\ FrameShape(Top, lang)
<1>1. /\ Len(work) \in Nat \ {0} /\ Len(work) \in DOMAIN work
      /\ TypeOK /\ StackShape /\ PendingInv /\ Top \in FrameType
      /\ FrameShape(Top, lang)
  BY TopType DEF Shape, TypeOK
<1>2. nb \in Nat \ {0} /\ ins \in Block
  BY <1>1 DEF TypeOK
<1>3. \A s \in Slots : Top[s] # 0 => ~Closed(term, Top[s]) /\ Top[s] # ins
  BY <1>1 DEF PendingInv, PendingOpen, Top, Terminated, Closed
<1>4. \A s, t \in Slots : Top[s] # 0 /\ Top[s] = Top[t] => s = t
  BY <1>1 DEF PendingInv, PendingDistinct, Top
<1>5. /\ Top.cond \in BlockOr0 /\ Top.body \in BlockOr0 /\ Top.next \in BlockOr0
      /\ Top.exit \in BlockOr0
  BY <1>1 DEF FrameType
<1>6. SlotsDiffer(Top)
  <2>1. /\ Top["cond"] = Top.cond /\ Top["body"] = Top.body
        /\ Top["next"] = Top.next /\ Top["exit"] = Top.exit
    OBVIOUS
  <2>2. QED
    BY <1>4, <2>1 DEF SlotsDiffer, Slots
<1>7. \A x \in TopBlocks \ {0} : x \in Block /\ ~Closed(term, x) /\ x # ins
  <2>1. TAKE x \in TopBlocks \ {0}
  <2>2. PICK s \in Slots : Top[s] = x
    BY SlotSets DEF TopBlocks
  <2>3. x \in BlockOr0
    BY <1>5, <2>1 DEF TopBlocks, SlotSet
  <2>4. QED
    BY <1>2, <1>3, <2>1, <2>2, <2>3 DEF Block, BlockOr0
<1>8. QED
  BY <1>1, <1>2, <1>6, <1>7

LEMMA BecomeFrames ==
  ASSUME TypeOK, StackShape, NEW f, Become(f)
  PROVE  /\ Len(work') = Len(work) /\ work'[Len(work)] = f
         /\ \A i \in 1..(Len(work) - 1) : work'[i] = work[i]
<1>. DEFINE rest == Front(work)
<1>1. /\ Len(work) \in Nat \ {0} /\ rest \in Seq(FrameType)
      /\ Len(rest) = Len(work) - 1
      /\ \A i \in 1..(Len(work) - 1) : rest[i] = work[i]
  BY TopType, FrontProps DEF StackShape
<1>2. work' = Append(rest, f)
  BY DEF Become
<1>. HIDE DEF rest
<1>3. QED
  BY <1>1, <1>2

\* A section that returns to its caller after it closed the blocks in D.
LEMMA ReturnsShape ==
  ASSUME Shape, TypeOK', StackShape', Return, nb' = nb,
         NEW D, D \subseteq {ins} \cup TopBlocks,
         \A x \in Block' :
           Closed(term', x) <=> x \in D \/ (x \in Block /\ Closed(term, x)),
         \A x \in Block : code'[x] = code[x],
         ins' \in {ins} \cup TopBlocks, ins' \in Block,
         ins \in D \/ Closed(term, ins),
         \A x \in TopBlocks \ {0} : x \in D \/ x = ins',
         Closed(term', ins') <=> Top.k = "case"
  PROVE  Shape'
<1>1. /\ nb \in Nat \ {0} /\ ins \in Block /\ TypeOK /\ StackShape
      /\ \A x \in TopBlocks \ {0} : x \in Block /\ ~Closed(term, x) /\ x # ins
  BY TopPending
<1>2. Block' = Block /\ nb <= nb'
  BY <1>1 DEF Block
<1>3. /\ Len(work') = Len(work) - 1
      /\ \A i \in 1..(Len(work) - 1) : work'[i] = work[i]
  BY <1>1, FrontProps DEF Return, TypeOK, StackShape
<1>4. OnlyIn({ins} \cup TopBlocks)
  BY <1>2 DEF OnlyIn
<1>5. \A x \in {ins} \cup TopBlocks : x # 0 /\ ~Closed(term', x) => x = ins'
  BY <1>1, <1>2
<1>6. QED
  BY <1>3, <1>4, <1>5, ReturnShape

LEMMA EndElseShape ==
  ASSUME Shape, EndElse \/ EndWhile \/ EndFor
  PROVE  Shape'
<1>1. PICK d : Emit(0, fn[ins], One(ins, Br(d)), 0, 0)
  BY DEF EndElse, EndWhile, EndFor, Create
<1>2. /\ Top.k \in {"else", "body", "forpost"} /\ Return /\ ins' = Top.exit
  BY DEF EndElse, EndWhile, EndFor
<1>3. /\ nb \in Nat \ {0} /\ ins \in Block /\ TypeOK /\ StackShape
      /\ \A x \in TopBlocks \ {0} : x \in Block /\ ~Closed(term, x) /\ x # ins
      /\ FrameShape(Top, lang)
  BY TopPending
<1>4. TypeOK' /\ StackShape'
  BY <1>3, EndElseTypes, EndLoopTypes
<1>5. nb' = nb
  BY <1>1, <1>3, EmitCount
<1>6. \A x \in Block' :
        Closed(term', x) <=> x \in {ins} \/ (x \in Block /\ Closed(term, x))
  BY <1>1, <1>3, ClosingTerms, ClosedByOne
<1>7. \A x \in Block : code'[x] = code[x]
  BY <1>1, <1>3, CodeSame
<1>8. Top.exit # 0 /\ Top.cond = 0 /\ Top.body = 0 /\ Top.next = 0
  BY <1>2, <1>3 DEF FrameShape, SlotsInUse, Slots
<1>9. TopBlocks = {0, Top.exit}
  BY <1>8 DEF TopBlocks, SlotSet
<1>10. /\ Top.exit \in Block /\ ~Closed(term, Top.exit) /\ Top.exit # ins
  BY <1>3, <1>8, <1>9
<1>11. ~Closed(term', ins') /\ Block' = Block
  BY <1>2, <1>3, <1>5, <1>6, <1>10 DEF Block
<1>12. QED
  BY <1>2, <1>4, <1>5, <1>6, <1>7, <1>9, <1>10, <1>11, ReturnsShape

LEMMA EndCaseShape ==
  ASSUME Shape, EndCase
  PROVE  Shape'
<1>1. /\ Emit(0, fn[ins], One(ins, Br(Top.back)), 0, 0)
      /\ Top.k = "case" /\ Return /\ ins' = ins
  BY DEF EndCase, Create
<1>2. /\ nb \in Nat \ {0} /\ ins \in Block /\ TypeOK /\ StackShape
      /\ FrameShape(Top, lang)
  BY TopPending
<1>3. TypeOK' /\ StackShape'
  BY <1>2, EndCaseTypes
<1>4. nb' = nb
  BY <1>1, <1>2, EmitCount
<1>5. \A x \in Block' :
        Closed(term', x) <=> x \in {ins} \/ (x \in Block /\ Closed(term, x))
  BY <1>1, <1>2, ClosingTerms, ClosedByOne
<1>6. \A x \in Block : code'[x] = code[x]
  BY <1>1, <1>2, CodeSame
<1>7. TopBlocks = {0}
  <2>1. Top.exit = 0 /\ Top.cond = 0 /\ Top.body = 0 /\ Top.next = 0
    BY <1>1, <1>2 DEF FrameShape, SlotsInUse, Slots
  <2>2. QED
    BY <2>1 DEF TopBlocks, SlotSet
<1>8. Closed(term', ins') /\ Block' = Block
  BY <1>1, <1>2, <1>4, <1>5 DEF Block
<1>9. QED
  BY <1>1, <1>2, <1>3, <1>4, <1>5, <1>6, <1>7, <1>8, ReturnsShape

LEMMA EndThenShape ==
  ASSUME Shape, EndThen
  PROVE  Shape'
<1>. DEFINE f == [Top EXCEPT !.k = "else", !.next = 0]
<1>1. /\ Emit(0, fn[ins], One(ins, Br(Top.exit)), 0, 0)
      /\ Top.k = "then"
  BY DEF EndThen, Create
<1>2. /\ nb \in Nat \ {0} /\ ins \in Block /\ TypeOK /\ StackShape
      /\ \A x \in TopBlocks \ {0} : x \in Block /\ ~Closed(term, x) /\ x # ins
      /\ SlotsDiffer(Top) /\ FrameShape(Top, lang) /\ Top \in FrameType
  BY TopPending
<1>3. TypeOK' /\ StackShape'
  BY <1>2, EndThenTypes
<1>4. nb' = nb /\ Block' = Block
  <2>1. nb' = nb
    BY <1>1, <1>2, EmitCount
  <2>2. QED
    BY <2>1 DEF Block
<1>5. \A x \in Block' :
        Closed(term', x) <=> x \in {ins} \/ (x \in Block /\ Closed(term, x))
  BY <1>1, <1>2, ClosingTerms, ClosedByOne
<1>6. \A x \in Block : code'[x] = code[x]
  BY <1>1, <1>2, CodeSame
<1>7. Top.exit # 0 /\ Top.cond = 0 /\ Top.body = 0
  BY <1>1, <1>2 DEF FrameShape, SlotsInUse, Slots
<1>8. TopBlocks = {0, Top.next, Top.exit}
  BY <1>7 DEF TopBlocks, SlotSet
<1>9. CASE Top.next # 0
  <2>1. ins' = Top.next /\ Become(f)
    BY <1>9 DEF EndThen
  <2>2. /\ f.cond = 0 /\ f.body = 0 /\ f.next = 0 /\ f.exit = Top.exit
        /\ f.k = "else"
    BY <1>2, <1>7 DEF FrameType
  <2>. HIDE DEF f
  <2>3. /\ Len(work') = Len(work) /\ work'[Len(work)] = f
        /\ \A i \in 1..(Len(work) - 1) : work'[i] = work[i]
    BY <1>2, <2>1, BecomeFrames
  <2>4. SlotSet(f) = {0, Top.exit} /\ SlotsDiffer(f)
    BY <2>2 DEF SlotSet, SlotsDiffer
  <2>5. Top.exit # Top.next
    BY <1>2, <1>9 DEF SlotsDiffer
  <2>6. OnlyIn({ins} \cup TopBlocks)
    BY <1>2, <1>4, <1>5, <1>6, <1>8, <2>1 DEF OnlyIn
  <2>7. ~Closed(term', Top.next) /\ ~Closed(term', Top.exit) /\ Closed(term', ins)
    BY <1>2, <1>4, <1>5, <1>7, <1>8, <1>9
  <2>8. QED
    BY <1>1, <1>2, <1>3, <1>4, <1>8, <2>1, <2>2, <2>3, <2>4, <2>5, <2>6, <2>7,
       BecomeShape
<1>10. CASE Top.next = 0
  <2>1. ins' = Top.exit /\ Return
    BY <1>10 DEF EndThen
  <2>2. /\ Top.exit \in Block /\ ~Closed(term, Top.exit) /\ Top.exit # ins
    BY <1>2, <1>7, <1>8
  <2>3. ~Closed(term', ins')
    BY <1>4, <1>5, <2>1, <2>2
  <2>4. QED
    BY <1>1, <1>3, <1>4, <1>5, <1>6, <1>8, <1>10, <2>1, <2>2, <2>3, ReturnsShape
<1>11. QED
  BY <1>9, <1>10

LEMMA EndAsmInitShape ==
  ASSUME Shape, EndAsmInit
  PROVE  Shape'
<1>. DEFINE f == [Top EXCEPT !.k = "forbody", !.cond = 0, !.body = 0,
                             !.back = Top.cond]
<1>1. /\ Emit(0, fn[ins], Two(ins, Br(Top.cond), Top.cond,
                             CondBr(Top.body, Top.exit, Top.node)), 0, 0)
      /\ Top.k = "asminit" /\ ins' = Top.body /\ Become(f)
  BY DEF EndAsmInit, Create
<1>2. /\ nb \in Nat \ {0} /\ ins \in Block /\ TypeOK /\ StackShape
      /\ \A x \in TopBlocks \ {0} : x \in Block /\ ~Closed(term, x) /\ x # ins
      /\ SlotsDiffer(Top) /\ FrameShape(Top, lang) /\ Top \in FrameType
  BY TopPending
<1>3. TypeOK' /\ StackShape'
  BY <1>2, EndAsmInitTypes
<1>4. nb' = nb /\ Block' = Block
  <2>1. nb' = nb
    BY <1>1, <1>2, EmitCount
  <2>2. QED
    BY <2>1 DEF Block
<1>5. \A x \in Block' :
        Closed(term', x) <=> x \in {ins, Top.cond} \/ (x \in Block /\ Closed(term, x))
  BY <1>1, <1>2, ClosingTerms, ClosedByTwo
<1>6. \A x \in Block : code'[x] = code[x]
  BY <1>1, <1>2, CodeSame
<1>7. Top.exit # 0 /\ Top.cond # 0 /\ Top.body # 0 /\ Top.next # 0
  BY <1>1, <1>2 DEF FrameShape, SlotsInUse, Slots
<1>8. TopBlocks = {Top.cond, Top.body, Top.next, Top.exit}
  BY <1>7 DEF TopBlocks, SlotSet
<1>9. /\ f.cond = 0 /\ f.body = 0 /\ f.next = Top.next /\ f.exit = Top.exit
      /\ f.k = "forbody"
  BY <1>2 DEF FrameType
<1>. HIDE DEF f
<1>10. /\ Len(work') = Len(work) /\ work'[Len(work)] = f
       /\ \A i \in 1..(Len(work) - 1) : work'[i] = work[i]
  BY <1>1, <1>2, BecomeFrames
<1>11. SlotSet(f) = {0, Top.next, Top.exit} /\ SlotsDiffer(f)
  BY <1>2, <1>9 DEF SlotSet, SlotsDiffer
<1>12. /\ Top.cond \notin {Top.body, Top.next, Top.exit}
       /\ Top.body \notin {Top.next, Top.exit}
  BY <1>2, <1>7 DEF SlotsDiffer
<1>13. OnlyIn({ins} \cup TopBlocks)
  BY <1>1, <1>2, <1>4, <1>5, <1>6, <1>8 DEF OnlyIn
<1>14. /\ Closed(term', ins) /\ Closed(term', Top.cond)
       /\ ~Closed(term', Top.body) /\ ~Closed(term', Top.next)
       /\ ~Closed(term', Top.exit)
  BY <1>2, <1>4, <1>5, <1>7, <1>8, <1>12
<1>15. QED
  BY <1>1, <1>3, <1>4, <1>8, <1>9, <1>10, <1>11, <1>12, <1>13, <1>14, BecomeShape

LEMMA EndForBodyShape ==
  ASSUME Shape, EndForBody
  PROVE  Shape'
<1>. DEFINE f == [Top EXCEPT !.k = "forpost", !.next = 0]
<1>1. /\ Emit(0, fn[ins], One(ins, Br(Top.next)), 0, 0)
      /\ Top.k = "forbody" /\ ins' = Top.next /\ Become(f)
  BY DEF EndForBody, Create
<1>2. /\ nb \in Nat \ {0} /\ ins \in Block /\ TypeOK /\ StackShape
      /\ \A x \in TopBlocks \ {0} : x \in Block /\ ~Closed(term, x) /\ x # ins
      /\ SlotsDiffer(Top) /\ FrameShape(Top, lang) /\ Top \in FrameType
  BY TopPending
<1>3. TypeOK' /\ StackShape'
  BY <1>2, EndForBodyTypes
<1>4. nb' = nb /\ Block' = Block
  <2>1. nb' = nb
    BY <1>1, <1>2, EmitCount
  <2>2. QED
    BY <2>1 DEF Block
<1>5. \A x \in Block' :
        Closed(term', x) <=> x \in {ins} \/ (x \in Block /\ Closed(term, x))
  BY <1>1, <1>2, ClosingTerms, ClosedByOne
<1>6. \A x \in Block : code'[x] = code[x]
  BY <1>1, <1>2, CodeSame
<1>7. Top.exit # 0 /\ Top.next # 0 /\ Top.cond = 0 /\ Top.body = 0
  BY <1>1, <1>2 DEF FrameShape, SlotsInUse, Slots
<1>8. TopBlocks = {0, Top.next, Top.exit}
  BY <1>7 DEF TopBlocks, SlotSet
<1>9. /\ f.cond = 0 /\ f.body = 0 /\ f.next = 0 /\ f.exit = Top.exit
      /\ f.k = "forpost"
  BY <1>2, <1>7 DEF FrameType
<1>. HIDE DEF f
<1>10. /\ Len(work') = Len(work) /\ work'[Len(work)] = f
       /\ \A i \in 1..(Len(work) - 1) : work'[i] = work[i]
  BY <1>1, <1>2, BecomeFrames
<1>11. SlotSet(f) = {0, Top.exit} /\ SlotsDiffer(f) /\ Top.exit # Top.next
  BY <1>2, <1>7, <1>9 DEF SlotSet, SlotsDiffer
<1>12. OnlyIn({ins} \cup TopBlocks)
  BY <1>1, <1>2, <1>4, <1>5, <1>6, <1>8 DEF OnlyIn
<1>13. ~Closed(term', Top.next) /\ ~Closed(term', Top.exit) /\ Closed(term', ins)
  BY <1>2, <1>4, <1>5, <1>7, <1>8
<1>14. QED
  BY <1>1, <1>3, <1>4, <1>8, <1>9, <1>10, <1>11, <1>12, <1>13, BecomeShape

\* The switch whose cases are being visited.
LEMMA TopSwitch ==
  ASSUME Shape, Top.k = "switch"
  PROVE  /\ Closed(term, ins) /\ Closed(term, Top.sw)
         /\ Top.sw \in Block /\ Top.back \in Block
         /\ Top.exit # 0 /\ Top.cond = 0 /\ Top.body = 0
         /\ Top.next # 0 => Top.next = Top.back /\ code[Top.back] = <<>>
         /\ Top.next = 0 => Closed(term, Top.back)
<1>1. /\ Len(work) \in Nat \ {0} /\ Len(work) \in DOMAIN work
      /\ work[Len(work)] = Top /\ nb \in Nat
  BY TopType DEF Shape, TypeOK, Top
<1>2. Closed(term, ins)
  BY DEF Shape, InsertBlockState, Terminated, Closed
<1>3. SwitchFrame(Len(work), work, term, code, ins)
  BY <1>1, SwitchFrames DEF Shape
<1>4. Top \in FrameType /\ FrameShape(Top, lang)
  BY TopPending
<1>5. Top.sw \in Block /\ Top.back \in Block
  <2>1. Top.sw \in BlockOr0 /\ Top.back \in BlockOr0
    BY <1>4 DEF FrameType
  <2>2. QED
    BY <1>1, <1>4, <2>1 DEF FrameShape, Block, BlockOr0
<1>6. Top.exit # 0 /\ Top.cond = 0 /\ Top.body = 0
  BY <1>4 DEF FrameShape, SlotsInUse, Slots
<1>7. (Len(work) + 1)..Len(work) = {}
  BY <1>1
<1>8. QED
  BY <1>1, <1>2, <1>3, <1>5, <1>6, <1>7 DEF SwitchFrame

LEMMA EndSwitchShape ==
  ASSUME Shape, EndSwitch
  PROVE  Shape'
<1>1. Top.k = "switch" /\ Return /\ ins' = Top.exit
  BY DEF EndSwitch
<1>2. /\ nb \in Nat \ {0} /\ ins \in Block /\ TypeOK /\ StackShape
      /\ \A x \in TopBlocks \ {0} : x \in Block /\ ~Closed(term, x) /\ x # ins
      /\ SlotsDiffer(Top)
  BY TopPending
<1>3. /\ Closed(term, ins) /\ Top.back \in Block
      /\ Top.exit # 0 /\ Top.cond = 0 /\ Top.body = 0
      /\ Top.next # 0 => Top.next = Top.back /\ code[Top.back] = <<>>
      /\ Top.next = 0 => Closed(term, Top.back)
  BY <1>1, TopSwitch
<1>4. TypeOK' /\ StackShape'
  BY <1>2, EndSwitchTypes
<1>5. TopBlocks = {0, Top.next, Top.exit}
  BY <1>3 DEF TopBlocks, SlotSet
<1>6. Top.exit \in Block /\ ~Closed(term, Top.exit) /\ Top.exit # ins
  BY <1>2, <1>3, <1>5
<1>7. CASE Top.next # 0
  <2>1. EmptyBB(Top.back)
    BY <1>2, <1>3, <1>5, <1>7 DEF EmptyBB, Terminated, Closed
  <2>2. Emit(0, fn[ins], One(Top.back, Br(Top.exit)), 0, 0)
    BY <2>1 DEF EndSwitch, Create
  <2>3. nb' = nb /\ Block' = Block
    <3>1. nb' = nb
      BY <1>2, <2>2, EmitCount
    <3>2. QED
      BY <3>1 DEF Block
  <2>4. \A x \in Block' :
          Closed(term', x) <=> x \in {Top.back} \/ (x \in Block /\ Closed(term, x))
    BY <1>2, <2>2, ClosingTerms, ClosedByOne
  <2>5. \A x \in Block : code'[x] = code[x]
    BY <1>2, <2>2, CodeSame
  <2>6. Top.exit # Top.back /\ Top.back = Top.next
    BY <1>2, <1>3, <1>7 DEF SlotsDiffer
  <2>7. ~Closed(term', ins')
    BY <1>1, <1>6, <2>3, <2>4, <2>6
  <2>8. QED
    BY <1>1, <1>3, <1>4, <1>5, <1>6, <2>3, <2>4, <2>5, <2>6, <2>7, ReturnsShape
<1>8. CASE Top.next = 0
  <2>. DEFINE D == {}
  <2>1. ~EmptyBB(Top.back)
    BY <1>3, <1>8 DEF EmptyBB, Terminated, Closed
  <2>2. Emit(0, fn[ins], <<>>, 0, 0)
    BY <2>1 DEF EndSwitch, Create
  <2>3. nb' = nb /\ Block' = Block
    <3>1. nb' = nb
      BY <1>2, <2>2, EmitCount
    <3>2. QED
      BY <3>1 DEF Block
  <2>4. \A x \in Block' :
          Closed(term', x) <=> x \in D \/ (x \in Block /\ Closed(term, x))
    BY <1>2, <2>2, ClosedByNone
  <2>5. \A x \in Block : code'[x] = code[x]
    BY <1>2, <2>2, CodeSame
  <2>6. ~Closed(term', ins')
    BY <1>1, <1>6, <2>3, <2>4
  <2>7. /\ D \subseteq {ins} \cup TopBlocks
        /\ ins \in D \/ Closed(term, ins)
        /\ Closed(term', ins') <=> Top.k = "case"
        /\ ins' \in {ins} \cup TopBlocks /\ ins' \in Block
        /\ \A x \in TopBlocks \ {0} : x \in D \/ x = ins'
    BY <1>1, <1>3, <1>5, <1>6, <1>8, <2>3, <2>6
  <2>. HIDE DEF D
  <2>8. QED
    BY <1>1, <1>4, <2>3, <2>4, <2>5, <2>7, ReturnsShape
<1>9. QED
  BY <1>7, <1>8

\* The tail of a function closes the insert block and the return block.
LEMMA TailCloses ==
  ASSUME Shape, Top.k # "switch", Top.exit \in Block,
         Emit(0, fn[ins], FunctionTail, 0, 0)
  PROVE  /\ nb' = nb /\ Block' = Block
         /\ \A x \in Block' :
              Closed(term', x) <=> x \in {ins, Top.exit} \/ (x \in Block /\ Closed(term, x))
         /\ \A x \in Block : code'[x] = code[x]
<1>1. ~Closed(term, ins) /\ ins \in Block /\ nb \in Nat \ {0} /\ TypeOK
  BY Here
<1>2. Emit(0, fn[ins], Two(ins, Br(Top.exit), Top.exit, Ret), 0, 0)
  BY <1>1 DEF FunctionTail, Terminated, Closed
<1>3. nb' = nb
  BY <1>1, <1>2, EmitCount
<1>4. Block' = Block
  BY <1>3 DEF Block
<1>5. \A x \in Block' :
        Closed(term', x) <=> x \in {ins, Top.exit} \/ (x \in Block /\ Closed(term, x))
  BY <1>1, <1>2, ClosingTerms, ClosedByTwo
<1>6. \A x \in Block : code'[x] = code[x]
  BY <1>1, <1>2, CodeSame
<1>7. QED
  BY <1>3, <1>4, <1>5, <1>6

LEMMA EndFunShape ==
  ASSUME Shape, EndFun
  PROVE  Shape'
<1>1. /\ Emit(0, fn[ins], FunctionTail, 0, 0)
      /\ Top.k = "fun" /\ Return /\ ins' = Top.next
  BY DEF EndFun, Create
<1>2. /\ nb \in Nat \ {0} /\ ins \in Block /\ TypeOK /\ StackShape
      /\ \A x \in TopBlocks \ {0} : x \in Block /\ ~Closed(term, x) /\ x # ins
      /\ SlotsDiffer(Top) /\ FrameShape(Top, lang)
  BY TopPending
<1>3. TypeOK' /\ StackShape'
  BY <1>2, EndFunTypes
<1>4. Top.exit # 0 /\ Top.next # 0 /\ Top.cond = 0 /\ Top.body = 0
  BY <1>1, <1>2 DEF FrameShape, SlotsInUse, Slots
<1>5. TopBlocks = {0, Top.next, Top.exit}
  BY <1>4 DEF TopBlocks, SlotSet
<1>6. /\ Top.exit \in Block /\ Top.next \in Block /\ Top.next # Top.exit
      /\ ~Closed(term, Top.next) /\ Top.next # ins
  BY <1>2, <1>4, <1>5 DEF SlotsDiffer
<1>7. /\ nb' = nb /\ Block' = Block
      /\ \A x \in Block' :
           Closed(term', x) <=> x \in {ins, Top.exit} \/ (x \in Block /\ Closed(term, x))
      /\ \A x \in Block : code'[x] = code[x]
  BY <1>1, <1>6, TailCloses
<1>8. ~Closed(term', ins')
  BY <1>1, <1>6, <1>7
<1>9. QED
  BY <1>1, <1>3, <1>5, <1>6, <1>7, <1>8, ReturnsShape

LEMMA OpenCaseShape ==
  ASSUME Shape, OpenCase
  PROVE  Shape'
<1>. DEFINE t == [term[Top.sw] EXCEPT !.to = Append(@, nb + 1)]
            f == [Call("case", NewNode) EXCEPT !.back = Top.exit]
<1>1. /\ Emit(1, fn[ins], One(Top.sw, t), 0, 0)
      /\ Top.k = "switch" /\ Push(f) /\ ins' = nb + 1
  BY DEF OpenCase, Create
<1>2. /\ nb \in Nat \ {0} /\ ins \in Block /\ TypeOK /\ StackShape
      /\ Closed(term, ins) /\ Closed(term, Top.sw) /\ Top.sw \in Block
  BY <1>1, TopSwitch, TopPending
<1>3. TypeOK' /\ StackShape'
  BY <1>2, OpenCaseTypes
<1>4. nb' = nb + 1
  BY <1>1, <1>2, EmitCount
<1>5. \A x \in Block' :
        Closed(term', x) <=> x = Top.sw \/ (x \in Block /\ Closed(term, x))
  <2>1. t.op # "none"
    BY <1>2 DEF Closed, TypeOK, TermType, TermsTo
  <2>. HIDE DEF t
  <2>2. QED
    BY <1>1, <1>2, <2>1, ClosedByOne
<1>6. \A x \in Block : code'[x] = code[x]
  <2>. HIDE DEF t
  <2>. QED
    BY <1>1, <1>2, CodeSame
<1>7. /\ f.cond = 0 /\ f.body = 0 /\ f.next = 0 /\ f.exit = 0 /\ f.k = "case"
  BY DEF Call
<1>. HIDE DEF f, t
<1>8. SlotSet(f) = {0} /\ SlotsDiffer(f)
  BY <1>7 DEF SlotSet, SlotsDiffer
<1>9. /\ Len(work') = Len(work) + 1
      /\ \A i \in 1..Len(work) : work'[i] = work[i]
      /\ work'[Len(work) + 1] = f
  BY <1>1, <1>2 DEF Push, TypeOK
<1>10. /\ NewBlocks = {nb + 1} /\ Block' = Block \cup {nb + 1}
       /\ nb + 1 \notin Block /\ nb <= nb'
  BY <1>2, <1>4 DEF NewBlocks, Block
<1>11. \A x \in Block : Closed(term', x) <=> Closed(term, x)
  BY <1>2, <1>5, <1>10
<1>12. OnlyIn({ins} \cup NewBlocks)
  BY <1>1, <1>6, <1>10, <1>11 DEF OnlyIn
<1>13. ~Closed(term', nb + 1) /\ Closed(term', ins)
  BY <1>2, <1>5, <1>10, <1>11
<1>14. QED
  BY <1>1, <1>3, <1>7, <1>8, <1>9, <1>10, <1>12, <1>13, PushShape

LEMMA OpenDefaultShape ==
  ASSUME Shape, OpenDefault
  PROVE  Shape'
<1>. DEFINE f == [Top EXCEPT !.next = 0]
            g == [Call("case", NewNode) EXCEPT !.back = Top.exit]
            m == Len(work) - 1
<1>1. /\ Top.k = "switch" /\ Top.next # 0 /\ ins' = Top.back
      /\ work' = Append(Append(Front(work), f), g)
      /\ UNCHANGED <<lang, nb, fn, term, code>>
  BY DEF OpenDefault
<1>2. /\ nb \in Nat \ {0} /\ ins \in Block /\ TypeOK /\ StackShape
      /\ \A x \in TopBlocks \ {0} : x \in Block /\ ~Closed(term, x) /\ x # ins
      /\ SlotsDiffer(Top) /\ FrameShape(Top, lang) /\ Top \in FrameType
      /\ PendingInv /\ SwitchShape /\ InsertBlockState /\ CaseInSwitch
  BY TopPending DEF Shape
<1>3. /\ Closed(term, ins) /\ Closed(term, Top.sw)
      /\ Top.sw \in Block /\ Top.back \in Block
      /\ Top.exit # 0 /\ Top.cond = 0 /\ Top.body = 0
      /\ Top.next = Top.back /\ code[Top.back] = <<>>
  BY <1>1, TopSwitch
<1>4. TypeOK' /\ StackShape'
  BY <1>2, OpenDefaultTypes
<1>5. /\ f.cond = 0 /\ f.body = 0 /\ f.next = 0 /\ f.exit = Top.exit
      /\ f.k = "switch" /\ f.sw = Top.sw /\ f.back = Top.back
  BY <1>1, <1>2, <1>3 DEF FrameType
<1>6. /\ g.cond = 0 /\ g.body = 0 /\ g.next = 0 /\ g.exit = 0 /\ g.k = "case"
  BY DEF Call
<1>. HIDE DEF f, g
<1>7. /\ m \in Nat /\ Len(work') = m + 2 /\ Len(work) = m + 1
      /\ \A i \in 1..m : work'[i] = work[i]
      /\ work'[m + 1] = f /\ work'[m + 2] = g
  <2>. DEFINE rest == Front(work)
              mid == Append(rest, f)
  <2>1. Len(work) \in Nat \ {0}
    BY <1>2, TopType
  <2>2. /\ rest \in Seq(FrameType)
        /\ Len(rest) = Len(work) - 1
        /\ \A i \in 1..(Len(work) - 1) : rest[i] = work[i]
    BY <1>2, FrontProps DEF TypeOK, StackShape
  <2>. HIDE DEF rest
  <2>3. /\ Len(mid) = Len(work) /\ mid[Len(work)] = f
        /\ \A i \in 1..(Len(work) - 1) : mid[i] = work[i]
        /\ mid \in Seq(FrameType \cup {f})
    BY <2>1, <2>2
  <2>4. work' = Append(mid, g)
    BY <1>1 DEF rest
  <2>. HIDE DEF mid
  <2>5. QED
    BY <2>1, <2>3, <2>4
<1>. HIDE DEF m
<1>8. TopBlocks = {0, Top.next, Top.exit} /\ SlotSet(f) = {0, Top.exit} /\ SlotSet(g) = {0}
  BY <1>3, <1>5, <1>6 DEF TopBlocks, SlotSet
<1>9. Top.exit # Top.next
  BY <1>1, <1>2 DEF SlotsDiffer
<1>10. InPlay(m) = {ins, 0, Top.next, Top.exit}
  <2>1. (m + 1)..Len(work) = {Len(work)} /\ (nb + 1)..nb' = {}
    <3>1. (m + 1)..Len(work) = {Len(work)}
      BY <1>7
    <3>2. nb' = nb
      BY <1>1
    <3>3. (nb + 1)..nb' = {}
      BY <1>2, <3>2
    <3>4. QED
      BY <3>1, <3>3
  <2>2. {work[Len(work)][t] : t \in Slots} = TopBlocks
    BY SlotSets DEF TopBlocks, Top
  <2>3. {work[i][s] : i \in (m + 1)..Len(work), s \in Slots} = TopBlocks
    BY <2>1, <2>2
  <2>4. InPlay(m) = {ins} \cup TopBlocks
    BY <2>1, <2>3 DEF InPlay
  <2>5. QED
    BY <1>8, <2>4
<1>11. StepFacts(m)
  <2>1. term' = term /\ code' = code /\ Block' = Block
    BY <1>1 DEF Block
  <2>2. QED
    BY <1>1, <1>2, <1>3, <1>7, <1>10, <2>1 DEF StepFacts
<1>12. (m + 1)..Len(work') = {m + 1, m + 2}
  BY <1>7
<1>13. /\ \A s \in Slots : f[s] \in {0, Top.exit} /\ g[s] = 0
       /\ f["exit"] = Top.exit
       /\ \A s, t \in Slots : f[s] # 0 /\ f[s] = f[t] => s = t
  <2>1. SlotsDiffer(f)
    BY <1>5 DEF SlotsDiffer
  <2>2. QED
    BY <1>5, <1>8, <2>1, SlotSets
<1>14. NewFacts(m)
  <2>1. \A b \in InPlay(m) : b # 0 /\ ~Closed(term', b) =>
          b = ins' \/ \E i \in (m + 1)..Len(work'), s \in Slots : work'[i][s] = b
    <3>1. "exit" \in Slots
      BY DEF Slots
    <3>2. work'[m + 1]["exit"] = Top.exit
      BY <1>7, <1>13
    <3>3. QED
      BY <1>1, <1>3, <1>10, <1>12, <3>1, <3>2
  <2>2. \A i \in (m + 1)..Len(work'), s \in Slots : work'[i][s] # 0 =>
          /\ work'[i][s] \in InPlay(m)
          /\ ~Closed(term', work'[i][s])
          /\ work'[i][s] # ins'
    <3>1. Top.exit \in InPlay(m) /\ ~Closed(term', Top.exit) /\ Top.exit # ins'
      BY <1>1, <1>2, <1>3, <1>8, <1>9, <1>10
    <3>2. QED
      BY <1>7, <1>12, <1>13, <3>1
  <2>3. \A i, j \in (m + 1)..Len(work'), s, t \in Slots :
          work'[i][s] # 0 /\ work'[i][s] = work'[j][t] => i = j /\ s = t
    BY <1>7, <1>12, <1>13
  <2>4. QED
    BY <2>1, <2>2, <2>3 DEF NewFacts
<1>15. nb <= nb'
  BY <1>1, <1>2
<1>16. PendingInv'
  BY <1>2, <1>4, <1>7, <1>11, <1>14, <1>15, StepPending
<1>17. SwitchShape'
  <2>1. \A i \in (m + 1)..Len(work') : work'[i].k = "switch" =>
          SwitchFrame(i, work', term', code', ins')
    BY <1>1, <1>3, <1>5, <1>6, <1>7, <1>12 DEF SwitchFrame
  <2>2. QED
    BY <1>2, <1>4, <1>7, <1>11, <1>14, <2>1, StepSwitch
<1>18. InsertBlockState'
  <2>1. ~Closed(term', ins')
    BY <1>1, <1>2, <1>3, <1>8
  <2>2. QED
    BY <1>4, <1>6, <1>7, <2>1, InsertState DEF StackShape
<1>19. CaseInSwitch'
  <2>1. SUFFICES ASSUME NEW i \in 2..(m + 2)
                 PROVE  work'[i].k = "case" <=> work'[i - 1].k = "switch"
    BY <1>7 DEF CaseInSwitch
  <2>2. CASE i = m + 2
    BY <1>5, <1>6, <1>7, <2>2
  <2>3. CASE i = m + 1
    <3>1. work[i].k = "case" <=> work[i - 1].k = "switch"
      BY <1>2, <1>7, <2>3 DEF CaseInSwitch
    <3>2. work'[i - 1] = work[i - 1] /\ work[i].k = "switch" /\ work'[i].k = "switch"
      <4>1. i - 1 \in 1..m
        BY <1>7, <2>1, <2>3
      <4>2. work[i] = Top
        BY <1>7, <2>3 DEF Top
      <4>3. work'[i] = f
        BY <1>7, <2>3
      <4>4. QED
        BY <1>1, <1>5, <1>7, <4>1, <4>2, <4>3
    <3>3. QED
      BY <3>1, <3>2
  <2>4. CASE i \in 2..m
    <3>1. work'[i] = work[i] /\ work'[i - 1] = work[i - 1] /\ i \in 2..Len(work)
      BY <1>7, <2>4
    <3>2. QED
      BY <1>2, <3>1 DEF CaseInSwitch
  <2>5. QED
    BY <1>7, <2>1, <2>2, <2>3, <2>4
<1>20. QED
  BY <1>4, <1>16, <1>17, <1>18, <1>19 DEF Shape
-----------------------------------------------------------------------------
(* The end of the function, its start, and the invariant.                  *)

LEMMA EndRootCloses ==
  ASSUME Shape, EndRoot
  PROVE  \A b \in Block' : Closed(term', b)
<1>1. /\ nb \in Nat \ {0} /\ ins \in Block /\ TypeOK /\ StackShape
      /\ \A x \in TopBlocks \ {0} : x \in Block /\ ~Closed(term, x) /\ x # ins
      /\ FrameShape(Top, lang) /\ Top.k = "root"
  BY TopPending DEF EndRoot
<1>2. Len(work) = 1 /\ Top = work[1] /\ DOMAIN work = {1}
  <2>1. Len(work) \in Nat \ {0} /\ DOMAIN work = 1..Len(work)
    BY <1>1, TopType DEF TypeOK
  <2>2. Len(work) = 1
    BY <1>1, <2>1 DEF StackShape, Top
  <2>3. QED
    BY <2>1, <2>2 DEF Top
<1>3. \A b \in Block : ~Closed(term, b) => b = ins \/ \E s \in Slots : Top[s] = b
  BY <1>2 DEF Shape, PendingInv, OpenIsPending, Terminated, Closed
<1>4. \A b \in Block : b # 0
  BY DEF Block
<1>5. CASE lang = "sol"
  <2>1. Emit(0, fn[ins], FunctionTail, 0, 0)
    BY <1>5 DEF EndRoot, Create
  <2>2. Top.exit # 0 /\ \A s \in Slots : Top[s] # 0 => Top[s] = Top.exit
    BY <1>1, <1>5 DEF FrameShape, SlotsInUse, Slots
  <2>3. Top.exit \in Block
    <3>1. Top.exit \in TopBlocks
      BY DEF TopBlocks, SlotSet
    <3>2. QED
      BY <1>1, <2>2, <3>1
  <2>4. /\ Block' = Block
        /\ \A x \in Block' :
             Closed(term', x) <=> x \in {ins, Top.exit} \/ (x \in Block /\ Closed(term, x))
    BY <1>1, <2>1, <2>3, TailCloses
  <2>5. QED
    BY <1>3, <1>4, <2>2, <2>4
<1>6. CASE lang # "sol"
  <2>1. Emit(0, fn[ins], One(ins, Ret), 0, 0)
    BY <1>6 DEF EndRoot, Create
  <2>2. \A s \in Slots : Top[s] = 0
    BY <1>1, <1>6 DEF FrameShape, SlotsInUse
  <2>3. nb' = nb
    BY <1>1, <2>1, EmitCount
  <2>4. Block' = Block
    BY <2>3 DEF Block
  <2>5. \A x \in Block' :
          Closed(term', x) <=> x = ins \/ (x \in Block /\ Closed(term, x))
    BY <1>1, <2>1, ClosingTerms, ClosedByOne
  <2>6. QED
    BY <1>3, <1>4, <2>2, <2>4, <2>5
<1>7. QED
  BY <1>5, <1>6

LEMMA InitShape == Init => Shape /\ pc = "emit"
<1>1. SUFFICES ASSUME Init PROVE Shape /\ pc = "emit"
  OBVIOUS
<1>2. TypeOK /\ StackShape /\ pc = "emit"
  BY <1>1, InitTypes DEF Init, TypeInv
<1>3. /\ work \in Seq(FrameType) /\ Len(work) = 1 /\ DOMAIN work = {1}
      /\ work[1].k = "root" /\ Top = work[1]
      /\ \A s \in {"cond", "body", "next"} : work[1][s] = 0
  <2>1. CASE InitSol
    <3>. DEFINE f == [Call("root", 0) EXCEPT !.exit = 2]
    <3>1. work = <<f>>
      BY <2>1 DEF InitSol
    <3>2. f.k = "root" /\ \A s \in {"cond", "body", "next"} : f[s] = 0
      BY DEF Call
    <3>. HIDE DEF f
    <3>3. QED
      BY <1>2, <3>1, <3>2 DEF Top, TypeOK
  <2>2. CASE InitYul
    <3>. DEFINE f == Call("root", 0)
    <3>1. work = <<f>>
      BY <2>2 DEF InitYul
    <3>2. f.k = "root" /\ \A s \in {"cond", "body", "next"} : f[s] = 0
      BY DEF Call
    <3>. HIDE DEF f
    <3>3. QED
      BY <1>2, <3>1, <3>2 DEF Top, TypeOK
  <2>3. QED
    BY <1>1, <2>1, <2>2 DEF Init
<1>4. CaseInSwitch
  BY <1>3 DEF CaseInSwitch
<1>5. \A s \in Slots : work[1][s] # 0 => s = "exit"
  BY <1>3 DEF Slots
<1>6. /\ ~Closed(term, ins) /\ ins # work[1].exit /\ ins # 0
      /\ work[1].exit # 0 => ~Closed(term, work[1].exit)
      /\ \A b \in Block : ~Closed(term, b) => b = ins \/ b = work[1].exit
  <2>1. CASE InitSol
    <3>1. work[1].exit = 2
      BY <2>1 DEF InitSol, Call
    <3>2. CASE nb = 2
      <4>1. ins = 1 /\ term = [b \in 1..2 |-> None] /\ Block = {1, 2}
        BY <2>1, <3>2 DEF InitSol, Block
      <4>2. QED
        BY <3>1, <4>1 DEF Closed, None, Terminator
    <3>3. CASE nb = 4
      <4>1. /\ ins = 3 /\ term = <<CondBr(4, 3, 1), None, None, Unreachable(1)>>
            /\ Block = {1, 2, 3, 4}
        BY <2>1, <3>3 DEF InitSol, Block
      <4>2. /\ Closed(term, 1) /\ ~Closed(term, 2) /\ ~Closed(term, 3)
            /\ Closed(term, 4)
        BY <4>1 DEF Closed, None, Terminator, CondBr, Unreachable
      <4>3. QED
        BY <3>1, <4>1, <4>2
    <3>4. QED
      BY <2>1, <3>2, <3>3 DEF InitSol
  <2>2. CASE InitYul
    <3>1. work[1].exit = 0
      BY <2>2 DEF InitYul, Call
    <3>2. ins = 1 /\ term = <<None>> /\ Block = {1}
      BY <2>2 DEF InitYul, Block
    <3>3. ~Closed(term, 1)
      BY <3>2 DEF Closed, None, Terminator
    <3>4. QED
      BY <3>1, <3>2, <3>3
  <2>3. QED
    BY <1>1, <2>1, <2>2 DEF Init
<1>7. PendingOpen
  BY <1>3, <1>5, <1>6 DEF PendingOpen, Terminated, Closed
<1>8. PendingDistinct
  BY <1>3, <1>5 DEF PendingDistinct
<1>9. OpenIsPending
  <2>1. "exit" \in Slots
    BY DEF Slots
  <2>2. \A b \in Block : ~Closed(term, b) =>
          b = ins \/ \E i \in DOMAIN work, s \in Slots : work[i][s] = b
    BY <1>3, <1>6, <2>1
  <2>3. QED
    BY <2>2 DEF OpenIsPending, Terminated, Closed
<1>10. InsertBlockState
  BY <1>3, <1>6 DEF InsertBlockState, Terminated, Closed
<1>11. SwitchShape
  BY <1>3 DEF SwitchShape
<1>12. QED
  BY <1>2, <1>4, <1>7, <1>8, <1>9, <1>10, <1>11 DEF Shape, PendingInv

\* While it runs the emitter keeps Shape; when it ends every block is closed.
EmitterInv ==
  /\ TypeOK
  /\ pc = "emit" => Shape
  /\ AllBlocksTerminated

LEMMA StatementKeeps ==
  ASSUME EmitterInv, Statement
  PROVE  EmitterInv'
<1>1. pc = "emit" /\ Shape
  BY DEF EmitterInv, Statement, EmitAct, EmitRequire, EmitRevert, EmitReturn,
         LeaveUndefined, EmitJump, JumpOutsideLoop, MayJump, OpenIf,
         OpenThen, OpenWhile, OpenFor, OpenAsmFor, OpenSwitch, OpenFun,
         MayCome
<1>2. CASE LeaveUndefined \/ JumpOutsideLoop
  <2>1. TypeOK' /\ pc' # "emit" /\ pc' # "done"
    BY <1>1, <1>2, GoneTypes DEF Shape
  <2>2. QED
    BY <2>1 DEF EmitterInv, AllBlocksTerminated
<1>3. CASE ~(LeaveUndefined \/ JumpOutsideLoop)
  <2>1. Shape'
    BY <1>1, <1>3, EmitActShape, EmitRequireShape, JumpsShape, OpenIfShape,
       OpenWhileShape, OpenForShape, OpenAsmForShape, OpenSwitchShape,
       OpenFunShape
    DEF Statement
  <2>2. pc' = "emit"
    BY <1>1, <1>3
    DEF Statement, EmitAct, EmitRequire, EmitRevert, EmitReturn, EmitJump,
        OpenIf, OpenThen, OpenWhile, OpenFor, OpenAsmFor, OpenSwitch, OpenFun
  <2>3. QED
    BY <2>1, <2>2 DEF EmitterInv, AllBlocksTerminated, Shape
<1>4. QED
  BY <1>2, <1>3

LEMMA SectionKeeps ==
  ASSUME EmitterInv, Section
  PROVE  EmitterInv'
<1>1. pc = "emit" /\ Shape
  BY DEF EmitterInv, Section, EndThen, EndElse, EndWhile, EndAsmInit,
         EndForBody, EndFor, OpenCase, OpenDefault, EndCase, EndSwitch,
         EndFun, EndRoot
<1>2. CASE EndRoot
  <2>1. TypeOK' /\ pc' = "done"
    BY <1>1, <1>2, EndRootTypes DEF EndRoot, Shape
  <2>2. \A b \in Block' : Closed(term', b)
    BY <1>1, <1>2, EndRootCloses
  <2>3. AllBlocksTerminated'
    BY <2>2 DEF AllBlocksTerminated, Terminated, Closed
  <2>4. QED
    BY <2>1, <2>3 DEF EmitterInv
<1>3. CASE ~EndRoot
  <2>1. Shape'
    BY <1>1, <1>3, EndThenShape, EndElseShape, EndAsmInitShape,
       EndForBodyShape, OpenCaseShape, OpenDefaultShape, EndCaseShape,
       EndSwitchShape, EndFunShape
    DEF Section
  <2>2. pc' = "emit"
    BY <1>1, <1>3
    DEF Section, EndThen, EndElse, EndWhile, EndAsmInit, EndForBody, EndFor,
        OpenCase, OpenDefault, EndCase, EndSwitch, EndFun
  <2>3. QED
    BY <2>1, <2>2 DEF EmitterInv, AllBlocksTerminated, Shape
<1>4. QED
  BY <1>2, <1>3

LEMMA StutterKeeps ==
  ASSUME EmitterInv, UNCHANGED vars
  PROVE  EmitterInv'
<1>1. TypeOK' /\ (pc' = "emit" => StackShape')
  <2>1. TypeInv
    BY DEF EmitterInv, TypeInv, Shape
  <2>2. QED
    BY <2>1, NextTypes DEF TypeInv
<1>2. Block' = Block
  BY DEF vars, Block
<1>3. ASSUME pc = "emit" PROVE Shape'
  <2>1. Shape
    BY <1>3 DEF EmitterInv
  <2>2. StackShape' /\ TypeOK'
    BY <1>1, <1>3 DEF vars
  <2>3. CaseInSwitch' /\ PendingInv' /\ InsertBlockState'
    BY <1>2, <2>1
    DEF Shape, vars, CaseInSwitch, PendingInv, PendingOpen, PendingDistinct,
        OpenIsPending, InsertBlockState, Terminated, Top
  <2>4. SwitchShape'
    BY <2>1 DEF Shape, vars, SwitchShape, Terminated
  <2>5. QED
    BY <2>2, <2>3, <2>4 DEF Shape
<1>4. AllBlocksTerminated'
  BY <1>2 DEF EmitterInv, AllBlocksTerminated, vars, Terminated
<1>5. QED
  BY <1>1, <1>3, <1>4 DEF EmitterInv, vars

LEMMA EmissionInductive == EmitterInv /\ [Next]_vars => EmitterInv'
<1>1. SUFFICES ASSUME EmitterInv, [Next]_vars PROVE EmitterInv'
  OBVIOUS
<1>2. CASE Finished
  BY <1>1, <1>2, StutterKeeps DEF Finished
<1>3. QED
  BY <1>1, <1>2, StatementKeeps, SectionKeeps, StutterKeeps DEF Next

LEMMA EmissionHolds == Spec => []EmitterInv
<1>1. Init => EmitterInv
  BY InitShape DEF EmitterInv, AllBlocksTerminated, Shape
<1>2. QED
  BY <1>1, EmissionInductive, PTL DEF Spec

\* The inductive invariant: frames, pending blocks and the insert block of
\* the emit* functions fit together in every reachable state.
THEOREM EmissionCorrect == Spec => []EmissionInv
<1>1. EmitterInv => EmissionInv
  BY DEF EmitterInv, EmissionInv, Shape, PendingInv
<1>2. QED
  BY <1>1, EmissionHolds, PTL

\* For programs of any size and nesting the insert block is open whenever
\* emitStmt is called: no instruction is put after a terminator.
THEOREM InsertBlockIsOpen == Spec => []InsertBlockOpen
<1>1. EmitterInv => InsertBlockOpen
  BY DEF EmitterInv, InsertBlockOpen, Shape, InsertBlockState, StmtLists
<1>2. QED
  BY <1>1, EmissionHolds, PTL

\* For programs of any size and nesting every block of a finished function
\* has a terminator, dead code and unused exits included.
THEOREM BlocksAreTerminated == Spec => []AllBlocksTerminated
<1>1. EmitterInv => AllBlocksTerminated
  BY DEF EmitterInv
<1>2. QED
  BY <1>1, EmissionHolds, PTL

\* DefaultBB->empty() after the cases tells, whatever the cases hold,
\* whether the switch has a default.
THEOREM EmptyDefaultMeansNone == Spec => []DefaultBlockEmptyIffUnvisited
<1>1. ASSUME Shape, pc = "emit", Top.k = "switch"
      PROVE  EmptyBB(Top.back) <=> Top.next # 0
  <2>1. /\ Top.next # 0 => Top.next = Top.back /\ code[Top.back] = <<>>
        /\ Top.next = 0 => Closed(term, Top.back)
    BY <1>1, TopSwitch
  <2>2. Top.next # 0 => ~Closed(term, Top.next)
    <3>1. Top.next \in TopBlocks
      BY DEF TopBlocks, SlotSet
    <3>2. QED
      BY <1>1, <3>1, TopPending
  <2>3. QED
    BY <2>1, <2>2 DEF EmptyBB, Terminated, Closed
<1>2. EmitterInv => DefaultBlockEmptyIffUnvisited
  BY <1>1 DEF EmitterInv, DefaultBlockEmptyIffUnvisited
<1>3. QED
  BY <1>2, EmissionHolds, PTL
-----------------------------------------------------------------------------
(* Terminators are final. *)

LEMMA PrefixOfAppend ==
  ASSUME NEW S, NEW s \in Seq(S), NEW x \in S
  PROVE  IsPrefix(s, Append(s, x))
<1>. DEFINE t == Append(s, x)
            n == Len(s)
<1>1. /\ n \in Nat /\ t \in Seq(S) /\ Len(t) = n + 1
      /\ \A i \in 1..n : t[i] = s[i]
  BY AppendElements
<1>. HIDE DEF t
<1>2. /\ SubSeq(t, 1, n) \in Seq(S) /\ Len(SubSeq(t, 1, n)) = n
      /\ \A i \in 1..n : SubSeq(t, 1, n)[i] = t[i]
  BY <1>1, PrefixProps
<1>3. SubSeq(t, 1, n) = s
  BY <1>1, <1>2, SeqEqual
<1>4. SubSeq(s, 1, n) = s
  OBVIOUS
<1>5. QED
  BY <1>1, <1>3, <1>4 DEF IsPrefix, t

\* The step of TerminatorsFinal.
TermsKept ==
  \A b \in Block :
    Terminated(b) =>
      \/ term'[b] = term[b]
      \/ /\ term[b].op = "switch" /\ term'[b].op = "switch"
         /\ IsPrefix(term[b].to, term'[b].to)

\* What most steps do: only open blocks get a terminator.
ClosedSame == \A b \in Block : Closed(term, b) => term'[b] = term[b]

\* The block that a switch in progress was opened in ends with it.
SwitchInPlace ==
  \A i \in DOMAIN work :
    work[i].k = "switch" => term[work[i].sw].op = "switch"

LEMMA SameIsKept == ClosedSame => TermsKept
BY DEF ClosedSame, TermsKept, Terminated, Closed

LEMMA SameByEmit ==
  ASSUME TypeOK, NEW n \in Nat, NEW f, NEW t, NEW b, NEW c, Emit(n, f, t, b, c),
         \A x \in DOMAIN t : x \in Block => ~Closed(term, x)
  PROVE  ClosedSame
<1>1. \A x \in Block : term'[x] = IF x \in DOMAIN t THEN t[x] ELSE term[x]
  BY DEF TypeOK, Emit, Block
<1>2. QED
  BY <1>1 DEF ClosedSame

LEMMA SameByOne ==
  ASSUME TypeOK, NEW n \in Nat, NEW f, NEW d, NEW t, NEW b, NEW c,
         Emit(n, f, One(d, t), b, c), d \in Block => ~Closed(term, d)
  PROVE  ClosedSame
<1>1. DOMAIN One(d, t) = {d}
  BY DEF One
<1>2. QED
  BY <1>1, SameByEmit

LEMMA SameByTwo ==
  ASSUME TypeOK, NEW n \in Nat, NEW f, NEW d, NEW t, NEW e, NEW u, NEW b, NEW c,
         Emit(n, f, Two(d, t, e, u), b, c),
         d \in Block => ~Closed(term, d), e \in Block => ~Closed(term, e)
  PROVE  ClosedSame
<1>1. DOMAIN Two(d, t, e, u) = {d, e}
  BY DEF Two
<1>2. QED
  BY <1>1, SameByEmit

LEMMA SameByNone ==
  ASSUME TypeOK, NEW n \in Nat, NEW f, NEW b, NEW c, Emit(n, f, <<>>, b, c)
  PROVE  ClosedSame
<1>1. DOMAIN <<>> = {}
  OBVIOUS
<1>2. QED
  BY <1>1, SameByEmit

\* A statement closes the insert block and blocks it has just created.
LEMMA StatementSame ==
  ASSUME Shape, Statement
  PROVE  ClosedSame
<1>1. Top.k # "switch"
  BY StatementsHere
  DEF Statement, EmitAct, EmitRequire, EmitRevert, EmitReturn, LeaveUndefined,
      EmitJump, JumpOutsideLoop, MayJump, OpenIf, OpenThen, OpenWhile, OpenFor,
      OpenAsmFor, OpenSwitch, OpenFun
<1>2. ~Closed(term, ins) /\ nb \in Nat \ {0} /\ TypeOK
  BY <1>1, Here
<1>3. nb + 1 \notin Block /\ nb + 2 \notin Block
  BY <1>2 DEF Block
<1>4. CASE EmitAct \/ OpenAsmFor \/ OpenFun
  <2>1. PICK n, f, b, c : n \in Nat /\ Emit(n, f, <<>>, b, c)
    BY <1>4 DEF EmitAct, OpenAsmFor, OpenFun, Create
  <2>2. QED
    BY <1>2, <2>1, SameByNone
<1>5. CASE EmitRevert \/ EmitReturn \/ EmitJump \/ OpenIf \/ OpenSwitch
  <2>1. PICK n, f, t, b, c : n \in Nat /\ Emit(n, f, One(ins, t), b, c)
    BY <1>5 DEF EmitRevert, EmitReturn, EmitJump, OpenIf, OpenThen,
                OpenSwitch, Create
  <2>2. QED
    BY <1>2, <2>1, SameByOne
<1>6. CASE EmitRequire \/ OpenWhile \/ OpenFor
  <2>1. PICK n, f, t, e, u, b, c :
          /\ n \in Nat /\ e \in {nb + 1, nb + 2}
          /\ Emit(n, f, Two(ins, t, e, u), b, c)
    <3>1. CASE EmitRequire
      BY <3>1 DEF EmitRequire, Create
    <3>2. CASE OpenWhile
      BY <3>2 DEF OpenWhile, Create
    <3>3. CASE OpenFor
      BY <3>3 DEF OpenFor, Create
    <3>4. QED
      BY <1>6, <3>1, <3>2, <3>3
  <2>2. QED
    BY <1>2, <1>3, <2>1, SameByTwo
<1>7. CASE LeaveUndefined \/ JumpOutsideLoop
  BY <1>7 DEF LeaveUndefined, JumpOutsideLoop, ClosedSame
<1>8. QED
  BY <1>4, <1>5, <1>6, <1>7 DEF Statement

\* The end of a section closes the insert block, and blocks that its call
\* had still to visit.
LEMMA SectionSame ==
  ASSUME Shape, Section, ~OpenCase
  PROVE  ClosedSame
<1>1. TypeOK /\ \A x \in TopBlocks : x \in Block => ~Closed(term, x)
  <2>1. TypeOK /\ nb \in Nat /\ \A x \in TopBlocks \ {0} : ~Closed(term, x)
    BY TopPending
  <2>2. 0 \notin Block
    BY <2>1 DEF Block
  <2>3. QED
    BY <2>1, <2>2
<1>2. Top.cond \in TopBlocks /\ Top.exit \in TopBlocks
  BY DEF TopBlocks, SlotSet
<1>3. CASE Top.k = "switch"
  <2>1. OpenDefault \/ EndSwitch
    BY <1>3 DEF Section, EndThen, EndElse, EndWhile, EndAsmInit, EndForBody,
                EndFor, EndCase, EndFun, EndRoot
  <2>2. CASE OpenDefault
    BY <2>2 DEF OpenDefault, ClosedSame
  <2>3. CASE EndSwitch /\ EmptyBB(Top.back)
    <3>1. Emit(0, fn[ins], One(Top.back, Br(Top.exit)), 0, 0)
      BY <2>3 DEF EndSwitch, Create
    <3>2. ~Closed(term, Top.back)
      BY <2>3 DEF EmptyBB, Terminated, Closed
    <3>3. QED
      BY <1>1, <3>1, <3>2, SameByOne
  <2>4. CASE EndSwitch /\ ~EmptyBB(Top.back)
    <3>1. Emit(0, fn[ins], <<>>, 0, 0)
      BY <2>4 DEF EndSwitch, Create
    <3>2. QED
      BY <1>1, <3>1, SameByNone
  <2>5. QED
    BY <2>1, <2>2, <2>3, <2>4
<1>4. CASE Top.k # "switch"
  <2>1. ~Closed(term, ins)
    BY <1>4, Here
  <2>2. CASE \/ EndThen \/ EndElse \/ EndWhile \/ EndForBody \/ EndFor
             \/ EndCase \/ (EndRoot /\ lang # "sol")
    <3>1. PICK t : Emit(0, fn[ins], One(ins, t), 0, 0)
      BY <2>2 DEF EndThen, EndElse, EndWhile, EndForBody, EndFor, EndCase,
                  EndRoot, Create
    <3>2. QED
      BY <1>1, <2>1, <3>1, SameByOne
  <2>3. CASE EndAsmInit
    <3>1. PICK t, u : Emit(0, fn[ins], Two(ins, t, Top.cond, u), 0, 0)
      BY <2>3 DEF EndAsmInit, Create
    <3>2. QED
      BY <1>1, <1>2, <2>1, <3>1, SameByTwo
  <2>4. CASE EndFun \/ (EndRoot /\ lang = "sol")
    <3>1. PICK t, u : Emit(0, fn[ins], Two(ins, t, Top.exit, u), 0, 0)
      BY <2>1, <2>4
      DEF EndFun, EndRoot, FunctionTail, Create, Terminated, Closed
    <3>2. QED
      BY <1>1, <1>2, <2>1, <3>1, SameByTwo
  <2>5. ~OpenDefault /\ ~EndSwitch
    BY <1>4 DEF OpenDefault, EndSwitch
  <2>6. QED
    BY <2>2, <2>3, <2>4, <2>5 DEF Section
<1>5. QED
  BY <1>3, <1>4

LEMMA OpenCaseKept ==
  ASSUME Shape, SwitchInPlace, OpenCase
  PROVE  TermsKept
<1>. DEFINE t == [term[Top.sw] EXCEPT !.to = Append(@, nb + 1)]
<1>1. Emit(1, fn[ins], One(Top.sw, t), 0, 0) /\ Top.k = "switch"
  BY DEF OpenCase, Create
<1>2. TypeOK /\ StackShape /\ Top.sw \in Block
  BY <1>1, TopSwitch, TopPending
<1>3. term[Top.sw].op = "switch"
  BY <1>1, <1>2, TopType DEF SwitchInPlace, Top
<1>4. nb \in Nat /\ term[Top.sw] \in TermType
  BY <1>2 DEF TypeOK
<1>5. t.op = "switch" /\ t.to = Append(term[Top.sw].to, nb + 1)
  BY <1>3, <1>4 DEF TermType, TermsTo
<1>6. IsPrefix(term[Top.sw].to, t.to)
  <2>. DEFINE old == term[Top.sw].to
  <2>1. old \in Seq(Nat)
    <3>1. Block \subseteq Nat
      BY DEF Block
    <3>2. QED
      BY <1>4, <3>1, SeqGrows DEF TermType, TermsTo
  <2>. HIDE DEF old
  <2>2. IsPrefix(old, Append(old, nb + 1))
    BY <1>4, <2>1, PrefixOfAppend
  <2>3. QED
    BY <1>5, <2>2 DEF old
<1>. HIDE DEF t
<1>7. \A b \in Block : term'[b] = IF b = Top.sw THEN t ELSE term[b]
  BY <1>1, <1>4 DEF Emit, One, Block
<1>8. QED
  BY <1>3, <1>5, <1>6, <1>7 DEF TermsKept

-----------------------------------------------------------------------------
(* Terminators stay in their function.  A map h gives each call at work    *)
(* the function it emits into; a function definition is the only call that *)
(* emits into another one than its caller.                                 *)

AtHome(F, b, v) == b # 0 => F[b] = v

LoopsHome(F, l, v) == \A i \in DOMAIN l : F[l[i].brk] = v /\ F[l[i].cnt] = v

\* The blocks of call f are in function v; next of a function definition is
\* the insert point to go back to, which is the caller's.
FrameHome(F, T, f, v) ==
  /\ AtHome(F, f.cond, v) /\ AtHome(F, f.body, v) /\ AtHome(F, f.exit, v)
  /\ AtHome(F, f.back, v) /\ AtHome(F, f.sw, v)
  /\ f.k # "fun" => AtHome(F, f.next, v)
  /\ f.k = "switch" => T[f.sw].op = "switch"

\* What a function definition keeps for its caller is in function u.
CallerHome(F, f, u) ==
  /\ AtHome(F, f.next, u) /\ AtHome(F, f.outer.ret, u)
  /\ LoopsHome(F, f.outer.loops, u)

Linked(F, f, v, u) == IF f.k = "fun" THEN CallerHome(F, f, u) ELSE v = u

\* The members of the CodeGenFunction at work are in function v.
CurrentHome(F, v, i, r, l) ==
  /\ F[i] = v /\ AtHome(F, r, v) /\ LoopsHome(F, l, v)

Flow(h) ==
  /\ h \in [1..Len(work) -> Nat]
  /\ \A i \in 1..Len(work) : FrameHome(fn, term, work[i], h[i])
  /\ \A i \in 2..Len(work) : Linked(fn, work[i], h[i], h[i - 1])
  /\ CurrentHome(fn, h[Len(work)], ins, ret, loops)

\* A step neither moves a block nor takes a switch away.
Grown ==
  /\ \A x \in Block : fn'[x] = fn[x]
  /\ \A x \in Block : term[x].op = "switch" => term'[x].op = "switch"

LEMMA GrownParts ==
  ASSUME TypeOK, Grown, NEW v
  PROVE  /\ \A b \in BlockOr0 : AtHome(fn, b, v) => AtHome(fn', b, v)
         /\ \A l \in LoopsType : LoopsHome(fn, l, v) => LoopsHome(fn', l, v)
<1>1. \A b \in BlockOr0 : b # 0 => b \in Block
  BY DEF BlockOr0, Block, TypeOK
<1>2. \A b \in BlockOr0 : AtHome(fn, b, v) => AtHome(fn', b, v)
  BY <1>1 DEF AtHome, Grown
<1>3. ASSUME NEW l \in LoopsType, LoopsHome(fn, l, v)
      PROVE  LoopsHome(fn', l, v)
  <2>. DEFINE Loop == [brk : Block, cnt : Block]
  <2>1. \A i \in DOMAIN l : l[i] \in Loop
    <3>1. l \in Seq(Loop)
      BY <1>3 DEF LoopsType
    <3>. HIDE DEF Loop
    <3>2. QED
      BY <3>1
  <2>2. QED
    BY <1>3, <2>1 DEF LoopsHome, Grown
<1>4. QED
  BY <1>2, <1>3

LEMMA GrownFrame ==
  ASSUME TypeOK, Grown, NEW f \in FrameType, FrameShape(f, lang)
  PROVE  /\ \A v : FrameHome(fn, term, f, v) => FrameHome(fn', term', f, v)
         /\ \A v, u : Linked(fn, f, v, u) => Linked(fn', f, v, u)
<1>1. /\ f.cond \in BlockOr0 /\ f.body \in BlockOr0 /\ f.exit \in BlockOr0
      /\ f.back \in BlockOr0 /\ f.sw \in BlockOr0 /\ f.next \in BlockOr0
      /\ f.outer.ret \in BlockOr0 /\ f.outer.loops \in LoopsType
  BY DEF FrameType
<1>2. f.k = "switch" => f.sw \in Block
  <2>1. f.k = "switch" => f.sw # 0
    BY DEF FrameShape
  <2>2. QED
    BY <1>1, <2>1 DEF BlockOr0, Block, TypeOK
<1>3. \A v : FrameHome(fn, term, f, v) => FrameHome(fn', term', f, v)
  BY <1>1, <1>2, GrownParts DEF FrameHome, Grown
<1>4. \A v, u : Linked(fn, f, v, u) => Linked(fn', f, v, u)
  BY <1>1, GrownParts DEF Linked, CallerHome
<1>5. QED
  BY <1>3, <1>4

\* The first m calls stay as they are.
FlowFacts(m, h, g) ==
  /\ m \in 0..Len(work) /\ Len(work') \in Nat /\ m <= Len(work')
  /\ \A i \in 1..m : work'[i] = work[i] /\ g[i] = h[i]
  /\ g \in [1..Len(work') -> Nat]
  /\ \A i \in (m + 1)..Len(work') :
       /\ FrameHome(fn', term', work'[i], g[i])
       /\ i # 1 => Linked(fn', work'[i], g[i], g[i - 1])
  /\ CurrentHome(fn', g[Len(work')], ins', ret', loops')

LEMMA FlowKeeps ==
  ASSUME TypeOK, StackShape, Grown, NEW h, Flow(h), NEW g, NEW m,
         FlowFacts(m, h, g)
  PROVE  Flow(g)'
<1>. USE DEF FlowFacts
<1>1. Len(work) \in Nat /\ work \in Seq(FrameType)
  BY TopType
<1>2. \A i \in 1..m :
        /\ i \in 1..Len(work) /\ work[i] \in FrameType
        /\ FrameShape(work[i], lang)
  BY <1>1 DEF StackShape
<1>3. \A i \in 1..m : FrameHome(fn', term', work'[i], g[i])
  BY <1>2, GrownFrame DEF Flow
<1>4. \A i \in 2..m : Linked(fn', work'[i], g[i], g[i - 1])
  <2>1. TAKE i \in 2..m
  <2>2. i \in 1..m /\ i - 1 \in 1..m /\ i \in 2..Len(work)
    BY <1>1
  <2>3. Linked(fn, work[i], h[i], h[i - 1])
    BY <2>2 DEF Flow
  <2>4. QED
    BY <1>2, <2>2, <2>3, GrownFrame
<1>5. \A i \in 1..Len(work') : FrameHome(fn', term', work'[i], g[i])
  BY <1>1, <1>3
<1>6. \A i \in 2..Len(work') : Linked(fn', work'[i], g[i], g[i - 1])
  <2>1. TAKE i \in 2..Len(work')
  <2>2. i \in 2..m \/ (i \in (m + 1)..Len(work') /\ i # 1)
    BY <1>1
  <2>3. QED
    BY <1>4, <2>2
<1>7. QED
  BY <1>5, <1>6 DEF Flow

LEMMA FlowStays ==
  ASSUME TypeOK, StackShape, Grown, NEW h, Flow(h), work' = work,
         fn'[ins'] = fn[ins], ret' = ret, loops' = loops
  PROVE  Flow(h)'
<1>. DEFINE m == Len(work)
<1>1. m \in Nat /\ m = Len(work') /\ (m + 1)..Len(work') = {}
  BY TopType
<1>2. CurrentHome(fn', h[m], ins', ret', loops')
  <2>1. ret \in BlockOr0 /\ loops \in LoopsType
    BY DEF TypeOK
  <2>2. QED
    BY <2>1, GrownParts DEF Flow, CurrentHome
<1>3. FlowFacts(m, h, h)
  BY <1>1, <1>2 DEF FlowFacts, Flow
<1>4. QED
  BY <1>3, FlowKeeps

LEMMA FlowPushed ==
  ASSUME TypeOK, StackShape, Grown, NEW h, Flow(h), NEW f, NEW v \in Nat,
         Len(work') = Len(work) + 1, work'[Len(work) + 1] = f,
         \A i \in 1..Len(work) : work'[i] = work[i],
         FrameHome(fn', term', f, v),
         Linked(fn', f, v, h[Len(work)]),
         CurrentHome(fn', v, ins', ret', loops')
  PROVE  \E g : Flow(g)'
<1>. DEFINE m == Len(work)
            g == [i \in 1..(m + 1) |-> IF i = m + 1 THEN v ELSE h[i]]
<1>1. m \in Nat \ {0} /\ (m + 1)..Len(work') = {m + 1}
  BY TopType
<1>2. /\ g \in [1..Len(work') -> Nat] /\ g[m + 1] = v
      /\ \A i \in 1..m : g[i] = h[i]
  BY <1>1 DEF Flow
<1>. HIDE DEF g
<1>3. g[m + 1 - 1] = h[m]
  BY <1>1, <1>2
<1>4. FlowFacts(m, h, g)
  BY <1>1, <1>2, <1>3 DEF FlowFacts
<1>5. QED
  BY <1>4, FlowKeeps

LEMMA FlowReturns ==
  ASSUME TypeOK, StackShape, Grown, NEW h, Flow(h),
         Len(work) # 1, Return,
         CurrentHome(fn', h[Len(work) - 1], ins', ret', loops')
  PROVE  \E g : Flow(g)'
<1>. DEFINE m == Len(work) - 1
            g == [i \in 1..m |-> h[i]]
<1>1. Len(work) \in Nat \ {0} /\ work \in Seq(FrameType) /\ work # <<>>
  BY TopType DEF StackShape
<1>2. /\ m \in Nat \ {0} /\ Len(work') = m /\ m <= Len(work)
      /\ \A i \in 1..m : work'[i] = work[i]
  BY <1>1, FrontProps DEF Return
<1>3. /\ g \in [1..Len(work') -> Nat] /\ g[m] = h[m]
      /\ \A i \in 1..m : g[i] = h[i]
  BY <1>1, <1>2 DEF Flow
<1>. HIDE DEF g
<1>4. (m + 1)..Len(work') = {} /\ m \in 0..Len(work)
  BY <1>1, <1>2
<1>5. FlowFacts(m, h, g)
  BY <1>2, <1>3, <1>4 DEF FlowFacts
<1>6. QED
  BY <1>5, FlowKeeps

LEMMA FlowBecomes ==
  ASSUME TypeOK, StackShape, Grown, NEW h, Flow(h), NEW f, Become(f),
         Top.k # "fun", f.k # "fun",
         FrameHome(fn', term', f, h[Len(work)]),
         CurrentHome(fn', h[Len(work)], ins', ret', loops')
  PROVE  Flow(h)'
<1>. DEFINE m == Len(work) - 1
<1>1. Len(work) \in Nat \ {0}
  BY TopType
<1>2. /\ Len(work') = Len(work) /\ work'[Len(work)] = f
      /\ \A i \in 1..m : work'[i] = work[i]
  BY BecomeFrames
<1>3. (m + 1)..Len(work') = {Len(work)} /\ m \in 0..Len(work)
  BY <1>1, <1>2
<1>4. Len(work) # 1 => h[Len(work)] = h[Len(work) - 1]
  <2>1. \A n \in Nat \ {0} : n # 1 => n \in 2..n
    OBVIOUS
  <2>2. QED
    BY <1>1, <2>1 DEF Flow, Linked, Top
<1>5. h \in [1..Len(work') -> Nat]
  BY <1>2 DEF Flow
<1>6. \A i \in (m + 1)..Len(work') :
        /\ FrameHome(fn', term', work'[i], h[i])
        /\ i # 1 => Linked(fn', work'[i], h[i], h[i - 1])
  BY <1>2, <1>3, <1>4 DEF Linked
<1>7. FlowFacts(m, h, h)
  BY <1>1, <1>2, <1>3, <1>5, <1>6 DEF FlowFacts
<1>8. QED
  BY <1>7, FlowKeeps

\* The successors of terminator t are in function v.
Leads(F, t, v) == \A i \in DOMAIN t.to : F[t.to[i]] = v

LEMMA LeadsTo ==
  ASSUME NEW F, NEW v
  PROVE  /\ \A b : F[b] = v => Leads(F, Br(b), v)
         /\ \A b, c, n : F[b] = v /\ F[c] = v => Leads(F, CondBr(b, c, n), v)
         /\ \A b, n : F[b] = v => Leads(F, Terminator("switch", <<b>>, n), v)
         /\ \A n : Leads(F, Unreachable(n), v)
         /\ Leads(F, Ret, v)
<1>1. \A b : DOMAIN <<b>> = {1} /\ <<b>>[1] = b
  OBVIOUS
<1>2. \A b, c : DOMAIN <<b, c>> = {1, 2} /\ <<b, c>>[1] = b /\ <<b, c>>[2] = c
  OBVIOUS
<1>3. DOMAIN <<>> = {}
  OBVIOUS
<1>4. QED
  BY <1>1, <1>2, <1>3
  DEF Leads, Br, CondBr, Unreachable, Ret, Terminator

\* One call of the builder, in function v.
LEMMA EmitHome ==
  ASSUME TypeOK, NEW n \in Nat, NEW v, NEW t, NEW b, NEW c,
         Emit(n, v, t, b, c)
  PROVE  /\ \A x \in Block : fn'[x] = fn[x]
         /\ \A x \in (nb + 1)..(nb + n) : fn'[x] = v
         /\ TermsKept => Grown
<1>1. nb \in Nat /\ \A x \in 1..(nb + n) : fn'[x] = IF x <= nb THEN fn[x] ELSE v
  BY DEF TypeOK, Emit
<1>2. \A x \in Block : x \in 1..(nb + n) /\ x <= nb
  BY <1>1 DEF Block
<1>3. \A x \in (nb + 1)..(nb + n) : x \in 1..(nb + n) /\ ~(x <= nb)
  BY <1>1
<1>4. TermsKept =>
        \A x \in Block : term[x].op = "switch" => term'[x].op = "switch"
  BY DEF TermsKept, Terminated
<1>5. QED
  BY <1>1, <1>2, <1>3, <1>4 DEF Grown

LEMMA EmitTargets ==
  ASSUME TypeOK, TargetsInFunction,
         NEW n \in Nat, NEW v, NEW t, NEW b, NEW c, Emit(n, v, t, b, c),
         \A x \in DOMAIN t : Leads(fn', t[x], fn'[x])
  PROVE  TargetsInFunction'
<1>1. /\ nb \in Nat /\ nb' = nb + n
      /\ \A x \in 1..(nb + n) :
           term'[x] = IF x \in DOMAIN t THEN t[x]
                      ELSE IF x <= nb THEN term[x] ELSE None
  BY DEF TypeOK, Emit
<1>2. SUFFICES ASSUME NEW x \in Block', NEW i \in DOMAIN term'[x].to
               PROVE  fn'[term'[x].to[i]] = fn'[x]
  BY DEF TargetsInFunction
<1>3. x \in 1..(nb + n)
  BY <1>1 DEF Block
<1>4. CASE x \in DOMAIN t
  BY <1>1, <1>2, <1>3, <1>4 DEF Leads
<1>5. CASE x \notin DOMAIN t /\ x <= nb
  <2>1. term'[x] = term[x] /\ x \in Block
    BY <1>1, <1>3, <1>5 DEF Block
  <2>2. term[x].to \in Seq(Block)
    BY <2>1 DEF TypeOK, TermType, TermsTo
  <2>3. term[x].to[i] \in Block
    BY <1>2, <2>1, <2>2
  <2>4. fn[term[x].to[i]] = fn[x]
    BY <1>2, <2>1 DEF TargetsInFunction
  <2>5. QED
    BY <2>1, <2>3, <2>4, EmitHome
<1>6. CASE x \notin DOMAIN t /\ ~(x <= nb)
  <2>1. term'[x] = None
    BY <1>1, <1>3, <1>6
  <2>2. DOMAIN term'[x].to = {}
    BY <2>1 DEF None, Terminator
  <2>3. QED
    BY <1>2, <2>2
<1>7. QED
  BY <1>4, <1>5, <1>6

LEMMA NoneTargets ==
  ASSUME TypeOK, TargetsInFunction,
         NEW n \in Nat, NEW v, NEW b, NEW c, Emit(n, v, <<>>, b, c)
  PROVE  TargetsInFunction'
<1>1. DOMAIN <<>> = {}
  OBVIOUS
<1>2. QED
  BY <1>1, EmitTargets

LEMMA OneTargets ==
  ASSUME TypeOK, TargetsInFunction,
         NEW n \in Nat, NEW v, NEW d, NEW t, NEW b, NEW c,
         Emit(n, v, One(d, t), b, c), Leads(fn', t, fn'[d])
  PROVE  TargetsInFunction'
<1>1. \A x \in DOMAIN One(d, t) : x = d /\ One(d, t)[x] = t
  BY DEF One
<1>2. QED
  BY <1>1, EmitTargets

LEMMA TwoTargets ==
  ASSUME TypeOK, TargetsInFunction,
         NEW n \in Nat, NEW v, NEW d, NEW t, NEW e, NEW u, NEW b, NEW c,
         Emit(n, v, Two(d, t, e, u), b, c),
         Leads(fn', t, fn'[d]), Leads(fn', u, fn'[e])
  PROVE  TargetsInFunction'
<1>1. \A x \in DOMAIN Two(d, t, e, u) :
        \/ x = d /\ Two(d, t, e, u)[x] = t
        \/ x = e /\ Two(d, t, e, u)[x] = u
  BY DEF Two
<1>2. QED
  BY <1>1, EmitTargets

\* What a step finds: v is the function that is being emitted.
LEMMA FlowHere ==
  ASSUME Shape, NEW h, Flow(h)
  PROVE  /\ TypeOK /\ StackShape /\ nb \in Nat \ {0} /\ ins \in Block
         /\ h[Len(work)] \in Nat /\ fn[ins] = h[Len(work)]
         /\ AtHome(fn, ret, h[Len(work)]) /\ LoopsHome(fn, loops, h[Len(work)])
         /\ FrameHome(fn, term, Top, h[Len(work)])
         /\ Top \in FrameType /\ ret \in BlockOr0 /\ loops \in LoopsType
<1>1. TypeOK /\ StackShape
  BY DEF Shape
<1>2. Len(work) \in 1..Len(work) /\ Top \in FrameType
  BY <1>1, TopType
<1>3. QED
  BY <1>1, <1>2 DEF Flow, CurrentHome, TypeOK, Top

-----------------------------------------------------------------------------
(* Statements. *)

FlowNext == TargetsInFunction' /\ \E g : Flow(g)'

LEMMA Stays ==
  ASSUME Shape, TermsKept, NEW h, Flow(h), NEW n \in Nat, NEW t, NEW b, NEW c,
         Emit(n, fn[ins], t, b, c), UNCHANGED <<work, ret, loops>>,
         ins' = ins \/ ins' \in (nb + 1)..(nb + n),
         TargetsInFunction'
  PROVE  FlowNext
<1>1. TypeOK /\ StackShape /\ ins \in Block /\ fn[ins] = h[Len(work)]
  BY FlowHere
<1>2. Grown /\ fn'[ins'] = fn[ins]
  BY <1>1, EmitHome
<1>3. Flow(h)'
  BY <1>1, <1>2, FlowStays
<1>4. QED
  BY <1>3 DEF FlowNext

\* The targets of a jump.
LEMMA LastLoop ==
  ASSUME TypeOK, loops # <<>>, NEW v, LoopsHome(fn, loops, v)
  PROVE  /\ Last(loops).brk \in Block /\ fn[Last(loops).brk] = v
         /\ Last(loops).cnt \in Block /\ fn[Last(loops).cnt] = v
<1>. DEFINE Loop == [brk : Block, cnt : Block]
<1>1. loops \in Seq(Loop)
  BY DEF TypeOK, LoopsType
<1>2. \A x \in Loop : x.brk \in Block /\ x.cnt \in Block
  OBVIOUS
<1>. HIDE DEF Loop
<1>3. Len(loops) \in DOMAIN loops /\ Last(loops) = loops[Len(loops)]
      /\ Last(loops) \in Loop
  BY <1>1, LastProps DEF Last
<1>4. QED
  BY <1>2, <1>3 DEF LoopsHome

LEMMA LineFlow ==
  ASSUME Shape, TargetsInFunction, TermsKept, NEW h, Flow(h),
         \/ EmitAct \/ EmitRequire \/ EmitRevert \/ EmitReturn \/ EmitJump
  PROVE  FlowNext
<1>. DEFINE v == h[Len(work)]
<1>1. /\ TypeOK /\ nb \in Nat \ {0} /\ ins \in Block /\ fn[ins] = v
      /\ AtHome(fn, ret, v) /\ LoopsHome(fn, loops, v) /\ ret \in BlockOr0
  BY FlowHere
<1>. HIDE DEF v
<1>2. CASE EmitAct
  <2>1. Emit(0, fn[ins], <<>>, ins, NewNode)
    BY <1>2 DEF EmitAct
  <2>2. TargetsInFunction'
    BY <1>1, <2>1, NoneTargets
  <2>3. QED
    BY <1>2, <2>1, <2>2, Stays DEF EmitAct
<1>3. CASE EmitRequire
  <2>. DEFINE t == CondBr(nb + 1, nb + 2, NewNode)
              u == Unreachable(NewNode)
  <2>1. Emit(2, fn[ins], Two(ins, t, nb + 2, u), 0, 0) /\ ins' = nb + 1
    BY <1>3 DEF EmitRequire, Create
  <2>2. fn'[ins] = fn[ins] /\ fn'[nb + 1] = fn[ins] /\ fn'[nb + 2] = fn[ins]
    BY <1>1, <2>1, EmitHome
  <2>3. Leads(fn', t, fn'[ins]) /\ Leads(fn', u, fn'[nb + 2])
    BY <2>2, LeadsTo
  <2>. HIDE DEF t, u
  <2>4. TargetsInFunction'
    BY <1>1, <2>1, <2>3, TwoTargets
  <2>5. ins' \in (nb + 1)..(nb + 2)
    BY <1>1, <2>1
  <2>6. QED
    BY <1>3, <2>1, <2>4, <2>5, Stays DEF EmitRequire
<1>4. CASE EmitRevert \/ EmitReturn \/ EmitJump
  <2>1. /\ UNCHANGED <<work, ret, loops>> /\ ins' = nb + 1
        /\ \E t, b, c :
             /\ Emit(1, fn[ins], One(ins, t), b, c)
             /\ \/ \E n : t = Unreachable(n)
                \/ \E x \in Block : t = Br(x) /\ fn[x] = fn[ins]
    <3>1. CASE EmitRevert
      BY <3>1 DEF EmitRevert, Create
    <3>2. CASE EmitReturn
      <4>1. ret \in Block /\ fn[ret] = fn[ins]
        BY <1>1, <3>2 DEF EmitReturn, AtHome, BlockOr0, Block
      <4>2. QED
        BY <3>2, <4>1 DEF EmitReturn
    <3>3. CASE EmitJump
      <4>1. /\ Last(loops).brk \in Block /\ fn[Last(loops).brk] = fn[ins]
            /\ Last(loops).cnt \in Block /\ fn[Last(loops).cnt] = fn[ins]
        BY <1>1, <3>3, LastLoop DEF EmitJump
      <4>2. QED
        BY <3>3, <4>1 DEF EmitJump, Create
    <3>4. QED
      BY <1>4, <3>1, <3>2, <3>3
  <2>2. PICK t, b, c :
          /\ Emit(1, fn[ins], One(ins, t), b, c)
          /\ \/ \E n : t = Unreachable(n)
             \/ \E x \in Block : t = Br(x) /\ fn[x] = fn[ins]
    BY <2>1
  <2>3. \A x \in Block : fn'[x] = fn[x]
    BY <1>1, <2>2, EmitHome
  <2>4. Leads(fn', t, fn'[ins])
    BY <1>1, <2>2, <2>3, LeadsTo
  <2>5. TargetsInFunction'
    BY <1>1, <2>2, <2>4, OneTargets
  <2>6. ins' \in (nb + 1)..(nb + 1)
    BY <1>1, <2>1
  <2>7. QED
    BY <2>1, <2>2, <2>5, <2>6, Stays
<1>5. QED
  BY <1>2, <1>3, <1>4

\* A statement that pushes a call, in the function of its caller.
LEMMA Pushes ==
  ASSUME Shape, TermsKept, NEW h, Flow(h), NEW n \in Nat, NEW t, NEW b, NEW c,
         Emit(n, fn[ins], t, b, c), NEW f, Push(f), f.k # "fun",
         FrameHome(fn', term', f, fn[ins]),
         ret' = ret, LoopsHome(fn', loops', fn[ins]),
         ins' = ins \/ ins' \in (nb + 1)..(nb + n),
         TargetsInFunction'
  PROVE  FlowNext
<1>. DEFINE v == h[Len(work)]
<1>1. /\ TypeOK /\ StackShape /\ ins \in Block /\ fn[ins] = v /\ v \in Nat
      /\ AtHome(fn, ret, v) /\ ret \in BlockOr0
  BY FlowHere
<1>. HIDE DEF v
<1>2. Grown /\ fn'[ins'] = v
  BY <1>1, EmitHome
<1>3. AtHome(fn', ret', v)
  BY <1>1, <1>2, GrownParts
<1>4. /\ Len(work') = Len(work) + 1 /\ work'[Len(work) + 1] = f
      /\ \A i \in 1..Len(work) : work'[i] = work[i]
  BY <1>1 DEF Push, TypeOK
<1>5. Linked(fn', f, v, h[Len(work)]) /\ CurrentHome(fn', v, ins', ret', loops')
  BY <1>1, <1>2, <1>3 DEF Linked, CurrentHome, v
<1>6. QED
  BY <1>1, <1>2, <1>4, <1>5, FlowPushed DEF FlowNext

LEMMA EnteredLoop ==
  ASSUME TypeOK, Grown, NEW v, LoopsHome(fn, loops, v),
         NEW b, NEW c, fn'[b] = v, fn'[c] = v, EnterLoop(b, c)
  PROVE  LoopsHome(fn', loops', v)
<1>. DEFINE Loop == [brk : Block, cnt : Block]
            x == [brk |-> b, cnt |-> c]
<1>1. LoopsHome(fn', loops, v)
  BY GrownParts DEF TypeOK
<1>2. loops \in Seq(Loop) /\ loops' = Append(loops, x)
  BY DEF TypeOK, LoopsType, EnterLoop
<1>3. x.brk = b /\ x.cnt = c
  OBVIOUS
<1>. HIDE DEF Loop, x
<1>4. /\ DOMAIN loops = 1..Len(loops) /\ Len(loops) \in Nat
      /\ DOMAIN loops' = 1..(Len(loops) + 1) /\ loops'[Len(loops) + 1] = x
      /\ \A i \in 1..Len(loops) : loops'[i] = loops[i]
  BY <1>2
<1>5. \A i \in DOMAIN loops' : i \in DOMAIN loops \/ i = Len(loops) + 1
  BY <1>4
<1>6. QED
  BY <1>1, <1>3, <1>4, <1>5 DEF LoopsHome

LEMMA OpenThenFlow ==
  ASSUME Shape, TargetsInFunction, TermsKept, NEW h, Flow(h),
         NEW k, NEW n \in Nat, n >= 2,
         NEW else \in (nb + 1)..(nb + n),
         NEW next \in {0} \cup ((nb + 1)..(nb + n)),
         OpenThen(k, n, else, next)
  PROVE  FlowNext
<1>. DEFINE t == CondBr(nb + 1, else, NewNode)
            f == [Call("then", NewNode) EXCEPT !.next = next, !.exit = nb + 2]
            New == (nb + 1)..(nb + n)
<1>1. /\ TypeOK /\ nb \in Nat \ {0} /\ ins \in Block /\ fn[ins] = h[Len(work)]
      /\ LoopsHome(fn, loops, h[Len(work)]) /\ loops \in LoopsType
  BY FlowHere
<1>2. /\ Emit(n, fn[ins], One(ins, t), 0, 0) /\ ins' = nb + 1
      /\ Push(f) /\ UNCHANGED <<ret, loops>>
  BY DEF OpenThen, Create
<1>3. /\ Grown /\ fn'[ins] = fn[ins] /\ \A x \in New : fn'[x] = fn[ins]
  BY <1>1, <1>2, EmitHome
<1>4. nb + 1 \in New /\ nb + 2 \in New
  BY <1>1
<1>5. Leads(fn', t, fn'[ins])
  BY <1>3, <1>4, LeadsTo
<1>6. /\ f.k = "then" /\ f.cond = 0 /\ f.body = 0 /\ f.back = 0 /\ f.sw = 0
      /\ f.next = next /\ f.exit = nb + 2
  BY DEF Call
<1>. HIDE DEF t, f
<1>7. FrameHome(fn', term', f, fn[ins])
  BY <1>3, <1>4, <1>6 DEF FrameHome, AtHome
<1>8. LoopsHome(fn', loops', fn[ins])
  BY <1>1, <1>2, <1>3, GrownParts
<1>9. TargetsInFunction'
  BY <1>1, <1>2, <1>5, OneTargets
<1>10. QED
  BY <1>2, <1>4, <1>6, <1>7, <1>8, <1>9, Pushes

LEMMA OpenIfFlow ==
  ASSUME Shape, TargetsInFunction, TermsKept, NEW h, Flow(h), OpenIf
  PROVE  FlowNext
<1>1. nb \in Nat
  BY FlowHere
<1>2. CASE OpenThen("if", 2, nb + 2, 0)
  BY <1>1, <1>2, OpenThenFlow
<1>3. CASE OpenThen("ifelse", 3, nb + 3, nb + 3)
  BY <1>1, <1>3, OpenThenFlow
<1>4. QED
  BY <1>2, <1>3 DEF OpenIf

LEMMA OpenWhileFlow ==
  ASSUME Shape, TargetsInFunction, TermsKept, NEW h, Flow(h), OpenWhile
  PROVE  FlowNext
<1>1. PICK k \in {"while", "do"} :
        /\ Create(3, Two(ins, Br(IF k = "do" THEN nb + 3 ELSE nb + 1),
                         nb + 1, CondBr(nb + 3, nb + 2, NewNode)))
        /\ EnterLoop(nb + 2, nb + 1) /\ ins' = nb + 3
        /\ Push([Call("body", NewNode) EXCEPT !.exit = nb + 2, !.back = nb + 1])
  BY DEF OpenWhile
<1>. DEFINE d == IF k = "do" THEN nb + 3 ELSE nb + 1
            t == Br(d)
            u == CondBr(nb + 3, nb + 2, NewNode)
            f == [Call("body", NewNode) EXCEPT !.exit = nb + 2, !.back = nb + 1]
            New == (nb + 1)..(nb + 3)
<1>2. /\ TypeOK /\ nb \in Nat \ {0} /\ ins \in Block /\ fn[ins] = h[Len(work)]
      /\ LoopsHome(fn, loops, h[Len(work)])
  BY FlowHere
<1>3. Emit(3, fn[ins], Two(ins, t, nb + 1, u), 0, 0) /\ Push(f) /\ ret' = ret
  BY <1>1 DEF Create, OpenWhile
<1>4. /\ Grown /\ fn'[ins] = fn[ins] /\ \A x \in New : fn'[x] = fn[ins]
  BY <1>2, <1>3, EmitHome
<1>5. nb + 1 \in New /\ nb + 2 \in New /\ nb + 3 \in New /\ d \in New
  BY <1>2
<1>. HIDE DEF d
<1>6. Leads(fn', t, fn'[ins]) /\ Leads(fn', u, fn'[nb + 1])
  BY <1>4, <1>5, LeadsTo
<1>7. /\ f.k = "body" /\ f.cond = 0 /\ f.body = 0 /\ f.next = 0 /\ f.sw = 0
      /\ f.exit = nb + 2 /\ f.back = nb + 1
  BY DEF Call
<1>. HIDE DEF t, u, f
<1>8. FrameHome(fn', term', f, fn[ins])
  BY <1>4, <1>5, <1>7 DEF FrameHome, AtHome
<1>9. LoopsHome(fn', loops', fn[ins])
  BY <1>1, <1>2, <1>4, <1>5, EnteredLoop
<1>10. TargetsInFunction'
  BY <1>2, <1>3, <1>6, TwoTargets
<1>11. QED
  BY <1>1, <1>3, <1>5, <1>7, <1>8, <1>9, <1>10, Pushes

LEMMA OpenForFlow ==
  ASSUME Shape, TargetsInFunction, TermsKept, NEW h, Flow(h), OpenFor
  PROVE  FlowNext
<1>. DEFINE t == Br(nb + 1)
            c == CondBr(nb + 2, nb + 4, NewNode)
            e == Br(nb + 2)
            f == [Call("forbody", NewNode) EXCEPT
                    !.next = nb + 3, !.exit = nb + 4, !.back = nb + 1]
            New == (nb + 1)..(nb + 4)
<1>1. /\ TypeOK /\ nb \in Nat \ {0} /\ ins \in Block /\ fn[ins] = h[Len(work)]
      /\ LoopsHome(fn, loops, h[Len(work)])
  BY FlowHere
<1>2. /\ EnterLoop(nb + 4, nb + 3) /\ ins' = nb + 2 /\ Push(f) /\ ret' = ret
  BY DEF OpenFor
<1>3. PICK u, b, x :
        /\ u \in {c, e}
        /\ Emit(4, fn[ins], Two(ins, t, nb + 1, u), b, x)
  BY DEF OpenFor, Create
<1>4. /\ Grown /\ fn'[ins] = fn[ins] /\ \A y \in New : fn'[y] = fn[ins]
  BY <1>1, <1>3, EmitHome
<1>5. nb + 1 \in New /\ nb + 2 \in New /\ nb + 3 \in New /\ nb + 4 \in New
  BY <1>1
<1>6. Leads(fn', t, fn'[ins]) /\ Leads(fn', u, fn'[nb + 1])
  BY <1>3, <1>4, <1>5, LeadsTo
<1>7. /\ f.k = "forbody" /\ f.cond = 0 /\ f.body = 0 /\ f.sw = 0
      /\ f.next = nb + 3 /\ f.exit = nb + 4 /\ f.back = nb + 1
  BY DEF Call
<1>. HIDE DEF t, f, c, e
<1>8. FrameHome(fn', term', f, fn[ins])
  BY <1>4, <1>5, <1>7 DEF FrameHome, AtHome
<1>9. LoopsHome(fn', loops', fn[ins])
  BY <1>1, <1>2, <1>4, <1>5, EnteredLoop
<1>10. TargetsInFunction'
  BY <1>1, <1>3, <1>6, TwoTargets
<1>11. QED
  BY <1>2, <1>3, <1>5, <1>7, <1>8, <1>9, <1>10, Pushes

LEMMA OpenAsmForFlow ==
  ASSUME Shape, TargetsInFunction, TermsKept, NEW h, Flow(h), OpenAsmFor
  PROVE  FlowNext
<1>. DEFINE f == [Call("asminit", NewNode) EXCEPT
                    !.cond = nb + 1, !.body = nb + 2, !.next = nb + 3,
                    !.exit = nb + 4]
            New == (nb + 1)..(nb + 4)
<1>1. /\ TypeOK /\ nb \in Nat \ {0} /\ ins \in Block /\ fn[ins] = h[Len(work)]
      /\ LoopsHome(fn, loops, h[Len(work)]) /\ loops \in LoopsType
  BY FlowHere
<1>2. /\ Emit(4, fn[ins], <<>>, 0, 0) /\ Push(f)
      /\ UNCHANGED <<ins, ret, loops>>
  BY DEF OpenAsmFor, Create
<1>3. Grown /\ \A y \in New : fn'[y] = fn[ins]
  BY <1>1, <1>2, EmitHome
<1>4. nb + 1 \in New /\ nb + 2 \in New /\ nb + 3 \in New /\ nb + 4 \in New
  BY <1>1
<1>5. /\ f.k = "asminit" /\ f.cond = nb + 1 /\ f.body = nb + 2
      /\ f.next = nb + 3 /\ f.exit = nb + 4 /\ f.back = 0 /\ f.sw = 0
  BY DEF Call
<1>. HIDE DEF f
<1>6. FrameHome(fn', term', f, fn[ins])
  BY <1>3, <1>4, <1>5 DEF FrameHome, AtHome
<1>7. LoopsHome(fn', loops', fn[ins])
  BY <1>1, <1>2, <1>3, GrownParts
<1>8. TargetsInFunction'
  BY <1>1, <1>2, NoneTargets
<1>9. QED
  BY <1>2, <1>5, <1>6, <1>7, <1>8, Pushes

LEMMA OpenSwitchFlow ==
  ASSUME Shape, TargetsInFunction, TermsKept, NEW h, Flow(h), OpenSwitch
  PROVE  FlowNext
<1>. DEFINE t == Terminator("switch", <<nb + 1>>, NewNode)
            f == [Call("switch", NewNode) EXCEPT
                    !.next = nb + 1, !.exit = nb + 2,
                    !.back = nb + 1, !.sw = ins]
            New == (nb + 1)..(nb + 2)
<1>1. /\ TypeOK /\ nb \in Nat \ {0} /\ ins \in Block /\ fn[ins] = h[Len(work)]
      /\ LoopsHome(fn, loops, h[Len(work)]) /\ loops \in LoopsType
  BY FlowHere
<1>2. /\ Emit(2, fn[ins], One(ins, t), 0, 0) /\ Push(f)
      /\ UNCHANGED <<ins, ret, loops>>
  BY DEF OpenSwitch, Create
<1>3. /\ Grown /\ fn'[ins] = fn[ins] /\ \A y \in New : fn'[y] = fn[ins]
  BY <1>1, <1>2, EmitHome
<1>4. nb + 1 \in New /\ nb + 2 \in New
  BY <1>1
<1>5. Leads(fn', t, fn'[ins]) /\ t.op = "switch"
  <2>1. Leads(fn', t, fn'[ins])
    BY <1>3, <1>4, LeadsTo
  <2>2. t.op = "switch"
    BY DEF Terminator
  <2>3. QED
    BY <2>1, <2>2
<1>6. /\ f.k = "switch" /\ f.cond = 0 /\ f.body = 0 /\ f.next = nb + 1
      /\ f.exit = nb + 2 /\ f.back = nb + 1 /\ f.sw = ins
  BY DEF Call
<1>. HIDE DEF t, f
<1>7. term'[ins] = t
  BY <1>1, <1>2 DEF Emit, One, Block
<1>8. FrameHome(fn', term', f, fn[ins])
  BY <1>3, <1>4, <1>5, <1>6, <1>7 DEF FrameHome, AtHome
<1>9. LoopsHome(fn', loops', fn[ins])
  BY <1>1, <1>2, <1>3, GrownParts
<1>10. TargetsInFunction'
  BY <1>1, <1>2, <1>5, OneTargets
<1>11. QED
  BY <1>2, <1>6, <1>8, <1>9, <1>10, Pushes

\* The definition of a function: its blocks are in the new function, what
\* the call keeps for its caller stays in the caller's.
LEMMA OpenFunFlow ==
  ASSUME Shape, TargetsInFunction, TermsKept, NEW h, Flow(h), OpenFun
  PROVE  FlowNext
<1>. DEFINE f == [Call("fun", NewNode) EXCEPT
                    !.exit = nb + 2, !.next = ins,
                    !.outer = [ret |-> ret, loops |-> loops]]
            v == h[Len(work)]
            New == (nb + 1)..(nb + 2)
<1>1. /\ TypeOK /\ StackShape /\ nb \in Nat \ {0} /\ ins \in Block
      /\ fn[ins] = v /\ AtHome(fn, ret, v) /\ LoopsHome(fn, loops, v)
      /\ ret \in BlockOr0 /\ loops \in LoopsType
  BY FlowHere
<1>2. /\ Emit(2, NewNode, <<>>, 0, 0) /\ Push(f)
      /\ ret' = nb + 2 /\ loops' = <<>> /\ ins' = nb + 1
  BY DEF OpenFun
<1>3. /\ Grown /\ fn'[ins] = fn[ins] /\ \A y \in New : fn'[y] = NewNode
  BY <1>1, <1>2, EmitHome
<1>4. nb + 1 \in New /\ nb + 2 \in New
  BY <1>1
<1>5. NewNode \in Nat
  BY <1>1 DEF TypeOK, NewNode
<1>6. /\ f.k = "fun" /\ f.cond = 0 /\ f.body = 0 /\ f.back = 0 /\ f.sw = 0
      /\ f.next = ins /\ f.exit = nb + 2
      /\ f.outer.ret = ret /\ f.outer.loops = loops
  BY DEF Call
<1>. HIDE DEF f, v
<1>7. FrameHome(fn', term', f, NewNode)
  BY <1>3, <1>4, <1>6 DEF FrameHome, AtHome
<1>8. Linked(fn', f, NewNode, v)
  <2>1. AtHome(fn', ret, v) /\ LoopsHome(fn', loops, v)
    BY <1>1, <1>3, GrownParts
  <2>2. QED
    BY <1>1, <1>3, <1>6, <2>1 DEF Linked, CallerHome, AtHome
<1>9. CurrentHome(fn', NewNode, ins', ret', loops')
  BY <1>2, <1>3, <1>4 DEF CurrentHome, AtHome, LoopsHome
<1>10. /\ Len(work') = Len(work) + 1 /\ work'[Len(work) + 1] = f
       /\ \A i \in 1..Len(work) : work'[i] = work[i]
  BY <1>1, <1>2 DEF Push, TypeOK
<1>11. TargetsInFunction'
  BY <1>1, <1>2, NoneTargets
<1>12. QED
  BY <1>1, <1>3, <1>5, <1>7, <1>8, <1>9, <1>10, <1>11, FlowPushed
  DEF FlowNext, v

-----------------------------------------------------------------------------
(* Sections. *)

LEMMA LeftLoop ==
  ASSUME TypeOK, Grown, NEW v, LoopsHome(fn, loops, v), LeaveLoop
  PROVE  LoopsHome(fn', loops', v)
<1>. DEFINE Loop == [brk : Block, cnt : Block]
<1>1. LoopsHome(fn', loops, v)
  BY GrownParts DEF TypeOK
<1>2. loops \in Seq(Loop) /\ loops' = Front(loops)
  BY DEF TypeOK, LoopsType, LeaveLoop
<1>. HIDE DEF Loop
<1>3. CASE loops = <<>>
  <2>1. Front(loops) = <<>>
    BY <1>3 DEF Front
  <2>2. QED
    BY <1>2, <2>1 DEF LoopsHome
<1>4. CASE loops # <<>>
  <2>1. /\ DOMAIN loops = 1..Len(loops) /\ DOMAIN loops' = 1..(Len(loops) - 1)
        /\ Len(loops) \in Nat
        /\ \A i \in 1..(Len(loops) - 1) : loops'[i] = loops[i]
    BY <1>2, <1>4, FrontProps
  <2>2. \A i \in DOMAIN loops' : i \in DOMAIN loops /\ loops'[i] = loops[i]
    BY <2>1
  <2>3. QED
    BY <1>1, <2>2 DEF LoopsHome
<1>5. QED
  BY <1>3, <1>4

\* A section that ends in the function of its caller.
LEMMA Returns ==
  ASSUME Shape, TermsKept, NEW h, Flow(h), NEW t, NEW b, NEW c,
         Emit(0, fn[ins], t, b, c), Return, Top.k \notin {"fun", "root"},
         ret' = ret, LoopsHome(fn', loops', fn[ins]),
         ins' \in Block, fn[ins'] = fn[ins],
         TargetsInFunction'
  PROVE  FlowNext
<1>. DEFINE v == h[Len(work)]
<1>1. /\ TypeOK /\ StackShape /\ fn[ins] = v
      /\ AtHome(fn, ret, v) /\ ret \in BlockOr0
  BY FlowHere
<1>2. Len(work) \in Nat \ {0} /\ Len(work) # 1
  BY <1>1, TopType
<1>3. h[Len(work) - 1] = v
  <2>1. \A n \in Nat \ {0} : n # 1 => n \in 2..n
    OBVIOUS
  <2>2. QED
    BY <1>2, <2>1 DEF Flow, Linked, Top
<1>. HIDE DEF v
<1>4. Grown /\ fn'[ins'] = v
  BY <1>1, EmitHome
<1>5. CurrentHome(fn', h[Len(work) - 1], ins', ret', loops')
  BY <1>1, <1>3, <1>4, GrownParts DEF CurrentHome
<1>6. QED
  BY <1>1, <1>2, <1>4, <1>5, FlowReturns DEF FlowNext

\* A section after which the same call goes on.
LEMMA Becomes ==
  ASSUME Shape, TermsKept, NEW h, Flow(h), NEW t, NEW b, NEW c,
         Emit(0, fn[ins], t, b, c), NEW f, Become(f),
         Top.k # "fun", f.k # "fun",
         FrameHome(fn', term', f, fn[ins]),
         ret' = ret, LoopsHome(fn', loops', fn[ins]),
         ins' \in Block, fn[ins'] = fn[ins],
         TargetsInFunction'
  PROVE  FlowNext
<1>. DEFINE v == h[Len(work)]
<1>1. /\ TypeOK /\ StackShape /\ fn[ins] = v
      /\ AtHome(fn, ret, v) /\ ret \in BlockOr0
  BY FlowHere
<1>. HIDE DEF v
<1>2. Grown /\ fn'[ins'] = v
  BY <1>1, EmitHome
<1>3. CurrentHome(fn', v, ins', ret', loops')
  BY <1>1, <1>2, GrownParts DEF CurrentHome
<1>4. Flow(h)'
  BY <1>1, <1>2, <1>3, FlowBecomes DEF v
<1>5. QED
  BY <1>4 DEF FlowNext

\* The blocks of the innermost call, unless it defines a function.
LEMMA TopHome ==
  ASSUME Shape, NEW h, Flow(h), Top.k # "fun"
  PROVE  /\ \A x \in {Top.cond, Top.body, Top.next, Top.exit,
                       Top.back, Top.sw} :
              x # 0 => x \in Block /\ fn[x] = fn[ins]
         /\ FrameShape(Top, lang)
<1>1. /\ TypeOK /\ StackShape /\ nb \in Nat \ {0} /\ Top \in FrameType
      /\ fn[ins] = h[Len(work)] /\ FrameHome(fn, term, Top, h[Len(work)])
  BY FlowHere
<1>2. /\ Top.cond \in BlockOr0 /\ Top.body \in BlockOr0 /\ Top.next \in BlockOr0
      /\ Top.exit \in BlockOr0 /\ Top.back \in BlockOr0 /\ Top.sw \in BlockOr0
  BY <1>1 DEF FrameType
<1>3. \A x \in BlockOr0 : x # 0 => x \in Block
  BY <1>1 DEF BlockOr0, Block
<1>4. FrameShape(Top, lang)
  BY <1>1, TopType
<1>5. QED
  BY <1>1, <1>2, <1>3, <1>4 DEF FrameHome, AtHome

LEMMA EndBranchFlow ==
  ASSUME Shape, TargetsInFunction, TermsKept, NEW h, Flow(h),
         \/ EndElse \/ EndWhile \/ EndFor \/ EndCase
  PROVE  FlowNext
<1>1. /\ TypeOK /\ LoopsHome(fn, loops, fn[ins]) /\ loops \in LoopsType
      /\ ins \in Block
  BY FlowHere
<1>2. Top.k \notin {"fun", "root"} /\ Return /\ ret' = ret
  BY DEF EndElse, EndWhile, EndFor, EndCase
<1>3. \A x \in {Top.exit, Top.back} : x # 0 => x \in Block /\ fn[x] = fn[ins]
  BY <1>2, TopHome
<1>4. FrameShape(Top, lang)
  BY <1>2, TopHome
<1>5. PICK x \in Block :
        fn[x] = fn[ins] /\ Emit(0, fn[ins], One(ins, Br(x)), 0, 0)
  <2>1. CASE EndElse
    <3>1. Top.exit # 0
      BY <1>4, <2>1 DEF EndElse, FrameShape, SlotsInUse, Slots
    <3>2. QED
      BY <1>3, <2>1, <3>1 DEF EndElse, Create
  <2>2. CASE EndWhile \/ EndFor \/ EndCase
    <3>1. Top.back # 0
      BY <1>4, <2>2 DEF EndWhile, EndFor, EndCase, FrameShape
    <3>2. QED
      BY <1>3, <2>2, <3>1 DEF EndWhile, EndFor, EndCase, Create
  <2>3. QED
    BY <2>1, <2>2
<1>6. Grown /\ \A y \in Block : fn'[y] = fn[y]
  BY <1>1, <1>5, EmitHome
<1>7. Leads(fn', Br(x), fn'[ins])
  BY <1>1, <1>5, <1>6, LeadsTo
<1>8. TargetsInFunction'
  BY <1>1, <1>5, <1>7, OneTargets
<1>9. ins' \in Block /\ fn[ins'] = fn[ins]
  <2>1. CASE EndCase
    BY <1>1, <2>1 DEF EndCase
  <2>2. CASE EndElse \/ EndWhile \/ EndFor
    <3>1. Top.exit # 0 /\ ins' = Top.exit
      BY <1>4, <2>2 DEF EndElse, EndWhile, EndFor, FrameShape, SlotsInUse, Slots
    <3>2. QED
      BY <1>3, <3>1
  <2>3. QED
    BY <2>1, <2>2
<1>10. LoopsHome(fn', loops', fn[ins])
  <2>1. CASE loops' = loops
    BY <1>1, <1>6, <2>1, GrownParts
  <2>2. CASE LeaveLoop
    BY <1>1, <1>6, <2>2, LeftLoop
  <2>3. QED
    BY <2>1, <2>2 DEF EndElse, EndWhile, EndFor, EndCase
<1>11. QED
  BY <1>2, <1>5, <1>8, <1>9, <1>10, Returns

LEMMA EndThenFlow ==
  ASSUME Shape, TargetsInFunction, TermsKept, NEW h, Flow(h), EndThen
  PROVE  FlowNext
<1>. DEFINE f == [Top EXCEPT !.k = "else", !.next = 0]
<1>1. /\ TypeOK /\ LoopsHome(fn, loops, fn[ins]) /\ loops \in LoopsType
      /\ ins \in Block /\ Top \in FrameType
  BY FlowHere
<1>2. /\ Top.k = "then" /\ Emit(0, fn[ins], One(ins, Br(Top.exit)), 0, 0)
      /\ UNCHANGED <<ret, loops>>
  BY DEF EndThen, Create
<1>3. /\ \A x \in {Top.cond, Top.body, Top.next, Top.exit, Top.back, Top.sw} :
           x # 0 => x \in Block /\ fn[x] = fn[ins]
      /\ FrameShape(Top, lang)
  BY <1>2, TopHome
<1>4. Top.exit # 0
  BY <1>2, <1>3 DEF FrameShape, SlotsInUse, Slots
<1>5. Grown /\ \A y \in Block : fn'[y] = fn[y]
  BY <1>1, <1>2, EmitHome
<1>6. Leads(fn', Br(Top.exit), fn'[ins])
  BY <1>1, <1>3, <1>4, <1>5, LeadsTo
<1>7. TargetsInFunction'
  BY <1>1, <1>2, <1>6, OneTargets
<1>8. LoopsHome(fn', loops', fn[ins])
  BY <1>1, <1>2, <1>5, GrownParts
<1>9. CASE Top.next # 0
  <2>1. ins' = Top.next /\ Become(f)
    BY <1>9 DEF EndThen
  <2>2. /\ f.k = "else" /\ f.next = 0 /\ f.cond = Top.cond /\ f.body = Top.body
        /\ f.exit = Top.exit /\ f.back = Top.back /\ f.sw = Top.sw
    BY <1>1 DEF FrameType
  <2>. HIDE DEF f
  <2>3. FrameHome(fn', term', f, fn[ins])
    BY <1>3, <1>5, <2>2 DEF FrameHome, AtHome
  <2>4. QED
    BY <1>2, <1>3, <1>7, <1>8, <1>9, <2>1, <2>2, <2>3, Becomes
<1>10. CASE Top.next = 0
  <2>1. ins' = Top.exit /\ Return
    BY <1>10 DEF EndThen
  <2>2. QED
    BY <1>2, <1>3, <1>4, <1>7, <1>8, <2>1, Returns
<1>11. QED
  BY <1>9, <1>10

LEMMA EndAsmInitFlow ==
  ASSUME Shape, TargetsInFunction, TermsKept, NEW h, Flow(h), EndAsmInit
  PROVE  FlowNext
<1>. DEFINE f == [Top EXCEPT !.k = "forbody", !.cond = 0, !.body = 0,
                             !.back = Top.cond]
            t == Br(Top.cond)
            u == CondBr(Top.body, Top.exit, Top.node)
<1>1. /\ TypeOK /\ LoopsHome(fn, loops, fn[ins]) /\ loops \in LoopsType
      /\ ins \in Block /\ Top \in FrameType
  BY FlowHere
<1>2. /\ Top.k = "asminit" /\ Emit(0, fn[ins], Two(ins, t, Top.cond, u), 0, 0)
      /\ EnterLoop(Top.exit, Top.next) /\ ins' = Top.body
      /\ Become(f) /\ ret' = ret
  BY DEF EndAsmInit, Create
<1>3. /\ \A x \in {Top.cond, Top.body, Top.next, Top.exit, Top.back, Top.sw} :
           x # 0 => x \in Block /\ fn[x] = fn[ins]
      /\ FrameShape(Top, lang)
  BY <1>2, TopHome
<1>4. Top.exit # 0 /\ Top.cond # 0 /\ Top.body # 0 /\ Top.next # 0
  BY <1>2, <1>3 DEF FrameShape, SlotsInUse, Slots
<1>5. Grown /\ \A y \in Block : fn'[y] = fn[y]
  BY <1>1, <1>2, EmitHome
<1>6. Leads(fn', t, fn'[ins]) /\ Leads(fn', u, fn'[Top.cond])
  BY <1>1, <1>3, <1>4, <1>5, LeadsTo
<1>7. /\ f.k = "forbody" /\ f.next = Top.next /\ f.cond = 0 /\ f.body = 0
      /\ f.exit = Top.exit /\ f.back = Top.cond /\ f.sw = Top.sw
  BY <1>1 DEF FrameType
<1>. HIDE DEF f, t, u
<1>8. TargetsInFunction'
  BY <1>1, <1>2, <1>6, TwoTargets
<1>9. LoopsHome(fn', loops', fn[ins])
  BY <1>1, <1>2, <1>3, <1>4, <1>5, EnteredLoop
<1>10. FrameHome(fn', term', f, fn[ins])
  BY <1>3, <1>5, <1>7 DEF FrameHome, AtHome
<1>11. QED
  BY <1>2, <1>3, <1>4, <1>7, <1>8, <1>9, <1>10, Becomes

LEMMA EndForBodyFlow ==
  ASSUME Shape, TargetsInFunction, TermsKept, NEW h, Flow(h), EndForBody
  PROVE  FlowNext
<1>. DEFINE f == [Top EXCEPT !.k = "forpost", !.next = 0]
<1>1. /\ TypeOK /\ LoopsHome(fn, loops, fn[ins]) /\ loops \in LoopsType
      /\ ins \in Block /\ Top \in FrameType
  BY FlowHere
<1>2. /\ Top.k = "forbody" /\ Emit(0, fn[ins], One(ins, Br(Top.next)), 0, 0)
      /\ ins' = Top.next /\ Become(f) /\ UNCHANGED <<ret, loops>>
  BY DEF EndForBody, Create
<1>3. /\ \A x \in {Top.cond, Top.body, Top.next, Top.exit, Top.back, Top.sw} :
           x # 0 => x \in Block /\ fn[x] = fn[ins]
      /\ FrameShape(Top, lang)
  BY <1>2, TopHome
<1>4. Top.next # 0
  BY <1>2, <1>3 DEF FrameShape, SlotsInUse, Slots
<1>5. Grown /\ \A y \in Block : fn'[y] = fn[y]
  BY <1>1, <1>2, EmitHome
<1>6. Leads(fn', Br(Top.next), fn'[ins])
  BY <1>1, <1>3, <1>4, <1>5, LeadsTo
<1>7. TargetsInFunction'
  BY <1>1, <1>2, <1>6, OneTargets
<1>8. LoopsHome(fn', loops', fn[ins])
  BY <1>1, <1>2, <1>5, GrownParts
<1>9. /\ f.k = "forpost" /\ f.next = 0 /\ f.cond = Top.cond /\ f.body = Top.body
      /\ f.exit = Top.exit /\ f.back = Top.back /\ f.sw = Top.sw
  BY <1>1 DEF FrameType
<1>. HIDE DEF f
<1>10. FrameHome(fn', term', f, fn[ins])
  BY <1>3, <1>5, <1>9 DEF FrameHome, AtHome
<1>11. QED
  BY <1>2, <1>3, <1>4, <1>7, <1>8, <1>9, <1>10, Becomes

LEMMA OpenCaseFlow ==
  ASSUME Shape, TargetsInFunction, TermsKept, NEW h, Flow(h), OpenCase
  PROVE  FlowNext
<1>. DEFINE t == [term[Top.sw] EXCEPT !.to = Append(@, nb + 1)]
            f == [Call("case", NewNode) EXCEPT !.back = Top.exit]
<1>1. /\ TypeOK /\ LoopsHome(fn, loops, fn[ins]) /\ loops \in LoopsType
      /\ ins \in Block /\ nb \in Nat \ {0}
  BY FlowHere
<1>2. /\ Top.k = "switch" /\ Emit(1, fn[ins], One(Top.sw, t), 0, 0)
      /\ ins' = nb + 1 /\ Push(f) /\ UNCHANGED <<ret, loops>>
  BY DEF OpenCase, Create
<1>3. /\ \A x \in {Top.cond, Top.body, Top.next, Top.exit, Top.back, Top.sw} :
           x # 0 => x \in Block /\ fn[x] = fn[ins]
      /\ FrameShape(Top, lang)
  BY <1>2, TopHome
<1>4. Top.sw # 0 /\ Top.exit # 0
  BY <1>2, <1>3 DEF FrameShape, SlotsInUse, Slots
<1>5. Top.sw \in Block /\ fn[Top.sw] = fn[ins]
  BY <1>3, <1>4
<1>6. /\ Grown /\ \A y \in Block : fn'[y] = fn[y]
      /\ \A y \in (nb + 1)..(nb + 1) : fn'[y] = fn[ins]
  <2>. HIDE DEF t
  <2>1. QED
    BY <1>1, <1>2, EmitHome
<1>7. nb + 1 \in (nb + 1)..(nb + 1)
  BY <1>1
<1>8. Leads(fn', t, fn'[Top.sw])
  <2>. DEFINE old == term[Top.sw].to
  <2>1. term[Top.sw] \in TermType
    BY <1>1, <1>5 DEF TypeOK
  <2>2. old \in Seq(Block) /\ t.to = Append(old, nb + 1)
    BY <2>1 DEF TermType, TermsTo
  <2>3. \A i \in DOMAIN old : old[i] \in Block /\ fn[old[i]] = fn[ins]
    BY <1>5, <2>2 DEF TargetsInFunction
  <2>. HIDE DEF old, t
  <2>4. \A i \in DOMAIN t.to :
          \/ i \in DOMAIN old /\ t.to[i] = old[i]
          \/ t.to[i] = nb + 1
    BY <2>2
  <2>5. QED
    BY <1>5, <1>6, <1>7, <2>3, <2>4 DEF Leads
<1>9. /\ f.k = "case" /\ f.cond = 0 /\ f.body = 0 /\ f.next = 0 /\ f.exit = 0
      /\ f.back = Top.exit /\ f.sw = 0
  BY DEF Call
<1>. HIDE DEF f, t
<1>10. FrameHome(fn', term', f, fn[ins])
  BY <1>3, <1>6, <1>9 DEF FrameHome, AtHome
<1>11. LoopsHome(fn', loops', fn[ins])
  BY <1>1, <1>2, <1>6, GrownParts
<1>12. TargetsInFunction'
  BY <1>1, <1>2, <1>8, OneTargets
<1>13. QED
  BY <1>2, <1>7, <1>9, <1>10, <1>11, <1>12, Pushes

LEMMA OpenDefaultFlow ==
  ASSUME Shape, TargetsInFunction, NEW h, Flow(h), OpenDefault
  PROVE  FlowNext
<1>0. PICK n : n = Len(work)
  OBVIOUS
<1>. DEFINE f == [Top EXCEPT !.next = 0]
            d == [Call("case", NewNode) EXCEPT !.back = Top.exit]
            v == h[n]
            m == n - 1
            g == [i \in 1..(n + 1) |-> IF i = n + 1 THEN v ELSE h[i]]
<1>1. /\ TypeOK /\ StackShape /\ Top \in FrameType /\ v \in Nat
      /\ CurrentHome(fn, v, ins, ret, loops)
      /\ FrameHome(fn, term, Top, v) /\ nb \in Nat \ {0}
  BY <1>0, FlowHere DEF Flow
<1>2. /\ Top.k = "switch" /\ ins' = Top.back
      /\ UNCHANGED <<nb, fn, term, ret, loops>>
      /\ work' = Append(Append(Front(work), f), d)
  BY DEF OpenDefault
<1>3. n \in Nat \ {0} /\ work \in Seq(FrameType) /\ work # <<>>
  BY <1>0, <1>1, TopType DEF StackShape
<1>4. /\ n \in Nat /\ Len(work') = n + 1 /\ work'[n] = f /\ work'[n + 1] = d
      /\ \A i \in 1..m : work'[i] = work[i]
  <2>. DEFINE rest == Front(work)
              mid == Append(rest, f)
  <2>1. /\ rest \in Seq(FrameType) /\ Len(rest) = m
        /\ \A i \in 1..m : rest[i] = work[i]
    BY <1>0, <1>3, FrontProps
  <2>2. work' = Append(mid, d)
    BY <1>2
  <2>. HIDE DEF rest, f, d
  <2>3. /\ Len(mid) = n /\ mid[n] = f /\ mid = Append(rest, f)
        /\ \A i \in 1..m : mid[i] = work[i]
    BY <1>3, <2>1
  <2>4. mid \in Seq(FrameType \cup {f})
    BY <2>1, SeqGrows
  <2>. HIDE DEF mid
  <2>5. QED
    BY <1>3, <2>2, <2>3, <2>4
<1>5. Top.back \in Block
  BY <1>2, TopSwitch
<1>6. Grown /\ Block' = Block
  BY <1>2 DEF Grown, Block
<1>7. FrameHome(fn', term', f, v) /\ f.k = "switch"
  <2>1. /\ f.k = "switch" /\ f.next = 0
        /\ f.cond = Top.cond /\ f.body = Top.body
        /\ f.exit = Top.exit /\ f.back = Top.back /\ f.sw = Top.sw
    BY <1>1, <1>2 DEF FrameType
  <2>. HIDE DEF f
  <2>2. QED
    BY <1>1, <1>2, <2>1 DEF FrameHome, AtHome
<1>8. FrameHome(fn', term', d, v) /\ d.k = "case"
  <2>1. /\ d.k = "case" /\ d.cond = 0 /\ d.body = 0 /\ d.next = 0 /\ d.exit = 0
        /\ d.back = Top.exit /\ d.sw = 0
    BY DEF Call
  <2>. HIDE DEF d
  <2>2. QED
    BY <1>1, <1>2, <2>1 DEF FrameHome, AtHome
<1>9. /\ g \in [1..Len(work') -> Nat] /\ g[n + 1] = v
      /\ \A i \in 1..n : g[i] = h[i]
  BY <1>0, <1>1, <1>3, <1>4 DEF Flow
<1>10. n # 1 => h[n] = h[m]
  <2>1. \A j \in Nat \ {0} : j # 1 => j \in 2..j
    OBVIOUS
  <2>2. QED
    BY <1>0, <1>2, <1>3, <2>1 DEF Flow, Linked, Top
<1>11. CurrentHome(fn', v, ins', ret', loops')
  <2>1. Top.back # 0
    BY <1>1, <1>5 DEF Block
  <2>2. QED
    BY <1>1, <1>2, <2>1 DEF CurrentHome, FrameHome, AtHome
<1>. HIDE DEF f, d, g
<1>12. m = n - 1 /\ v = h[n]
  OBVIOUS
<1>. HIDE DEF m, v
<1>13. FlowFacts(m, h, g)
  <2>1. \A i \in (m + 1)..Len(work') : i = n \/ i = n + 1
    BY <1>3, <1>4, <1>12
  <2>2. /\ FrameHome(fn', term', work'[n], g[n])
        /\ n # 1 => Linked(fn', work'[n], g[n], g[n - 1])
    <3>1. n \in 1..n /\ (n # 1 => n - 1 \in 1..n /\ g[n - 1] = h[n - 1])
      BY <1>3, <1>9
    <3>2. g[n] = v /\ work'[n] = f
      BY <1>4, <1>9, <1>12, <3>1
    <3>3. n # 1 => Linked(fn', f, v, g[n - 1])
      BY <1>7, <1>10, <1>12, <3>1 DEF Linked
    <3>4. QED
      BY <1>7, <3>2, <3>3
  <2>3. /\ FrameHome(fn', term', work'[n + 1], g[n + 1])
        /\ Linked(fn', work'[n + 1], g[n + 1], g[n])
    <3>1. g[n] = h[n]
      BY <1>3, <1>9
    <3>2. QED
      BY <1>4, <1>8, <1>9, <1>12, <3>1 DEF Linked
  <2>4. m \in 0..Len(work) /\ Len(work') \in Nat /\ m <= Len(work')
    BY <1>0, <1>3, <1>4, <1>12
  <2>5. \A i \in 1..m : work'[i] = work[i] /\ g[i] = h[i]
    BY <1>3, <1>4, <1>9, <1>12
  <2>6. CurrentHome(fn', g[Len(work')], ins', ret', loops')
    BY <1>4, <1>9, <1>11
  <2>7. \A i \in (m + 1)..Len(work') :
          /\ FrameHome(fn', term', work'[i], g[i])
          /\ i # 1 => Linked(fn', work'[i], g[i], g[i - 1])
    <3>1. TAKE i \in (m + 1)..Len(work')
    <3>2. CASE i = n
      BY <2>2, <3>2
    <3>3. CASE i = n + 1
      <4>1. i - 1 = n
        BY <1>3, <3>3
      <4>2. QED
        BY <2>3, <3>3, <4>1
    <3>4. QED
      BY <2>1, <3>1, <3>2, <3>3
  <2>8. QED
    BY <1>9, <2>4, <2>5, <2>6, <2>7 DEF FlowFacts
<1>14. Flow(g)'
  BY <1>1, <1>6, <1>13, FlowKeeps
<1>15. TargetsInFunction'
  BY <1>2, <1>6 DEF TargetsInFunction
<1>16. QED
  BY <1>14, <1>15 DEF FlowNext

LEMMA EndSwitchFlow ==
  ASSUME Shape, TargetsInFunction, TermsKept, NEW h, Flow(h), EndSwitch
  PROVE  FlowNext
<1>1. /\ TypeOK /\ LoopsHome(fn, loops, fn[ins]) /\ loops \in LoopsType
  BY FlowHere
<1>2. Top.k = "switch" /\ ins' = Top.exit /\ Return /\ UNCHANGED <<ret, loops>>
  BY DEF EndSwitch
<1>3. /\ \A x \in {Top.cond, Top.body, Top.next, Top.exit, Top.back, Top.sw} :
           x # 0 => x \in Block /\ fn[x] = fn[ins]
      /\ FrameShape(Top, lang)
  BY <1>2, TopHome
<1>4. Top.exit # 0 /\ Top.back # 0
  BY <1>2, <1>3 DEF FrameShape, SlotsInUse, Slots
<1>5. PICK t : /\ Emit(0, fn[ins], t, 0, 0)
               /\ t \in {<<>>, One(Top.back, Br(Top.exit))}
  BY DEF EndSwitch, Create
<1>6. Grown /\ \A y \in Block : fn'[y] = fn[y]
  BY <1>1, <1>5, EmitHome
<1>7. Leads(fn', Br(Top.exit), fn'[Top.back])
  BY <1>3, <1>4, <1>6, LeadsTo
<1>8. TargetsInFunction'
  BY <1>1, <1>5, <1>7, NoneTargets, OneTargets
<1>9. LoopsHome(fn', loops', fn[ins])
  BY <1>1, <1>2, <1>6, GrownParts
<1>10. QED
  BY <1>2, <1>3, <1>4, <1>5, <1>8, <1>9, Returns

\* The two blocks that the tail of a function closes are in it.
LEMMA TailTargets ==
  ASSUME Shape, TargetsInFunction, NEW h, Flow(h), Top.k # "switch",
         Top.exit \in Block, fn[Top.exit] = fn[ins],
         Emit(0, fn[ins], FunctionTail, 0, 0)
  PROVE  TargetsInFunction'
<1>1. TypeOK /\ ~Closed(term, ins) /\ ins \in Block
  BY Here
<1>2. Emit(0, fn[ins], Two(ins, Br(Top.exit), Top.exit, Ret), 0, 0)
  BY <1>1 DEF FunctionTail, Terminated, Closed
<1>3. \A y \in Block : fn'[y] = fn[y]
  BY <1>1, <1>2, EmitHome
<1>4. Leads(fn', Br(Top.exit), fn'[ins]) /\ Leads(fn', Ret, fn'[Top.exit])
  BY <1>1, <1>3, LeadsTo
<1>5. QED
  BY <1>1, <1>2, <1>4, TwoTargets

LEMMA EndFunFlow ==
  ASSUME Shape, TargetsInFunction, TermsKept, NEW h, Flow(h), EndFun
  PROVE  FlowNext
<1>. DEFINE n == Len(work)
<1>1. /\ TypeOK /\ StackShape /\ Top \in FrameType /\ fn[ins] = h[n]
      /\ FrameHome(fn, term, Top, h[n]) /\ nb \in Nat \ {0}
  BY FlowHere
<1>2. /\ Top.k = "fun" /\ Emit(0, fn[ins], FunctionTail, 0, 0) /\ Return
      /\ ret' = Top.outer.ret /\ loops' = Top.outer.loops /\ ins' = Top.next
  BY DEF EndFun, Create
<1>3. n \in Nat \ {0} /\ n # 1 /\ FrameShape(Top, lang)
  BY <1>1, <1>2, TopType
<1>4. Top.exit # 0 /\ Top.next # 0
  BY <1>2, <1>3 DEF FrameShape, SlotsInUse, Slots
<1>5. Top.exit \in Block /\ fn[Top.exit] = fn[ins]
  <2>1. Top.exit \in BlockOr0
    BY <1>1 DEF FrameType
  <2>2. QED
    BY <1>1, <1>4, <2>1 DEF BlockOr0, Block, FrameHome, AtHome
<1>6. TargetsInFunction'
  BY <1>2, <1>5, TailTargets
<1>7. Grown
  BY <1>1, <1>2, EmitHome
<1>8. Linked(fn', Top, h[n], h[n - 1])
  <2>1. \A j \in Nat \ {0} : j # 1 => j \in 2..j
    OBVIOUS
  <2>2. Linked(fn, Top, h[n], h[n - 1])
    BY <1>3, <2>1 DEF Flow, Top
  <2>3. QED
    BY <1>1, <1>3, <1>7, <2>2, GrownFrame
<1>9. CurrentHome(fn', h[n - 1], ins', ret', loops')
  BY <1>2, <1>4, <1>8 DEF Linked, CallerHome, CurrentHome, AtHome
<1>10. QED
  BY <1>1, <1>2, <1>3, <1>6, <1>7, <1>9, FlowReturns DEF FlowNext

LEMMA EndRootTargets ==
  ASSUME Shape, TargetsInFunction, NEW h, Flow(h), EndRoot
  PROVE  TargetsInFunction'
<1>1. TypeOK
  BY FlowHere
<1>2. Top.k = "root"
  BY DEF EndRoot
<1>3. /\ Top.exit # 0 => Top.exit \in Block /\ fn[Top.exit] = fn[ins]
      /\ FrameShape(Top, lang)
  BY <1>2, TopHome
<1>4. CASE lang = "sol"
  <2>1. Top.exit # 0
    BY <1>2, <1>3, <1>4 DEF FrameShape, SlotsInUse, Slots
  <2>2. Emit(0, fn[ins], FunctionTail, 0, 0)
    BY <1>4 DEF EndRoot, Create
  <2>3. QED
    BY <1>2, <1>3, <2>1, <2>2, TailTargets
<1>5. CASE lang # "sol"
  <2>1. Emit(0, fn[ins], One(ins, Ret), 0, 0)
    BY <1>5 DEF EndRoot, Create
  <2>2. QED
    BY <1>1, <2>1, LeadsTo, OneTargets
<1>6. QED
  BY <1>4, <1>5

-----------------------------------------------------------------------------
(* The invariant and the theorems. *)

FlowInv ==
  /\ EmitterInv
  /\ TargetsInFunction
  /\ pc = "emit" => \E h : Flow(h)

\* What a step does to the blocks that have their terminator.
LEMMA StepKeepsTerms ==
  ASSUME FlowInv, [Next]_vars
  PROVE  TermsKept
<1>1. CASE UNCHANGED vars
  BY <1>1 DEF vars, TermsKept
<1>2. CASE Statement
  <2>1. Shape
    BY <1>2
    DEF FlowInv, EmitterInv, Statement, EmitAct, EmitRequire, EmitRevert,
        EmitReturn, LeaveUndefined, EmitJump, JumpOutsideLoop, MayJump,
        OpenIf, OpenThen, OpenWhile, OpenFor, OpenAsmFor, OpenSwitch,
        OpenFun, MayCome
  <2>2. QED
    BY <1>2, <2>1, StatementSame, SameIsKept
<1>3. CASE Section
  <2>1. Shape /\ pc = "emit"
    BY <1>3
    DEF FlowInv, EmitterInv, Section, EndThen, EndElse, EndWhile, EndAsmInit,
        EndForBody, EndFor, OpenCase, OpenDefault, EndCase, EndSwitch,
        EndFun, EndRoot
  <2>2. PICK h : Flow(h)
    BY <2>1 DEF FlowInv
  <2>3. SwitchInPlace
    <3>1. DOMAIN work = 1..Len(work)
      BY <2>1, TopType DEF Shape
    <3>2. QED
      BY <2>2, <3>1 DEF Flow, FrameHome, SwitchInPlace
  <2>4. QED
    BY <1>3, <2>1, <2>3, SectionSame, SameIsKept, OpenCaseKept
<1>4. QED
  BY <1>1, <1>2, <1>3 DEF Next, Finished

LEMMA FlowInductive == FlowInv /\ [Next]_vars => FlowInv'
<1>1. SUFFICES ASSUME FlowInv, [Next]_vars PROVE FlowInv'
  OBVIOUS
<1>2. EmitterInv' /\ TermsKept /\ TargetsInFunction
  BY <1>1, EmissionInductive, StepKeepsTerms DEF FlowInv
<1>3. CASE UNCHANGED vars
  <2>1. TargetsInFunction'
    BY <1>2, <1>3 DEF vars, TargetsInFunction, Block
  <2>2. \A h : Flow(h) => Flow(h)'
    BY <1>3 DEF vars, Flow
  <2>3. pc' = pc
    BY <1>3 DEF vars
  <2>4. QED
    BY <1>1, <1>2, <2>1, <2>2, <2>3 DEF FlowInv
<1>4. CASE LeaveUndefined \/ JumpOutsideLoop
  <2>1. pc' # "emit" /\ UNCHANGED <<nb, fn, term>>
    BY <1>4 DEF LeaveUndefined, JumpOutsideLoop
  <2>2. TargetsInFunction'
    BY <1>2, <2>1 DEF TargetsInFunction, Block
  <2>3. QED
    BY <1>2, <2>1, <2>2 DEF FlowInv
<1>5. CASE Statement /\ ~(LeaveUndefined \/ JumpOutsideLoop)
  <2>1. pc = "emit"
    BY <1>5
    DEF Statement, EmitAct, EmitRequire, EmitRevert, EmitReturn, EmitJump,
        MayJump, OpenIf, OpenThen, OpenWhile, OpenFor, OpenAsmFor,
        OpenSwitch, OpenFun, MayCome
  <2>2. PICK h : Flow(h)
    BY <1>1, <2>1 DEF FlowInv
  <2>3. Shape
    BY <1>1, <2>1 DEF FlowInv, EmitterInv
  <2>4. FlowNext
    BY <1>2, <1>5, <2>2, <2>3, LineFlow, OpenIfFlow, OpenWhileFlow,
       OpenForFlow, OpenAsmForFlow, OpenSwitchFlow, OpenFunFlow
    DEF Statement
  <2>5. QED
    BY <1>2, <2>4 DEF FlowInv, FlowNext
<1>6. CASE Section
  <2>1. pc = "emit"
    BY <1>6
    DEF Section, EndThen, EndElse, EndWhile, EndAsmInit, EndForBody, EndFor,
        OpenCase, OpenDefault, EndCase, EndSwitch, EndFun, EndRoot
  <2>2. PICK h : Flow(h)
    BY <1>1, <2>1 DEF FlowInv
  <2>3. Shape
    BY <1>1, <2>1 DEF FlowInv, EmitterInv
  <2>4. CASE EndRoot
    <3>1. TargetsInFunction' /\ pc' # "emit"
      BY <1>2, <2>2, <2>3, <2>4, EndRootTargets DEF EndRoot
    <3>2. QED
      BY <1>2, <3>1 DEF FlowInv
  <2>5. CASE ~EndRoot
    <3>1. FlowNext
      BY <1>2, <1>6, <2>2, <2>3, <2>5, EndThenFlow, EndBranchFlow,
         EndAsmInitFlow, EndForBodyFlow, OpenCaseFlow, OpenDefaultFlow,
         EndSwitchFlow, EndFunFlow
      DEF Section
    <3>2. QED
      BY <1>2, <3>1 DEF FlowInv, FlowNext
  <2>6. QED
    BY <2>4, <2>5
<1>7. QED
  BY <1>1, <1>3, <1>4, <1>5, <1>6 DEF Next, Finished

LEMMA FlowInit == Init => FlowInv
<1>1. SUFFICES ASSUME Init PROVE FlowInv
  OBVIOUS
<1>. DEFINE h == [i \in 1..1 |-> 0]
            top == work[1]
<1>2. EmitterInv
  BY <1>1, InitShape DEF EmitterInv, AllBlocksTerminated, Shape
<1>3. /\ fn = [b \in 1..nb |-> 0] /\ loops = <<>>
      /\ nb \in Nat /\ ret \in 0..nb /\ ins \in 1..nb
      /\ Len(work) = 1 /\ top.k = "root" /\ top.cond = 0 /\ top.body = 0
      /\ top.next = 0 /\ top.back = 0 /\ top.sw = 0 /\ top.exit \in 0..nb
  <2>1. CASE InitSol
    BY <1>1, <2>1 DEF Init, InitSol, Call
  <2>2. CASE InitYul
    BY <1>1, <2>2 DEF Init, InitYul, Call
  <2>3. QED
    BY <1>1, <2>1, <2>2 DEF Init
<1>4. TargetsInFunction
  <2>1. \A b \in Block : \A i \in DOMAIN term[b].to : term[b].to[i] \in Block
    <3>1. \A b \in Block : term[b].to \in Seq(Block)
      BY <1>2 DEF EmitterInv, TypeOK, TermType, TermsTo
    <3>2. QED
      BY <3>1
  <2>2. QED
    BY <1>3, <2>1 DEF TargetsInFunction, Block
<1>. HIDE DEF top
<1>5. FrameHome(fn, term, top, 0)
  BY <1>3 DEF FrameHome, AtHome
<1>6. CurrentHome(fn, 0, ins, ret, loops)
  BY <1>3 DEF CurrentHome, AtHome, LoopsHome
<1>7. h \in [1..Len(work) -> Nat] /\ h[1] = 0
  BY <1>3
<1>. HIDE DEF h
<1>8. Flow(h)
  BY <1>3, <1>5, <1>6, <1>7 DEF Flow, top
<1>9. QED
  BY <1>2, <1>4, <1>8 DEF FlowInv

\* For programs of any size and nesting no jump, loop, case or return is
\* wired to a block of another function: the CodeGenFunction that a nested
\* definition replaces is back in place when its code goes on.
THEOREM TargetsStayInFunction == Spec => []TargetsInFunction
<1>1. FlowInv => TargetsInFunction
  BY DEF FlowInv
<1>2. QED
  BY <1>1, FlowInit, FlowInductive, PTL DEF Spec

\* For programs of any size and nesting no second terminator replaces the
\* first one of a block, and a switch under construction only gets cases.
THEOREM TerminatorsAreFinal == Spec => TerminatorsFinal
<1>1. FlowInv /\ [Next]_vars => [TermsKept]_vars
  BY StepKeepsTerms
<1>2. TerminatorsFinal <=> [][TermsKept]_vars
  BY DEF TerminatorsFinal, TermsKept
<1>3. QED
  BY <1>1, <1>2, FlowInit, FlowInductive, PTL DEF Spec

-----------------------------------------------------------------------------
(* The loops on BreakContinueStack, counted along the call stack: d gives  *)
(* each call the number of loops that its function has open.               *)

LoopSections == {"body", "forbody", "forpost"}

\* Which calls count: the parts of a loop that run with the loop pushed,
\* and function definitions, which start with an empty stack.
LoopPart(f) ==
  IF f.k = "fun" THEN "fun"
  ELSE IF f.k \in LoopSections THEN "loop" ELSE "plain"

\* The count x of call f, called by one with count u.
Counted(f, x, u) ==
  /\ LoopPart(f) = "fun" => x = 0 /\ Len(f.outer.loops) = u
  /\ LoopPart(f) = "loop" => x = u + 1
  /\ LoopPart(f) = "plain" => x = u

Depths(d) ==
  /\ d \in [1..Len(work) -> Nat]
  /\ \A i \in 2..Len(work) : Counted(work[i], d[i], d[i - 1])
  /\ d[Len(work)] = Len(loops)

\* Within a function the count grows with the stack.
Growing(d) ==
  \A i, j \in 1..Len(work) :
    i <= j /\ (\A l \in (i + 1)..j : LoopPart(work[l]) # "fun") => d[i] <= d[j]

Counts(d) == Depths(d) /\ Growing(d)

\* The first n calls stay, as far as they count.
Same(n) ==
  \A i \in 1..n :
    LoopPart(work'[i]) = LoopPart(work[i]) /\ work'[i].outer = work[i].outer

LEMMA CountsKept ==
  ASSUME NEW d, Counts(d), NEW m \in Nat, m = Len(work') \/ m + 1 = Len(work'),
         m <= Len(work), Len(work) \in Nat, Same(m), m # 0,
         NEW e \in [1..Len(work') -> Nat], \A i \in 1..m : e[i] = d[i],
         m + 1 = Len(work') => Counted(work'[m + 1], e[m + 1], d[m]),
         e[Len(work')] = Len(loops')
  PROVE  Counts(e)'
<1>1. \A i \in 2..m : Counted(work'[i], e[i], e[i - 1])
  <2>1. TAKE i \in 2..m
  <2>2. i \in 1..m /\ i - 1 \in 1..m /\ i \in 2..Len(work)
    OBVIOUS
  <2>3. Counted(work[i], d[i], d[i - 1])
    BY <2>2 DEF Counts, Depths
  <2>4. e[i] = d[i] /\ e[i - 1] = d[i - 1]
    BY <2>2
  <2>5. LoopPart(work'[i]) = LoopPart(work[i]) /\ work'[i].outer = work[i].outer
    BY <2>2 DEF Same
  <2>6. QED
    BY <2>3, <2>4, <2>5 DEF Counted
<1>2. \A i \in 2..Len(work') : Counted(work'[i], e[i], e[i - 1])
  <2>1. TAKE i \in 2..Len(work')
  <2>2. CASE i \in 2..m
    BY <1>1, <2>2
  <2>3. CASE i = m + 1 /\ m + 1 = Len(work')
    <3>1. e[i - 1] = d[m]
      BY <2>3
    <3>2. QED
      BY <2>3, <3>1
  <2>4. QED
    BY <2>1, <2>2, <2>3
<1>3. Depths(e)'
  BY <1>2 DEF Depths
<1>4. ASSUME NEW i \in 1..Len(work'), NEW j \in 1..Len(work'), i <= j,
             \A l \in (i + 1)..j : LoopPart(work'[l]) # "fun"
      PROVE  e[i] <= e[j]
  <2>1. CASE j <= m
    <3>1. i \in 1..m /\ j \in 1..m /\ i \in 1..Len(work) /\ j \in 1..Len(work)
      BY <1>4, <2>1
    <3>2. \A l \in (i + 1)..j : l \in 1..m
      BY <1>4, <2>1
    <3>3. \A l \in (i + 1)..j : LoopPart(work[l]) # "fun"
      BY <1>4, <3>2 DEF Same
    <3>4. d[i] <= d[j]
      BY <1>4, <3>1, <3>3 DEF Counts, Growing
    <3>5. QED
      BY <3>1, <3>4
  <2>2. CASE i = j
    <3>1. e[i] \in Nat
      BY <1>4
    <3>2. QED
      BY <2>2, <3>1
  <2>3. CASE i <= m /\ j = m + 1 /\ m + 1 = Len(work')
    <3>1. i \in 1..m /\ m \in 1..m /\ i \in 1..Len(work) /\ m \in 1..Len(work)
      BY <1>4, <2>3
    <3>2. \A l \in (i + 1)..m : l \in 1..m /\ l \in (i + 1)..j
      BY <2>3, <3>1
    <3>3. \A l \in (i + 1)..m : LoopPart(work[l]) # "fun"
      BY <1>4, <3>2 DEF Same
    <3>4. d[i] <= d[m]
      BY <3>1, <3>3 DEF Counts, Growing
    <3>5. LoopPart(work'[j]) # "fun"
      BY <1>4, <2>3
    <3>6. e[j] = d[m] \/ e[j] = d[m] + 1
      BY <2>3, <3>5 DEF Counted, LoopPart
    <3>7. e[i] = d[i] /\ d[i] \in Nat /\ d[m] \in Nat
      BY <3>1 DEF Counts, Depths
    <3>8. QED
      BY <3>4, <3>6, <3>7
  <2>4. QED
    BY <1>4, <2>1, <2>2, <2>3
<1>5. Growing(e)'
  BY <1>4 DEF Growing
<1>6. QED
  BY <1>3, <1>5 DEF Counts

\* A step that leaves the calls, as far as they count.
LEMMA CountsStay ==
  ASSUME TypeOK, StackShape, NEW d, Counts(d), Len(work') = Len(work),
         Same(Len(work)), Len(loops') = Len(loops)
  PROVE  \E e : Counts(e)'
<1>1. Len(work) \in Nat \ {0}
  BY TopType
<1>2. d \in [1..Len(work') -> Nat] /\ d[Len(work')] = Len(loops')
  BY DEF Counts, Depths
<1>3. Counts(d)'
  BY <1>1, <1>2, CountsKept
<1>4. QED
  BY <1>3

LEMMA CountsPush ==
  ASSUME TypeOK, StackShape, NEW d, Counts(d), Len(work') = Len(work) + 1,
         Same(Len(work)), Len(loops') \in Nat,
         Counted(work'[Len(work) + 1], Len(loops'), Len(loops))
  PROVE  \E e : Counts(e)'
<1>1. PICK m, x : m = Len(work) /\ x = Len(loops')
  OBVIOUS
<1>. DEFINE e == [i \in 1..(m + 1) |-> IF i = m + 1 THEN x ELSE d[i]]
<1>2. m \in Nat \ {0} /\ x \in Nat /\ d \in [1..m -> Nat]
  BY <1>1, TopType DEF Counts, Depths
<1>3. /\ e \in [1..Len(work') -> Nat] /\ e[m + 1] = x
      /\ \A i \in 1..m : e[i] = d[i]
  BY <1>1, <1>2
<1>4. d[m] = Len(loops)
  BY <1>1 DEF Counts, Depths
<1>. HIDE DEF e
<1>5. Counts(e)'
  BY <1>1, <1>2, <1>3, <1>4, CountsKept
<1>6. QED
  BY <1>5

\* The return of a call; TopCount says what the stack of loops then is.
TopCount ==
  /\ LoopPart(Top) = "fun" => Len(loops') = Len(Top.outer.loops)
  /\ LoopPart(Top) = "loop" => Len(loops') = Len(loops) - 1
  /\ LoopPart(Top) = "plain" => Len(loops') = Len(loops)

LEMMA CountsReturn ==
  ASSUME TypeOK, StackShape, NEW d, Counts(d), Return, Len(work) # 1, TopCount
  PROVE  \E e : Counts(e)'
<1>1. PICK m : m = Len(work) - 1
  OBVIOUS
<1>. DEFINE e == [i \in 1..m |-> d[i]]
<1>2. /\ Len(work) \in Nat \ {0} /\ m \in Nat \ {0} /\ m + 1 = Len(work)
      /\ work \in Seq(FrameType) /\ work # <<>>
  BY <1>1, TopType DEF StackShape
<1>3. Len(work') = m /\ \A i \in 1..m : work'[i] = work[i]
  BY <1>1, <1>2, FrontProps DEF Return
<1>4. Same(m)
  BY <1>3 DEF Same
<1>5. e \in [1..Len(work') -> Nat] /\ \A i \in 1..m : e[i] = d[i]
  BY <1>2, <1>3 DEF Counts, Depths
<1>6. d[m] = Len(loops')
  <2>1. m + 1 \in 2..Len(work) /\ m + 1 - 1 = m /\ m \in 1..Len(work)
        /\ m + 1 \in 1..Len(work)
    BY <1>2
  <2>2. Counted(work[m + 1], d[m + 1], d[m])
    BY <2>1 DEF Counts, Depths
  <2>3. d[m + 1] = Len(loops) /\ d[m] \in Nat /\ work[m + 1] = Top
    BY <1>2, <2>1 DEF Counts, Depths, Top
  <2>4. QED
    BY <2>2, <2>3 DEF TopCount, Counted, LoopPart
<1>. HIDE DEF e
<1>7. e[m] = d[m]
  BY <1>2, <1>5
<1>8. Counts(e)'
  BY <1>2, <1>3, <1>4, <1>5, <1>6, <1>7, CountsKept
<1>9. QED
  BY <1>8

-----------------------------------------------------------------------------
(* The steps keep the count. *)

LEMMA LoopLengths ==
  ASSUME TypeOK
  PROVE  /\ Len(loops) \in Nat
         /\ \A b, c : EnterLoop(b, c) => Len(loops') = Len(loops) + 1
         /\ LeaveLoop /\ Len(loops) # 0 => Len(loops') = Len(loops) - 1
         /\ Len(loops) # 0 <=> loops # <<>>
<1>. DEFINE Loop == [brk : Block, cnt : Block]
<1>1. loops \in Seq(Loop)
  BY DEF TypeOK, LoopsType
<1>. HIDE DEF Loop
<1>2. Len(loops) \in Nat /\ (Len(loops) # 0 <=> loops # <<>>)
  BY <1>1
<1>3. \A x : Len(Append(loops, x)) = Len(loops) + 1
  <2>1. TAKE x
  <2>2. loops \in Seq(Loop \cup {x})
    BY <1>1, SeqGrows
  <2>3. x \in Loop \cup {x}
    OBVIOUS
  <2>4. QED
    BY <2>2, <2>3, AppendProperties
<1>4. LeaveLoop /\ Len(loops) # 0 => Len(loops') = Len(loops) - 1
  BY <1>1, <1>2, FrontProps DEF LeaveLoop
<1>5. QED
  BY <1>2, <1>3, <1>4 DEF EnterLoop

LEMMA Pushed ==
  ASSUME TypeOK, StackShape, NEW f, Push(f)
  PROVE  /\ Len(work') = Len(work) + 1 /\ work'[Len(work) + 1] = f
         /\ Same(Len(work))
<1>1. /\ Len(work') = Len(work) + 1 /\ work'[Len(work) + 1] = f
      /\ \A i \in 1..Len(work) : work'[i] = work[i]
  BY DEF Push, TypeOK
<1>2. QED
  BY <1>1 DEF Same

LEMMA LineCounts ==
  ASSUME TypeOK, StackShape, NEW d, Counts(d),
         EmitAct \/ EmitRequire \/ EmitRevert \/ EmitReturn \/ EmitJump
  PROVE  \E e : Counts(e)'
<1>1. work' = work /\ loops' = loops
  BY DEF EmitAct, EmitRequire, EmitRevert, EmitReturn, EmitJump
<1>2. Same(Len(work))
  BY <1>1 DEF Same
<1>3. QED
  BY <1>1, <1>2, CountsStay

LEMMA OpenCounts ==
  ASSUME TypeOK, StackShape, NEW d, Counts(d),
         \/ OpenIf \/ OpenAsmFor \/ OpenSwitch \/ OpenCase
         \/ OpenWhile \/ OpenFor \/ OpenFun
  PROVE  \E e : Counts(e)'
<1>1. Len(loops) \in Nat
  BY LoopLengths
<1>2. CASE OpenIf \/ OpenAsmFor \/ OpenSwitch \/ OpenCase
  <2>1. PICK f : Push(f) /\ f.k \in {"then", "asminit", "switch", "case"}
    <3>1. ASSUME NEW h, NEW n, NEW else, NEW next, OpenThen(h, n, else, next)
          PROVE  \E f : Push(f) /\ f.k = "then"
      <4>. DEFINE f == [Call("then", NewNode) EXCEPT
                         !.next = next, !.exit = nb + 2]
      <4>1. Push(f)
        BY <3>1 DEF OpenThen
      <4>2. f.k = "then"
        BY DEF Call
      <4>. HIDE DEF f
      <4>3. QED
        BY <4>1, <4>2
    <3>2. CASE OpenAsmFor
      <4>. DEFINE f == [Call("asminit", NewNode) EXCEPT
                         !.cond = nb + 1, !.body = nb + 2, !.next = nb + 3,
                         !.exit = nb + 4]
      <4>1. Push(f)
        BY <3>2 DEF OpenAsmFor
      <4>2. f.k = "asminit"
        BY DEF Call
      <4>. HIDE DEF f
      <4>3. QED
        BY <4>1, <4>2
    <3>3. CASE OpenSwitch
      <4>. DEFINE f == [Call("switch", NewNode) EXCEPT
                         !.next = nb + 1, !.exit = nb + 2, !.back = nb + 1,
                         !.sw = ins]
      <4>1. Push(f)
        BY <3>3 DEF OpenSwitch
      <4>2. f.k = "switch"
        BY DEF Call
      <4>. HIDE DEF f
      <4>3. QED
        BY <4>1, <4>2
    <3>4. CASE OpenCase
      BY <3>4 DEF OpenCase, Call
    <3>5. CASE OpenIf
      BY <3>1, <3>5 DEF OpenIf
    <3>6. QED
      BY <1>2, <3>2, <3>3, <3>4, <3>5
  <2>2. loops' = loops
    BY <1>2 DEF OpenIf, OpenThen, OpenAsmFor, OpenSwitch, OpenCase
  <2>3. LoopPart(f) = "plain"
    BY <2>1 DEF LoopPart, LoopSections
  <2>4. Counted(f, Len(loops'), Len(loops))
    BY <2>2, <2>3 DEF Counted
  <2>5. QED
    BY <1>1, <2>1, <2>2, <2>4, Pushed, CountsPush
<1>3. CASE OpenWhile \/ OpenFor
  <2>1. PICK f : Push(f) /\ f.k \in {"body", "forbody"}
    <3>1. CASE OpenWhile
      <4>. DEFINE f == [Call("body", NewNode) EXCEPT
                         !.exit = nb + 2, !.back = nb + 1]
      <4>1. Push(f)
        BY <3>1 DEF OpenWhile
      <4>2. f.k = "body"
        BY DEF Call
      <4>. HIDE DEF f
      <4>3. QED
        BY <4>1, <4>2
    <3>2. CASE OpenFor
      <4>. DEFINE f == [Call("forbody", NewNode) EXCEPT
                         !.next = nb + 3, !.exit = nb + 4, !.back = nb + 1]
      <4>1. Push(f)
        BY <3>2 DEF OpenFor
      <4>2. f.k = "forbody"
        BY DEF Call
      <4>. HIDE DEF f
      <4>3. QED
        BY <4>1, <4>2
    <3>3. QED
      BY <1>3, <3>1, <3>2
  <2>2. Len(loops') = Len(loops) + 1
    BY <1>3, LoopLengths DEF OpenWhile, OpenFor
  <2>3. LoopPart(f) = "loop"
    BY <2>1 DEF LoopPart, LoopSections
  <2>4. Counted(f, Len(loops'), Len(loops))
    BY <2>2, <2>3 DEF Counted
  <2>5. QED
    BY <1>1, <2>1, <2>2, <2>4, Pushed, CountsPush
<1>4. CASE OpenFun
  <2>. DEFINE f == [Call("fun", NewNode) EXCEPT
                      !.exit = nb + 2, !.next = ins,
                      !.outer = [ret |-> ret, loops |-> loops]]
  <2>1. Push(f) /\ loops' = <<>>
    BY <1>4 DEF OpenFun
  <2>2. f.k = "fun" /\ f.outer.loops = loops
    BY DEF Call
  <2>. HIDE DEF f
  <2>3. Counted(f, Len(loops'), Len(loops)) /\ Len(loops') \in Nat
    BY <2>1, <2>2 DEF Counted, LoopPart
  <2>4. QED
    BY <2>1, <2>3, Pushed, CountsPush
<1>5. QED
  BY <1>2, <1>3, <1>4

LEMMA OpenDefaultCounts ==
  ASSUME TypeOK, StackShape, NEW d, Counts(d), OpenDefault
  PROVE  \E e : Counts(e)'
<1>. DEFINE f == [Top EXCEPT !.next = 0]
            g == [Call("case", NewNode) EXCEPT !.back = Top.exit]
            rest == Front(work)
            mid == Append(rest, f)
            m == Len(work)
<1>1. /\ work' = Append(mid, g) /\ loops' = loops
  BY DEF OpenDefault
<1>2. /\ m \in Nat \ {0} /\ rest \in Seq(FrameType) /\ Len(rest) = m - 1
      /\ \A i \in 1..(m - 1) : rest[i] = work[i]
      /\ Top \in FrameType /\ Top = work[m]
  BY TopType, FrontProps DEF StackShape, Top
<1>3. /\ f.k = Top.k /\ f.outer = Top.outer /\ g.k = "case"
  BY <1>2 DEF FrameType, Call
<1>. HIDE DEF f, g, rest
<1>4. /\ Len(mid) = m /\ mid[m] = f /\ \A i \in 1..(m - 1) : mid[i] = work[i]
  BY <1>2
<1>5. mid \in Seq(FrameType \cup {f})
  BY <1>2, SeqGrows
<1>. HIDE DEF mid
<1>6. /\ Len(work') = m + 1 /\ work'[m + 1] = g /\ work'[m] = f
      /\ \A i \in 1..(m - 1) : work'[i] = work[i]
  BY <1>1, <1>2, <1>4, <1>5
<1>7. Same(m)
  <2>1. \A i \in 1..m : i \in 1..(m - 1) \/ i = m
    BY <1>2
  <2>2. LoopPart(f) = LoopPart(Top)
    BY <1>3 DEF LoopPart
  <2>3. QED
    BY <1>2, <1>3, <1>6, <2>1, <2>2 DEF Same
<1>8. Counted(g, Len(loops'), Len(loops)) /\ Len(loops') \in Nat
  BY <1>1, <1>3, LoopLengths DEF Counted, LoopPart, LoopSections
<1>9. QED
  BY <1>6, <1>7, <1>8, CountsPush

\* A call that goes on counts as it did, unless it enters its loop.
LEMMA BecomeCounts ==
  ASSUME TypeOK, StackShape, NEW d, Counts(d), NEW f, Become(f),
         LoopPart(f) = LoopPart(Top), f.outer = Top.outer, loops' = loops
  PROVE  \E e : Counts(e)'
<1>1. /\ Len(work') = Len(work) /\ work'[Len(work)] = f
      /\ \A i \in 1..(Len(work) - 1) : work'[i] = work[i]
      /\ Len(work) \in Nat \ {0}
  BY BecomeFrames, TopType
<1>2. \A i \in 1..Len(work) : i \in 1..(Len(work) - 1) \/ i = Len(work)
  BY <1>1
<1>3. Same(Len(work))
  BY <1>1, <1>2 DEF Same, Top
<1>4. QED
  BY <1>1, <1>3, CountsStay

LEMMA EndAsmInitCounts ==
  ASSUME TypeOK, StackShape, NEW d, Counts(d), EndAsmInit
  PROVE  \E e : Counts(e)'
<1>1. PICK n, m : n = Len(work) /\ m = n - 1
  OBVIOUS
<1>2. PICK f : Become(f) /\ f.k = "forbody"
  <2>. DEFINE f == [Top EXCEPT !.k = "forbody", !.cond = 0, !.body = 0,
                               !.back = Top.cond]
  <2>1. Become(f)
    BY DEF EndAsmInit
  <2>2. f.k = "forbody"
    BY TopType DEF FrameType
  <2>. HIDE DEF f
  <2>3. QED
    BY <2>1, <2>2
<1>3. Top.k = "asminit" /\ Len(loops') = Len(loops) + 1
  BY LoopLengths DEF EndAsmInit
<1>4. n \in Nat \ {0} /\ n # 1
  BY <1>1, <1>3, TopType
<1>5. /\ Len(work') = m + 1 /\ work'[m + 1] = f /\ m \in Nat \ {0} /\ n = m + 1
      /\ \A i \in 1..m : work'[i] = work[i]
  BY <1>1, <1>2, <1>4, BecomeFrames
<1>6. Same(m)
  BY <1>5 DEF Same
<1>. DEFINE e == [i \in 1..(m + 1) |-> IF i = m + 1 THEN d[m] + 1 ELSE d[i]]
<1>7. m + 1 \in 2..Len(work) /\ m + 1 - 1 = m /\ m \in 1..Len(work)
  BY <1>1, <1>5
<1>8. d[m + 1] = d[m]
  <2>1. Counted(work[m + 1], d[m + 1], d[m])
    BY <1>7 DEF Counts, Depths
  <2>2. LoopPart(work[m + 1]) = "plain"
    BY <1>1, <1>3, <1>5 DEF LoopPart, Top, LoopSections
  <2>3. QED
    BY <2>1, <2>2 DEF Counted
<1>9. d[m] \in Nat /\ d[m + 1] = Len(loops)
  BY <1>1, <1>5, <1>7 DEF Counts, Depths
<1>10. /\ e \in [1..Len(work') -> Nat] /\ e[m + 1] = d[m] + 1
       /\ \A i \in 1..m : e[i] = d[i]
  BY <1>1, <1>5, <1>9 DEF Counts, Depths
<1>. HIDE DEF e
<1>11. Counted(f, e[m + 1], d[m])
  BY <1>2, <1>10 DEF Counted, LoopPart, LoopSections
<1>12. e[Len(work')] = Len(loops')
  BY <1>3, <1>5, <1>8, <1>9, <1>10
<1>13. /\ m \in Nat \ {0} /\ m <= Len(work) /\ Len(work') = m + 1
       /\ m + 1 = Len(work') /\ Len(work') \in {m, m + 1}
       /\ Counted(work'[m + 1], e[m + 1], d[m])
  BY <1>1, <1>5, <1>11
<1>14. Counts(e)'
  BY <1>6, <1>10, <1>12, <1>13, CountsKept
<1>15. QED
  BY <1>14

LEMMA EndCounts ==
  ASSUME TypeOK, StackShape, NEW d, Counts(d),
         \/ EndThen \/ EndElse \/ EndWhile \/ EndForBody \/ EndFor
         \/ EndCase \/ EndSwitch \/ EndFun
  PROVE  \E e : Counts(e)'
<1>1. Top \in FrameType /\ (Top.k # "root" => Len(work) # 1)
  BY TopType
<1>2. CASE EndForBody \/ (EndThen /\ Top.next # 0)
  <2>1. PICK f : /\ Become(f) /\ f.outer = Top.outer
                 /\ \/ Top.k = "forbody" /\ f.k = "forpost"
                    \/ Top.k = "then" /\ f.k = "else"
    <3>. DEFINE p == [Top EXCEPT !.k = "forpost", !.next = 0]
                q == [Top EXCEPT !.k = "else", !.next = 0]
    <3>0. /\ p.k = "forpost" /\ p.outer = Top.outer
          /\ q.k = "else" /\ q.outer = Top.outer
      BY <1>1 DEF FrameType
    <3>1. CASE EndForBody
      <4>1. Become(p) /\ Top.k = "forbody"
        BY <3>1 DEF EndForBody
      <4>. HIDE DEF p
      <4>2. QED
        BY <3>0, <4>1
    <3>2. CASE EndThen /\ Top.next # 0
      <4>1. Become(q) /\ Top.k = "then"
        BY <3>2 DEF EndThen
      <4>. HIDE DEF q
      <4>2. QED
        BY <3>0, <4>1
    <3>3. QED
      BY <1>2, <3>1, <3>2
  <2>2. LoopPart(f) = LoopPart(Top)
    BY <2>1 DEF LoopPart, LoopSections
  <2>3. loops' = loops
    BY <1>2 DEF EndForBody, EndThen
  <2>4. QED
    BY <2>1, <2>2, <2>3, BecomeCounts
<1>3. CASE (EndThen /\ Top.next = 0) \/ EndElse \/ EndCase \/ EndSwitch
  <2>1. /\ Top.k \in {"then", "else", "case", "switch"}
        /\ Return /\ loops' = loops
    BY <1>3 DEF EndThen, EndElse, EndCase, EndSwitch
  <2>2. TopCount
    BY <2>1 DEF TopCount, LoopPart, LoopSections
  <2>3. QED
    BY <1>1, <2>1, <2>2, CountsReturn
<1>4. CASE EndWhile \/ EndFor
  <2>1. Top.k \in {"body", "forpost"} /\ Return /\ LeaveLoop
    BY <1>4 DEF EndWhile, EndFor
  <2>2. Len(work) \in Nat \ {0} /\ Len(work) # 1
    BY <1>1, <2>1, TopType
  <2>3. \A n \in Nat \ {0} : n # 1 => n \in 2..n /\ n - 1 \in 1..n
    OBVIOUS
  <2>4. /\ Counted(Top, Len(loops), d[Len(work) - 1])
        /\ d[Len(work) - 1] \in Nat
    BY <2>2, <2>3 DEF Counts, Depths, Top
  <2>5. Len(loops) # 0
    BY <2>1, <2>4 DEF Counted, LoopPart, LoopSections
  <2>6. TopCount
    BY <2>1, <2>5, LoopLengths DEF TopCount, LoopPart, LoopSections
  <2>7. QED
    BY <1>1, <2>1, <2>6, CountsReturn
<1>5. CASE EndFun
  <2>1. Top.k = "fun" /\ Return /\ loops' = Top.outer.loops
    BY <1>5 DEF EndFun
  <2>2. TopCount
    BY <2>1 DEF TopCount, LoopPart
  <2>3. QED
    BY <1>1, <2>1, <2>2, CountsReturn
<1>6. QED
  BY <1>2, <1>3, <1>4, <1>5

-----------------------------------------------------------------------------
(* The invariant and the theorem. *)

JumpInv ==
  /\ TypeInv
  /\ pc = "emit" => \E d : Counts(d)
  /\ StrictJumps => JumpsAreInLoops

\* In the body of a loop the function has a loop open.
LEMMA BodyHasLoop ==
  ASSUME TypeOK, StackShape, NEW d, Counts(d), InLoopBody
  PROVE  loops # <<>>
<1>1. Len(work) \in Nat \ {0} /\ DOMAIN work = 1..Len(work)
  BY TopType
<1>2. PICK i \in 1..Len(work) :
        /\ work[i].k \in {"body", "forbody"}
        /\ \A j \in (i + 1)..Len(work) : work[j].k # "fun"
  BY <1>1 DEF InLoopBody
<1>3. i \in 2..Len(work) /\ i - 1 \in 1..Len(work) /\ Len(work) \in 1..Len(work)
  <2>1. i # 1
    BY <1>1, <1>2 DEF StackShape
  <2>2. QED
    BY <1>1, <1>2, <2>1
<1>4. Counted(work[i], d[i], d[i - 1]) /\ d[i - 1] \in Nat /\ d[i] \in Nat
  BY <1>3 DEF Counts, Depths
<1>5. d[i] # 0
  BY <1>2, <1>4 DEF Counted, LoopPart, LoopSections
<1>6. \A j \in (i + 1)..Len(work) : LoopPart(work[j]) # "fun"
  BY <1>2 DEF LoopPart
<1>7. d[i] <= d[Len(work)]
  BY <1>1, <1>3, <1>6 DEF Counts, Growing
<1>8. Len(loops) # 0
  BY <1>4, <1>5, <1>7 DEF Counts, Depths
<1>9. QED
  BY <1>8, LoopLengths

LEMMA JumpInit == Init => JumpInv
<1>1. SUFFICES ASSUME Init PROVE JumpInv
  OBVIOUS
<1>2. Len(work) = 1 /\ loops = <<>> /\ pc = "emit"
  BY <1>1 DEF Init, InitSol, InitYul
<1>. DEFINE d == [i \in 1..1 |-> 0]
<1>3. d \in [1..Len(work) -> Nat] /\ d[1] = 0
  BY <1>2
<1>. HIDE DEF d
<1>4. Counts(d)
  BY <1>2, <1>3 DEF Counts, Depths, Growing
<1>5. QED
  BY <1>1, <1>2, <1>4, InitTypes DEF JumpInv, JumpsAreInLoops

LEMMA JumpInductive == JumpInv /\ [Next]_vars => JumpInv'
<1>1. SUFFICES ASSUME JumpInv, [Next]_vars PROVE JumpInv'
  OBVIOUS
<1>2. TypeInv'
  BY <1>1, NextTypes DEF JumpInv
<1>3. CASE UNCHANGED vars
  <2>1. \A d : Counts(d) => Counts(d)'
    BY <1>3 DEF vars, Counts, Depths, Growing
  <2>2. pc' = pc
    BY <1>3 DEF vars
  <2>3. QED
    BY <1>1, <1>2, <2>1, <2>2 DEF JumpInv, JumpsAreInLoops
<1>4. ASSUME pc = "emit" PROVE TypeOK /\ StackShape /\ \E d : Counts(d)
  BY <1>1, <1>4 DEF JumpInv, TypeInv
<1>5. CASE JumpOutsideLoop
  <2>1. pc = "emit" /\ pc' = "assert" /\ loops = <<>>
        /\ (StrictJumps => InLoopBody)
    BY <1>5 DEF JumpOutsideLoop, MayJump, MayCome
  <2>2. PICK d : Counts(d)
    BY <1>4, <2>1
  <2>3. ~StrictJumps
    BY <1>4, <2>1, <2>2, BodyHasLoop
  <2>4. QED
    BY <1>2, <2>1, <2>3 DEF JumpInv
<1>6. CASE LeaveUndefined \/ EndRoot
  <2>1. pc' \in {"undefined", "done"}
    BY <1>6 DEF LeaveUndefined, EndRoot
  <2>2. QED
    BY <1>2, <2>1 DEF JumpInv, JumpsAreInLoops
<1>7. CASE Statement /\ ~(JumpOutsideLoop \/ LeaveUndefined)
  <2>1. pc = "emit" /\ pc' = pc
    BY <1>7
    DEF Statement, EmitAct, EmitRequire, EmitRevert, EmitReturn, EmitJump,
        MayJump, OpenIf, OpenThen, OpenWhile, OpenFor, OpenAsmFor,
        OpenSwitch, OpenFun, MayCome
  <2>2. PICK d : Counts(d)
    BY <1>4, <2>1
  <2>3. \E e : Counts(e)'
    BY <1>4, <1>7, <2>1, <2>2, LineCounts, OpenCounts DEF Statement
  <2>4. QED
    BY <1>2, <2>1, <2>3 DEF JumpInv, JumpsAreInLoops
<1>8. CASE Section /\ ~EndRoot
  <2>1. pc = "emit" /\ pc' = pc
    BY <1>8
    DEF Section, EndThen, EndElse, EndWhile, EndAsmInit, EndForBody, EndFor,
        OpenCase, OpenDefault, EndCase, EndSwitch, EndFun
  <2>2. PICK d : Counts(d)
    BY <1>4, <2>1
  <2>3. \E e : Counts(e)'
    BY <1>4, <1>8, <2>1, <2>2, OpenCounts, OpenDefaultCounts, EndAsmInitCounts,
       EndCounts
    DEF Section
  <2>4. QED
    BY <1>2, <2>1, <2>3 DEF JumpInv, JumpsAreInLoops
<1>9. QED
  BY <1>1, <1>3, <1>5, <1>6, <1>7, <1>8 DEF Next, Finished

\* When break and continue stand only where the languages allow them, no
\* nesting of loops, switches and functions reaches the two assertions:
\* BreakContinueStack is never empty there, and a function definition in a
\* loop hides the loops of its caller from its own body only.
THEOREM StrictJumpsAreInLoops == Spec => [](StrictJumps => JumpsAreInLoops)
<1>1. JumpInv => (StrictJumps => JumpsAreInLoops)
  BY DEF JumpInv
<1>2. QED
  BY <1>1, JumpInit, JumpInductive, PTL DEF Spec
=============================================================================
