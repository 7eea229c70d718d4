---------------------------- MODULE StmtLowering ----------------------------
(***************************************************************************)
(* How lib/CodeGen/CodeGenFunction.cpp turns the statements of a function  *)
(* into basic blocks.                                                      *)
(*                                                                         *)
(* The emit* functions recurse over the AST and share one cursor, the      *)
(* insert point of the IR builder.  The model unrolls the recursion: the   *)
(* C++ call stack is the variable `work`, and one action is the code that  *)
(* runs between two calls of emitStmt.  The parser is the environment: a   *)
(* statement is any that the grammar of the language allows there, and it  *)
(* is recorded in `ast`, which nothing in this module reads back.          *)
(***************************************************************************)
EXTENDS Naturals, SequencesExt

CONSTANTS
  MaxNodes,     \* bound: AST nodes of a translation unit
  StrictJumps   \* TRUE: break and continue stand only in the body of a loop,
                \* as the two languages want; FALSE: wherever the parser
                \* takes them, which is anywhere

ASSUME BoundsAssumption == MaxNodes \in Nat \ {0} /\ StrictJumps \in BOOLEAN

VARIABLES
  lang,   \* "sol" (generateCode) or "yul" (generateYulCode)
  ast,    \* the nodes visited so far, each with its parent and its place
  nb,     \* basic blocks created so far, numbered from 1
  fn,     \* block -> the function it is in (the node that declares it)
  term,   \* block -> its terminator
  code,   \* block -> the nodes whose code it holds, in order
  ins,    \* Builder.GetInsertBlock()
  ret,    \* ReturnBlock of the current CodeGenFunction, 0 if never set
  loops,  \* its BreakContinueStack
  work,   \* the emit* calls in progress, innermost last
  pc      \* "emit", "done", "assert" (an assertion failed) or "undefined"

vars == <<lang, ast, nb, fn, term, code, ins, ret, loops, work, pc>>

-----------------------------------------------------------------------------
(* Terminators: `to` lists the successors, `node` is the AST node whose    *)
(* value or effect the terminator carries (0: none).                       *)

Terminator(op, to, node) == [op |-> op, to |-> to, node |-> node]

None        == Terminator("none", <<>>, 0)
Br(b)       == Terminator("br", <<b>>, 0)
CondBr(t, f, n) == Terminator("cond", <<t, f>>, n)
Unreachable(n)  == Terminator("unreachable", <<>>, n)
Ret         == Terminator("ret", <<>>, 0)

Terminated(b) == term[b].op # "none"

\* llvm::BasicBlock::empty: no instruction, the terminator included.
EmptyBB(b) == code[b] = <<>> /\ ~Terminated(b)

(* A call in progress.  The fields in Slots are blocks that this call will *)
(* still set the insert point to; 0 is no block.  outer keeps the members  *)
(* of the CodeGenFunction that a function definition hides.                *)

Slots == {"cond", "body", "next", "exit"}

Call(k, n) ==
  [k |-> k, node |-> n, cond |-> 0, body |-> 0, next |-> 0, exit |-> 0,
   back |-> 0, sw |-> 0, outer |-> [ret |-> 0, loops |-> <<>>]]

Top == work[Len(work)]

NewNode == Len(ast) + 1

\* The node that the parser hands to emitStmt next.
Visit(k) == ast' = Append(ast, [k |-> k, up |-> Top.node, sec |-> Top.k])

\* Terminators for one block, for two blocks.
One(b, t) == [x \in {b} |-> t]
Two(b, t, c, u) == [x \in {b, c} |-> IF x = b THEN t ELSE u]

(* One call of the builder's interface: n blocks are created in function f *)
(* (createBasicBlock takes the function of the insert block), the blocks   *)
(* in the domain of t get their terminators and block b gets node c.       *)
Emit(n, f, t, b, c) ==
  /\ nb' = nb + n
  /\ fn' = [x \in 1..(nb + n) |-> IF x <= nb THEN fn[x] ELSE f]
  /\ term' = [x \in 1..(nb + n) |->
                IF x \in DOMAIN t THEN t[x]
                ELSE IF x <= nb THEN term[x] ELSE None]
  /\ code' = [x \in 1..(nb + n) |->
                LET old == IF x <= nb THEN code[x] ELSE <<>>
                IN IF x = b THEN Append(old, c) ELSE old]

Create(n, t) == Emit(n, fn[ins], t, 0, 0)

Push(frame)    == work' = Append(work, frame)
Return         == work' = Front(work)
Become(frame)  == work' = Append(Front(work), frame)

EnterLoop(brk, cnt) == loops' = Append(loops, [brk |-> brk, cnt |-> cnt])
LeaveLoop      == loops' = Front(loops)

-----------------------------------------------------------------------------
(* Which statements may come next.                                         *)

StmtLists == {"root", "then", "else", "body", "forbody", "forpost",
              "asminit", "case", "fun"}

SolKinds == {"act", "req", "revert", "ret", "brk", "cnt", "if", "ifelse",
             "while", "do", "for", "forever"}
YulKinds == {"act", "leave", "brk", "cnt", "if", "switch", "asmfor", "fun"}

\* The loop expression of a Solidity for is one expression, not a list.
PostIsFree(k) ==
  lang = "sol" /\ Top.k = "forpost" =>
    /\ k \in {"act", "req", "revert"}
    /\ ~\E i \in DOMAIN ast : ast[i].up = Top.node /\ ast[i].sec = "forpost"

MayCome(k) ==
  /\ pc = "emit"
  /\ Len(ast) < MaxNodes
  /\ k \in IF lang = "sol" THEN SolKinds ELSE YulKinds
  /\ Top.k \in StmtLists
  /\ PostIsFree(k)

\* The innermost call that is a part of a loop, or of a function.
InLoopBody ==
  \E i \in DOMAIN work :
    /\ work[i].k \in {"body", "forbody"}
    /\ \A j \in (i + 1)..Len(work) :
         work[j].k \notin {"body", "forbody", "forpost", "asminit", "fun"}

MayJump(k) == MayCome(k) /\ (StrictJumps => InLoopBody)

-----------------------------------------------------------------------------
(* Straight-line statements.                                               *)

\* emitExprStmt, emitDeclStmt, emitEmitStmt, emitAsmAssignmentStmt
EmitAct ==
  /\ MayCome("act")
  /\ Visit("act")
  /\ Emit(0, fn[ins], <<>>, ins, NewNode)
  /\ UNCHANGED <<lang, ins, ret, loops, work, pc>>

\* emitCallRequire, emitCallAssert, emitCheckArrayOutOfBound, the transfer
\* of emitCallAddressSend: revert unless the condition holds.
EmitRequire ==
  /\ MayCome("req")
  /\ Visit("req")
  /\ LET cont == nb + 1  revert == nb + 2
     IN /\ Create(2, Two(ins, CondBr(cont, revert, NewNode),
                         revert, Unreachable(NewNode)))
        /\ ins' = cont
  /\ UNCHANGED <<lang, ret, loops, work, pc>>

\* emitCallRevert
EmitRevert ==
  /\ MayCome("revert")
  /\ Visit("revert")
  /\ Create(1, One(ins, Unreachable(NewNode)))
  /\ ins' = nb + 1
  /\ UNCHANGED <<lang, ret, loops, work, pc>>

\* Mutant: no fresh block after the branch to the return block.
EmitReturnSameBlock ==
  /\ \E k \in {"ret", "leave"} : MayCome(k) /\ Visit(k)
  /\ ret # 0
  /\ Emit(0, fn[ins], One(ins, Br(ret)), ins, NewNode)
  /\ UNCHANGED <<lang, ins, ret, loops, work, pc>>

\* emitReturnStmt (the value is stored first) and emitAsmLeaveStmt.
EmitReturn ==
  /\ \E k \in {"ret", "leave"} : MayCome(k) /\ Visit(k)
  /\ ret # 0
  /\ Emit(1, fn[ins], One(ins, Br(ret)), ins, NewNode)
  /\ ins' = nb + 1
  /\ UNCHANGED <<lang, ret, loops, work, pc>>

\* generateYulCode sets no ReturnBlock, and leave outside a function
\* branches to whatever the field holds.
LeaveUndefined ==
  /\ MayCome("leave")
  /\ ret = 0
  /\ Visit("leave")
  /\ pc' = "undefined"
  /\ UNCHANGED <<lang, nb, fn, term, code, ins, ret, loops, work>>

\* Mutant: no fresh block after the branch out of the loop.
EmitJumpSameBlock ==
  /\ loops # <<>>
  /\ \/ /\ MayJump("brk")
        /\ Visit("brk")
        /\ Create(0, One(ins, Br(Last(loops).brk)))
     \/ /\ MayJump("cnt")
        /\ Visit("cnt")
        /\ Create(0, One(ins, Br(Last(loops).cnt)))
  /\ UNCHANGED <<lang, ins, ret, loops, work, pc>>

\* emitBreakStmt and emitContinueStmt
EmitJump ==
  /\ loops # <<>>
  /\ \/ /\ MayJump("brk")
        /\ Visit("brk")
        /\ Create(1, One(ins, Br(Last(loops).brk)))
     \/ /\ MayJump("cnt")
        /\ Visit("cnt")
        /\ Create(1, One(ins, Br(Last(loops).cnt)))
  /\ ins' = nb + 1
  /\ UNCHANGED <<lang, ret, loops, work, pc>>

\* assert(!BreakContinueStack.empty())
JumpOutsideLoop ==
  /\ loops = <<>>
  /\ \E k \in {"brk", "cnt"} : MayJump(k) /\ Visit(k)
  /\ pc' = "assert"
  /\ UNCHANGED <<lang, nb, fn, term, code, ins, ret, loops, work>>

-----------------------------------------------------------------------------
(* emitIfStmt *)

\* The then block is nb + 1, the end nb + 2; the last two arguments are the
\* target of a false condition and the else block that is still to come.
OpenThen(k, n, else, next) ==
  /\ MayCome(k)
  /\ Visit(k)
  /\ Create(n, One(ins, CondBr(nb + 1, else, NewNode)))
  /\ ins' = nb + 1
  /\ Push([Call("then", NewNode) EXCEPT !.next = next, !.exit = nb + 2])
  /\ UNCHANGED <<lang, ret, loops, pc>>

OpenIf ==
  \/ OpenThen("if", 2, nb + 2, 0)
  \/ OpenThen("ifelse", 3, nb + 3, nb + 3)

EndThen ==
  /\ pc = "emit" /\ Top.k = "then"
  /\ Create(0, One(ins, Br(Top.exit)))
  /\ IF Top.next # 0
     THEN /\ ins' = Top.next
          /\ Become([Top EXCEPT !.k = "else", !.next = 0])
     ELSE /\ ins' = Top.exit
          /\ Return
  /\ UNCHANGED <<lang, ast, ret, loops, pc>>

EndElse ==
  /\ pc = "emit" /\ Top.k = "else"
  /\ Create(0, One(ins, Br(Top.exit)))
  /\ ins' = Top.exit
  /\ Return
  /\ UNCHANGED <<lang, ast, ret, loops, pc>>

-----------------------------------------------------------------------------
(* emitWhileStmt, for while and do-while *)

\* Mutant: a do-while enters at its condition, like a while.
OpenWhileAtHeader ==
  /\ \E k \in {"while", "do"} :
       /\ MayCome(k)
       /\ Visit(k)
       /\ Create(3, Two(ins, Br(nb + 1), nb + 1, CondBr(nb + 3, nb + 2, NewNode)))
       /\ EnterLoop(nb + 2, nb + 1)
       /\ ins' = nb + 3
       /\ Push([Call("body", NewNode) EXCEPT !.exit = nb + 2, !.back = nb + 1])
  /\ UNCHANGED <<lang, ret, pc>>

OpenWhile ==
  /\ \E k \in {"while", "do"} :
       /\ MayCome(k)
       /\ Visit(k)
       /\ LET header == nb + 1  exit == nb + 2  body == nb + 3
          IN /\ Create(3, Two(ins, Br(IF k = "do" THEN body ELSE header),
                              header, CondBr(body, exit, NewNode)))
             /\ EnterLoop(exit, header)
             /\ ins' = body
             /\ Push([Call("body", NewNode) EXCEPT
                        !.exit = exit, !.back = header])
  /\ UNCHANGED <<lang, ret, pc>>

EndWhile ==
  /\ pc = "emit" /\ Top.k = "body"
  /\ Create(0, One(ins, Br(Top.back)))
  /\ LeaveLoop
  /\ ins' = Top.exit
  /\ Return
  /\ UNCHANGED <<lang, ast, ret, pc>>

-----------------------------------------------------------------------------
(* emitForStmt.  The init statement comes first and nothing of the loop is *)
(* in place then: it is the statement before.  Without a condition the     *)
(* header holds no code; it is recorded as the place of the node.          *)

OpenFor ==
  /\ \E k \in {"for", "forever"} :
       /\ MayCome(k)
       /\ Visit(k)
       /\ LET cond == nb + 1  body == nb + 2  cont == nb + 3  exit == nb + 4
          IN /\ IF k = "for"
                THEN Create(4, Two(ins, Br(cond),
                                   cond, CondBr(body, exit, NewNode)))
                ELSE Emit(4, fn[ins], Two(ins, Br(cond), cond, Br(body)),
                          cond, NewNode)
             /\ EnterLoop(exit, cont)
             /\ ins' = body
             /\ Push([Call("forbody", NewNode) EXCEPT
                        !.next = cont, !.exit = exit, !.back = cond])
  /\ UNCHANGED <<lang, ret, pc>>

\* emitAsmForStmt creates its blocks before the init block is emitted.
OpenAsmFor ==
  /\ MayCome("asmfor")
  /\ Visit("asmfor")
  /\ Create(4, <<>>)
  /\ Push([Call("asminit", NewNode) EXCEPT
             !.cond = nb + 1, !.body = nb + 2, !.next = nb + 3,
             !.exit = nb + 4])
  /\ UNCHANGED <<lang, ins, ret, loops, pc>>

EndAsmInit ==
  /\ pc = "emit" /\ Top.k = "asminit"
  /\ Create(0, Two(ins, Br(Top.cond),
                   Top.cond, CondBr(Top.body, Top.exit, Top.node)))
  /\ EnterLoop(Top.exit, Top.next)
  /\ ins' = Top.body
  /\ Become([Top EXCEPT !.k = "forbody", !.cond = 0, !.body = 0,
                        !.back = Top.cond])
  /\ UNCHANGED <<lang, ast, ret, pc>>

\* Mutant: a for without a loop expression is closed at its body.
EndForBodyNoPost ==
  /\ pc = "emit" /\ Top.k = "forbody"
  /\ Create(0, One(ins, Br(Top.back)))
  /\ LeaveLoop
  /\ ins' = Top.exit
  /\ Return
  /\ UNCHANGED <<lang, ast, ret, pc>>

\* The continue block is emitted with the loop still on the stack.
EndForBody ==
  /\ pc = "emit" /\ Top.k = "forbody"
  /\ Create(0, One(ins, Br(Top.next)))
  /\ ins' = Top.next
  /\ Become([Top EXCEPT !.k = "forpost", !.next = 0])
  /\ UNCHANGED <<lang, ast, ret, loops, pc>>

EndFor ==
  /\ pc = "emit" /\ Top.k = "forpost"
  /\ Create(0, One(ins, Br(Top.back)))
  /\ LeaveLoop
  /\ ins' = Top.exit
  /\ Return
  /\ UNCHANGED <<lang, ast, ret, pc>>

-----------------------------------------------------------------------------
(* emitAsmSwitchStmt.  Between two cases the insert block is one that has  *)
(* its terminator.  `back` is DefaultBB; the slot `next` holds it too      *)
(* until a default is visited, which the code tells from DefaultBB->empty. *)

OpenSwitch ==
  /\ MayCome("switch")
  /\ NewNode < MaxNodes    \* err_switch_without_case: a case follows
  /\ Visit("switch")
  /\ LET dflt == nb + 1  exit == nb + 2
     IN /\ Create(2, One(ins, Terminator("switch", <<dflt>>, NewNode)))
        /\ Push([Call("switch", NewNode) EXCEPT
                   !.next = dflt, !.exit = exit, !.back = dflt, !.sw = ins])
  /\ UNCHANGED <<lang, ins, ret, loops, pc>>

\* emitAsmSwitchCase with emitAsmCaseStmt; the parser takes no case after
\* the default.
OpenCase ==
  /\ pc = "emit" /\ Top.k = "switch" /\ Top.next # 0
  /\ Len(ast) < MaxNodes
  /\ Visit("case")
  /\ Create(1, One(Top.sw, [term[Top.sw] EXCEPT !.to = Append(@, nb + 1)]))
  /\ ins' = nb + 1
  /\ Push([Call("case", NewNode) EXCEPT !.back = Top.exit])
  /\ UNCHANGED <<lang, ret, loops, pc>>

\* emitAsmSwitchCase with emitAsmDefaultStmt
OpenDefault ==
  /\ pc = "emit" /\ Top.k = "switch" /\ Top.next # 0
  /\ Len(ast) < MaxNodes
  /\ Visit("default")
  /\ ins' = Top.back
  /\ work' = Append(Append(Front(work), [Top EXCEPT !.next = 0]),
                    [Call("case", NewNode) EXCEPT !.back = Top.exit])
  /\ UNCHANGED <<lang, nb, fn, term, code, ret, loops, pc>>

\* Mutant: the cases of a switch fall through.
EndCaseFallsThrough ==
  /\ pc = "emit" /\ Top.k = "case"
  /\ Return
  /\ UNCHANGED <<lang, ast, nb, fn, term, code, ins, ret, loops, pc>>

EndCase ==
  /\ pc = "emit" /\ Top.k = "case"
  /\ Create(0, One(ins, Br(Top.back)))
  /\ Return
  /\ UNCHANGED <<lang, ast, ins, ret, loops, pc>>

\* Mutant: the default block is closed when it holds code, not when it is
\* empty.
EndSwitchTestSwapped ==
  /\ pc = "emit" /\ Top.k = "switch"
  /\ Top.next = 0 \/ Len(term[Top.sw].to) > 1
  /\ Create(0, IF EmptyBB(Top.back) THEN <<>> ELSE One(Top.back, Br(Top.exit)))
  /\ ins' = Top.exit
  /\ Return
  /\ UNCHANGED <<lang, ast, ret, loops, pc>>

EndSwitch ==
  /\ pc = "emit" /\ Top.k = "switch"
  /\ Top.next = 0 \/ Len(term[Top.sw].to) > 1
  /\ Create(0, IF EmptyBB(Top.back) THEN One(Top.back, Br(Top.exit))
               ELSE <<>>)
  /\ ins' = Top.exit
  /\ Return
  /\ UNCHANGED <<lang, ast, ret, loops, pc>>

-----------------------------------------------------------------------------
(* emitAsmFunctionDeclStmt: a CodeGenFunction of its own emits the         *)
(* function (generateYulFunction), then the insert point is put back.      *)

\* Mutant: the nested function is emitted by the CodeGenFunction of the
\* enclosing one, with its BreakContinueStack.
OpenFunSameLoops ==
  /\ MayCome("fun")
  /\ Visit("fun")
  /\ Emit(2, NewNode, <<>>, 0, 0)
  /\ ret' = nb + 2 /\ UNCHANGED loops
  /\ ins' = nb + 1
  /\ Push([Call("fun", NewNode) EXCEPT
             !.exit = nb + 2, !.next = ins,
             !.outer = [ret |-> ret, loops |-> loops]])
  /\ UNCHANGED <<lang, pc>>

OpenFun ==
  /\ MayCome("fun")
  /\ Visit("fun")
  /\ Emit(2, NewNode, <<>>, 0, 0)
  /\ ret' = nb + 2 /\ loops' = <<>>
  /\ ins' = nb + 1
  /\ Push([Call("fun", NewNode) EXCEPT
             !.exit = nb + 2, !.next = ins,
             !.outer = [ret |-> ret, loops |-> loops]])
  /\ UNCHANGED <<lang, pc>>

\* The tail of generateCode and generateYulFunction.
FunctionTail ==
  IF Terminated(ins) THEN One(Top.exit, Ret)
  ELSE Two(ins, Br(Top.exit), Top.exit, Ret)

EndFun ==
  /\ pc = "emit" /\ Top.k = "fun"
  /\ Create(0, FunctionTail)
  /\ ret' = Top.outer.ret /\ loops' = Top.outer.loops
  /\ ins' = Top.next
  /\ Return
  /\ UNCHANGED <<lang, ast, pc>>

\* generateCode ends like a function; emitYulCode adds its ret void where
\* the code of the object ends.
EndRoot ==
  /\ pc = "emit" /\ Top.k = "root"
  /\ IF lang = "sol"
     THEN Create(0, FunctionTail) /\ ins' = Top.exit
     ELSE Create(0, One(ins, Ret)) /\ UNCHANGED ins
  /\ pc' = "done"
  /\ Return
  /\ UNCHANGED <<lang, ast, ret, loops>>

-----------------------------------------------------------------------------
(* generateCode: entry and return block, and emitCheckPayable unless the   *)
(* function is payable.                                                    *)
InitSol ==
  /\ lang = "sol"
  /\ ret = 2
  /\ work = <<[Call("root", 0) EXCEPT !.exit = 2]>>
  /\ \/ /\ nb = 2 /\ ins = 1                            \* payable
        /\ ast = <<>>
        /\ term = [b \in 1..2 |-> None]
     \/ /\ nb = 4 /\ ins = 3
        /\ ast = <<[k |-> "payable", up |-> 0, sec |-> "root"]>>
        /\ term = <<CondBr(4, 3, 1), None, None, Unreachable(1)>>

\* emitYulCode and generateYulCode
InitYul ==
  /\ lang = "yul"
  /\ ret = 0
  /\ work = <<Call("root", 0)>>
  /\ nb = 1 /\ ins = 1
  /\ ast = <<>>
  /\ term = <<None>>

Init ==
  /\ InitSol \/ InitYul
  /\ fn = [b \in 1..nb |-> 0]
  /\ code = [b \in 1..nb |-> <<>>]
  /\ loops = <<>>
  /\ pc = "emit"

Statement ==
  \/ EmitAct \/ EmitRequire \/ EmitRevert \/ EmitReturn \/ LeaveUndefined
  \/ EmitJump \/ JumpOutsideLoop
  \/ OpenIf \/ OpenWhile \/ OpenFor \/ OpenAsmFor \/ OpenSwitch \/ OpenFun

Section ==
  \/ EndThen \/ EndElse \/ EndWhile \/ EndAsmInit \/ EndForBody \/ EndFor
  \/ OpenCase \/ OpenDefault \/ EndCase \/ EndSwitch \/ EndFun \/ EndRoot

\* The function is emitted, or the compiler is gone.
Finished == pc # "emit" /\ UNCHANGED vars

Next == Statement \/ Section \/ Finished

Spec == Init /\ [][Next]_vars

-----------------------------------------------------------------------------
(* Properties. *)

Block    == 1..nb
BlockOr0 == 0..nb

LoopsType == Seq([brk : Block, cnt : Block])

FrameType ==
  [k : StmtLists \cup {"switch"}, node : Nat, cond : BlockOr0,
   body : BlockOr0, next : BlockOr0, exit : BlockOr0, back : BlockOr0,
   sw : BlockOr0, outer : [ret : BlockOr0, loops : LoopsType]]

NodeType ==
  [k : SolKinds \cup YulKinds \cup {"payable", "case", "default"},
   up : Nat, sec : StmtLists \cup {"switch"}]

TermsTo(B) ==
  [op : {"none", "br", "cond", "switch", "unreachable", "ret"},
   to : Seq(B), node : Nat]

TermType == TermsTo(Block)

\* Every block that the emitter's state or a terminator names has been
\* created, and the stacks hold what CodeGenFunction.h says they hold.
TypeOK ==
  /\ lang \in {"sol", "yul"}
  /\ ast \in Seq(NodeType)
  /\ nb \in Nat \ {0}
  /\ fn \in [Block -> Nat]
  /\ term \in [Block -> TermType]
  /\ code \in [Block -> Seq(Nat)]
  /\ ins \in Block
  /\ ret \in BlockOr0 /\ loops \in LoopsType
  /\ work \in Seq(FrameType)
  /\ pc \in {"emit", "done", "assert", "undefined"}

\* Whenever a statement is about to be emitted the insert block is open:
\* each break, continue, return, revert and finished construct has moved
\* the cursor to a block without a terminator.  (An instruction after a
\* terminator, or a second terminator, is invalid IR.)
InsertBlockOpen ==
  pc = "emit" /\ Top.k \in StmtLists => ~Terminated(ins)

\* When the function is done no block is left without a terminator,
\* whichever constructs were nested and wherever dead code was emitted.
AllBlocksTerminated ==
  pc = "done" => \A b \in Block : Terminated(b)

\* No terminator leads into another function, although one builder, one
\* insert point and nested function definitions are shared.
TargetsInFunction ==
  \A b \in Block : \A i \in DOMAIN term[b].to :
    fn[term[b].to[i]] = fn[b]

\* A terminator is never replaced; only a switch under construction gets
\* further cases at its end.
TerminatorsFinal ==
  [][\A b \in Block :
       Terminated(b) =>
         \/ term'[b] = term[b]
         \/ /\ term[b].op = "switch" /\ term'[b].op = "switch"
            /\ IsPrefix(term[b].to, term'[b].to)]_vars

\* A switch without default reaches its end through an empty default
\* block; one with a default runs exactly that: DefaultBB->empty() after
\* the cases tells the two apart.
DefaultBlockEmptyIffUnvisited ==
  pc = "emit" /\ Top.k = "switch" => (EmptyBB(Top.back) <=> Top.next # 0)

\* The doc of the two assertions in emitContinueStmt and emitBreakStmt: a
\* break or continue that reaches the code generator is in a loop.
JumpsAreInLoops == pc # "assert"

-----------------------------------------------------------------------------
(* The inductive invariant behind InsertBlockOpen and AllBlocksTerminated. *)

\* The slots that a call of each kind still has to visit.
SlotsInUse(f, l) ==
  CASE f.k = "root"    -> IF l = "sol" THEN {"exit"} ELSE {}
    [] f.k \in {"else", "body", "forpost"} -> {"exit"}
    [] f.k \in {"forbody", "fun"} -> {"next", "exit"}
    [] f.k = "asminit" -> Slots
    [] f.k = "case"    -> {}
    [] f.k \in {"then", "switch"} ->
         IF f.next = 0 THEN {"exit"} ELSE {"next", "exit"}

\* The frames of the call stack are built the way the emit* functions
\* leave them: the first is the function itself and no other is.
FrameShape(f, l) ==
  /\ \A s \in Slots : f[s] # 0 <=> s \in SlotsInUse(f, l)
  /\ f.k \in {"body", "forbody", "forpost", "case", "switch"} => f.back # 0
  /\ f.k = "switch" => f.sw # 0

StackShape ==
  /\ work # <<>>
  /\ \A i \in DOMAIN work :
       FrameShape(work[i], lang) /\ (work[i].k = "root" <=> i = 1)

\* Only a switch calls for its cases, and it calls for nothing else.
CaseInSwitch ==
  \A i \in 2..Len(work) : work[i].k = "case" <=> work[i - 1].k = "switch"

\* A block that waits for its turn is open, is not the insert block, and
\* waits in one place only.
PendingOpen ==
  \A i \in DOMAIN work, s \in Slots : work[i][s] # 0 =>
    /\ ~Terminated(work[i][s])
    /\ work[i][s] # ins

PendingDistinct ==
  \A i, j \in DOMAIN work, s, t \in Slots :
    work[i][s] # 0 /\ work[i][s] = work[j][t] => i = j /\ s = t

\* An open block is being filled or waits for its turn.
OpenIsPending ==
  \A b \in Block : ~Terminated(b) =>
    b = ins \/ \E i \in DOMAIN work, s \in Slots : work[i][s] = b

\* The insert block is open exactly while statements are emitted.
InsertBlockState == Terminated(ins) <=> Top.k = "switch"

\* A switch in progress: its instruction is in place, and its default block
\* is untouched, or was visited and is closed unless the calls made for it
\* are still at work.
SwitchShape ==
  \A i \in DOMAIN work : work[i].k = "switch" =>
    LET f == work[i]
    IN /\ Terminated(f.sw)
       /\ f.next # 0 => f.next = f.back /\ code[f.back] = <<>>
       /\ f.next = 0 =>
            \/ Terminated(f.back)
            \/ f.back = ins
            \/ \E j \in (i + 1)..Len(work), s \in Slots : work[j][s] = f.back

EmissionInv ==
  /\ TypeOK
  /\ pc = "emit" =>
       /\ StackShape
       /\ CaseInSwitch
       /\ PendingOpen
       /\ PendingDistinct
       /\ OpenIsPending
       /\ InsertBlockState
       /\ SwitchShape
  /\ AllBlocksTerminated
=============================================================================
