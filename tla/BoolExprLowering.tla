-------------------------- MODULE BoolExprLowering --------------------------
(***************************************************************************)
(* The blocks and phi nodes of && and ||: ExprEmitter::visit of a          *)
(* BinaryOperator (the isLogicalOp branch) under emitBranchOnBoolExpr, as  *)
(* in the condition of an if, and the execution of the result.             *)
(*                                                                         *)
(* An operand is evaluated in the insert block ("leaf"), or behind a check *)
(* that moves the insert point ("chk": an array index, which               *)
(* emitCheckArrayOutOfBound guards), or is itself && or ||.                *)
(***************************************************************************)
EXTENDS Naturals, SequencesExt

CONSTANTS
  MaxNodes,     \* bound: nodes of the expression
  RhsMayBranch  \* FALSE: the right operand is always a leaf

ASSUME BoundsAssumption == MaxNodes \in Nat \ {0} /\ RhsMayBranch \in BOOLEAN

VARIABLES
  ast,    \* the nodes visited: [k, up, sec]
  nb,     \* basic blocks, numbered from 1
  term,   \* block -> terminator
  code,   \* block -> the operands evaluated in it
  phi,    \* block -> the incoming pairs of its phi node ({}: no phi)
  ins,    \* Builder.GetInsertBlock()
  work,   \* the visits in progress, innermost last
  ret,    \* the llvm::Value the last visit returned, NoValue before
  pc,     \* "emit" or "done"
  loc,    \* execution: the next instruction, [b, i]
  env,    \* execution: the values computed so far
  run     \* execution: the last operand evaluated, then the result

evars == <<ast, nb, term, code, phi, ins, work, ret, pc>>
vars  == <<ast, nb, term, code, phi, ins, work, ret, pc, loc, env, run>>

-----------------------------------------------------------------------------
Value(src, id) == [src |-> src, id |-> id]
NoValue   == Value("none", 0)
Leaf(p)   == Value("leaf", p)
Phi(b)    == Value("phi", b)
Const(v)  == Value("const", IF v THEN 1 ELSE 0)

\* on is the condition (NoValue: unconditional), node the index check.
Terminator(op, to, on, node) == [op |-> op, to |-> to, on |-> on, node |-> node]
None         == Terminator("none", <<>>, NoValue, 0)
Br(b)        == Terminator("br", <<b>>, NoValue, 0)
CondBr(v, t, f) == Terminator("cond", <<t, f>>, v, 0)
Check(p, ok, bad) == Terminator("check", <<ok, bad>>, NoValue, p)
Unreachable(p)  == Terminator("unreachable", <<>>, NoValue, p)

Preds(tm, b) == {x \in DOMAIN tm : b \in ToSet(tm[x].to)}

Top == work[Len(work)]
NewNode == Len(ast) + 1

\* Blocks 2 and 3 are the targets of the branch: if.then and if.end.
Then == 2
End  == 3

Wanted == pc = "emit" /\ ret = NoValue

Visit(k) ==
  ast' = Append(ast, [k |-> k,
                      up |-> IF work = <<>> THEN 0 ELSE Top.node,
                      sec |-> IF work = <<>> THEN "root" ELSE Top.sec])

MayBranch == work # <<>> => Top.sec = "lhs" \/ RhsMayBranch

Grow(n, t) ==
  /\ nb' = nb + n
  /\ term' = [x \in 1..(nb + n) |->
                IF x \in DOMAIN t THEN t[x]
                ELSE IF x <= nb THEN term[x] ELSE None]

\* The blocks after n more, with operand p evaluated in block b.
Place(n, b, p) ==
  code' = [x \in 1..(nb + n) |->
             LET old == IF x <= nb THEN code[x] ELSE <<>>
             IN IF x = b THEN Append(old, p) ELSE old]

PhiAt(n, b, in) ==
  phi' = [x \in 1..(nb + n) |->
            IF x = b THEN in ELSE IF x <= nb THEN phi[x] ELSE {}]

-----------------------------------------------------------------------------
(* An operand whose value is computed in the insert block. *)
EmitLeaf ==
  /\ Wanted
  /\ Visit("leaf")
  /\ Grow(0, <<>>) /\ Place(0, ins, NewNode)
  /\ ret' = Leaf(NewNode)
  /\ UNCHANGED <<phi, ins, work, pc>>

(* emitCheckArrayOutOfBound, then the element. *)
EmitChecked ==
  /\ Wanted /\ MayBranch
  /\ Visit("chk")
  /\ LET cont == nb + 1  revert == nb + 2
     IN /\ Grow(2, [x \in {ins, revert} |->
                      IF x = ins THEN Check(NewNode, cont, revert)
                      ELSE Unreachable(NewNode)])
        /\ Place(2, cont, NewNode)
        /\ PhiAt(2, 0, {})
        /\ ins' = cont
  /\ ret' = Leaf(NewNode)
  /\ UNCHANGED <<work, pc>>

(* visit(BinaryOperator), BO_LAnd and BO_LOr: ContBlock and RHSBlock, then *)
(* emitBranchOnBoolExpr of the left operand.                               *)
OpenLogical ==
  /\ Wanted /\ MayBranch
  /\ LET owed == Cardinality({i \in DOMAIN work : work[i].sec = "lhs"})
     IN NewNode + 2 + owed <= MaxNodes
  /\ \E k \in {"and", "or"} :
       /\ Visit(k)
       /\ Grow(2, <<>>) /\ Place(2, 0, 0) /\ PhiAt(2, 0, {})
       /\ work' = Append(work, [op |-> k, node |-> NewNode, sec |-> "lhs",
                                cont |-> nb + 1, rhs |-> nb + 2])
  /\ UNCHANGED <<ins, ret, pc>>

\* Mutant: the phi node is filled before the branch is created.
EndLhsPhiFirst ==
  /\ pc = "emit" /\ ret # NoValue /\ work # <<>>
  /\ Top.sec = "lhs"
  /\ Grow(0, [x \in {ins} |->
                IF Top.op = "and" THEN CondBr(ret, Top.rhs, Top.cont)
                ELSE CondBr(ret, Top.cont, Top.rhs)])
  /\ PhiAt(0, Top.cont, {[from |-> b, val |-> Const(Top.op = "or")] :
                           b \in Preds(term, Top.cont)})
  /\ ins' = Top.rhs
  /\ work' = Append(Front(work), [Top EXCEPT !.sec = "rhs"])
  /\ ret' = NoValue
  /\ UNCHANGED <<ast, code, pc>>

\* Mutant: the deciding constant is that of the other operator.
EndLhsOtherConstant ==
  /\ pc = "emit" /\ ret # NoValue /\ work # <<>>
  /\ Top.sec = "lhs"
  /\ Grow(0, [x \in {ins} |->
                IF Top.op = "and" THEN CondBr(ret, Top.rhs, Top.cont)
                ELSE CondBr(ret, Top.cont, Top.rhs)])
  /\ PhiAt(0, Top.cont, {[from |-> b, val |-> Const(Top.op = "and")] :
                           b \in Preds(term', Top.cont)})
  /\ ins' = Top.rhs
  /\ work' = Append(Front(work), [Top EXCEPT !.sec = "rhs"])
  /\ ret' = NoValue
  /\ UNCHANGED <<ast, code, pc>>

\* The branch on the left operand; the phi node gets the deciding constant
\* for every block that leads to ContBlock by now.
EndLhs ==
  /\ pc = "emit" /\ ret # NoValue /\ work # <<>>
  /\ Top.sec = "lhs"
  /\ Grow(0, [x \in {ins} |->
                IF Top.op = "and" THEN CondBr(ret, Top.rhs, Top.cont)
                ELSE CondBr(ret, Top.cont, Top.rhs)])
  /\ PhiAt(0, Top.cont, {[from |-> b, val |-> Const(Top.op = "or")] :
                           b \in Preds(term', Top.cont)})
  /\ ins' = Top.rhs
  /\ work' = Append(Front(work), [Top EXCEPT !.sec = "rhs"])
  /\ ret' = NoValue
  /\ UNCHANGED <<ast, code, pc>>

\* PN->addIncoming(RHSCond, RHSBlock): the block created for the right
\* operand, wherever the insert point is by now.
IncomingFromRhs == [from |-> Top.rhs, val |-> ret]

\* Mutant: the right operand branches back to its own block.
EndRhsToItself ==
  /\ pc = "emit" /\ ret # NoValue /\ work # <<>>
  /\ Top.sec = "rhs"
  /\ Grow(0, [x \in {ins} |-> Br(Top.rhs)])
  /\ PhiAt(0, Top.cont, phi[Top.cont] \cup {IncomingFromRhs})
  /\ ins' = Top.cont
  /\ work' = Front(work)
  /\ ret' = Phi(Top.cont)
  /\ UNCHANGED <<ast, code, pc>>

EndRhs ==
  /\ pc = "emit" /\ ret # NoValue /\ work # <<>>
  /\ Top.sec = "rhs"
  /\ Grow(0, [x \in {ins} |-> Br(Top.cont)])
  /\ PhiAt(0, Top.cont, phi[Top.cont] \cup {IncomingFromRhs})
  /\ ins' = Top.cont
  /\ work' = Front(work)
  /\ ret' = Phi(Top.cont)
  /\ UNCHANGED <<ast, code, pc>>

\* emitBranchOnBoolExpr of the whole condition.
EndCondition ==
  /\ pc = "emit" /\ ret # NoValue /\ work = <<>>
  /\ Grow(0, [x \in {ins} |-> CondBr(ret, Then, End)])
  /\ pc' = "done"
  /\ UNCHANGED <<ast, code, phi, ins, work, ret>>

Emission ==
  /\ EmitLeaf \/ EmitChecked \/ OpenLogical \/ EndLhs \/ EndRhs \/ EndCondition
  /\ UNCHANGED <<loc, env, run>>

-----------------------------------------------------------------------------
(* Execution.  A phi node takes the value of the block control came from;  *)
(* with no entry for it the value is undefined, and either may be read.    *)

ValueOf(v) == IF v.src = "const" THEN v.id = 1 ELSE env[v]

\* The values computed so far, with x, which has value v.
Computed(x, v) ==
  [y \in DOMAIN env \cup {x} |-> IF y = x THEN v ELSE env[y]]

\* The values the phi node of block b may have when entered from block a.
PhiValues(a, b) ==
  LET in == {p \in phi[b] : p.from = a}
  IN IF in = {} THEN BOOLEAN ELSE {ValueOf(p.val) : p \in in}

Start ==
  /\ pc = "done" /\ run.st = "idle"
  /\ run' = [run EXCEPT !.st = "running"]
  /\ UNCHANGED <<evars, loc, env>>

Running == run.st = "running" /\ loc.b \notin {Then, End}
Ended   == loc.i > Len(code[loc.b])
Exit    == term[loc.b]

Evaluate ==
  /\ Running /\ ~Ended
  /\ LET p == code[loc.b][loc.i]
     IN \E v \in BOOLEAN :
          /\ env' = Computed(Leaf(p), v)
          /\ run' = [run EXCEPT !.node = p, !.val = v]
  /\ loc' = [loc EXCEPT !.i = @ + 1]
  /\ UNCHANGED evars

\* The successor taken: an index check may go either way.
Taken ==
  CASE Exit.op = "br"    -> {Exit.to[1]}
    [] Exit.op = "cond"  -> {IF ValueOf(Exit.on) THEN Exit.to[1] ELSE Exit.to[2]}
    [] Exit.op = "check" -> {Exit.to[1], Exit.to[2]}
    [] OTHER             -> {}

Jump ==
  /\ Running /\ Ended
  /\ \E b \in Taken :
       /\ loc' = [b |-> b, i |-> 1]
       /\ IF phi[b] = {} THEN UNCHANGED env
          ELSE \E v \in PhiValues(loc.b, b) : env' = Computed(Phi(b), v)
  /\ UNCHANGED <<evars, run>>

Revert ==
  /\ Running /\ Ended /\ Exit.op = "unreachable"
  /\ run' = [st |-> "revert", node |-> Exit.node, val |-> FALSE]
  /\ UNCHANGED <<evars, loc, env>>

Result ==
  /\ run.st = "running" /\ loc.b \in {Then, End}
  /\ run' = [st |-> "result", node |-> 0, val |-> loc.b = Then]
  /\ UNCHANGED <<evars, loc, env>>

Stopped == run.st \in {"revert", "result"} /\ UNCHANGED vars

Init ==
  /\ ast = <<>> /\ nb = 3 /\ ins = 1 /\ work = <<>>
  /\ term = <<None, None, None>> /\ code = <<<<>>, <<>>, <<>>>>
  /\ phi = <<{}, {}, {}>>
  /\ ret = NoValue /\ pc = "emit"
  /\ loc = [b |-> 1, i |-> 1] /\ env = <<>>
  /\ run = [st |-> "idle", node |-> 0, val |-> FALSE]

Next ==
  Emission \/ Start \/ Evaluate \/ Jump \/ Revert \/ Result \/ Stopped

Spec == Init /\ [][Next]_vars /\ WF_vars(Next)

-----------------------------------------------------------------------------
Meaning == INSTANCE ShortCircuit WITH ast <- ast, run <- run

\* The blocks evaluate the operands that the short-circuit rules evaluate,
\* in their order, and branch on the value the rules give.
ImplementsShortCircuit == Meaning!Spec

\* A finished phi node has exactly one entry for each block that branches
\* to its own: with one missing its value is undefined.
PhiCoversPredecessors ==
  pc = "done" =>
    \A b \in 1..nb : phi[b] # {} =>
      /\ {p.from : p \in phi[b]} = Preds(term, b)
      /\ Cardinality(phi[b]) = Cardinality(Preds(term, b))

\* Every expression is emitted and its condition comes out or reverts: no
\* block is left open in the middle and the graph has no loop.
EvaluationEnds == <>(run.st \in {"revert", "result"})
=============================================================================
