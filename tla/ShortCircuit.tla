---------------------------- MODULE ShortCircuit ----------------------------
(***************************************************************************)
(* What a Boolean expression means: operands are evaluated from left to    *)
(* right, the right operand of && and || only if the left one does not     *)
(* decide, and an indexed operand reverts when its index is out of bounds. *)
(* The abstract specification of BoolExprLowering.                         *)
(***************************************************************************)
EXTENDS Naturals, Sequences

VARIABLES
  ast,   \* the nodes in preorder: [k, up, sec]
  run    \* [st, node, val]: the last operand evaluated and its value, then
         \* the value of the whole expression

vars == <<ast, run>>

Kind(p) == ast[p].k
Child(p, s) == CHOOSE q \in DOMAIN ast : ast[q].up = p /\ ast[q].sec = s

FirstOperand[p \in DOMAIN ast] ==
  IF Kind(p) \in {"and", "or"} THEN FirstOperand[Child(p, "lhs")] ELSE p

\* What follows when node p has value v: the next operand or the result.
Decide[p \in DOMAIN ast] ==
  [v \in BOOLEAN |->
     LET up == ast[p].up
     IN IF up = 0 THEN [st |-> "result", node |-> 0, val |-> v]
        ELSE IF ast[p].sec = "lhs" /\ v = (Kind(up) = "and")
             THEN [st |-> "next", node |-> FirstOperand[Child(up, "rhs")]]
             ELSE Decide[up][v]]

Evaluated(p) ==
  {[st |-> "running", node |-> p, val |-> v] : v \in BOOLEAN}
    \cup IF Kind(p) = "chk"
         THEN {[st |-> "revert", node |-> p, val |-> FALSE]} ELSE {}

Init ==
  /\ ast = <<>>
  /\ run = [st |-> "idle", node |-> 0, val |-> FALSE]

Read ==
  /\ run.st = "idle" /\ run' = run
  /\ Len(ast') = Len(ast) + 1 /\ SubSeq(ast', 1, Len(ast)) = ast

Begin ==
  /\ run.st = "idle" /\ ast # <<>>
  /\ run' = [run EXCEPT !.st = "running"]
  /\ UNCHANGED ast

Pass ==
  /\ run.st = "running"
  /\ LET to == IF run.node = 0
               THEN [st |-> "next", node |-> FirstOperand[1]]
               ELSE Decide[run.node][run.val]
     IN IF to.st = "next" THEN run' \in Evaluated(to.node) ELSE run' = to
  /\ UNCHANGED ast

Next == Read \/ Begin \/ Pass

Spec == Init /\ [][Next]_vars
=============================================================================
