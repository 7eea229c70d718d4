--------------------------- MODULE StructuredExec ---------------------------
(***************************************************************************)
(* What the statements of a function mean: the abstract specification of   *)
(* the lowering in StmtLowering.  There are no blocks here.  A run is a    *)
(* sequence of observable points of the AST (a statement executed, a       *)
(* condition or a switch value evaluated to its val-th outcome), and the   *)
(* tree alone says which point follows which.                              *)
(***************************************************************************)
EXTENDS StatementOrder

VARIABLES
  ast,   \* the nodes in the order they are visited: [k, up, sec]
  run    \* [st, node, val]: the last point passed and its outcome

vars == <<ast, run>>

Init ==
  /\ Len(ast) \in {0, 1}
  /\ run = [st |-> "idle", node |-> 0, val |-> 0]

\* The text of the function is still being read.
Read ==
  /\ run.st = "idle" /\ run' = run
  /\ Len(ast') = Len(ast) + 1 /\ SubSeq(ast', 1, Len(ast)) = ast

Begin ==
  /\ run.st = "idle"
  /\ \E f \in {0} \cup {p \in DOMAIN ast : Kind(ast, p) = "fun"} :
       run' = [st |-> "running", node |-> f, val |-> 0]
  /\ UNCHANGED ast

Pass ==
  /\ run.st = "running"
  /\ LET to == Follow(ast, Point(ast), run.node, run.val)
     IN IF to.st = "running"
        THEN \E v \in Outcomes(ast, to.node) :
               run' = [st |-> "running", node |-> to.node, val |-> v]
        ELSE run' = [run EXCEPT !.st = to.st]
  /\ UNCHANGED ast

Next == Read \/ Begin \/ Pass

Spec == Init /\ [][Next]_vars
=============================================================================
