-------------------------- MODULE MCExpressionCode --------------------------
(* The code of an expression: a run is one condition with && and ||, or an *)
(* operation on integers that the pass lowers, as in MCIntegerLowering.    *)
EXTENDS BoolExprLowering, MCIntegerLowering

\* While one of the two runs, the other stands still.
NoJob == Job("SDiv", 0, {}, {})

ConditionOnly ==
  /\ Init
  /\ job = NoJob
  /\ at = "done" /\ instrs = {} /\ worklist = <<>> /\ calls = {}
  /\ arg = <<0, 0>> /\ junk = "zero" /\ reg = [sr |-> 0] /\ result = 0
OperationOnly == LoweringInit /\ Init

MCInit == ConditionOnly \/ OperationOnly
MCNext == \/ job = NoJob /\ Next /\ UNCHANGED loweringVars
          \/ job # NoJob /\ LoweringNext /\ UNCHANGED vars

\* The compiler and the code it makes go on as long as they can.
MCSpec == MCInit /\ [][MCNext]_<<vars, loweringVars>>
                 /\ WF_<<vars, loweringVars>>(MCNext)

\* EvaluationEnds for the runs of a condition: it comes out or reverts, as no
\* block is left open and the graph has no loop (ExprEmitter::visit of && and
\* ||, emitBranchOnBoolExpr).
ConditionEnds == job = NoJob => EvaluationEnds
=============================================================================
