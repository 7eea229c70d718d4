---------------------------- MODULE LoweredExec ----------------------------
(***************************************************************************)
(* The blocks that StmtLowering emits, executed.  When the translation     *)
(* unit is emitted one of its functions is called and its control flow     *)
(* graph is followed, with every outcome of every condition.  The points   *)
(* passed are recorded in `run`; the position in the graph is hidden from  *)
(* the abstract specification, which knows only the AST.                   *)
(***************************************************************************)
EXTENDS StmtLowering, StatementOrder

VARIABLES
  loc,   \* [b, i]: the i-th instruction of block b is next
  run    \* the last observable point: [st, node, val]

evars == <<lang, ast, nb, fn, term, code, ins, ret, loops, work, pc, loc, run>>

InitExec ==
  /\ Init
  /\ loc = [b |-> 1, i |-> 1]
  /\ run = [st |-> "idle", node |-> 0, val |-> 0]

Emission == (Statement \/ Section) /\ UNCHANGED <<loc, run>>

Source == INSTANCE StructuredExec WITH ast <- ast, run <- run

\* The source has a meaning.
JumpsHaveMeaning == JumpsInLoops(ast)

\* Call a function that was emitted: its entry block is its first.
Start ==
  /\ pc = "done" /\ run.st = "idle" /\ JumpsHaveMeaning
  /\ \E f \in {fn[b] : b \in Block} :
       /\ run' = [st |-> "running", node |-> f, val |-> 0]
       /\ loc' = [b |-> Min({b \in Block : fn[b] = f}), i |-> 1]
  /\ UNCHANGED vars

Running == run.st = "running"
Ended   == loc.i > Len(code[loc.b])
Exit    == term[loc.b]

Instruction ==
  /\ Running /\ ~Ended
  /\ run' = [run EXCEPT !.node = code[loc.b][loc.i], !.val = 1]
  /\ loc' = [loc EXCEPT !.i = @ + 1]
  /\ UNCHANGED vars

Branch ==
  /\ Running /\ Ended
  /\ \E v \in DOMAIN Exit.to :
       /\ loc' = [b |-> Exit.to[v], i |-> 1]
       /\ run' = IF Exit.op = "br" THEN run
                 ELSE [run EXCEPT !.node = Exit.node, !.val = v]
  /\ UNCHANGED vars

Stop ==
  /\ Running /\ Ended
  /\ \/ Exit.op = "ret" /\ run' = [run EXCEPT !.st = "return"]
     \/ Exit.op = "unreachable" /\ run' = [run EXCEPT !.st = "revert"]
  /\ UNCHANGED <<vars, loc>>

Stopped ==
  /\ \/ run.st \in {"return", "revert"} \/ pc \in {"assert", "undefined"}
     \/ pc = "done" /\ ~JumpsHaveMeaning
  /\ UNCHANGED evars

NextExec == Emission \/ Start \/ Instruction \/ Branch \/ Stop \/ Stopped

SpecExec == InitExec /\ [][NextExec]_evars

\* The blocks do what the statements mean: every run of the control flow
\* graph passes the points of the AST in the order the nesting of the
\* statements gives, with each outcome possible where the source allows it,
\* and returns or reverts where the source does.
ImplementsSource == Source!Spec
=============================================================================
