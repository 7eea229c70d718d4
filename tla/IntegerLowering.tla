-------------------------- MODULE IntegerLowering --------------------------
(***************************************************************************)
(* The pass of lib/CodeGen/LoweringInteger.cpp and the code it leaves.     *)
(*                                                                         *)
(* The module is compiled with one function in use: "main", which has one  *)
(* instruction on operands of some width, or one of the two arithmetic     *)
(* helpers of CodeGenModule.cpp.  The pass replaces what is wider than a   *)
(* machine word by calls of functions of its own, whose instructions go to *)
(* the same worklist.  Then the function is called with any operands; where*)
(* the pass replaced an instruction it computes what the new function      *)
(* does, with instructions of half the width.                              *)
(***************************************************************************)
EXTENDS Naturals, SequencesExt

CONSTANTS
  Word,   \* the width of a machine word: 64 in the code
  Byte,   \* the width of a byte: 8 in the code
  Jobs    \* bound: [op, w, as, bs], the function and what it is called with

ASSUME JobsAssumption == \A j \in Jobs : j.w \in Nat
ASSUME WordAssumption == Word \in Nat /\ Word > 0 /\ Word % 2 = 0

VARIABLES
  job,       \* the function, and the operands it may get
  instrs,    \* the instructions the pass looks at, [op, w, in, nr]
  worklist,  \* Worklist
  calls,     \* the calls put in: <<function, function>>
  at,        \* "lower", then the block that control is in, then "done"
  arg,       \* the operands
  junk,      \* what the machine makes of a shift by its width or more
  reg,       \* the phi nodes of the loop control is in
  result

loweringVars == <<job, instrs, worklist, calls, at, arg, junk, reg, result>>

-----------------------------------------------------------------------------
(* The pass.                                                               *)

Signed == {"SDiv", "SRem", "AShr"}
Opcodes == Signed \cup {"Mul", "UDiv", "URem", "Shl", "LShr"}

Instr(op, w, f, nr) == [op |-> op, w |-> w, in |-> f, nr |-> nr]

\* The width that checkWorllist extends operands to; above two doublings
\* it leaves them alone.
Widened(w) ==
  IF Word < w /\ w <= 2 * Word THEN 2 * Word
  ELSE IF 2 * Word < w /\ w <= 4 * Word THEN 4 * Word ELSE w

\* Mutant: the products of a half are left at the full width.
FullWidth(w) == w
HalfWidth(w) == w \div 2

\* What Get...Function puts into a helper, as far as checkInstruction looks
\* at it: a shift by a constant it passes by.
Body(f) ==
  LET op == f[1]  w == f[2]  h == HalfWidth(w)
      ops == CASE op = "Mul"  -> [i \in 1..6 |-> <<"Mul", h>>]
               [] op = "UDiv" -> <<<<"Shl", w>>, <<"LShr", w>>>>
               [] op = "URem" -> <<<<"UDiv", w>>, <<"Mul", w>>>>
               [] op = "Shl"  -> <<<<"Shl", h>>, <<"Shl", h>>, <<"LShr", h>>,
                                   <<"Shl", h>>>>
               [] op = "LShr" -> <<<<"LShr", h>>, <<"Shl", h>>, <<"LShr", h>>,
                                   <<"LShr", h>>>>
  IN [i \in DOMAIN ops |-> Instr(ops[i][1], ops[i][2], f, i)]

\* checkInstruction
Wide(i) == i.op \in Opcodes /\ i.w > Word
Checked(is) ==
  FlattenSeq([i \in DOMAIN is |-> IF Wide(is[i]) THEN <<is[i]>> ELSE <<>>])

\* What main or the helper of CodeGenModule holds at first.
Source(op, w) ==
  IF op = "Exp" THEN <<Instr("Mul", w, <<op, w>>, 1), Instr("Mul", w, <<op, w>>, 2)>>
  ELSE <<Instr(op, w, <<"main", w>>, 1)>>

Helpers == {c[2] : c \in calls}
Popped  == Last(worklist)
\* The instruction after its operands are extended.
Extended == [Popped EXCEPT !.w = Widened(@)]
Helper   == <<Extended.op, Extended.w>>

Lowering == at = "lower" /\ worklist # <<>>

\* SDiv, SRem and AShr are extended at most.
KeepSigned ==
  /\ Lowering /\ Popped.op \in Signed
  /\ instrs' = (instrs \ {Popped}) \cup {Extended}
  /\ worklist' = Front(worklist)
  /\ UNCHANGED <<job, calls, at, arg, junk, reg, result>>

CallHelper ==
  /\ Lowering /\ Popped.op \notin Signed
  /\ Helper \in Helpers
  /\ instrs' = instrs \ {Popped}
  /\ worklist' = Front(worklist)
  /\ calls' = calls \cup {<<Popped.in, Helper>>}
  /\ UNCHANGED <<job, at, arg, junk, reg, result>>

\* Mutant: what a new function needs is not checked.
NothingPushed(f) == <<>>
Pushed(f) == Checked(Body(f))

MakeHelper ==
  /\ Lowering /\ Popped.op \notin Signed
  /\ Helper \notin Helpers
  /\ instrs' = (instrs \ {Popped}) \cup ToSet(Body(Helper))
  /\ worklist' = Front(worklist) \o Pushed(Helper)
  /\ calls' = calls \cup {<<Popped.in, Helper>>}
  /\ UNCHANGED <<job, at, arg, junk, reg, result>>

\* What is signed runs as it stands: that is left to LLVM.
Lowered ==
  /\ at = "lower" /\ worklist = <<>>
  /\ at' = IF job.op \in Signed THEN "done" ELSE "call"
  /\ UNCHANGED <<job, instrs, worklist, calls, arg, junk, reg, result>>

-----------------------------------------------------------------------------
(* Instructions that compute without a helper.                             *)

Trunc(w, a)   == a % 2^w
Add(w, a, b)  == Trunc(w, a + b)
Sub(w, a, b)  == Trunc(w, a + 2^w - b)
ShlBy(w, a, n)  == Trunc(w, a * 2^n)
LShrBy(w, a, n) == Trunc(w, a) \div 2^n
High(w, a) == a \div 2^(w \div 2)
Low(w, a)  == Trunc(w \div 2, a)

\* Every shift by the width or more, and every ctlz of zero, is undefined.
Junk(w, a) == CASE junk = "zero" -> 0 [] junk = "ones" -> 2^w - 1 [] junk = "same" -> a
Ctlz(w, a) == IF a = 0 THEN Junk(w, w)
              ELSE CHOOSE n \in 0..(w - 1) : 2^(w - n - 1) <= a /\ a < 2^(w - n)

-----------------------------------------------------------------------------
(* The helpers with one block.  half is an instruction on a half, as the   *)
(* pass leaves it.                                                         *)

Mul(half, w, a, b) ==
  LET h == w \div 2  q == h \div 2
      al == Low(w, a)  ah == High(w, a)  bl == Low(w, b)  bh == High(w, b)
      t == half["Mul", Low(h, al), Low(h, bl)]
      u == Add(h, half["Mul", High(h, al), Low(h, bl)], High(h, t))
      v == Add(h, half["Mul", Low(h, al), High(h, bl)], Low(h, u))
      x == Add(h, half["Mul", High(h, al), High(h, bl)],
               Add(h, High(h, u), High(h, v)))
      ol == Add(h, Low(h, t), ShlBy(h, v, q))
      oh == Add(h, x, Add(h, half["Mul", bh, al], half["Mul", bl, ah]))
  IN Add(w, ol, ShlBy(w, oh, h))

\* The amount as the halves see it; `n` is compared at the full width.
Shl(half, w, a, n) ==
  LET h == w \div 2
      lo == IF n < h THEN half["Shl", Low(w, a), Trunc(h, n)] ELSE 0
      hi == CASE n = 0 -> High(w, a)
              [] 0 < n /\ n < h ->
                   half["Shl", High(w, a), Trunc(h, n)]
                   + half["LShr", Low(w, a), Trunc(h, Sub(w, h, n))]
              [] OTHER -> half["Shl", Low(w, a), Trunc(h, Sub(w, n, h))]
  IN lo + ShlBy(w, hi, h)

LShr(half, w, a, n) ==
  LET h == w \div 2
      hi == IF n < h THEN half["LShr", High(w, a), Trunc(h, n)] ELSE 0
      lo == CASE n = 0 -> Low(w, a)
              [] 0 < n /\ n < h ->
                   half["Shl", High(w, a), Trunc(h, Sub(w, h, n))]
                   + half["LShr", Low(w, a), Trunc(h, n)]
              [] OTHER -> half["LShr", High(w, a), Trunc(h, Sub(w, n, h))]
  IN lo + ShlBy(w, hi, h)

Native(op, w, a, b) ==
  CASE op = "Mul"  -> Trunc(w, a * b)
    [] op = "Shl"  -> IF b < w THEN ShlBy(w, a, b) ELSE Junk(w, a)
    [] op = "LShr" -> IF b < w THEN LShrBy(w, a, b) ELSE Junk(w, a)

\* An instruction as the pass leaves it.
Op[op \in Opcodes, w \in Nat, a \in Nat, b \in Nat] ==
  LET x == Widened(w)
      half == [o \in Opcodes, c \in Nat, d \in Nat |-> Op[o, x \div 2, c, d]]
  IN IF w <= Word THEN Native(op, w, a, b)
     ELSE Trunc(w, CASE op = "Mul"  -> Mul(half, x, a, b)
                     [] op = "Shl"  -> Shl(half, x, a, b)
                     [] op = "LShr" -> LShr(half, x, a, b))

\* solidity.bswapi256: byte i of the result comes from the other end.
Bswap(w, a) ==
  LET n == w \div Byte
      data[i \in 0..(n - 1)] ==
        LET moved == IF 2 * i < n THEN ShlBy(w, a, (n - 1 - 2 * i) * Byte)
                     ELSE LShrBy(w, a, (2 * i - n + 1) * Byte)
            mask  == (n - 1 - i) * Byte
        IN IF i \in {0, n - 1} THEN moved
           ELSE Trunc(Byte, moved \div 2^mask) * 2^mask
  IN FoldFunction(LAMBDA x, y : x + y, 0, data)

-----------------------------------------------------------------------------
(* The calls.                                                              *)

W == Widened(job.w)
A == arg[1]
B == arg[2]
Return(r) == at' = "done" /\ result' = Trunc(job.w, r) /\ reg' = reg
Passed == UNCHANGED <<job, instrs, worklist, calls>>
Inside == Passed /\ UNCHANGED <<arg, junk>>

Call ==
  /\ at = "call"
  /\ arg' \in job.as \X job.bs
  /\ junk' \in {"zero", "ones", "same"}
  /\ at' = "entry"
  /\ Passed /\ UNCHANGED <<reg, result>>

InOneBlock ==
  /\ at = "entry" /\ job.op \in {"Mul", "Shl", "LShr", "Bswap"}
  /\ Return(IF job.op = "Bswap" THEN Bswap(job.w, A) ELSE Op[job.op, job.w, A, B])
  /\ Inside

(* solidity.expi256 *)
ExpOfZero ==
  /\ at = "entry" /\ job.op = "Exp" /\ B = 0
  /\ Return(1) /\ Inside

ExpEntry ==
  /\ at = "entry" /\ job.op = "Exp" /\ B # 0
  /\ reg' = [result |-> 1, part |-> A, exp |-> B]
  /\ at' = "exploop"
  /\ Inside /\ UNCHANGED result

\* Mutant: the exponent is not shifted.
SameExp == reg.exp
NewExp  == LShrBy(job.w, reg.exp, 1)

ExpLoop ==
  /\ at = "exploop"
  /\ LET mul == IF reg.exp % 2 = 0 THEN 1 ELSE reg.part
         next == [result |-> Op["Mul", job.w, reg.result, mul],
                  part |-> Op["Mul", job.w, reg.part, reg.part],
                  exp |-> NewExp]
     IN IF next.exp = 0 THEN Return(next.result)
        ELSE reg' = next /\ UNCHANGED <<at, result>>
  /\ Inside

(* __urem and __udiv *)

RemByZero ==
  /\ at = "entry" /\ job.op = "URem" /\ B = 0
  /\ Return(0) /\ Inside

RemEntry ==
  /\ at = "entry" /\ job.op = "URem" /\ B # 0
  /\ at' = "special-cases"
  /\ Inside /\ UNCHANGED <<reg, result>>

DivEntry ==
  /\ at = "entry" /\ job.op = "UDiv"
  /\ at' = "special-cases"
  /\ Inside /\ UNCHANGED <<reg, result>>

SR   == Sub(W, Ctlz(W, B), Ctlz(W, A))
Ret0 == B = 0 \/ A = 0 \/ SR > W - 1
EarlyRet == Ret0 \/ Ctlz(W, B) = W - 1

SpecialCases ==
  /\ at = "special-cases" /\ EarlyRet
  /\ result' = IF Ret0 THEN 0 ELSE A
  /\ at' = "end"
  /\ Inside /\ UNCHANGED reg

Preheader ==
  /\ at = "special-cases" /\ ~EarlyRet
  /\ reg' = [carry |-> 0, sr |-> Add(W, SR, 1),
             r |-> Op["LShr", W, A, Add(W, SR, 1)],
             q |-> Op["Shl", W, A, Sub(W, W - 1, SR)]]
  /\ at' = "do-while"
  /\ Inside /\ UNCHANGED result

\* Mutant: the divisor itself is compared with the remainder.
CarryOfDivisor(r2) == LShrBy(W, Sub(W, B, r2), W - 1)
\* The sign of (divisor - 1) - r2.
Carry(r2) == LShrBy(W, Sub(W, Sub(W, B, 1), r2), W - 1)

DoWhile ==
  /\ at = "do-while"
  /\ LET r2 == ShlBy(W, reg.r, 1) + LShrBy(W, reg.q, W - 1)
         neg == Carry(r2)
         next == [carry |-> neg, sr |-> Sub(W, reg.sr, 1),
                  r |-> Sub(W, r2, neg * B), q |-> reg.carry + ShlBy(W, reg.q, 1)]
     IN reg' = next /\ at' = IF next.sr = 0 THEN "loop-exit" ELSE at
  /\ Inside /\ UNCHANGED result

LoopExit ==
  /\ at = "loop-exit"
  /\ result' = reg.carry + ShlBy(W, reg.q, 1)
  /\ at' = "end"
  /\ Inside /\ UNCHANGED reg

\* The block "end", and what __urem does with the quotient.
LoopEnd ==
  /\ at = "end"
  /\ Return(IF job.op = "UDiv" THEN result ELSE Sub(W, A, Op["Mul", W, B, result]))
  /\ Inside

-----------------------------------------------------------------------------
LoweringInit ==
  /\ job \in Jobs
  /\ instrs = ToSet(Source(job.op, job.w))
  /\ worklist = Checked(Source(job.op, job.w))
  /\ calls = {} /\ at = "lower"
  /\ arg = <<0, 0>> /\ junk = "zero" /\ reg = [sr |-> 0] /\ result = 0

Lower == KeepSigned \/ CallHelper \/ MakeHelper \/ Lowered
Exp   == ExpOfZero \/ ExpEntry \/ ExpLoop
Div   == DivEntry \/ SpecialCases \/ Preheader \/ DoWhile \/ LoopExit
Rem   == RemByZero \/ RemEntry \/ LoopEnd
LoweringNext ==
  Lower \/ Call \/ InOneBlock \/ Exp \/ Div \/ Rem
  \/ (at = "done" /\ UNCHANGED loweringVars)

-----------------------------------------------------------------------------
(* Properties.                                                             *)

\* When the pass is done nothing but signed instructions is wider than a
\* word, wherever it stands: the worklist has met the code of every function
\* that was made on the way.
LoweringIsComplete ==
  at # "lower" => \A i \in instrs : Wide(i) => i.op \in Signed

\* No function that the pass leaves calls itself, by whatever way round: each
\* is narrower than its caller or an operation the caller is made from.
HelpersDoNotRecur ==
  at = "call" => \A fs \in SUBSET Helpers :
    fs # {} => \E f \in fs : \A g \in fs : <<f, g>> \notin calls

Power(w, a, n) ==
  LET p[k \in Nat] == IF k = 0 THEN 1 ELSE Trunc(w, p[k - 1] * a) IN p[n]

Reversed(w, a) ==
  LET n == w \div Byte
      byte[i \in 0..(n - 1)] == Trunc(Byte, a \div 2^(i * Byte)) * 2^((n - 1 - i) * Byte)
  IN FoldFunction(LAMBDA x, y : x + y, 0, byte)

WideMeaning ==
  LET w == job.w IN
  CASE job.op = "Mul"   -> Trunc(w, A * B)
    [] job.op = "UDiv"  -> IF B = 0 THEN 0 ELSE A \div B
    [] job.op = "URem"  -> IF B = 0 THEN 0 ELSE A % B
    [] job.op = "Shl"   -> ShlBy(w, A, B)
    [] job.op = "LShr"  -> LShrBy(w, A, B)
    [] job.op = "Exp"   -> Power(w, A, B)
    [] job.op = "Bswap" -> Reversed(w, A)

\* What main returns is what the wide operation means, whatever the machine
\* makes of an undefined shift: no function uses one, unless the program
\* itself shifts by the width or more.  Division by zero gives zero.
ComputesTheSame ==
  at = "done" /\ job.op \notin Signed /\ (job.op \in {"Shl", "LShr"} => B < job.w)
    => result = WideMeaning

\* The worklist gets empty and the loops of the division and of the power
\* are left.
Terminates == <>(at = "done")
=============================================================================
