---------------------------- MODULE DriverProofs ----------------------------
(***************************************************************************)
(* What TLAPS proves about Driver for all invocations: any number of       *)
(* inputs with any number of declarations, every action and target.  The   *)
(* lemmas show that a step keeps each part of DriverInv.                   *)
(***************************************************************************)
EXTENDS Driver, TLAPS, SequenceTheorems

\* Nothing changes the command line, nor what is computed from it.
LEMMA SameInvocation ==
  ASSUME [Next]_vars
  PROVE  inv' = inv
BY DEF Next, vars, BeginSourceFile, CannotOpenInput, ParseAST,
       HandleSourceUnit, SkipDecl, CannotEmitDecl, EmitContractDecl,
       EmitYulObject, CloneModules, CannotLink, LinkNoObject, LinkNested,
       NestedLinked, OpenNothing, OpenOutput, CannotOpenOutput, WriteWasm,
       EmitAssembly, CannotEmitAssembly, AllWritten, EndSourceFile, Exit, Over

LEMMA SameInputs ==
  ASSUME [Next]_vars
  PROVE  /\ Inputs' = Inputs /\ Places' = Places /\ OutFiles' = OutFiles
         /\ CodeGen' = CodeGen /\ Writes' = Writes /\ Refused' = Refused
         /\ \A i : (Passed(i)' <=> Passed(i)) /\ (Faulty(i)' <=> Faulty(i))
                   /\ (Sound(i)' <=> Sound(i))
         /\ \A x : CanEmit(x)' <=> CanEmit(x)
         /\ \A i, d : OutFile(i, d)' = OutFile(i, d)
<1>1. inv' = inv
  BY SameInvocation
<1>2. Inputs' = Inputs
  BY <1>1 DEF Inputs
<1>3. /\ Places' = Places
      /\ \A i, d : OutFile(i, d)' = OutFile(i, d)
      /\ \A x : CanEmit(x)' <=> CanEmit(x)
      /\ CodeGen' = CodeGen /\ Writes' = Writes /\ Refused' = Refused
  BY <1>1, <1>2
  DEF Places, OutFile, CanEmit, CodeGen, Writes, Refused, RequiresCodeGen
<1>4. OutFiles' = OutFiles
  BY <1>3 DEF OutFiles
<1>5. \A i : /\ (Passed(i)' <=> Passed(i)) /\ (Faulty(i)' <=> Faulty(i))
             /\ (Sound(i)' <=> Sound(i))
  BY <1>1, <1>2, <1>3 DEF Passed, Faulty, Sound
<1>6. QED
  BY <1>2, <1>3, <1>4, <1>5

LEMMA AppendedElements ==
  ASSUME NEW seq \in Seq(Nat), NEW elt \in Nat
  PROVE  \A e \in DOMAIN Append(seq, elt) :
           \/ Append(seq, elt)[e] = elt
           \/ e \in DOMAIN seq /\ Append(seq, elt)[e] = seq[e]
BY AppendProperties, LenProperties

\* Inputs and declarations are numbered from one.
LEMMA InputIsNatural ==
  ASSUME TypeOK
  PROVE  /\ Len(Inputs) \in Nat
         /\ DOMAIN Inputs = 1..Len(Inputs)
BY InvocationsAssumption DEF TypeOK, Inputs

LEMMA DeclIsNatural ==
  ASSUME TypeOK, pc # "begin"
  PROVE  /\ Len(Here.decls) \in Nat
         /\ DOMAIN Here.decls = 1..Len(Here.decls)
BY InvocationsAssumption DEF TypeOK, Inputs, Here

\* A declaration at work is one of the input at work, and so is its file.
LEMMA DeclIsAPlace ==
  ASSUME TypeOK, pc # "begin", decl \in DOMAIN Here.decls
  PROVE  <<input, decl>> \in Places
BY DEF TypeOK, Places, Here

LEMMA PathIsOutput ==
  ASSUME TypeOK, next \in DOMAIN entries
  PROVE  Path \in OutFiles /\ Entry \in Nat
<1>1. Entry \in Nat
  BY ElementOfSeq DEF TypeOK, Entry
<1>2. <<input, Entry>> \in Places
  BY DEF TypeOK, Entry
<1>3. QED
  BY <1>1, <1>2 DEF OutFiles, Path

\* What is written goes to the file that is open, if there is one.
LEMMA PutKeepsFiles ==
  ASSUME TypeOK, StreamIsOpen, pc = "write", Put, inv' = inv
  PROVE  files' \in [OutFiles -> FileType \cup {NoFile}]
<1>1. CASE stream /\ Writes
  <2>1. /\ Path \in OutFiles /\ files[Path] # NoFile
        /\ files' = [files EXCEPT ![Path].done = TRUE]
    BY <1>1, PathIsOutput DEF TypeOK, StreamIsOpen, Put
  <2>2. files[Path] \in FileType
    BY <2>1 DEF TypeOK
  <2>3. [files[Path] EXCEPT !.done = TRUE] \in FileType
    BY <2>2 DEF FileType
  <2>4. QED
    BY <2>1, <2>3 DEF TypeOK
<1>2. CASE ~ (stream /\ Writes)
  BY <1>2 DEF Put, TypeOK
<1>3. QED
  BY <1>1, <1>2

LEMMA PutKeepsOwners ==
  ASSUME TypeOK, StreamIsOpen, pc = "write", Put, inv' = inv
  PROVE  \A p \in OutFiles :
           /\ files'[p] # NoFile => files[p] # NoFile
           /\ files'[p].input = files[p].input
           /\ files'[p].decl = files[p].decl
<1>1. CASE stream /\ Writes
  <2>1. /\ Path \in OutFiles /\ files[Path] # NoFile
        /\ files' = [files EXCEPT ![Path].done = TRUE]
    BY <1>1, PathIsOutput DEF TypeOK, StreamIsOpen, Put
  <2>2. files[Path] \in FileType
    BY <2>1 DEF TypeOK
  <2>3. QED
    BY <2>1, <2>2 DEF TypeOK, FileType
<1>2. CASE ~ (stream /\ Writes)
  BY <1>2 DEF Put
<1>3. QED
  BY <1>1, <1>2

\* The place in the program is reached as PhaseOK says.
LEMMA PhaseKept ==
  ASSUME DriverInv, [Next]_vars
  PROVE  PhaseOK'
<1>. USE SameInvocation DEF DriverInv
<1>1. CASE BeginSourceFile
  BY <1>1 DEF BeginSourceFile, PhaseOK, Emitting, Here, Inputs, At
<1>2. CASE CannotOpenInput
  BY <1>2 DEF CannotOpenInput, PhaseOK
<1>3. CASE ParseAST
  BY <1>3 DEF ParseAST, PhaseOK, CodeGen, Emitting, Here, Inputs, At
<1>4. CASE HandleSourceUnit
  BY <1>4 DEF HandleSourceUnit, PhaseOK, CodeGen, Here, Inputs, At
<1>5. CASE SkipDecl
  BY <1>5 DEF SkipDecl, PhaseOK, CodeGen, Here, Inputs, At, Declaring
<1>6. CASE CannotEmitDecl
  BY <1>6 DEF CannotEmitDecl, PhaseOK, CodeGen, Here, Inputs, At, Declaring
<1>7. CASE EmitContractDecl
  BY <1>7 DEF EmitContractDecl, PhaseOK, CodeGen, Here, Inputs, At, Declaring
<1>8. CASE EmitYulObject
  BY <1>8 DEF EmitYulObject, PhaseOK, CodeGen, Here, Inputs, At, Declaring
<1>9. CASE CloneModules
  BY <1>9 DEF CloneModules, PhaseOK, CodeGen, Emitting, Here, Inputs, At
<1>10. CASE CannotLink
  BY <1>10 DEF CannotLink, PhaseOK, Emitting
<1>11. CASE LinkNoObject
  BY <1>11 DEF LinkNoObject, PhaseOK, CodeGen, Here, Inputs
<1>12. CASE LinkNested
  BY <1>12 DEF LinkNested, PhaseOK, CodeGen, Here, Inputs
<1>13. CASE NestedLinked
  BY <1>13 DEF NestedLinked, PhaseOK, CodeGen, Emitting, Here, Inputs, At
<1>14. CASE OpenNothing
  BY <1>14 DEF OpenNothing, PhaseOK, CodeGen, Emitting, Here, Inputs, At,
     Opening
<1>15. CASE OpenOutput
  BY <1>15 DEF OpenOutput, PhaseOK, CodeGen, Emitting, Here, Inputs, At,
     Opening
<1>16. CASE CannotOpenOutput
  BY <1>16 DEF CannotOpenOutput, PhaseOK, CodeGen, Emitting, Here, Inputs, At,
     Opening
<1>17. CASE WriteWasm
  BY <1>17 DEF WriteWasm, PhaseOK, CodeGen, Emitting, Here, Inputs, At,
     NextEntry
<1>18. CASE EmitAssembly
  BY <1>18 DEF EmitAssembly, PhaseOK, CodeGen, Emitting, Here, Inputs, At,
     NextEntry
<1>19. CASE CannotEmitAssembly
  BY <1>19 DEF CannotEmitAssembly, PhaseOK, CodeGen, Emitting, Here, Inputs,
     At, NextEntry
<1>20. CASE AllWritten
  BY <1>20 DEF AllWritten, PhaseOK, Emitting
<1>21. CASE EndSourceFile
  BY <1>21 DEF EndSourceFile, PhaseOK, Emitting
<1>22. CASE Exit
  BY <1>22 DEF Exit, PhaseOK, TypeOK, Emitting
<1>23. CASE Over \/ UNCHANGED vars
  BY <1>23 DEF Over, vars, PhaseOK, CodeGen, Here, Inputs
<1>24. QED
  BY <1>1, <1>2, <1>3, <1>4, <1>5, <1>6, <1>7, <1>8, <1>9, <1>10, <1>11, <1>12,
     <1>13, <1>14, <1>15, <1>16, <1>17, <1>18, <1>19, <1>20, <1>21, <1>22,
     <1>23 DEF Next

\* The Booleans of TypeOK first: Zenon's part, the rest is SMT's.
LEMMA BooleansKept ==
  ASSUME DriverInv, [Next]_vars
  PROVE  stream' \in BOOLEAN /\ printed' \in BOOLEAN
<1>. USE DEF DriverInv
<1>1. CASE BeginSourceFile
  BY <1>1 DEF BeginSourceFile, TypeOK
<1>2. CASE CannotOpenInput
  BY <1>2 DEF CannotOpenInput, TypeOK
<1>3. CASE ParseAST
  BY <1>3 DEF ParseAST, TypeOK
<1>4. CASE HandleSourceUnit
  BY <1>4 DEF HandleSourceUnit, TypeOK
<1>5. CASE SkipDecl
  BY <1>5 DEF SkipDecl, TypeOK
<1>6. CASE CannotEmitDecl
  BY <1>6 DEF CannotEmitDecl, TypeOK
<1>7. CASE EmitContractDecl
  BY <1>7 DEF EmitContractDecl, TypeOK
<1>8. CASE EmitYulObject
  BY <1>8 DEF EmitYulObject, TypeOK
<1>9. CASE CloneModules
  BY <1>9 DEF CloneModules, TypeOK
<1>10. CASE CannotLink
  BY <1>10 DEF CannotLink
<1>11. CASE LinkNoObject
  BY <1>11 DEF LinkNoObject, TypeOK
<1>12. CASE LinkNested
  BY <1>12 DEF LinkNested, TypeOK
<1>13. CASE NestedLinked
  BY <1>13 DEF NestedLinked, TypeOK
<1>14. CASE OpenNothing
  BY <1>14, Zenon DEF OpenNothing, TypeOK
<1>15. CASE OpenOutput
  BY <1>15 DEF OpenOutput, TypeOK
<1>16. CASE CannotOpenOutput
  BY <1>16 DEF CannotOpenOutput, TypeOK
<1>17. CASE WriteWasm
  BY <1>17 DEF WriteWasm, TypeOK, NextEntry
<1>18. CASE EmitAssembly
  BY <1>18 DEF EmitAssembly, TypeOK, NextEntry
<1>19. CASE CannotEmitAssembly
  BY <1>19 DEF CannotEmitAssembly, TypeOK, NextEntry
<1>20. CASE AllWritten
  BY <1>20 DEF AllWritten, TypeOK
<1>21. CASE EndSourceFile
  BY <1>21 DEF EndSourceFile, TypeOK
<1>22. CASE Exit
  BY <1>22 DEF Exit, TypeOK
<1>23. CASE Over \/ UNCHANGED vars
  BY <1>23 DEF Over, vars, TypeOK
<1>24. QED
  BY <1>1, <1>2, <1>3, <1>4, <1>5, <1>6, <1>7, <1>8, <1>9, <1>10, <1>11, <1>12,
     <1>13, <1>14, <1>15, <1>16, <1>17, <1>18, <1>19, <1>20, <1>21, <1>22,
     <1>23 DEF Next

\* Places and files are of the inputs.
LEMMA TypeKept ==
  ASSUME DriverInv, [Next]_vars
  PROVE  TypeOK'
<1>. USE DEF DriverInv
<1>i. inv' = inv /\ Places' = Places /\ OutFiles' = OutFiles
  BY SameInvocation, SameInputs
<1>. USE <1>i, BooleansKept
<1>1. CASE BeginSourceFile
  BY <1>1 DEF BeginSourceFile, TypeOK, Pcs, Inputs
<1>2. CASE CannotOpenInput
  BY <1>2 DEF CannotOpenInput, PhaseOK, At, Report, TypeOK, Inputs
<1>3. CASE ParseAST
  BY <1>3 DEF ParseAST, TypeOK, Pcs, Inputs, At, Report
<1>4. CASE HandleSourceUnit
  BY <1>4 DEF HandleSourceUnit, TypeOK, Pcs, Inputs, At
<1>5. CASE SkipDecl
  BY <1>5 DEF SkipDecl, TypeOK, Inputs
<1>6. CASE CannotEmitDecl
  BY <1>6 DEF CannotEmitDecl, TypeOK, Inputs, Report
<1>7. CASE EmitContractDecl
  <2>1. <<input, decl>> \in Places /\ decl \in Nat
    BY <1>7, DeclIsAPlace DEF EmitContractDecl, Declaring, At, TypeOK
  <2>2. /\ entries' = Append(entries, decl) /\ entries' \in Seq(Nat)
        /\ nested' \in Seq(Nat)
    BY <1>7, <2>1 DEF EmitContractDecl, TypeOK
  <2>3. \A e \in DOMAIN entries' : <<input, entries'[e]>> \in Places
    BY <2>1, <2>2, AppendedElements DEF TypeOK
  <2>4. QED
    BY <1>7, <2>2, <2>3 DEF EmitContractDecl, TypeOK, Pcs, Declaring, At, Inputs
<1>8. CASE EmitYulObject
  <2>1. <<input, decl>> \in Places /\ decl \in Nat
    BY <1>8, DeclIsAPlace DEF EmitYulObject, Declaring, At, TypeOK
  <2>2. Here.decls[decl].objects \in Nat
    BY <1>8, InvocationsAssumption
    DEF EmitYulObject, Declaring, At, TypeOK, Here, Inputs
  <2>3. [o \in 1..Here.decls[decl].objects |-> decl] \in Seq(Nat)
    BY <2>1, <2>2
  <2>4. nested' \in Seq(Nat)
    BY <1>8, <2>3, ConcatProperties DEF EmitYulObject, TypeOK
  <2>5. entries' \in Seq(Nat) /\ DOMAIN entries' = {1} /\ entries'[1] = decl
    BY <1>8, <2>1 DEF EmitYulObject
  <2>6. \A e \in DOMAIN entries' : <<input, entries'[e]>> \in Places
    BY <2>1, <2>5
  <2>7. QED
    BY <1>8, <2>1, <2>4, <2>5, <2>6
    DEF EmitYulObject, TypeOK, Pcs, Declaring, At, Inputs
<1>9. CASE CloneModules
  BY <1>9 DEF CloneModules, TypeOK, Pcs, Inputs, At
<1>10. CASE CannotLink
  BY <1>10 DEF CannotLink, TypeOK, Pcs, Inputs, At, Linking
<1>11. CASE LinkNoObject
  BY <1>11 DEF LinkNoObject, TypeOK, Exits, Inputs, Report
<1>12. CASE LinkNested
  BY <1>12 DEF LinkNested, TypeOK, Inputs, At
<1>13. CASE NestedLinked
  BY <1>13 DEF NestedLinked, TypeOK, Pcs, Inputs, At
<1>14. CASE OpenNothing
  BY <1>14 DEF OpenNothing, TypeOK, Pcs, Inputs, At, Opening
<1>15. CASE OpenOutput
  <2>1. Path \in OutFiles /\ Entry \in Nat
    BY <1>15, PathIsOutput DEF OpenOutput, Opening
  <2>2. files' \in [OutFiles -> FileType \cup {NoFile}]
    BY <1>15, <2>1 DEF OpenOutput, TypeOK, FileType
  <2>3. QED
    BY <1>15, <2>2 DEF OpenOutput, TypeOK, Pcs, Opening, At, Inputs
<1>16. CASE CannotOpenOutput
  BY <1>16 DEF CannotOpenOutput, TypeOK, Pcs, Inputs, At, Report, Opening
<1>17. CASE WriteWasm
  <2>1. files' \in [OutFiles -> FileType \cup {NoFile}]
    BY <1>17, PutKeepsFiles DEF WriteWasm, At
  <2>2. exit' \in Exits
    BY <1>17 DEF WriteWasm, At, Put, Exits
  <2>3. QED
    BY <1>17, <2>1, <2>2 DEF WriteWasm, NextEntry, TypeOK, Pcs, At, Inputs
<1>18. CASE EmitAssembly
  <2>1. files' \in [OutFiles -> FileType \cup {NoFile}]
    BY <1>18, PutKeepsFiles DEF EmitAssembly, At, TypeOK
  <2>2. exit' \in Exits
    BY <1>18 DEF EmitAssembly, At, Put, Exits
  <2>3. QED
    BY <1>18, <2>1, <2>2 DEF EmitAssembly, NextEntry, TypeOK, Pcs, At, Inputs
<1>19. CASE CannotEmitAssembly
  BY <1>19 DEF CannotEmitAssembly, TypeOK, Pcs, Inputs, At, Report, NextEntry
<1>20. CASE AllWritten
  BY <1>20 DEF AllWritten, TypeOK, Pcs, Inputs, At
<1>21. CASE EndSourceFile
  BY <1>21 DEF EndSourceFile, TypeOK, Pcs, Inputs
<1>22. CASE Exit
  BY <1>22 DEF Exit, TypeOK, Exits
<1>23. CASE Over \/ UNCHANGED vars
  BY <1>23 DEF Over, vars, TypeOK, Inputs
<1>24. QED
  BY <1>1, <1>2, <1>3, <1>4, <1>5, <1>6, <1>7, <1>8, <1>9, <1>10, <1>11, <1>12,
     <1>13, <1>14, <1>15, <1>16, <1>17, <1>18, <1>19, <1>20, <1>21, <1>22,
     <1>23 DEF Next

\* No error so far, so no input behind has one.
LEMMA PassedCleanKept ==
  ASSUME DriverInv, [Next]_vars
  PROVE  PassedClean'
<1>. USE SameInvocation, InvocationsAssumption DEF DriverInv
<1>1. CASE BeginSourceFile
  BY <1>1
  DEF BeginSourceFile, PassedClean, Passed, CanEmit, CodeGen, CodeGenActions,
      TypeOK, Here, Inputs, At
<1>2. CASE CannotOpenInput
  BY <1>2 DEF CannotOpenInput, PassedClean, Passed, CanEmit, CodeGen, TypeOK,
     Report
<1>3. CASE ParseAST
  BY <1>3 DEF ParseAST, PassedClean, Passed, CanEmit, CodeGen, TypeOK, PhaseOK,
     Here, Inputs, At, Report
<1>4. CASE HandleSourceUnit
  BY <1>4 DEF HandleSourceUnit, PassedClean, Passed, CanEmit, CodeGen, TypeOK,
     PhaseOK, Here, Inputs, At, ErrorOccurred
<1>5. CASE SkipDecl
  BY <1>5 DEF SkipDecl, PassedClean, Passed, CanEmit, CodeGen, TypeOK,
     ErrorOccurred
<1>6. CASE CannotEmitDecl
  BY <1>6 DEF CannotEmitDecl, PassedClean, Passed, CanEmit, CodeGen, TypeOK,
     Report
<1>7. CASE EmitContractDecl
  <2>1. \A d \in DOMAIN Here.decls : d < decl + 1 => d < decl \/ d = decl
    BY <1>7, DeclIsNatural DEF EmitContractDecl, Declaring, At, TypeOK
  <2>2. CanEmit(<<input, decl>>)
    BY <1>7 DEF EmitContractDecl, CanEmit, Here
  <2>3. /\ pc = "decls" /\ pc' = pc /\ input' = input /\ decl' = decl + 1
        /\ numErrors' = numErrors
    BY <1>7 DEF EmitContractDecl, Declaring, At
  <2>4. QED
    BY <2>1, <2>2, <2>3 DEF PassedClean, Passed, CanEmit, CodeGen, Here, Inputs
<1>8. CASE EmitYulObject
  <2>1. \A d \in DOMAIN Here.decls : d < decl + 1 => d < decl \/ d = decl
    BY <1>8, DeclIsNatural DEF EmitYulObject, Declaring, At, TypeOK
  <2>2. CanEmit(<<input, decl>>)
    BY <1>8 DEF EmitYulObject, CanEmit, Here
  <2>3. /\ pc = "decls" /\ pc' = pc /\ input' = input /\ decl' = decl + 1
        /\ numErrors' = numErrors
    BY <1>8 DEF EmitYulObject, Declaring, At
  <2>4. QED
    BY <2>1, <2>2, <2>3 DEF PassedClean, Passed, CanEmit, CodeGen, Here, Inputs
<1>9. CASE CloneModules
  <2>1. \A d \in DOMAIN Here.decls : d < decl
    BY <1>9, DeclIsNatural DEF CloneModules, At, TypeOK
  <2>2. pc = "decls" /\ Sound(input)
    BY <1>9 DEF CloneModules, At, EmitsBehindClean, Emitting
  <2>3. QED
    BY <1>9, <2>1, <2>2
    DEF CloneModules, PassedClean, Passed, Sound, CanEmit, CodeGen, Here, Inputs
<1>10. CASE CannotLink
  BY <1>10 DEF CannotLink, PassedClean, Passed, CanEmit, CodeGen, TypeOK,
     Inputs, At, Linking
<1>11. CASE LinkNoObject
  BY <1>11 DEF LinkNoObject, PassedClean, Passed, CanEmit, CodeGen, TypeOK,
     Report
<1>12. CASE LinkNested
  BY <1>12 DEF LinkNested, PassedClean, Passed, CanEmit, CodeGen, TypeOK, Here,
     Inputs
<1>13. CASE NestedLinked
  BY <1>13 DEF NestedLinked, PassedClean, Passed, CanEmit, CodeGen, TypeOK,
     Inputs, At
<1>14. CASE OpenNothing
  BY <1>14 DEF OpenNothing, PassedClean, Passed, CanEmit, CodeGen, TypeOK,
     Inputs, At, Opening
<1>15. CASE OpenOutput
  BY <1>15 DEF OpenOutput, PassedClean, Passed, CanEmit, CodeGen, TypeOK,
     Inputs, At, Opening
<1>16. CASE CannotOpenOutput
  BY <1>16 DEF CannotOpenOutput, PassedClean, Passed, CanEmit, CodeGen, TypeOK,
     Report
<1>17. CASE WriteWasm
  BY <1>17 DEF WriteWasm, PassedClean, Passed, CanEmit, CodeGen, TypeOK,
     PhaseOK, Emitting, Here, Inputs, At, Linking
<1>18. CASE EmitAssembly
  BY <1>18 DEF EmitAssembly, PassedClean, Passed, CanEmit, CodeGen, TypeOK,
     Inputs, At, NextEntry
<1>19. CASE CannotEmitAssembly
  BY <1>19 DEF CannotEmitAssembly, PassedClean, Passed, CanEmit, CodeGen,
     TypeOK, Report
<1>20. CASE AllWritten
  BY <1>20 DEF AllWritten, PassedClean, Passed, CanEmit, CodeGen, TypeOK,
     Inputs, At
<1>21. CASE EndSourceFile
  <2>1. pc = "end" /\ numErrors' = numErrors /\ pc' = "begin" /\ input' = input + 1
    BY <1>21 DEF EndSourceFile, At
  <2>2. \A i \in DOMAIN Inputs : i < input + 1 => i < input \/ i = input
    BY InputIsNatural DEF TypeOK
  <2>3. QED
    BY <2>1, <2>2, SameInputs DEF PassedClean
<1>22. CASE Exit
  BY <1>22 DEF Exit, PassedClean, Passed, CanEmit, CodeGen, TypeOK, Inputs
<1>23. CASE Over \/ UNCHANGED vars
  BY <1>23 DEF Over, vars, PassedClean, Passed, CanEmit, CodeGen, TypeOK, Here,
     Inputs
<1>24. QED
  BY <1>1, <1>2, <1>3, <1>4, <1>5, <1>6, <1>7, <1>8, <1>9, <1>10, <1>11, <1>12,
     <1>13, <1>14, <1>15, <1>16, <1>17, <1>18, <1>19, <1>20, <1>21, <1>22,
     <1>23 DEF Next

\* Code is generated behind clean inputs and declarations.
LEMMA EmitsBehindCleanKept ==
  ASSUME DriverInv, [Next]_vars
  PROVE  EmitsBehindClean'
<1>. USE SameInvocation, SameInputs DEF DriverInv
<1>1. CASE BeginSourceFile
  BY <1>1 DEF BeginSourceFile, EmitsBehindClean, Emitting, Here
<1>2. CASE CannotOpenInput
  <2>1. /\ entries' = <<>> /\ pc' = "begin"
    BY <1>2 DEF CannotOpenInput, At, PhaseOK
  <2>2. QED
    BY <2>1 DEF EmitsBehindClean, Emitting
<1>3. CASE ParseAST
  BY <1>3 DEF ParseAST, EmitsBehindClean, Emitting, Here
<1>4. CASE HandleSourceUnit
  <2>1. CASE ErrorOccurred
    BY <1>4, <2>1 DEF HandleSourceUnit, At, PhaseOK, EmitsBehindClean, Emitting
  <2>2. CASE ~ ErrorOccurred
    <3>1. pc = "unit" /\ numErrors = 0 /\ entries' = <<>> /\ input' = input
      BY <1>4, <2>2
      DEF HandleSourceUnit, At, PhaseOK, ErrorOccurred, TypeOK
    <3>2. Sound(input) /\ \A i \in DOMAIN Inputs : i < input => Passed(i)
      BY <3>1 DEF PassedClean, PhaseOK, Sound, Here
    <3>3. QED
      BY <3>1, <3>2 DEF EmitsBehindClean
  <2>3. QED
    BY <2>1, <2>2
<1>5. CASE SkipDecl
  BY <1>5 DEF SkipDecl, EmitsBehindClean, Here
<1>6. CASE CannotEmitDecl
  BY <1>6 DEF CannotEmitDecl, EmitsBehindClean, Here
<1>7. CASE EmitContractDecl
  <2>1. /\ pc = "decls" /\ pc' = pc /\ numErrors = 0 /\ input' = input
        /\ entries' = Append(entries, decl) /\ decl \in Nat
    BY <1>7
    DEF EmitContractDecl, Declaring, At, ErrorOccurred, TypeOK
  <2>2. \A d \in DOMAIN Here.decls : d < decl => CanEmit(<<input, d>>)
    BY <2>1 DEF PassedClean
  <2>3. \A e \in DOMAIN entries' :
          entries'[e] = decl \/ (e \in DOMAIN entries /\ entries'[e] = entries[e])
    BY <2>1, AppendedElements DEF TypeOK
  <2>4. QED
    BY <2>1, <2>2, <2>3 DEF EmitsBehindClean, Emitting, Here
<1>8. CASE EmitYulObject
  <2>1. /\ pc = "decls" /\ pc' = pc /\ numErrors = 0 /\ input' = input
        /\ entries' = <<decl>>
    BY <1>8
    DEF EmitYulObject, Declaring, At, ErrorOccurred, TypeOK
  <2>2. \A d \in DOMAIN Here.decls : d < decl => CanEmit(<<input, d>>)
    BY <2>1 DEF PassedClean
  <2>3. DOMAIN entries' = {1} /\ entries'[1] = decl
    BY <2>1
  <2>4. QED
    BY <2>1, <2>2, <2>3 DEF EmitsBehindClean, Emitting, Here
<1>9. CASE CloneModules
  BY <1>9 DEF CloneModules, EmitsBehindClean, Emitting, Here, At
<1>10. CASE CannotLink
  BY <1>10 DEF CannotLink, EmitsBehindClean, Emitting, Here
<1>11. CASE LinkNoObject
  BY <1>11 DEF LinkNoObject, EmitsBehindClean, Here
<1>12. CASE LinkNested
  BY <1>12 DEF LinkNested, EmitsBehindClean, Here
<1>13. CASE NestedLinked
  BY <1>13 DEF NestedLinked, EmitsBehindClean, Emitting, Here, At
<1>14. CASE OpenNothing
  BY <1>14 DEF OpenNothing, EmitsBehindClean, Emitting, Here, At, Opening
<1>15. CASE OpenOutput
  BY <1>15 DEF OpenOutput, EmitsBehindClean, Emitting, Here, At, Opening
<1>16. CASE CannotOpenOutput
  BY <1>16 DEF CannotOpenOutput, EmitsBehindClean, Emitting, Here, At, Opening
<1>17. CASE WriteWasm
  BY <1>17 DEF WriteWasm, EmitsBehindClean, Emitting, Here, At
<1>18. CASE EmitAssembly
  BY <1>18 DEF EmitAssembly, EmitsBehindClean, Emitting, Here, At
<1>19. CASE CannotEmitAssembly
  BY <1>19 DEF CannotEmitAssembly, EmitsBehindClean, Emitting, Here, At
<1>20. CASE AllWritten
  BY <1>20 DEF AllWritten, EmitsBehindClean, Emitting, Here
<1>21. CASE EndSourceFile
  BY <1>21 DEF EndSourceFile, EmitsBehindClean, Emitting
<1>22. CASE Exit
  BY <1>22 DEF Exit, EmitsBehindClean, Here
<1>23. CASE Over \/ UNCHANGED vars
  BY <1>23 DEF Over, vars, EmitsBehindClean, Here
<1>24. QED
  BY <1>1, <1>2, <1>3, <1>4, <1>5, <1>6, <1>7, <1>8, <1>9, <1>10, <1>11, <1>12,
     <1>13, <1>14, <1>15, <1>16, <1>17, <1>18, <1>19, <1>20, <1>21, <1>22,
     <1>23 DEF Next

\* The stream at work is that of the entry's file.
LEMMA StreamIsOpenKept ==
  ASSUME DriverInv, [Next]_vars
  PROVE  StreamIsOpen'
<1>. USE SameInvocation DEF DriverInv
<1>1. CASE BeginSourceFile
  BY <1>1 DEF BeginSourceFile, StreamIsOpen, Writes
<1>2. CASE CannotOpenInput
  BY <1>2 DEF CannotOpenInput, StreamIsOpen, Writes, At
<1>3. CASE ParseAST
  BY <1>3 DEF ParseAST, StreamIsOpen, Writes
<1>4. CASE HandleSourceUnit
  BY <1>4 DEF HandleSourceUnit, StreamIsOpen, Writes
<1>5. CASE SkipDecl
  BY <1>5 DEF SkipDecl, StreamIsOpen, Writes, Path, Entry, OutFile, Inputs
<1>6. CASE CannotEmitDecl
  BY <1>6 DEF CannotEmitDecl, StreamIsOpen, Writes, Path, Entry, OutFile,
     Inputs
<1>7. CASE EmitContractDecl
  BY <1>7 DEF EmitContractDecl, StreamIsOpen, Writes, At, Declaring
<1>8. CASE EmitYulObject
  BY <1>8 DEF EmitYulObject, StreamIsOpen, Writes, At, Declaring
<1>9. CASE CloneModules
  BY <1>9 DEF CloneModules, StreamIsOpen, Writes
<1>10. CASE CannotLink
  BY <1>10 DEF CannotLink, StreamIsOpen, Writes
<1>11. CASE LinkNoObject
  BY <1>11 DEF LinkNoObject, StreamIsOpen, Writes, Path, Entry, OutFile, Inputs
<1>12. CASE LinkNested
  BY <1>12 DEF LinkNested, StreamIsOpen, Writes, At
<1>13. CASE NestedLinked
  BY <1>13 DEF NestedLinked, StreamIsOpen, Writes
<1>14. CASE OpenNothing
  BY <1>14 DEF OpenNothing, StreamIsOpen, Writes
<1>15. CASE OpenOutput
  <2>1. Path \in OutFiles /\ Entry \in Nat /\ Path' = Path
    BY <1>15, PathIsOutput
    DEF OpenOutput, Opening, Path, Entry, OutFile, Inputs
  <2>2. files'[Path] = [input |-> input, decl |-> Entry, done |-> FALSE]
    BY <1>15, <2>1 DEF OpenOutput, TypeOK
  <2>3. files'[Path] \in FileType
    BY <2>1, <2>2 DEF FileType, TypeOK
  <2>4. files'[Path'] # NoFile /\ stream'
    BY <1>15, <2>1, <2>3, NoFileAssumption DEF OpenOutput
  <2>5. QED
    BY <2>4 DEF StreamIsOpen
<1>16. CASE CannotOpenOutput
  BY <1>16 DEF CannotOpenOutput, StreamIsOpen, Writes, Path, Entry, OutFile,
     Inputs
<1>17. CASE WriteWasm
  BY <1>17 DEF WriteWasm, StreamIsOpen, Writes, NextEntry
<1>18. CASE EmitAssembly
  BY <1>18 DEF EmitAssembly, StreamIsOpen, Writes, NextEntry
<1>19. CASE CannotEmitAssembly
  BY <1>19 DEF CannotEmitAssembly, StreamIsOpen, Writes, NextEntry
<1>20. CASE AllWritten
  BY <1>20 DEF AllWritten, StreamIsOpen, Writes
<1>21. CASE EndSourceFile
  BY <1>21 DEF EndSourceFile, StreamIsOpen, Writes
<1>22. CASE Exit
  BY <1>22 DEF Exit, StreamIsOpen, Writes, TypeOK
<1>23. CASE Over \/ UNCHANGED vars
  BY <1>23 DEF Over, vars, StreamIsOpen, Writes, Path, Entry, OutFile, Inputs
<1>24. QED
  BY <1>1, <1>2, <1>3, <1>4, <1>5, <1>6, <1>7, <1>8, <1>9, <1>10, <1>11, <1>12,
     <1>13, <1>14, <1>15, <1>16, <1>17, <1>18, <1>19, <1>20, <1>21, <1>22,
     <1>23 DEF Next

\* An error is counted for a reason.
LEMMA ErrorsHaveReasonKept ==
  ASSUME DriverInv, [Next]_vars
  PROVE  ErrorsHaveReason'
<1>. USE DEF DriverInv
<1>r. inv' = inv /\ (Reason' <=> Reason)
  BY SameInvocation, SameInputs DEF Reason
<1>. USE <1>r
<1>1. CASE BeginSourceFile
  BY <1>1 DEF BeginSourceFile, ErrorsHaveReason
<1>2. CASE CannotOpenInput
  BY <1>2 DEF CannotOpenInput, Reason, Faulty, Here, ErrorsHaveReason
<1>3. CASE ParseAST
  <2>1. Here.errors => Reason
    BY <1>3 DEF ParseAST, At, TypeOK, PhaseOK, Reason, Faulty, Here
  <2>2. QED
    BY <1>3, <2>1 DEF ParseAST, At, ErrorsHaveReason, Report
<1>4. CASE HandleSourceUnit
  BY <1>4 DEF HandleSourceUnit, ErrorsHaveReason
<1>5. CASE SkipDecl
  BY <1>5 DEF SkipDecl, ErrorsHaveReason
<1>6. CASE CannotEmitDecl
  <2>1. CodeGen /\ input \in DOMAIN Inputs
    BY <1>6 DEF CannotEmitDecl, Declaring, At, TypeOK, PhaseOK, Emitting
  <2>2. ~ CanEmit(<<input, decl>>)
    BY <1>6 DEF CannotEmitDecl, CanEmit, Here
  <2>3. Reason
    BY <1>6, <2>1, <2>2 DEF CannotEmitDecl, Declaring, Reason, Faulty, Here
  <2>4. QED
    BY <2>3 DEF ErrorsHaveReason
<1>7. CASE EmitContractDecl
  BY <1>7 DEF EmitContractDecl, ErrorsHaveReason
<1>8. CASE EmitYulObject
  BY <1>8 DEF EmitYulObject, ErrorsHaveReason
<1>9. CASE CloneModules
  BY <1>9 DEF CloneModules, ErrorsHaveReason
<1>10. CASE CannotLink
  BY <1>10 DEF CannotLink, ErrorsHaveReason
<1>11. CASE LinkNoObject
  BY <1>11 DEF LinkNoObject, ErrorsHaveReason
<1>12. CASE LinkNested
  BY <1>12 DEF LinkNested, ErrorsHaveReason
<1>13. CASE NestedLinked
  BY <1>13 DEF NestedLinked, ErrorsHaveReason
<1>14. CASE OpenNothing
  BY <1>14 DEF OpenNothing, ErrorsHaveReason
<1>15. CASE OpenOutput
  BY <1>15 DEF OpenOutput, ErrorsHaveReason
<1>16. CASE CannotOpenOutput
  <2>1. CodeGen /\ Path \in OutFiles \cap inv.locked
    BY <1>16, PathIsOutput
    DEF CannotOpenOutput, Opening, At, PhaseOK, Emitting
  <2>2. Reason
    BY <2>1 DEF Reason
  <2>3. QED
    BY <2>2 DEF ErrorsHaveReason
<1>17. CASE WriteWasm
  BY <1>17 DEF WriteWasm, At, ErrorsHaveReason
<1>18. CASE EmitAssembly
  BY <1>18 DEF EmitAssembly, At, ErrorsHaveReason
<1>19. CASE CannotEmitAssembly
  <2>1. CodeGen /\ Refused
    BY <1>19 DEF CannotEmitAssembly, At, PhaseOK, Emitting
  <2>2. QED
    BY <2>1 DEF Reason, ErrorsHaveReason
<1>20. CASE AllWritten
  BY <1>20 DEF AllWritten, ErrorsHaveReason
<1>21. CASE EndSourceFile
  BY <1>21 DEF EndSourceFile, ErrorsHaveReason
<1>22. CASE Exit
  BY <1>22 DEF Exit, ErrorsHaveReason, At
<1>23. CASE Over \/ UNCHANGED vars
  BY <1>23 DEF Over, vars, ErrorsHaveReason
<1>24. QED
  BY <1>1, <1>2, <1>3, <1>4, <1>5, <1>6, <1>7, <1>8, <1>9, <1>10, <1>11, <1>12,
     <1>13, <1>14, <1>15, <1>16, <1>17, <1>18, <1>19, <1>20, <1>21, <1>22,
     <1>23 DEF Next

\* The process ends by itself only with the count of errors.
LEMMA EndsRightKept ==
  ASSUME DriverInv, [Next]_vars
  PROVE  EndsRight'
<1>. USE SameInvocation, SameInputs DEF DriverInv
<1>1. CASE BeginSourceFile
  BY <1>1 DEF BeginSourceFile, EndsRight
<1>2. CASE CannotOpenInput
  BY <1>2 DEF CannotOpenInput, EndsRight
<1>3. CASE ParseAST
  BY <1>3 DEF ParseAST, EndsRight, At
<1>4. CASE HandleSourceUnit
  BY <1>4 DEF HandleSourceUnit, EndsRight
<1>5. CASE SkipDecl
  BY <1>5 DEF SkipDecl, EndsRight
<1>6. CASE CannotEmitDecl
  BY <1>6 DEF CannotEmitDecl, EndsRight, Declaring, At
<1>7. CASE EmitContractDecl
  BY <1>7 DEF EmitContractDecl, EndsRight
<1>8. CASE EmitYulObject
  BY <1>8 DEF EmitYulObject, EndsRight
<1>9. CASE CloneModules
  BY <1>9 DEF CloneModules, EndsRight
<1>10. CASE CannotLink
  BY <1>10 DEF CannotLink, EndsRight
<1>11. CASE LinkNoObject
  BY <1>11 DEF LinkNoObject, EndsRight
<1>12. CASE LinkNested
  BY <1>12 DEF LinkNested, EndsRight
<1>13. CASE NestedLinked
  BY <1>13 DEF NestedLinked, EndsRight
<1>14. CASE OpenNothing
  BY <1>14 DEF OpenNothing, EndsRight
<1>15. CASE OpenOutput
  BY <1>15 DEF OpenOutput, EndsRight
<1>16. CASE CannotOpenOutput
  BY <1>16 DEF CannotOpenOutput, EndsRight, At, Opening
<1>17. CASE WriteWasm
  <2>1. ~ stream => Path \in OutFiles \cap inv.locked
    BY <1>17, PathIsOutput DEF WriteWasm, At, Linking, TypeOK, StreamIsOpen
  <2>2. exit = "running" /\ (exit' = exit \/ (exit' = "undefined" /\ ~ stream))
    BY <1>17 DEF WriteWasm, At, Put
  <2>3. QED
    BY <2>1, <2>2 DEF EndsRight
<1>18. CASE EmitAssembly
  <2>1. ~ stream /\ inv.action # "EmitNothing" => Path \in OutFiles \cap inv.locked
    BY <1>18, PathIsOutput DEF EmitAssembly, At, TypeOK, StreamIsOpen
  <2>2. /\ exit = "running"
        /\ \/ exit' = exit
           \/ exit' = "undefined" /\ ~ stream /\ inv.action # "EmitNothing"
    BY <1>18 DEF EmitAssembly, At, Put
  <2>3. QED
    BY <2>1, <2>2 DEF EndsRight
<1>19. CASE CannotEmitAssembly
  BY <1>19 DEF CannotEmitAssembly, EndsRight, At
<1>20. CASE AllWritten
  BY <1>20 DEF AllWritten, EndsRight
<1>21. CASE EndSourceFile
  BY <1>21 DEF EndSourceFile, EndsRight, At
<1>22. CASE Exit
  BY <1>22 DEF Exit, EndsRight, TypeOK, ErrorOccurred
<1>23. CASE Over \/ UNCHANGED vars
  BY <1>23 DEF Over, vars, EndsRight
<1>24. QED
  BY <1>1, <1>2, <1>3, <1>4, <1>5, <1>6, <1>7, <1>8, <1>9, <1>10, <1>11, <1>12,
     <1>13, <1>14, <1>15, <1>16, <1>17, <1>18, <1>19, <1>20, <1>21, <1>22,
     <1>23 DEF Next

\* What is opened is opened behind clean declarations only.
LEMMA OutputsPrecedeErrorsKept ==
  ASSUME DriverInv, [Next]_vars
  PROVE  OutputsPrecedeErrors'
<1>. USE SameInvocation, SameInputs DEF DriverInv
<1>1. CASE BeginSourceFile
  BY <1>1 DEF BeginSourceFile, OutputsPrecedeErrors
<1>2. CASE CannotOpenInput
  BY <1>2 DEF CannotOpenInput, OutputsPrecedeErrors
<1>3. CASE ParseAST
  BY <1>3 DEF ParseAST, OutputsPrecedeErrors
<1>4. CASE HandleSourceUnit
  BY <1>4 DEF HandleSourceUnit, OutputsPrecedeErrors
<1>5. CASE SkipDecl
  BY <1>5 DEF SkipDecl, OutputsPrecedeErrors
<1>6. CASE CannotEmitDecl
  BY <1>6 DEF CannotEmitDecl, OutputsPrecedeErrors
<1>7. CASE EmitContractDecl
  BY <1>7 DEF EmitContractDecl, OutputsPrecedeErrors
<1>8. CASE EmitYulObject
  BY <1>8 DEF EmitYulObject, OutputsPrecedeErrors
<1>9. CASE CloneModules
  BY <1>9 DEF CloneModules, OutputsPrecedeErrors
<1>10. CASE CannotLink
  BY <1>10 DEF CannotLink, OutputsPrecedeErrors
<1>11. CASE LinkNoObject
  BY <1>11 DEF LinkNoObject, OutputsPrecedeErrors
<1>12. CASE LinkNested
  BY <1>12 DEF LinkNested, OutputsPrecedeErrors
<1>13. CASE NestedLinked
  BY <1>13 DEF NestedLinked, OutputsPrecedeErrors
<1>14. CASE OpenNothing
  BY <1>14 DEF OpenNothing, OutputsPrecedeErrors
<1>15. CASE OpenOutput
  <2>1. /\ Path \in OutFiles /\ Entry \in Nat
        /\ next \in DOMAIN entries /\ pc = "open"
    BY <1>15, PathIsOutput DEF OpenOutput, Opening, At
  <2>2. /\ files'[Path].input = input /\ files'[Path].decl = Entry
        /\ \A p \in OutFiles \ {Path} : files'[p] = files[p]
    BY <1>15, <2>1 DEF OpenOutput, TypeOK
  <2>3. /\ CodeGen /\ Sound(input)
        /\ \A i \in DOMAIN Inputs : i < input => Passed(i)
        /\ \A d \in DOMAIN Here.decls : d < Entry => CanEmit(<<input, d>>)
    BY <2>1 DEF PhaseOK, EmitsBehindClean, Emitting, Entry
  <2>4. \A i \in 1..input : Inputs[i].exists /\ ~ Inputs[i].errors
    <3>1. inv.action # "InitOnly"
      BY <2>3 DEF CodeGen, CodeGenActions
    <3>2. \A i \in 1..input : i \in DOMAIN Inputs /\ (i < input \/ i = input)
      BY <2>1, InputIsNatural DEF TypeOK
    <3>3. QED
      BY <2>3, <3>1, <3>2 DEF Passed, Sound
  <2>5. \A x \in Places : Before(x, <<input, Entry>>) => CanEmit(x)
    BY <2>3 DEF Places, Before, Passed, Here
  <2>6. QED
    BY <2>2, <2>4, <2>5 DEF OutputsPrecedeErrors, Before
<1>16. CASE CannotOpenOutput
  BY <1>16 DEF CannotOpenOutput, OutputsPrecedeErrors
<1>17. CASE WriteWasm
  BY <1>17, PutKeepsOwners DEF WriteWasm, At, OutputsPrecedeErrors
<1>18. CASE EmitAssembly
  <2>1. CASE inv.action = "EmitNothing"
    BY <1>18, <2>1 DEF EmitAssembly, OutputsPrecedeErrors
  <2>2. CASE inv.action # "EmitNothing"
    BY <1>18, <2>2, PutKeepsOwners DEF EmitAssembly, At, OutputsPrecedeErrors
  <2>3. QED
    BY <2>1, <2>2
<1>19. CASE CannotEmitAssembly
  BY <1>19 DEF CannotEmitAssembly, OutputsPrecedeErrors
<1>20. CASE AllWritten
  BY <1>20 DEF AllWritten, OutputsPrecedeErrors
<1>21. CASE EndSourceFile
  BY <1>21 DEF EndSourceFile, OutputsPrecedeErrors
<1>22. CASE Exit
  BY <1>22 DEF Exit, OutputsPrecedeErrors
<1>23. CASE Over \/ UNCHANGED vars
  BY <1>23 DEF Over, vars, OutputsPrecedeErrors
<1>24. QED
  BY <1>1, <1>2, <1>3, <1>4, <1>5, <1>6, <1>7, <1>8, <1>9, <1>10, <1>11, <1>12,
     <1>13, <1>14, <1>15, <1>16, <1>17, <1>18, <1>19, <1>20, <1>21, <1>22,
     <1>23 DEF Next

\* A declaration of the input at work is a place of it, and back.
LEMMA PlacesHere ==
  ASSUME TypeOK, pc # "begin"
  PROVE  /\ input \in Nat /\ DOMAIN Here.decls \subseteq Nat
         /\ \A d \in DOMAIN Here.decls : <<input, d>> \in Places
         /\ \A x \in Places : x[1] = input =>
              x[2] \in DOMAIN Here.decls /\ x = <<input, x[2]>>
         /\ \A e \in DOMAIN entries :
              entries[e] \in DOMAIN Here.decls /\ entries[e] \in Nat
         /\ DOMAIN entries = 1..Len(entries) /\ Len(entries) \in Nat
<1>1. input \in DOMAIN Inputs /\ input \in Nat
  BY DEF TypeOK
<1>2. DOMAIN Here.decls \subseteq Nat
  BY DeclIsNatural
<1>3. \A x \in Places : x[1] = input =>
        x[2] \in DOMAIN Here.decls /\ x = <<input, x[2]>>
  BY DEF Places, Here
<1>4. \A d \in DOMAIN Here.decls : <<input, d>> \in Places
  BY <1>1 DEF Places, Here
<1>5. \A e \in DOMAIN entries :
        entries[e] \in DOMAIN Here.decls /\ entries[e] \in Nat
  <2>1. SUFFICES ASSUME NEW e \in DOMAIN entries
                 PROVE  entries[e] \in DOMAIN Here.decls /\ entries[e] \in Nat
    OBVIOUS
  <2>2. <<input, entries[e]>> \in Places
    BY <2>1 DEF TypeOK
  <2>3. QED
    BY <1>2, <1>3, <2>2
<1>6. DOMAIN entries = 1..Len(entries) /\ Len(entries) \in Nat
  BY LenProperties DEF TypeOK
<1>7. QED
  BY <1>1, <1>2, <1>3, <1>4, <1>5, <1>6

\* What is written stays written where no file is touched: by a step that
\* leaves the stream alone, and by one from where no stream is at work.
LEMMA WrittenStays ==
  ASSUME [Next]_vars, files' = files, NEW x, Written(x),
         \/ pc # "write"
         \/ UNCHANGED <<pc, stream, input, entries, next>>
  PROVE  Written(x)'
<1>1. OutFile(x[1], x[2])' = OutFile(x[1], x[2])
  BY SameInputs
<1>2. CASE pc # "write"
  BY <1>1, <1>2 DEF Written, Before
<1>3. CASE UNCHANGED <<pc, stream, input, entries, next>>
  <2>1. Path' = Path
    BY <1>3, SameInputs DEF Path, Entry
  <2>2. QED
    BY <1>1, <1>3, <2>1 DEF Written, Before
<1>4. QED
  BY <1>2, <1>3

\* An entry keeps the file it is the entry for.
LEMMA EntriesStay ==
  ASSUME [Next]_vars, UNCHANGED <<input, entries>>
  PROVE  /\ \A d : HasEntry(d)' <=> HasEntry(d)
         /\ Here' = Here
BY SameInputs DEF HasEntry, Here

\* A process that is clean was so before the step.
LEMMA CleanBefore ==
  ASSUME DriverInv, [Next]_vars, Clean'
  PROVE  Clean /\ numErrors' = numErrors /\ ~ ErrorOccurred
<1>. USE DEF DriverInv
<1>1. CodeGen /\ Writes /\ numErrors' = 0 /\ ~ printed' /\ numErrors \in Nat
  BY SameInputs DEF Clean, TypeOK
<1>2. numErrors' = numErrors \/ numErrors' = numErrors + 1
  BY DEF Next, vars, Report, BeginSourceFile, CannotOpenInput, ParseAST,
       HandleSourceUnit, SkipDecl, CannotEmitDecl, EmitContractDecl,
       EmitYulObject, CloneModules, CannotLink, LinkNoObject, LinkNested,
       NestedLinked, OpenNothing, OpenOutput, CannotOpenOutput, WriteWasm,
       EmitAssembly, CannotEmitAssembly, AllWritten, EndSourceFile, Exit, Over
<1>3. numErrors = 0 /\ numErrors' = numErrors
  BY <1>1, <1>2
<1>4. printed' \/ printed' = printed
  BY DEF Next, vars, BeginSourceFile, CannotOpenInput, ParseAST,
       HandleSourceUnit, SkipDecl, CannotEmitDecl, EmitContractDecl,
       EmitYulObject, CloneModules, CannotLink, LinkNoObject, LinkNested,
       NestedLinked, OpenNothing, OpenOutput, CannotOpenOutput, WriteWasm,
       EmitAssembly, CannotEmitAssembly, AllWritten, EndSourceFile, Exit, Over
<1>5. exit = "running" \/ exit' = exit
  BY DEF Next, vars, At, Declaring, Linking, Opening, BeginSourceFile,
       CannotOpenInput, ParseAST,
       HandleSourceUnit, SkipDecl, CannotEmitDecl, EmitContractDecl,
       EmitYulObject, CloneModules, CannotLink, LinkNoObject, LinkNested,
       NestedLinked, OpenNothing, OpenOutput, CannotOpenOutput, WriteWasm,
       EmitAssembly, CannotEmitAssembly, AllWritten, EndSourceFile, Exit, Over
<1>6. exit \in {"running", "success"}
  BY <1>5 DEF Clean
<1>7. ~ printed
  BY <1>1, <1>4
<1>8. QED
  BY <1>1, <1>3, <1>6, <1>7 DEF Clean, ErrorOccurred

\* The output of the entry at work goes to its file and no other.
LEMMA PutWrites ==
  ASSUME DriverInv, [Next]_vars, pc = "write", Clean, Put, pc' = "open"
  PROVE  /\ \A x : x = <<input, Entry>> => Written(x)'
         /\ \A x : OutFile(x[1], x[2]) \in OutFiles /\ Written(x) => Written(x)'
<1>. USE DEF DriverInv
<1>1. /\ stream /\ files[Path].input = input /\ files[Path].decl = Entry
      /\ Writes /\ inv' = inv
  BY SameInvocation DEF OutputsBehind, Clean
<1>2. /\ Path \in OutFiles /\ Entry \in Nat /\ files[Path] # NoFile
      /\ files' = [files EXCEPT ![Path].done = TRUE]
  BY <1>1, PathIsOutput DEF TypeOK, StreamIsOpen, Put
<1>3. files[Path] \in FileType
  BY <1>2 DEF TypeOK
<1>4. /\ files'[Path] \in FileType /\ files'[Path].done
      /\ files'[Path].input = files[Path].input
      /\ files'[Path].decl = files[Path].decl
      /\ \A p \in OutFiles : p # Path => files'[p] = files[p]
  BY <1>2, <1>3 DEF TypeOK, FileType
<1>5. files'[Path] # NoFile
  BY <1>4, NoFileAssumption
<1>6. ASSUME NEW x, x = <<input, Entry>>
      PROVE  Written(x)'
  <2>1. OutFile(x[1], x[2])' = Path
    BY <1>6, SameInputs DEF Path
  <2>2. ~ Before(<<input, Entry>>, x)
    BY <1>2, <1>6 DEF Before, TypeOK
  <2>3. QED
    BY <1>1, <1>4, <1>5, <2>1, <2>2 DEF Written, Before
<1>7. ASSUME NEW x, OutFile(x[1], x[2]) \in OutFiles, Written(x)
      PROVE  Written(x)'
  <2>1. OutFile(x[1], x[2])' = OutFile(x[1], x[2])
    BY SameInputs
  <2>2. CASE OutFile(x[1], x[2]) = Path
    BY <1>4, <1>5, <1>7, <2>1, <2>2 DEF Written, Before
  <2>3. CASE OutFile(x[1], x[2]) # Path
    BY <1>4, <1>7, <2>1, <2>3 DEF Written, Before
  <2>4. QED
    BY <2>2, <2>3
<1>8. QED
  BY <1>6, <1>7

\* The entries come in the order of their declarations.
LEMMA InOrderKept ==
  ASSUME DriverInv, [Next]_vars
  PROVE  InOrder'
<1>. USE DEF DriverInv, OutputsBehind
<1>1. CASE BeginSourceFile
  BY <1>1 DEF BeginSourceFile, InOrder
<1>2. CASE CannotOpenInput
  BY <1>2 DEF CannotOpenInput, InOrder
<1>3. CASE ParseAST
  BY <1>3 DEF ParseAST, InOrder
<1>4. CASE HandleSourceUnit
  BY <1>4 DEF HandleSourceUnit, InOrder, PhaseOK, At
<1>5. CASE SkipDecl
  <2>1. /\ decl \in Nat /\ entries' = entries /\ decl' = decl + 1
        /\ pc = "decls" /\ \A e \in DOMAIN entries : entries[e] \in Nat
    BY <1>5, ElementOfSeq DEF SkipDecl, Declaring, At, TypeOK
  <2>2. QED
    BY <2>1 DEF InOrder
<1>6. CASE CannotEmitDecl
  <2>1. /\ decl \in Nat /\ entries' = entries /\ decl' = decl + 1
        /\ pc = "decls" /\ \A e \in DOMAIN entries : entries[e] \in Nat
    BY <1>6, ElementOfSeq DEF CannotEmitDecl, Declaring, At, TypeOK
  <2>2. QED
    BY <2>1 DEF InOrder
<1>7. CASE EmitContractDecl
  <2>1. /\ pc = "decls" /\ decl \in Nat /\ entries \in Seq(Nat)
        /\ entries' = Append(entries, decl) /\ decl' = decl + 1
    BY <1>7 DEF EmitContractDecl, Declaring, At, TypeOK
  <2>2. Len(entries) \in Nat /\ DOMAIN entries = 1..Len(entries)
    BY <2>1
  <2>3. /\ DOMAIN entries' = 1..(Len(entries) + 1)
        /\ entries'[Len(entries) + 1] = decl
        /\ \A e \in 1..Len(entries) : entries'[e] = entries[e]
    BY <2>1
  <2>4. \A e \in 1..Len(entries) : entries[e] \in Nat /\ entries[e] < decl
    BY <2>1, <2>2, ElementOfSeq DEF InOrder
  <2>5. \A e \in DOMAIN entries' : e \in 1..Len(entries) \/ e = Len(entries) + 1
    BY <2>2, <2>3
  <2>6. \A e \in DOMAIN entries' : entries'[e] < decl'
    BY <2>1, <2>3, <2>4, <2>5
  <2>7. ASSUME NEW e \in DOMAIN entries', NEW f \in DOMAIN entries', e < f
        PROVE  entries'[e] < entries'[f]
    <3>1. e \in 1..Len(entries)
      BY <2>2, <2>5, <2>7
    <3>2. CASE f \in 1..Len(entries)
      BY <2>2, <2>3, <2>7, <3>1, <3>2 DEF InOrder
    <3>3. CASE f = Len(entries) + 1
      BY <2>3, <2>4, <3>1, <3>3
    <3>4. QED
      BY <2>5, <3>2, <3>3
  <2>8. QED
    BY <2>6, <2>7 DEF InOrder
<1>8. CASE EmitYulObject
  <2>1. /\ decl \in Nat /\ entries' = <<decl>> /\ decl' = decl + 1
    BY <1>8 DEF EmitYulObject, TypeOK
  <2>2. DOMAIN entries' = {1} /\ entries'[1] = decl
    BY <2>1
  <2>3. QED
    BY <2>1, <2>2 DEF InOrder
<1>9. CASE CloneModules
  BY <1>9 DEF CloneModules, InOrder
<1>10. CASE CannotLink
  BY <1>10 DEF CannotLink, InOrder
<1>11. CASE LinkNoObject
  BY <1>11 DEF LinkNoObject, InOrder
<1>12. CASE LinkNested
  BY <1>12 DEF LinkNested, InOrder
<1>13. CASE NestedLinked
  BY <1>13 DEF NestedLinked, InOrder
<1>14. CASE OpenNothing
  BY <1>14 DEF OpenNothing, InOrder
<1>15. CASE OpenOutput
  BY <1>15 DEF OpenOutput, InOrder
<1>16. CASE CannotOpenOutput
  BY <1>16 DEF CannotOpenOutput, InOrder
<1>17. CASE WriteWasm
  BY <1>17 DEF WriteWasm, InOrder, NextEntry
<1>18. CASE EmitAssembly
  BY <1>18 DEF EmitAssembly, InOrder, NextEntry
<1>19. CASE CannotEmitAssembly
  BY <1>19 DEF CannotEmitAssembly, InOrder, NextEntry
<1>20. CASE AllWritten
  BY <1>20 DEF AllWritten, InOrder
<1>21. CASE EndSourceFile
  BY <1>21 DEF EndSourceFile, InOrder
<1>22. CASE Exit
  BY <1>22 DEF Exit, InOrder
<1>23. CASE Over \/ UNCHANGED vars
  BY <1>23 DEF Over, vars, InOrder
<1>24. QED
  BY <1>1, <1>2, <1>3, <1>4, <1>5, <1>6, <1>7, <1>8, <1>9, <1>10, <1>11, <1>12,
     <1>13, <1>14, <1>15, <1>16, <1>17, <1>18, <1>19, <1>20, <1>21, <1>22,
     <1>23 DEF Next

\* After it was written, the entry is one of those behind.
LEMMA NextOutput ==
  ASSUME DriverInv, [Next]_vars, Clean, InOrder', pc = "write", Put,
         pc' = "open", next' = next + 1, UNCHANGED <<input, entries>>
  PROVE  OutputsBehind'
<1>1. /\ \A x : x = <<input, Entry>> => Written(x)'
      /\ \A x : OutFile(x[1], x[2]) \in OutFiles /\ Written(x) => Written(x)'
  BY PutWrites
<1>. USE DEF DriverInv
<1>2. Places' = Places /\ \A x \in Places : OutFile(x[1], x[2]) \in OutFiles
  BY SameInputs DEF OutFiles
<1>3. \A x \in Places : x[1] < input => Written(x)'
  BY <1>1, <1>2 DEF OutputsBehind
<1>4. ASSUME NEW e \in DOMAIN entries, e < next + 1
      PROVE  Written(<<input, entries[e]>>)'
  <2>1. PICK x : x = <<input, entries[e]>>
    OBVIOUS
  <2>2. e \in Nat /\ next \in Nat /\ x \in Places
    BY <2>1, PlacesHere DEF TypeOK
  <2>3. Written(x)'
    <3>1. CASE e = next
      BY <1>1, <2>1, <3>1 DEF Entry
    <3>2. CASE e < next
      BY <1>1, <1>2, <2>1, <2>2, <3>2 DEF OutputsBehind
    <3>3. QED
      BY <1>4, <2>2, <3>1, <3>2
  <2>4. QED
    BY <2>1, <2>3
<1>5. Here' = Here /\ \A d \in DOMAIN Here.decls : HasEntry(d)'
  <2>1. SUFFICES Clean => \A d \in DOMAIN Here.decls : HasEntry(d)
    BY EntriesStay
  <2>2. QED
    BY DEF OutputsBehind
<1>6. QED
  BY <1>2, <1>3, <1>4, <1>5 DEF OutputsBehind

\* What is behind a clean process is written, and what is not is ahead.
LEMMA OutputsBehindKept ==
  ASSUME DriverInv, [Next]_vars
  PROVE  OutputsBehind'
<1>. USE DEF DriverInv
<1>. SUFFICES ASSUME Clean'
              PROVE  OutputsBehind'
  BY InOrderKept DEF OutputsBehind
<1>c. Clean /\ numErrors' = numErrors /\ ~ ErrorOccurred /\ InOrder'
  BY CleanBefore, InOrderKept
<1>i. inv' = inv /\ Places' = Places /\ Inputs' = Inputs
  BY SameInvocation, SameInputs
<1>n. numErrors' # numErrors + 1
  BY <1>c DEF TypeOK
<1>w. /\ CodeGen /\ Writes /\ ~ printed' /\ inv.action # "InitOnly"
      /\ inv.action \in CodeGenActions
  BY <1>c DEF Clean, CodeGen, CodeGenActions
<1>q. ASSUME files' = files, pc # "write" \/ UNCHANGED <<pc, stream, input, entries, next>>
      PROVE  \A x : Written(x) => Written(x)'
  BY <1>q, WrittenStays
<1>b. \A x \in Places : x[1] < input => Written(x)
  BY <1>c DEF OutputsBehind
<1>1. CASE BeginSourceFile
  <2>1. /\ files' = files /\ pc # "write" /\ input' = input
        /\ pc' \notin {"decls", "nested", "open", "write", "end"}
    BY <1>1, <1>c, <1>w DEF BeginSourceFile, At
  <2>2. QED
    BY <1>b, <1>c, <1>i, <1>q, <2>1 DEF OutputsBehind
<1>2. CASE CannotOpenInput
  BY <1>2, <1>n DEF CannotOpenInput, Report
<1>3. CASE ParseAST
  <2>1. /\ files' = files /\ pc # "write" /\ input' = input
        /\ pc' \notin {"decls", "nested", "open", "write", "end"}
    BY <1>3, <1>c, <1>w DEF ParseAST, At
  <2>2. QED
    BY <1>b, <1>c, <1>i, <1>q, <2>1 DEF OutputsBehind
<1>4. CASE HandleSourceUnit
  <2>1. /\ files' = files /\ pc # "write" /\ input' = input
        /\ pc' = "decls" /\ decl' = 1
    BY <1>4, <1>c, <1>w DEF HandleSourceUnit, At, PhaseOK
  <2>2. DOMAIN Here'.decls \subseteq Nat \ {0}
    BY <1>4, <1>i, DeclIsNatural DEF HandleSourceUnit, At, Here
  <2>3. QED
    BY <1>b, <1>c, <1>i, <1>q, <2>1, <2>2 DEF OutputsBehind
<1>5. CASE SkipDecl
  BY <1>5, <1>c DEF SkipDecl
<1>6. CASE CannotEmitDecl
  BY <1>6, <1>n DEF CannotEmitDecl, Report
<1>7. CASE EmitContractDecl
  <2>1. /\ files' = files /\ pc = "decls" /\ input' = input
        /\ pc' = pc /\ decl' = decl + 1 /\ decl \in Nat /\ entries \in Seq(Nat)
        /\ decl \in DOMAIN Here.decls
    BY <1>7 DEF EmitContractDecl, Declaring, At, TypeOK
  <2>2. Here' = Here /\ DOMAIN Here.decls \subseteq Nat
    BY <1>i, <2>1, DeclIsNatural DEF Here
  <2>3. /\ Len(entries) \in Nat /\ DOMAIN entries = 1..Len(entries)
        /\ entries' = Append(entries, decl)
    BY <1>7, <2>1 DEF EmitContractDecl
  <2>4. /\ DOMAIN entries' = 1..(Len(entries) + 1)
        /\ entries'[Len(entries) + 1] = decl
        /\ \A e \in 1..Len(entries) : entries'[e] = entries[e]
    BY <2>1, <2>3
  <2>5. ASSUME NEW d \in DOMAIN Here.decls, d < decl + 1
        PROVE  HasEntry(d)'
    <3>1. CASE d = decl
      <4>1. Len(entries) + 1 \in DOMAIN entries' /\ decl >= d
        BY <2>1, <2>3, <2>4, <3>1
      <4>2. QED
        BY <2>4, <3>1, <4>1 DEF HasEntry
    <3>2. CASE d < decl
      <4>1. PICK e \in DOMAIN entries :
              entries[e] >= d /\ OutFile(input, entries[e]) = OutFile(input, d)
        BY <1>c, <2>1, <3>2 DEF OutputsBehind, HasEntry
      <4>2. e \in DOMAIN entries' /\ entries'[e] = entries[e]
        BY <2>3, <2>4
      <4>3. QED
        BY <2>1, <4>1, <4>2, SameInputs DEF HasEntry
    <3>3. QED
      BY <2>1, <2>2, <2>5, <3>1, <3>2
  <2>6. QED
    BY <1>b, <1>c, <1>i, <1>q, <2>1, <2>2, <2>5 DEF OutputsBehind
<1>8. CASE EmitYulObject
  <2>1. /\ files' = files /\ pc = "decls" /\ input' = input
        /\ pc' = pc /\ decl' = decl + 1 /\ decl \in Nat /\ entries \in Seq(Nat)
        /\ decl \in DOMAIN Here.decls
    BY <1>8 DEF EmitYulObject, Declaring, At, TypeOK
  <2>2. Here' = Here /\ DOMAIN Here.decls \subseteq Nat
    BY <1>i, <2>1, DeclIsNatural DEF Here
  <2>3. DOMAIN entries' = {1} /\ entries'[1] = decl
    BY <1>8, <2>1 DEF EmitYulObject
  <2>4. \A d \in DOMAIN Here.decls : Here.decls[d].kind = "object"
    BY <1>8, <2>1, LanguageAssumption DEF EmitYulObject, TypeOK, Here, Inputs
  <2>5. ASSUME NEW d \in DOMAIN Here.decls, d < decl + 1
        PROVE  HasEntry(d)'
    <3>1. OutFile(input, decl) = OutFile(input, d)
      BY <2>1, <2>4 DEF OutFile, Here
    <3>2. decl >= d
      BY <2>1, <2>2, <2>5
    <3>3. QED
      BY <2>1, <2>3, <3>1, <3>2, SameInputs DEF HasEntry
  <2>6. QED
    BY <1>b, <1>c, <1>i, <1>q, <2>1, <2>2, <2>5 DEF OutputsBehind
<1>9. CASE CloneModules
  <2>1. /\ files' = files /\ pc = "decls" /\ UNCHANGED <<input, entries>>
        /\ pc' \in {"nested", "open"} /\ next' = 1
    BY <1>9 DEF CloneModules, At
  <2>2. \A d \in DOMAIN Here.decls : d < decl
    BY <1>9, <2>1, DeclIsNatural DEF CloneModules, TypeOK
  <2>3. \A d \in DOMAIN Here.decls : HasEntry(d)
    BY <1>c, <2>1, <2>2 DEF OutputsBehind
  <2>4. \A e \in DOMAIN entries : ~ (e < 1)
    BY <2>1, PlacesHere
  <2>5. QED
    BY <1>b, <1>c, <1>i, <1>q, <2>1, <2>3, <2>4, EntriesStay DEF OutputsBehind
<1>10. CASE CannotLink
  BY <1>10, <1>w DEF CannotLink
<1>11. CASE LinkNoObject
  BY <1>11, <1>n DEF LinkNoObject, Report
<1>12. CASE LinkNested
  <2>1. /\ files' = files /\ pc = "nested" /\ pc' = pc
        /\ UNCHANGED <<input, entries>>
    BY <1>12 DEF LinkNested, At
  <2>2. QED
    BY <1>b, <1>c, <1>i, <1>q, <2>1, EntriesStay DEF OutputsBehind
<1>13. CASE NestedLinked
  <2>1. /\ files' = files /\ pc = "nested" /\ pc' = "open" /\ next' = 1
        /\ UNCHANGED <<input, entries>>
    BY <1>13 DEF NestedLinked, At
  <2>2. \A e \in DOMAIN entries : ~ (e < 1)
    BY <2>1, PlacesHere
  <2>3. QED
    BY <1>b, <1>c, <1>i, <1>q, <2>1, <2>2, EntriesStay DEF OutputsBehind
<1>14. CASE OpenNothing
  BY <1>14, <1>w DEF OpenNothing, Writes
<1>15. CASE OpenOutput
  <2>1. /\ pc = "open" /\ pc' = "write" /\ stream' /\ next \in DOMAIN entries
        /\ UNCHANGED <<input, entries, next>>
        /\ Path \in OutFiles /\ Entry \in Nat
        /\ files' = [files EXCEPT ![Path] =
                      [input |-> input, decl |-> Entry, done |-> FALSE]]
    BY <1>15, PathIsOutput DEF OpenOutput, Opening, At
  <2>2. Path' = Path /\ Entry' = Entry /\ input \in Nat
    BY <2>1, SameInputs DEF Path, Entry, TypeOK
  <2>3. /\ files'[Path] = [input |-> input, decl |-> Entry, done |-> FALSE]
        /\ \A p \in OutFiles : p # Path => files'[p] = files[p]
    BY <2>1 DEF TypeOK
  <2>4. files'[Path] # NoFile
    <3>1. [input |-> input, decl |-> Entry, done |-> FALSE] \in FileType
      BY <2>1, <2>2 DEF FileType
    <3>2. QED
      BY <2>3, <3>1, NoFileAssumption
  <2>5. ASSUME NEW x \in Places, Written(x), ~ Before(<<input, Entry>>, x)
        PROVE  Written(x)'
    <3>1. OutFile(x[1], x[2])' = OutFile(x[1], x[2])
      BY SameInputs
    <3>2. OutFile(x[1], x[2]) \in OutFiles
      BY DEF OutFiles
    <3>3. CASE OutFile(x[1], x[2]) = Path
      BY <2>1, <2>2, <2>3, <2>4, <2>5, <3>1, <3>3 DEF Written, Before
    <3>4. CASE OutFile(x[1], x[2]) # Path
      BY <2>1, <2>3, <2>5, <3>1, <3>2, <3>4 DEF Written, Before
    <3>5. QED
      BY <3>3, <3>4
  <2>6. ASSUME NEW x \in Places, x[1] < input
        PROVE  Written(x)'
    <3>1. x[1] \in Nat
      BY InputIsNatural DEF Places
    <3>2. ~ Before(<<input, Entry>>, x)
      BY <2>2, <2>6, <3>1 DEF Before
    <3>3. QED
      BY <1>b, <2>5, <2>6, <3>2
  <2>7. ASSUME NEW e \in DOMAIN entries, e < next
        PROVE  Written(<<input, entries[e]>>)'
    <3>1. entries[e] < Entry
      BY <1>c, <2>1, <2>7 DEF OutputsBehind, InOrder, Entry
    <3>2. <<input, entries[e]>> \in Places /\ entries[e] \in Nat
      BY <2>1, PlacesHere
    <3>3. ~ Before(<<input, Entry>>, <<input, entries[e]>>)
      BY <2>1, <2>2, <3>1, <3>2 DEF Before
    <3>4. Written(<<input, entries[e]>>)
      BY <1>c, <2>1, <2>7 DEF OutputsBehind
    <3>5. PICK x : x = <<input, entries[e]>>
      OBVIOUS
    <3>6. Written(x)'
      BY <2>5, <3>2, <3>3, <3>4, <3>5
    <3>7. QED
      BY <2>1, <3>5, <3>6
  <2>8. \A d \in DOMAIN Here.decls : HasEntry(d)
    BY <1>c, <2>1 DEF OutputsBehind
  <2>9. files'[Path].input = input /\ files'[Path].decl = Entry
    BY <2>3
  <2>10. QED
    BY <1>c, <1>i, <2>1, <2>2, <2>6, <2>7, <2>8, <2>9, EntriesStay
    DEF OutputsBehind
<1>16. CASE CannotOpenOutput
  BY <1>16, <1>n DEF CannotOpenOutput, Report
<1>17. CASE WriteWasm
  <2>1. /\ pc = "write" /\ pc' = "open" /\ next' = next + 1 /\ Put
        /\ UNCHANGED <<input, entries>>
    BY <1>17, <1>w DEF WriteWasm, NextEntry, At, Writes
  <2>2. QED
    BY <1>c, <2>1, NextOutput
<1>18. CASE EmitAssembly
  <2>1. /\ pc = "write" /\ pc' = "open" /\ next' = next + 1 /\ Put
        /\ UNCHANGED <<input, entries>>
    BY <1>18, <1>w DEF EmitAssembly, NextEntry, At, Writes
  <2>2. QED
    BY <1>c, <2>1, NextOutput
<1>19. CASE CannotEmitAssembly
  BY <1>19, <1>n DEF CannotEmitAssembly, Report
<1>20. CASE AllWritten
  <2>1. /\ files' = files /\ pc = "open" /\ pc' = "end"
        /\ UNCHANGED <<input, entries>> /\ next \notin DOMAIN entries
    BY <1>20 DEF AllWritten, At
  <2>2. \A e \in DOMAIN entries : e < next
    BY <2>1, PlacesHere DEF TypeOK
  <2>3. ASSUME NEW x \in Places, x[1] = input
        PROVE  Written(x)
    <3>1. x[2] \in DOMAIN Here.decls /\ x = <<input, x[2]>>
      BY <2>1, <2>3, PlacesHere
    <3>2. PICK e \in DOMAIN entries :
            /\ entries[e] >= x[2]
            /\ OutFile(input, entries[e]) = OutFile(input, x[2])
      BY <1>c, <2>1, <3>1 DEF OutputsBehind, HasEntry
    <3>3. Written(<<input, entries[e]>>)
      BY <1>c, <2>1, <2>2 DEF OutputsBehind
    <3>4. <<input, entries[e]>> \in Places /\ entries[e] \in Nat /\ x[2] \in Nat
      BY <2>1, <3>1, PlacesHere
    <3>5. files[OutFile(input, x[2])] \in FileType
      BY <2>3, <3>1, <3>2, <3>3 DEF Written, TypeOK, OutFiles
    <3>6. QED
      BY <3>1, <3>2, <3>3, <3>4, <3>5, <2>1 DEF Written, Before, FileType, TypeOK
  <2>4. QED
    BY <1>b, <1>c, <1>i, <1>q, <2>1, <2>3 DEF OutputsBehind
<1>21. CASE EndSourceFile
  <2>1. /\ files' = files /\ pc = "end" /\ pc' = "begin" /\ input' = input + 1
    BY <1>21 DEF EndSourceFile, At
  <2>2. \A x \in Places : x[1] \in Nat
    BY InputIsNatural DEF Places
  <2>3. ASSUME NEW x \in Places, x[1] < input + 1
        PROVE  Written(x)
    <3>1. x[1] < input \/ x[1] = input
      BY <2>2, <2>3 DEF TypeOK
    <3>2. QED
      BY <1>b, <1>c, <2>1, <3>1 DEF OutputsBehind
  <2>4. QED
    BY <1>c, <1>i, <1>q, <2>1, <2>3 DEF OutputsBehind
<1>22. CASE Exit
  <2>1. /\ files' = files /\ pc # "write" /\ input' = input
        /\ pc' = "begin"
    BY <1>22, <1>c, <1>w DEF Exit, At
  <2>2. QED
    BY <1>b, <1>c, <1>i, <1>q, <2>1 DEF OutputsBehind
<1>23. CASE Over \/ UNCHANGED vars
  <2>1. UNCHANGED vars
    BY <1>23 DEF Over
  <2>2. /\ files' = files
        /\ UNCHANGED <<pc, stream, input, entries, next, decl>>
    BY <2>1 DEF vars
  <2>3. Path' = Path /\ Entry' = Entry
    BY <2>2, SameInputs DEF Path, Entry
  <2>4. QED
    BY <1>c, <1>i, <1>q, <2>2, <2>3, EntriesStay DEF OutputsBehind
<1>24. QED
  BY <1>1, <1>2, <1>3, <1>4, <1>5, <1>6, <1>7, <1>8, <1>9, <1>10, <1>11, <1>12,
     <1>13, <1>14, <1>15, <1>16, <1>17, <1>18, <1>19, <1>20, <1>21, <1>22,
     <1>23 DEF Next

\* The bookkeeping of the driver holds in every invocation, whatever its
\* inputs, action and target (CompilerInstance::ExecuteAction down to
\* EmitBackendOutput).
THEOREM DriverIsInvariant == Spec => []DriverInv
<1>1. Init => DriverInv
  <2>. SUFFICES ASSUME Init
                PROVE  DriverInv
    OBVIOUS
  <2>1. TypeOK
    <3>1. stream \in BOOLEAN /\ printed \in BOOLEAN
      BY DEF Init
    <3>2. files \in [OutFiles -> FileType \cup {NoFile}]
      BY DEF Init
    <3>3. QED
      BY <3>1, <3>2 DEF Init, TypeOK, Pcs, Exits
  <2>2. PhaseOK /\ EmitsBehindClean /\ StreamIsOpen
    BY DEF Init, PhaseOK, EmitsBehindClean, Emitting, StreamIsOpen
  <2>3. PassedClean
    BY <2>1, InputIsNatural DEF Init, PassedClean
  <2>4. ErrorsHaveReason /\ EndsRight
    BY DEF Init, ErrorsHaveReason, EndsRight
  <2>5. OutputsPrecedeErrors
    BY DEF Init, OutputsPrecedeErrors
  <2>6. OutputsBehind
    BY InputIsNatural, <2>1 DEF Init, OutputsBehind, InOrder, Places
  <2>7. QED
    BY <2>1, <2>2, <2>3, <2>4, <2>5, <2>6 DEF DriverInv
<1>2. DriverInv /\ [Next]_vars => DriverInv'
  BY PhaseKept, TypeKept, PassedCleanKept, EmitsBehindCleanKept,
     StreamIsOpenKept, ErrorsHaveReasonKept, EndsRightKept,
     OutputsPrecedeErrorsKept, OutputsBehindKept DEF DriverInv
<1>3. QED
  BY <1>1, <1>2, PTL DEF Spec

\* No file is written for an input behind an error: what exists belongs to an
\* input that is clean, as are those before it (HandleSourceUnit and
\* HandleTopLevelDecl of CodeGeneratorImpl ask the one count of errors).
THEOREM OutputsPrecede == Spec => []OutputsPrecedeErrors
<1>1. DriverInv => OutputsPrecedeErrors
  BY DEF DriverInv
<1>2. QED
  BY <1>1, DriverIsInvariant, PTL

\* The exit code is zero only for inputs without a fault, and one only where
\* there is one (ExecuteAction's result, main's return value).
THEOREM ExitCode == Spec => []ExitCodeIsRight
<1>1. DriverInv => ExitCodeIsRight
  <2>. SUFFICES ASSUME DriverInv
                PROVE  ExitCodeIsRight
    OBVIOUS
  <2>1. ASSUME exit = "success", NEW i \in DOMAIN Inputs
        PROVE  ~ Faulty(i)
    <3>1. input \notin DOMAIN Inputs /\ numErrors = 0
      BY <2>1 DEF DriverInv, EndsRight
    <3>2. i < input
      BY <3>1, InputIsNatural DEF DriverInv, TypeOK
    <3>3. Passed(i)
      BY <3>1, <3>2 DEF DriverInv, PassedClean
    <3>4. QED
      BY <3>3 DEF Passed, Faulty
  <2>2. exit = "failure" => Reason
    BY DEF DriverInv, EndsRight, ErrorsHaveReason
  <2>3. exit = "undefined" => OutFiles \cap inv.locked # {}
    BY DEF DriverInv, EndsRight
  <2>4. QED
    BY <2>1, <2>2, <2>3 DEF ExitCodeIsRight, Reason
<1>2. QED
  BY <1>1, DriverIsInvariant, PTL

\* Success without a message means that every declaration of every input has
\* its output, complete and never that of an earlier declaration
\* (BackendConsumer::HandleSourceUnit's loop over the entries).
THEOREM OutputsComplete == Spec => []OutputsAreComplete
<1>1. DriverInv => OutputsAreComplete
  <2>. SUFFICES ASSUME DriverInv, exit = "success", ~ printed, CodeGen, Writes,
                       NEW x \in Places
                PROVE  LET f == files[OutFile(x[1], x[2])]
                       IN /\ f # NoFile /\ f.done
                          /\ ~ Before(<<f.input, f.decl>>, x)
    BY DEF OutputsAreComplete
  <2>1. input \notin DOMAIN Inputs /\ numErrors = 0
    BY DEF DriverInv, EndsRight
  <2>2. x[1] < input /\ pc # "write"
    BY <2>1, InputIsNatural DEF DriverInv, TypeOK, Places
  <2>3. Written(x)
    BY <2>1, <2>2 DEF DriverInv, OutputsBehind, Clean
  <2>4. QED
    BY <2>2, <2>3 DEF Written
<1>2. QED
  BY <1>1, DriverIsInvariant, PTL

=============================================================================
