------------------------------- MODULE Driver -------------------------------
(***************************************************************************)
(* One invocation of the compiler: CompilerInstance::ExecuteAction over    *)
(* the inputs, with FrontendAction, ParseAST, BackendConsumer and          *)
(* CodeGeneratorImpl under it, down to the files it leaves behind and the  *)
(* exit code.  One instance serves all inputs, so the count of errors and  *)
(* the directory outlive each of them.                                     *)
(*                                                                         *)
(* An input is what the front end finds in it: whether the file exists,    *)
(* whether it has errors, and its top-level declarations in order.         *)
(***************************************************************************)
EXTENDS Naturals, Sequences

CONSTANTS
  Invocations, \* bound: the command lines and file systems considered
  NoFile       \* nothing was written at a path

FileType == [input : Nat, decl : Nat, done : BOOLEAN]

\* Inputs and declarations are lists.
ASSUME InvocationsAssumption ==
  \A v \in Invocations :
    /\ Len(v.inputs) \in Nat /\ DOMAIN v.inputs = 1..Len(v.inputs)
    /\ \A i \in DOMAIN v.inputs :
         /\ v.inputs[i].exists \in BOOLEAN /\ v.inputs[i].errors \in BOOLEAN
         /\ Len(v.inputs[i].decls) \in Nat
         /\ DOMAIN v.inputs[i].decls = 1..Len(v.inputs[i].decls)
         /\ \A d \in DOMAIN v.inputs[i].decls :
              v.inputs[i].decls[d].kind = "object" =>
                v.inputs[i].decls[d].objects \in Nat
\* An input is in one language: parse() makes no object, parseYul() nothing else.
ASSUME LanguageAssumption ==
  \A v \in Invocations : \A i \in DOMAIN v.inputs :
    \A c, d \in DOMAIN v.inputs[i].decls :
      v.inputs[i].decls[c].kind = "object" =>
        v.inputs[i].decls[d].kind = "object"
ASSUME NoFileAssumption == NoFile \notin FileType

CodeGenActions ==
  {"EmitAssembly", "EmitBC", "EmitLL", "EmitNothing", "EmitMCNull",
   "EmitObj", "EmitWasm"}
OtherActions == {"Print", "ParseSyntaxOnly", "InitOnly"}

VARIABLES
  inv,       \* inputs, action, target, runtime; locked: the paths that cannot
             \* be opened; hasTM: LLVM was built with the wasm target
  input,     \* the input at work
  pc,        \* where ExecuteAction and its callees are
  decl,      \* the next top-level declaration of the input
  entries,   \* getEntry(): the declarations with an entry function
  nested,    \* getNestedEntries()
  next,      \* the next element of nested or entries
  stream,    \* the output stream of the entry is not null
  numErrors, \* errors reported, by DiagnosticsEngine and its client alike
  printed,   \* an error that went to llvm::errs() only
  files,     \* path -> the declaration last opened for it, and whether done
  exit       \* "running", or how the process ends

vars == <<inv, input, pc, decl, entries, nested, next, stream, numErrors,
          printed, files, exit>>

Inputs == inv.inputs
Here   == Inputs[input]
ErrorOccurred == numErrors > 0
Report == numErrors' = numErrors + 1
At(place) == exit = "running" /\ pc = place

\* createOutputFile: named after the contract, in the directory of the
\* input; after the input if it is Yul.
OutFile(i, d) ==
  IF Inputs[i].decls[d].kind = "object" THEN <<Inputs[i].dir, Inputs[i].name>>
  ELSE <<Inputs[i].dir, Inputs[i].decls[d].name>>

-----------------------------------------------------------------------------
(* FrontendAction::BeginSourceFile and ASTFrontendAction::ExecuteAction.   *)

BeginSourceFile ==
  /\ At("begin") /\ input \in DOMAIN Inputs
  /\ Here.exists
  /\ pc' = IF inv.action = "InitOnly" THEN "end" ELSE "parse"
  /\ UNCHANGED <<inv, input, decl, entries, nested, next, stream, numErrors,
                 printed, files, exit>>

\* Mutant: as for the input that is given no buffer, nobody is told.
CannotOpenInputSilently ==
  /\ At("begin") /\ input \in DOMAIN Inputs
  /\ ~Here.exists
  /\ input' = input + 1
  /\ UNCHANGED <<inv, pc, decl, entries, nested, next, stream, numErrors,
                 printed, files, exit>>

CannotOpenInput ==
  /\ At("begin") /\ input \in DOMAIN Inputs
  /\ ~Here.exists
  /\ Report
  /\ input' = input + 1
  /\ UNCHANGED <<inv, pc, decl, entries, nested, next, stream, printed, files,
                 exit>>

\* The parser and the passes of Sema; errors do not stop them.
ParseAST ==
  /\ At("parse")
  /\ IF Here.errors THEN Report ELSE UNCHANGED numErrors
  /\ pc' = IF inv.action \in CodeGenActions THEN "unit" ELSE "end"
  /\ UNCHANGED <<inv, input, decl, entries, nested, next, stream, printed,
                 files, exit>>

-----------------------------------------------------------------------------
(* CodeGeneratorImpl: HandleSourceUnit and HandleTopLevelDecl.             *)

HandleSourceUnit ==
  /\ At("unit")
  /\ pc' = IF ErrorOccurred THEN "end" ELSE "decls"
  /\ UNCHANGED <<inv, input, decl, entries, nested, next, stream, numErrors,
                 printed, files, exit>>

Declaring == At("decls") /\ decl \in DOMAIN Here.decls

SkipDecl ==
  /\ Declaring /\ ErrorOccurred
  /\ decl' = decl + 1
  /\ UNCHANGED <<inv, input, pc, entries, nested, next, stream, numErrors,
                 printed, files, exit>>

CannotEmitDecl ==
  /\ Declaring /\ ~ErrorOccurred
  /\ Here.decls[decl].kind \in {"interface", "abstract"}
  /\ Report
  /\ decl' = decl + 1
  /\ UNCHANGED <<inv, input, pc, entries, nested, next, stream, printed, files,
                 exit>>

\* Mutant: one entry for each input, as for Yul.
EmitLastContractDecl ==
  /\ Declaring /\ ~ErrorOccurred
  /\ Here.decls[decl].kind = "contract"
  /\ entries' = <<decl>>
  /\ nested' = IF inv.runtime THEN nested ELSE Append(nested, decl)
  /\ decl' = decl + 1
  /\ UNCHANGED <<inv, input, pc, next, stream, numErrors, printed, files, exit>>

\* Mutant: an error in an earlier declaration does not matter.
EmitContractDeclAnyway ==
  /\ Declaring
  /\ Here.decls[decl].kind = "contract"
  /\ entries' = Append(entries, decl)
  /\ nested' = IF inv.runtime THEN nested ELSE Append(nested, decl)
  /\ decl' = decl + 1
  /\ UNCHANGED <<inv, input, pc, next, stream, numErrors, printed, files, exit>>

\* With --runtime there is no constructor that would return the contract.
EmitContractDecl ==
  /\ Declaring /\ ~ErrorOccurred
  /\ Here.decls[decl].kind = "contract"
  /\ entries' = Append(entries, decl)
  /\ nested' = IF inv.runtime THEN nested ELSE Append(nested, decl)
  /\ decl' = decl + 1
  /\ UNCHANGED <<inv, input, pc, next, stream, numErrors, printed, files, exit>>

\* One entry, for the outermost object; every object is a nested one.
EmitYulObject ==
  /\ Declaring /\ ~ErrorOccurred
  /\ Here.decls[decl].kind = "object"
  /\ entries' = <<decl>>
  /\ nested' = nested \o [o \in 1..Here.decls[decl].objects |-> decl]
  /\ decl' = decl + 1
  /\ UNCHANGED <<inv, input, pc, next, stream, numErrors, printed, files, exit>>

-----------------------------------------------------------------------------
(* BackendConsumer::HandleSourceUnit, once the module is generated.        *)

CloneModules ==
  /\ At("decls") /\ decl \notin DOMAIN Here.decls
  /\ pc' = IF inv.target = "EWASM" THEN "nested" ELSE "open"
  /\ next' = 1
  /\ UNCHANGED <<inv, input, decl, entries, nested, stream, numErrors, printed,
                 files, exit>>

\* EmitBackendOutput writes no object file: the target is not EWASM or LLVM
\* cannot generate it.
NoObject == inv.target # "EWASM" \/ ~inv.hasTM

\* compileAndLink, for a nested object or for the output itself.
Linking ==
  \/ At("nested") /\ next \in DOMAIN nested
  \/ At("write") /\ inv.action = "EmitWasm"

\* A temporary file cannot be made: HandleSourceUnit prints that and returns.
CannotLink ==
  /\ Linking
  /\ printed' = TRUE
  /\ pc' = "end" /\ stream' = FALSE
  /\ UNCHANGED <<inv, input, decl, entries, nested, next, numErrors, files, exit>>

\* The linker fails on the empty object file, which nobody asks, and Binaryen
\* ends the process over what it left.
LinkNoObject ==
  /\ Linking /\ NoObject
  /\ Report
  /\ exit' = "fatal"
  /\ UNCHANGED <<inv, input, pc, decl, entries, nested, next, stream, printed,
                 files>>

LinkNested ==
  /\ At("nested") /\ Linking /\ ~NoObject
  /\ next' = next + 1
  /\ UNCHANGED <<inv, input, pc, decl, entries, nested, stream, numErrors,
                 printed, files, exit>>

NestedLinked ==
  /\ At("nested") /\ next \notin DOMAIN nested
  /\ pc' = "open" /\ next' = 1
  /\ UNCHANGED <<inv, input, decl, entries, nested, stream, numErrors, printed,
                 files, exit>>

-----------------------------------------------------------------------------
(* The loop over the entries: GetOutputStreamCallback, then the output.    *)

Entry == entries[next]
Path  == OutFile(input, Entry)
Opening == At("open") /\ next \in DOMAIN entries

\* No file: a null stream, or none where nothing is written to it.
OpenNothing ==
  /\ Opening /\ inv.action \in {"EmitNothing", "EmitMCNull"}
  /\ stream' = (inv.action = "EmitMCNull")
  /\ pc' = "write"
  /\ UNCHANGED <<inv, input, decl, entries, nested, next, numErrors, printed,
                 files, exit>>

Writes == inv.action \notin {"EmitNothing", "EmitMCNull"}

OpenOutput ==
  /\ Opening /\ Writes
  /\ Path \notin inv.locked
  /\ files' = [files EXCEPT ![Path] =
                 [input |-> input, decl |-> Entry, done |-> FALSE]]
  /\ stream' = TRUE /\ pc' = "write"
  /\ UNCHANGED <<inv, input, decl, entries, nested, next, numErrors, printed,
                 exit>>

CannotOpenOutput ==
  /\ Opening /\ Writes
  /\ Path \in inv.locked
  /\ Report
  /\ stream' = FALSE /\ pc' = "write"
  /\ UNCHANGED <<inv, input, decl, entries, nested, next, printed, files, exit>>

\* Through the stream, if there is one.
Put ==
  /\ IF stream THEN UNCHANGED exit ELSE exit' = "undefined"
  /\ files' = IF stream /\ Writes THEN [files EXCEPT ![Path].done = TRUE]
              ELSE files

NextEntry == pc' = "open" /\ next' = next + 1 /\ stream' = FALSE

WriteWasm ==
  /\ At("write") /\ Linking /\ ~NoObject
  /\ Put /\ NextEntry
  /\ UNCHANGED <<inv, input, decl, entries, nested, numErrors, printed>>

\* EmitAssembly for the other actions: whether a target machine is needed,
\* and whether there is one.
RequiresCodeGen == inv.action \notin {"EmitNothing", "EmitBC", "EmitLL"}
Refused ==
  IF inv.target = "EVM" THEN inv.action # "EmitLL"
  ELSE RequiresCodeGen /\ ~inv.hasTM

EmitAssembly ==
  /\ At("write") /\ inv.action # "EmitWasm" /\ ~Refused
  /\ IF inv.action = "EmitNothing" THEN UNCHANGED <<files, exit>> ELSE Put
  /\ NextEntry
  /\ UNCHANGED <<inv, input, decl, entries, nested, numErrors, printed>>

CannotEmitAssembly ==
  /\ At("write") /\ inv.action # "EmitWasm" /\ Refused
  /\ Report
  /\ NextEntry
  /\ UNCHANGED <<inv, input, decl, entries, nested, printed, files, exit>>

AllWritten ==
  /\ At("open") /\ next \notin DOMAIN entries
  /\ pc' = "end"
  /\ UNCHANGED <<inv, input, decl, entries, nested, next, stream, numErrors,
                 printed, files, exit>>

-----------------------------------------------------------------------------
\* Mutant: the consumer of this input stays for the next one.
EndSourceFileKeeping ==
  /\ At("end")
  /\ pc' = "begin" /\ input' = input + 1
  /\ UNCHANGED <<inv, decl, entries, nested, next, stream, numErrors, printed,
                 files, exit>>

\* The consumer goes, and the generated module with its entries.
EndSourceFile ==
  /\ At("end")
  /\ pc' = "begin" /\ input' = input + 1
  /\ decl' = 1 /\ entries' = <<>> /\ nested' = <<>> /\ next' = 1
  /\ UNCHANGED <<inv, stream, numErrors, printed, files, exit>>

Exit ==
  /\ At("begin") /\ input \notin DOMAIN Inputs
  /\ exit' = IF ErrorOccurred THEN "failure" ELSE "success"
  /\ UNCHANGED <<inv, input, pc, decl, entries, nested, next, stream, numErrors,
                 printed, files>>

Over == exit # "running" /\ UNCHANGED vars

-----------------------------------------------------------------------------
Places == UNION {{<<i, d>> : d \in DOMAIN Inputs[i].decls} : i \in DOMAIN Inputs}
OutFiles == {OutFile(x[1], x[2]) : x \in Places}

Init ==
  /\ inv \in Invocations
  /\ input = 1 /\ pc = "begin"
  /\ decl = 1 /\ entries = <<>> /\ nested = <<>> /\ next = 1
  /\ stream = FALSE /\ numErrors = 0 /\ printed = FALSE
  /\ files = [p \in OutFiles |-> NoFile]
  /\ exit = "running"

Next ==
  \/ BeginSourceFile \/ CannotOpenInput \/ ParseAST
  \/ HandleSourceUnit \/ SkipDecl \/ CannotEmitDecl \/ EmitContractDecl
  \/ EmitYulObject \/ CloneModules
  \/ CannotLink \/ LinkNoObject \/ LinkNested \/ NestedLinked
  \/ OpenNothing \/ OpenOutput \/ CannotOpenOutput
  \/ WriteWasm \/ EmitAssembly \/ CannotEmitAssembly \/ AllWritten
  \/ EndSourceFile \/ Exit \/ Over

Spec == Init /\ [][Next]_vars

-----------------------------------------------------------------------------
(* Properties. *)

Exits == {"running", "success", "failure", "fatal", "undefined"}
Pcs == {"begin", "parse", "unit", "decls", "nested", "open", "write", "end"}

TypeOK ==
  /\ inv \in Invocations
  /\ input \in Nat \ {0} /\ decl \in Nat \ {0} /\ next \in Nat \ {0}
  /\ pc \in Pcs /\ exit \in Exits
  /\ pc # "begin" => input \in DOMAIN Inputs
  /\ pc = "write" => next \in DOMAIN entries
  /\ entries \in Seq(Nat) /\ nested \in Seq(Nat)
  /\ \A e \in DOMAIN entries : <<input, entries[e]>> \in Places
  /\ stream \in BOOLEAN /\ printed \in BOOLEAN /\ numErrors \in Nat
  /\ files \in [OutFiles -> FileType \cup {NoFile}]

CanEmit(x) ==
  Inputs[x[1]].decls[x[2]].kind \in {"contract", "object"}
CodeGen == inv.action \in CodeGenActions

\* Something about input i is an error.
Faulty(i) ==
  \/ ~Inputs[i].exists
  \/ (Inputs[i].errors /\ inv.action # "InitOnly")
  \/ CodeGen /\ \E d \in DOMAIN Inputs[i].decls : ~CanEmit(<<i, d>>)

\* The exit code of a process that ends by itself tells whether there was
\* anything to report, in any input, however many came behind it.
ExitCodeIsRight ==
  /\ exit = "success" => \A i \in DOMAIN Inputs : ~Faulty(i)
  /\ exit = "failure" =>
       \/ \E i \in DOMAIN Inputs : Faulty(i)
       \/ CodeGen /\ (OutFiles \cap inv.locked # {} \/ Refused)
  /\ exit = "undefined" => OutFiles \cap inv.locked # {}

Before(x, y) == x[1] < y[1] \/ (x[1] = y[1] /\ x[2] < y[2])

\* Success without a message means that every declaration has its output: each
\* file is complete and of the last declaration with that name.
OutputsAreComplete ==
  exit = "success" /\ ~printed /\ CodeGen /\ Writes =>
    \A x \in Places :
      LET f == files[OutFile(x[1], x[2])]
      IN /\ f # NoFile /\ f.done
         /\ ~Before(<<f.input, f.decl>>, x)

\* Nothing is written for an input once an earlier one had an error, nor if
\* it has one itself, but for what stands before it in the input.
OutputsPrecedeErrors ==
  \A p \in OutFiles :
    files[p] # NoFile =>
      /\ \A i \in 1..files[p].input :
           Inputs[i].exists /\ ~Inputs[i].errors
      /\ \A x \in Places :
           Before(x, <<files[p].input, files[p].decl>>) => CanEmit(x)

-----------------------------------------------------------------------------
(* What makes them so: an invariant that every step keeps.                 *)

Emitting == {"decls", "nested", "open", "write"}
Sound(i) == Inputs[i].exists /\ ~ Inputs[i].errors

\* Where the process is determines what it holds.
PhaseOK ==
  /\ pc \in {"begin", "parse", "unit"} => entries = <<>> /\ decl = 1
  /\ pc \in {"parse", "unit"} \cup Emitting => Here.exists
  /\ pc \in {"unit"} \cup Emitting => CodeGen
  /\ pc = "parse" => inv.action # "InitOnly"

\* An input that was passed without an error has none.
Passed(i) ==
  /\ Inputs[i].exists
  /\ inv.action # "InitOnly" => ~ Inputs[i].errors
  /\ CodeGen => \A d \in DOMAIN Inputs[i].decls : CanEmit(<<i, d>>)
PassedClean ==
  numErrors = 0 =>
    /\ \A i \in DOMAIN Inputs : i < input => Passed(i)
    /\ pc = "unit" => ~ Here.errors
    /\ pc = "decls" => \A d \in DOMAIN Here.decls : d < decl => CanEmit(<<input, d>>)
    /\ pc \in {"nested", "open", "write", "end"} => Passed(input)

\* Code is generated behind clean inputs only, and an entry stands behind
\* declarations that have one.
EmitsBehindClean ==
  /\ pc \in Emitting =>
       /\ Sound(input)
       /\ \A i \in DOMAIN Inputs : i < input => Passed(i)
  /\ \A e \in DOMAIN entries : \A d \in DOMAIN Here.decls :
       d < entries[e] => CanEmit(<<input, d>>)

\* The stream at work is that of the path that was opened for it; without one
\* the path is locked, unless nothing is to be written.
StreamIsOpen ==
  pc = "write" =>
    /\ stream /\ Writes => files[Path] # NoFile
    /\ ~ stream /\ inv.action # "EmitNothing" => Path \in inv.locked

\* Every error counted has a reason.
Reason ==
  \/ \E i \in DOMAIN Inputs : Faulty(i)
  \/ CodeGen /\ (OutFiles \cap inv.locked # {} \/ Refused)
ErrorsHaveReason == numErrors # 0 /\ exit # "fatal" => Reason

EndsRight ==
  /\ exit \in {"success", "failure"} => input \notin DOMAIN Inputs
  /\ exit = "success" => numErrors = 0
  /\ exit = "failure" => numErrors # 0
  /\ exit = "undefined" => OutFiles \cap inv.locked # {}

\* Nothing went wrong so far, and there is something to write.
Clean ==
  /\ numErrors = 0 /\ ~ printed /\ exit \in {"running", "success"}
  /\ CodeGen /\ Writes

\* A place has its output, or a later one of that name has it, even if that is
\* being written again.
Written(x) ==
  LET p == OutFile(x[1], x[2])
  IN /\ files[p] # NoFile
     /\ files[p].done \/ (pc = "write" /\ stream /\ p = Path)
     /\ ~ Before(<<files[p].input, files[p].decl>>, x)

\* The file of a declaration will be that of an entry.
HasEntry(d) ==
  \E e \in DOMAIN entries :
    entries[e] >= d /\ OutFile(input, entries[e]) = OutFile(input, d)

\* The entries stand in the order of their declarations, so that the last one
\* is written last.
InOrder ==
  /\ \A e \in DOMAIN entries : pc = "decls" => entries[e] < decl
  /\ \A e, f \in DOMAIN entries : e < f => entries[e] < entries[f]

\* What a clean process has left behind it is written, and what it has not
\* written has an entry ahead.
OutputsBehind ==
  /\ InOrder
  /\ Clean =>
       /\ \A x \in Places : x[1] < input => Written(x)
       /\ pc = "decls" => \A d \in DOMAIN Here.decls : d < decl => HasEntry(d)
       /\ pc \in {"nested", "open", "write"} =>
            \A d \in DOMAIN Here.decls : HasEntry(d)
       /\ pc \in {"open", "write"} =>
            \A e \in DOMAIN entries :
              e < next => Written(<<input, entries[e]>>)
       /\ pc = "write" =>
            stream /\ files[Path].input = input /\ files[Path].decl = Entry
       /\ pc = "end" =>
            \A x \in Places : x[1] = input => Written(x)

(* The bookkeeping behind the properties: what each phase of the process   *)
(* may rely on about the inputs behind it, the open stream and the count   *)
(* of errors.  (CompilerInstance::ExecuteAction down to                    *)
(* EmitBackendOutput.)                                                     *)
DriverInv ==
  /\ TypeOK /\ PhaseOK /\ PassedClean /\ EmitsBehindClean /\ StreamIsOpen
  /\ ErrorsHaveReason /\ EndsRight /\ OutputsPrecedeErrors /\ OutputsBehind
=============================================================================
