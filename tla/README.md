# A TLA+ model of the SOLL compiler

SOLL compiles Solidity and Yul to Ewasm and EVM code through LLVM. It is one
sequential C++ program, so the hard part is not concurrency but long sequences
of legal steps over shared, mutable state: an insert point that every `emit*`
function moves, phi nodes filled before and after the operand they wait for,
scopes that bubble unresolved names outwards, base lists read while they are
being computed. Its inputs are programs, and a unit test fixes one program; the
runs here take all programs up to a bound, and the proofs all programs.

## 1. Inventory

| Part | State it keeps | Operations | How it meets the others |
|---|---|---|---|
| Driver (`tools/soll`, `lib/FrontendTool`, `lib/Frontend/CompilerInstance.cpp`, `FrontendAction.cpp`) | invocation, list of output files, frontend action | parse options, one `BeginSourceFile`/`Execute`/`EndSourceFile` per input, create output streams | owns everything below; reads `Diagnostics` to decide what to do next |
| Diagnostics (`lib/Basic/Diagnostic*.cpp`, `lib/Frontend/TextDiagnostic*.cpp`) | the diagnostic in flight, error flags and counts | `Report`, `Emit` from a builder's destructor, `Reset` | every component reports through it; its sticky error flag stops code generation |
| Source and file manager (`lib/Basic/SourceManager.cpp`, `FileManager.cpp`) | buffers, offsets | map offsets to lines | lexer and diagnostics |
| Lexer (`lib/Lex`), identifier and token tables (`lib/Basic`) | position in the buffer | `Lex`, peek | pulled by the parser, one token at a time |
| Parser (`lib/Parse`) | current token, tokens lexed ahead, counts of open brackets that nothing reads | one function per production | builds the AST through `Sema::Create*`, runs the Sema passes when the unit is read |
| Inheritance (`lib/Sema/SemaResolveInherit.cpp`) | base lists, in-degrees, linearisations | `addDirectedEdge`, `solve`, `InjectInheritContract` | sets `ResolvedBaseContracts` and `InheritNodes`, which scopes, types and the dispatcher read |
| Scopes (`lib/Sema/Scope.cpp`, `SemaResolveIdentifier.cpp`) | stack of scopes with declarations and two lists of pending identifiers | push, declare, look up, pop | binds each identifier to a declaration that code generation looks up by address |
| Types, immutables, unique names (`lib/Sema/SemaResolve*.cpp`, `SemaExprAsm.cpp`) | annotations on the AST | one pass each | rely on the bindings; feed code generation |
| Module code generation (`lib/CodeGen/CodeGenModule.cpp`, `CGExpr.cpp`, `ABICodec.cpp`) | LLVM module, storage cursor, entry list, immutables | contracts, dispatcher, run-time helpers, ABI | calls a `CodeGenFunction` per function |
| Statement lowering (`CodeGenFunction.cpp`) | insert point, return block, `BreakContinueStack`, local addresses | one `emit*` per statement | shares the builder of the module, nested Yul functions included |
| Expression lowering (`ExprEmitter.cpp`) | insert point | `visit` per expression | may create blocks in the middle of a statement |
| Integer lowering and back end (`LoweringInteger.cpp`, `BackendUtil.cpp`, `CodeGenAction.cpp`, `ModuleBuilder.cpp`) | worklist, helper functions, temporary files | split wide integers, run the LLVM pipeline, link | consumes the module; resets it on errors |
| AST consumers (`lib/Frontend/ASTConsumers`) | none | print AST, ABI, signatures | read the AST |

What is hard, and which properties make each part correct:

* Statement lowering: every block has one terminator, whatever was nested and
  wherever dead code stands; no branch leaves its function; the graph runs the
  statements in the order the source nests them.
* Logical operators: a phi node lists the blocks control really comes from;
  operands run by the short-circuit rules.
* Inheritance: the linearisation is the C3 one or is refused with reason,
  independently of the order pointers happen to have; the members a contract
  sees are those of the most derived declarations.
* Scopes: a name that is found late is bound to what the scope rules say, once.
* Contract code: a value arrives where it is sent and reads back where it was
  stored, and no two variables share a place.
* Parser: a text is read as the grammar groups it, nothing is skipped in
  silence, and reading ends.
* Integer lowering: word-wise arithmetic equals the wide one.
* Driver and diagnostics: an error is never lost between two steps; a success
  leaves every output complete, and an error stops what comes behind it.

`PROJECT.json` lists each of the parts with its state (modelled, partly, not)
and every hazard at its line.

## 2. Plan

The order in which the parts were taken, the most important behaviour first; an
arrow is a refinement or an extension.

| Step | Modules | State |
|---|---|---|
| 1 | `StmtLowering`; `LoweredExec` -> `StructuredExec`, both over `StatementOrder`; `StmtLoweringProofs`, `LoweredExecProofs` | done and proved |
| 2 | `BoolExprLowering` -> `ShortCircuit`; `ExpressionProofs` | done and proved |
| 3 | `Linearization`, extended by `InheritNodes`; `InheritNodesProofs` | done and proved |
| 4 | `ScopeResolve`, `ScopeWalk`; `ScopeResolveProofs` | done, but for member accesses, structs and unresolved types |
| 5 | `Driver`; `DriverProofs` | done |
| 6 | `IntegerLowering`; `ExpressionProofs` | done; the pass proved, what its functions compute model-checked only |
| 7 | `ContractTypes` under `ABICodec`, extended by `ContractCall`, and `StateStorage`; `StateStorageProofs` | done for the layouts, encodings and calls, the layout and the accesses of the storage proved; the built-in functions are left out |
| 8 | `ParserCode`, `SolidityParser`, `YulParser`, run by `Parser`, against `SyntaxText` | done, but for the scanner of the lexer; model-checked only |

What is left, and why, is in section 6.

## 3. The modules

### Statement lowering

`StmtLowering` models `CodeGenFunction::emitStmt` and all that it calls. The
C++ recursion over the AST is unrolled: `work` is the stack of calls in
progress and an action is the code between two calls of `emitStmt`, so
`OpenWhile` is `emitWhileStmt` up to `emitStmt(WS->getBody())` and `EndWhile`
the rest of it. `ins` is `Builder.GetInsertBlock()`, `term` and `code` are what
the builder put into each block, `ret` is `ReturnBlock`, `loops` is
`BreakContinueStack`. A frame of `work` holds the local variables of the call
that are still needed: the blocks it will set the insert point to (`cond`,
`body`, `next`, `exit`), the block its last branch goes back to (`back`), the
switch (`sw`), and for a nested function the members of the hidden
`CodeGenFunction` (`outer`).

The parser is the environment. `MayCome` lets it hand over any statement of the
language, `PostIsFree` is the one restriction of the grammar that the lowering
relies on, and with `StrictJumps = FALSE` break and continue come wherever the
parser accepts them. What an expression computes is one node in `code` or one
conditional terminator.

`StatementOrder` says what the statements mean, from the tree alone: which
point of the program follows which. `StructuredExec` runs a tree in that order,
and `LoweredExec` executes the emitted blocks and must implement it.

### Logical operators

`BoolExprLowering` models the `isLogicalOp` branch of `ExprEmitter::visit`
under `emitBranchOnBoolExpr`, with operands that stay in the insert block and
operands that move it (an array index with its bounds check), and the execution
of the result, phi nodes included. A phi node with no entry for the block
control came from has an undefined value: the model takes either.
`ShortCircuit` is what && and || mean.

### Inheritance

`Linearization` models `InheritGraphSolver`. `work` is the stack of
`generator()` calls, each with its `MergeHelper`; `NextRoot` is the loop of
`solve()`, `Descend` and `JoinBase` the loop over the bases, `JoinOwnBases` the
last `join`, `Take` one round of `merge()`, `Stuck` the diagnostic with the
returns of all callers, `Merged` the rest of `generator()`. The entries of
`Indegree` are keyed by pointers, so `NextRoot` takes the roots in any order. A
list keeps only what `Idx` has not passed. `resolved` may hold the list of a
contract in progress, and after a refusal keeps it.

`InheritNodes` extends it with the rest of `resolveInherit` and with
`resolveUniqueName`. `CheckKinds` is `DeclContractKindChecker` as a whole,
because it reads no state it writes but `markVirtual`. `NextContract` starts a
contract of the topological order, the `Inject...` and `Override...` actions
are the cases of one round of the loop of `InjectInheritContract`, `EndContract`
is `setInheritNodes`. `NameMembers` is a visit of `DeclUniqueNameResolver`,
contracts in any order since the source may have any. Of a member the model
keeps what the checks read: kind, name, virtual, override, visibility and
mutability. Overloading is not supported (`docs/guides/FeatureGuideForSolidity.md`),
so the properties are about programs in which a contract declares a name once and
no event has the name of a function or variable (`NamesApart`). The second matters:
the search for a parent stops at the first member of that name, so an event in a
base hides an override behind it from the checks.

### Scopes

`ScopeResolve` models the stack of `Scope`s as `Sema` uses it. What a source
unit does to it is a sequence of calls, the walk: open a scope, close it,
declare a name, visit an identifier. `visit` holds the walk and `pos` the next
call. `PushScope` and `AddDecl` are the methods of that name; `UseResolved`,
`UseFound` and `UseLater` are the three ways through the visit of an
identifier; `PopInner` and `PopOutermost` are `Sema::PopScope` with
`Scope::resolveIdentifiers` inside, and `AssertionFails` its assertion. The two
lists are sets of positions of the walk, since nothing depends on their order
but whether one node stands in a list twice, which `AssertionHolds` asks.

Any sequence of calls is a walk there. `ScopeWalk` computes those the compiler
really makes, from trees of declarations and statements, as
`DeclIdentifierResolver` and `IdentifierResolver` traverse them: what opens a
scope, what is declared before what is visited, and which bodies are visited
again in an heir. It is recursive over trees, so only the MC modules extend it.

### Integer lowering

`IntegerLowering` is the pass of `LoweringInteger.cpp` and the code it leaves,
one after the other. An instruction that `checkWorllist` takes off `worklist`
is only extended if it is signed (`KeepSigned`), or else replaced by a call of a
function that exists (`CallHelper`) or is made for it, whose own instructions go
to the worklist again (`MakeHelper`); `calls` is the call graph that grows. Then
`at` leaves "lower" and `Call` picks operands. Multiplication,
shifts and the split by halves are operators, because they are straight code;
the division, the power and the byte swap have loops, and each round is an
action on the phi nodes in `reg`. What a shift by the width or more gives is
undefined: `junk` is any value, chosen once, and a `select` must never let it
through. Instructions of half the width compute what they say: where they are
replaced in their turn, that is a job of the run.

### Contract code

`ContractTypes` names the types of `Type.h`. `ABICodec` is `AbiEmitter` over them: what a type takes in an
encoding, and what is written where. Memory and call data are sets of pieces,
so many bytes at such a place that hold such a thing; what a digit of a number
is does not matter, where it stands does. Next to it stands the encoding that
the contract ABI prescribes, stated independently. `ContractCall` composes it
with the caller (`emitExternalCall`), the dispatcher and the loading of
arguments (`CodeGenModule.cpp`), the return and the decoding, an action each.

`StateStorage` is what state variables are: `emitVarDecl` with the sizes of
`Type.h` in `DeclareVar`, and in `Assign`, `Swap` and `CopyStruct` the
addresses, loads and stores of `ExprEmitter` and `ExprValue`, with
`OutOfBoundRevert` for a refused index. The storage is
words; a hash is the term that was hashed, so two are equal if their contents
are; a location is a variable with the indices, members and keys behind it. A
packed element is shifted by the remainder of its index, in bits, as the code
does, and the copy of a short string ORs its length into a byte of the stack
that was never written, which is any value of `Junk`. `held`, `dirty` and
`last` are history: what was assigned to each location, which strings took junk
with them, and whether the last index was refused. Where a location leads
(`Place`) is a function of contract, layout and words, found step by step from
the variable; the locations are found the same way, one level of nesting after
another (`Level`), `MaxDepth` of them, and `Types` names the types of each. So a
struct that holds itself in a mapping is cut off at some depth.

The properties of these modules do not say that the generated code is right. It
is not: a negative `int64` is extended with zeros, a struct takes fewer slots than
its members need, a decoded `bool` is followed by a read in the wrong place.
They say for which types and values the encoding is the standard one, the
argument arrives and the value reads back, and for no other: `EncodingIsStandard`,
`ArgumentsArrive`, `SlotsAreApart` and most of the rest are equivalences, so
that a repair of the code breaks them as much as a new fault.

### Parser

A function of the parser is a sequence of steps, as `ParserCode` names them: take
a token, expect one, branch on the tokens ahead, loop, call a function, make a
node, report. `SolidityParser` gives the functions of `Parser.cpp` in these
steps, under their names, `YulParser` those of `ParseAsm.cpp` and `ParseYul.cpp`,
and `Parser` runs them: `stack` is the stack of calls, each with the steps it has
to do (`todo`) and what it made so far (`made`), and each kind of step is an
action. `tok` is `Tok`; `lexer` is the position in the buffer with `CachedTokens`
and `CachedLexPos`, moved by `LookAhead`, `PeekAhead` and `Consume` as in
`Lexer.cpp`. `Climb` is the pair of loops of `parseBinaryExpression`. A function
returns a tree or `Null`, and whoever goes on with `Null` as the code does either
stores it or crashes. One token stands for many that the parser does not tell
apart: `uint` for all integer types, `bytes32` and `fixed` for those of their
sizes, `bytes` for `string` too, one operator for its level.

`Branch`, `Loop`, `Make` and `ReturnFromFunction` interpret a kind of step and
have no lines of their own: every `if`, `while`, node and `return` of the parser
is an instance. The map names for each one function that shows it; the functions
themselves are mapped one by one, as the definitions of `SolidityParser` and
`YulParser`.

`SyntaxText` says which text a tree has, and nothing of how it is read. The
texts of the run are those of a family of trees that has every construct, and of
all texts one token away from some of them.

What the model shows of the parser, as the code has it, that a reader may not
expect:

* `new` and `?` are read and make a null expression; an index `a[]` is refused at
  the start of a statement; a declaration whose type is a path (`a.b x;`,
  `a[1] b;`) loses its type; one without a name dereferences null.
* A contract or struct that the file ends in the middle of is accepted without a
  word, as is anything that stands between contracts, or in a Yul object and
  is neither object nor data.
* In Yul the commas of a call are optional, and `function (` is a fallback
  function in Solidity.
* Six loops wait for a closing token only. Five never end at the end of the file,
  or at `type`, which is reported and not consumed; the sixth, the list of types of
  `abi.decode`, never ends at a token that `parseTypeName` does not consume.
  `ParseEnds` excepts them there.
* The keywords behind `address` in `TokenKinds.def` all count as elementary type
  names, the units of time and ether among them; `parseTypeName` has no case for
  those, for `byte`, `fixed` and `ufixed`, and leaves them in place. A cast to one,
  to `bool` or to `bytes1` to `bytes32` fails an assertion.
* Behind `address` a `constant` belongs to the type: `address constant a` is not a
  constant variable.
* `**` binds weaker than `*`, as `OperatorPrecedence.h` has it and unlike
  Solidity.

### Driver

`Driver` is one invocation. `BeginSourceFile` to `EndSourceFile` is one round of
the loop of `CompilerInstance::ExecuteAction`; what lies between follows the
call chain down, an action for each return that some state decides:
`ParseAST` for parser and passes together, `HandleSourceUnit`, `SkipDecl`,
`CannotEmitDecl`, `EmitContractDecl` and `EmitYulObject` for
`CodeGeneratorImpl`, the rest for `BackendConsumer::HandleSourceUnit`, with
`compileAndLink` in `CannotLink`, `LinkNoObject`, `LinkNested` and `WriteWasm`,
and `EmitBackendOutput` in `EmitAssembly` and `CannotEmitAssembly`. `entries`,
`nested` and `next` are the members of the generator and the loop variables,
`files` is what the disk holds. `decl`, `entries` and `nested` go with the
consumer in `EndSourceFile`; `numErrors` and `files` do not. The file system
(which inputs exist, which paths can be opened) and LLVM (whether it has the
target) are part of the invocation. `exit` is "undefined" after a write through
a null stream, and "fatal" when Binaryen ends the process over an empty file.

A link that fails is not an error for the exit code: the message goes to
`llvm::errs()` and not to the diagnostics. `printed` records it, and
`OutputsAreComplete` has to except it.

## 4. The runs

| Run | Shows | Bound |
|---|---|---|
| `jumps_in_loops` | violated: `break` outside a loop reaches the assertion in `emitBreakStmt` | 2 statements |
| `lowered_exec` | the control flow graph is well formed while it is built and when it is done; the inductive invariant of the proofs; executions of the graph are executions of the source | 4 statements, 2.5 million states |
| `expression_code` | conditions: phi nodes match predecessors, evaluation is short-circuit and ends, as long as a right operand stays in one block; integers: nothing unsigned wider than a word is left, the functions made do not call themselves, every result is right and comes | 9 nodes; words of 2 bits, all operands of 3 and 4 bits, those at the edges up to 8, some of 16 |
| `boolexpr_nested` | violated: a right operand that moves the insert point leaves its phi node wrong | 5 nodes |
| `inherit_nodes` | the linearisations are C3, bases come before heirs, a refusal has a reason, the search ends; an accepted program overrides lawfully, shows the most derived members, and has distinct function names | without members, all graphs of 3 contracts with up to 2 bases each, cycles and repeated bases too, and all acyclic graphs of 5; with members 6 graphs of up to 4 contracts, every pair of functions, every pattern of redeclaration |
| `var_override` | violated: overriding a function by a variable dereferences a null pointer instead of reporting it | the same |
| `scope_resolve` | late and early lookups follow the scope rules, lose nothing, and are final | 6552 contracts with a body of up to 2 statements, nested once; 72 sources of a base, its heirs and another contract, in many orders; Yul blocks of up to 3 statements |
| `scope_assertion` | violated: an inherited body with a forward reference meets the assertion in `resolveIdentifiers` | the same |
| `loop_variables` | violated: the second `for (uint i` of a function uses the first `i` | `mat_mul` of `docs/examples/features/matrix.sol` |
| `driver` | the exit code tells of every error, a success leaves every output complete, and nothing is written behind an error | up to 3 inputs with up to 2 declarations, all actions |
| `contract_code` | which values are encoded as the standard says, inside their buffer, and arrive in the callee and back in the caller; which variables share storage and which locations read back what was assigned | up to 3 arguments of 17 types, calls with too few data and other selectors; 32 contracts of up to 2 or 3 variables, types nested up to 4 deep, 3 assignments |
| `parser` | the text of a tree is read back as that tree; what is read without a diagnostic is what the text says; parsing ends | the trees of `MCParser`, among them all expressions of up to 3 of 6 operators; 17 texts and all short ones with a token removed, or one of 11 inserted at each place, or cut off |

Four statements are enough for a loop in a loop, a switch with a default inside
a function inside a loop, or dead code in each section of each construct; every
action fires, and the theorems below lift the invariants to any number.
`lowered_exec` leaves misplaced jumps out because the source gives them no
meaning. Nine nodes hold four nested operators with five
operands.

Five contracts are the smallest on which C3 differs from a depth-first order
with duplicates removed and can fail in a contract whose bases are all fine;
three are enough for a cycle with a root above it and one beside. Four
contracts hold the diamond, and a chain with a gap between two declarations of
a name.

A name is found by the innermost scope that knows it, so what can go wrong in a
scope shows with one scope above and one below: a body of two statements, one
of them nested, between arguments and members. The trees use few names, each of
which is declared inside, outside, before, later, twice or never in some tree.
`FollowsScopeRules` speaks of walks that visit an identifier once;
`BindingsAreFinal` of all.

A word of two bits is the smallest that is split in half, and every job of 3 to
8 bits goes through one or two doublings, as 128 and 256 bits do over words of
64; the power has a loop of its own in `Exp`. The operands at the edges are
those at which the comparison by a difference, the count of leading zeros and
the shift by half the width change.

An encoding goes wrong where the cursor of heads and the cursor of tails part,
which needs a dynamic value between two others: three arguments. Strings are
empty, shorter than a word, one word, and one byte more. In the storage a word
of three bytes of three bits holds more than one element of 2 or 4 bits, with
bits left over, and the strings are empty, a zero, as long as fits inline, and
longer; junk of 1 makes an inline length odd, so that the string reads as one
behind its hash, and junk of 2 may leave it alone; two keys and three assignments are enough to write, write over and write beside.
Where slots overlap depends on how types nest: the contracts have structs, empty
ones too, before and behind other variables and inside mappings, and arrays of
arrays of arrays, of which an array of one element overlaps only if the element
does.
`ContractCall` and `StateStorage` share no state, and the run takes a contract
with either a call or state variables.

A chain of three operators is the shortest in which one sinks below a level and
meets it again. A list in a loop that never ends would grow without bound, so a
function keeps `MaxMade` of its parts, more than any text of the run needs. A
condition and an integer operation never meet, nor do `BoolExprLowering` and
`IntegerLowering` share a variable: `expression_code` runs one or the other.

Three inputs, the first and the last with one output path, are enough for an
error in front of, between and behind good inputs and for an output that is
written twice; two declarations for an error before and after a good contract.

`ConditionEnds`, `SolveTerminates`, `Terminates` and `ParseEnds` are liveness
properties. All assume weak fairness of the next-state relation: compiler and emitted code
are sequential programs that nothing stops. `SolveTerminates` is not trivial:
the recursion of `generator()` has no other guard against a cycle than the
entry it makes first. Nor is `Terminates`: the loops of the division and of the
power run until a counter is exactly zero. `ConditionEnds` is a sanity check, and
stands for no hazard: the graph of a condition is built by structural recursion
and has no edge back. `ParseEnds` excepts the six loops of section 3 once they
are at the token they cannot pass.

## 5. What is proved

`StmtLoweringProofs` proves for every `MaxNodes` and both values of
`StrictJumps`, from `BoundsAssumption` alone, that `Spec` implies always
`EmissionInv`, and from it `TypeOK`, `InsertBlockOpen`, `AllBlocksTerminated`
and `DefaultBlockEmptyIffUnvisited`.

`AllBlocksTerminated` is not inductive: it speaks of the end only. `EmissionInv`
is the bookkeeping that makes it true. An open block is the insert block or
waits in a slot of exactly one call (`OpenIsPending`, `PendingDistinct`,
`PendingOpen`); which slots a call still owes is fixed by its kind
(`FrameShape`); the insert block is open except between the cases of a switch
(`InsertBlockState`); and a switch whose default was visited has it filled or
is still at work on it (`SwitchShape`). When the last call returns no slot is
left, so no block is open. The proof has a lemma for what `Emit` does to the
blocks, one for each way the stack changes (push, pop, replace the top), and
one per action.

The same module proves two more of them for every `MaxNodes`.
`TerminatorsFinal` follows from the emission invariant: a step closes the insert
block, a block it creates, or one that a call waits for, and all of these are
open; a case only extends the switch whose terminator its call wrote, which
stays a switch as long as the call is in progress. `TargetsInFunction` is not
inductive, since a branch may go to a block that was remembered long before it
is written. `FlowInv` adds that some map `h` gives each call on the stack the
function it emits into, and that what the call remembers (`cond`, `body`,
`next`, `exit`, `back`, `sw`) lies in that function, while a function definition
keeps the insert block, return block and loops of its caller in the caller's
(`Linked`). The map is no variable: the proof names it anew at each step.

It also proves that the assertions of `emitBreakStmt` and
`emitContinueStmt` hold under `StrictJumps`, that is if the missing check of the
passes before were made. The argument counts: some `d` gives each call the
number of loops its function has open, which a part of a loop raises by one, a
function definition sets to none, and which is the length of
`BreakContinueStack` at the top. A jump in a loop body of its own function has
then a count above none.

`LoweredExecProofs` proves the refinement, `ImplementsSource`, for every
`MaxNodes`: whatever is nested in whatever, the blocks run the statements in
their order. The proof has five parts.

* The order is the recursion `Point` over the places of a tree: behind a node,
  at the beginning of a section, at a switch value without a case. It goes
  forwards but for the end of a loop body, where it stops at the loop, and `Rank`
  is a measure of that, by which `OrderIsDefined` constructs the solution for
  every tree whose jumps stand in loops. The proof does not need to know more of
  it than that it satisfies its equation (`Fixed`).
* `Nested` relates the calls in progress to the tree: the tree is well formed
  (`Tree`), and each call works at the node that its caller visited last, which
  has no statement yet in a section that the call has not come to (`Stacked`).
* `PilesInv` relates `BreakContinueStack` to the calls: some `L` gives each call
  the loops that are open in it.
* `Sound` is the heart. While the emission is going on nobody knows what follows
  a statement, so the invariant quantifies over it: for every text that the
  function may still become (`Text`), some map `m` gives every block the point that
  control is on the way to when it enters the block. Each block does what that
  point means (`BlockGood`), the first block of a function is where it is entered
  (`EntryGood`), the blocks that a call still has to come to stand for what
  follows its sections (`FrameGood`), and the insert block for what follows the
  last statement (`IsCursor`). Each action keeps it: an `Open` action by choosing the
  points of the blocks it creates, an `End` action because with the section
  closed no later text has anything more in it. Where `emitBreakStmt` takes the top
  of the stack, `PilesInv` and `Nested` say that this is the loop of the tree.
* When the unit is done one text is left, the tree itself. `ExecInv` follows a run:
  the point that the source says comes next is the one that the position in the
  blocks is on the way to (`Heading`). Then every step of the blocks is a step of
  `StructuredExec` or none.

`ScopeResolveProofs` proves three properties for every set of names, places and
walks, whether the compiler makes the walk or not, from `VisitsAssumption`
and `NoDeclAssumption`. `TypeOK` is inductive because it says that lists and
declarations lie behind `pos` and that a scope has one declaration of a name;
the first is what makes `NothingIsLost` inductive on top of it: a pop must find
each position of a closing list either bound, reported, or in the parent. Its
proof names for each position of the closing scope where it goes. For
`BindingsAreFinal` only `BindFounded` and `UseFound` matter, and both bind what
is unbound: the first because the assertion held, the second by its guard.

`FollowsScopeRules` is proved in the same module, with the one further assumption
that a walk has as many pops as pushes (`ScopesCloseAssumption`: `SemaScope`
closes in its destructor what its constructor opened). The property reads the
nesting off the text and the code keeps a stack, so the invariant has to relate
the two: some `o` gives each open scope the position of its push, and the
nesting depth of the text, which counts pushes and pops, is the height of the
stack (`Stack`). A scope has the first declaration of each name declared in it so
far (`Firsts`). An identifier in a list of a scope has no meaning further in and
no declaration before it, and stands in the list of those that a later
declaration may still bind, or not, as the rules say (`Waits`). What is bound or
reported is so by the rules (`Decided`); as nothing is lost and no scope is open
at the end, that decides every identifier.

`InheritNodesProofs` proves for every set of contracts and every graph, cyclic
ones included, that `BasesComeFirst`, `LinearizationsAreC3` and
`RefusalsHaveReason` always hold, from `GraphsAssumption`, which says that base
lists are lists. The heart of `SolverInv` is what a merge in progress has made of
its lists (`MergeOK`): each is the rest of the list that was joined, and what was
taken from it stands in the result in its order. That the joined list is still
the list of that base needs `Settled`: the contracts further out in the stack
are in progress and stay so until the call returns. So a done contract keeps what
its done bases say (`Kept`), and as long as bases are done before their heirs a
linearisation is complete and without repetition (`Complete`).

That they are done before is what a cycle could spoil: `JoinBase` reads the list
of a contract in progress, which is just that contract, and no guard refuses it.
`Cycles` says what becomes of it. A contract that joined such a list passes the
contract in progress on, in the lists and results of the calls of the stack
(`Returns`), until it comes back to its own call; there it stands twice in the
result, whose repetition the next call outwards cannot merge (`Doomed`). That
there is one is why the search starts at contracts without heirs. An accepted
unit has no call left, hence nothing doomed, hence no cycle. `Reason` is the
other side: the heads of lists of which none can be taken wait for each other,
or a base is in progress and the stack is a cycle. `NodesSolve` lifts the
invariant to the pass as a whole.

The same module proves for every program over every such graph that
`VisibleAreMostDerived`, `AcceptedIffLicensed` and `UniqueNamesDistinct` always
hold, from `ProgramsAssumption`, which gives kinds, constructors and members
their types, and `NoContractAssumption`. `NodesInv` stands on `SolverInv`: what
the linearisation of a contract is when its members are collected. The members
come with the most basic contract first (`TodoOK`), which is what
`FlattenSeq(Reverse(...))` has to deliver. So a member that arrives is nearer
than every one of its name before it, and among these the parent that the code
finds is the nearest: that one alone is redeclared by the child, and that one
alone is in the list (`ResultOK`). The list then holds the most derived of what
arrived (`Inherited`), and as long as there is no error every redeclaration among
that was licensed (`Lawful`). `DoneOK` says it of the contracts done, and
`ErrsOK` that an error has a reason, in the contract kinds or in a redeclaration.
A unique name is the contract of the last visit (`NamesOK`), and two functions
of one name that had the same would both be visible there.

`SequenceLemmas` has what these proofs need to know of lists: prefixes, appending
and removing, `FlattenSeq` as the lists one behind the other. `FlattenSeq` is
recursive, so that lemma is an induction; `LeastNatural` and `NaturalInduction`
give it in first-order form, over a set instead of a predicate, by way of the
well-founded order of finite sets.

`DriverProofs` proves for every set of invocations, with any number of inputs
and declarations, that `DriverInv` always holds, and from it
`OutputsPrecedeErrors`, `ExitCodeIsRight` and `OutputsAreComplete`. The
assumptions are `InvocationsAssumption`, which says that inputs and declarations
are lists, `NoFileAssumption`, and `LanguageAssumption`: an input is in one
language, since `parse()` makes no object and `parseYul()` nothing else. None of
the properties is inductive: that the exit code is right
needs the count of errors to be zero only if all inputs behind are clean
(`PassedClean`) and not zero only for a reason (`ErrorsHaveReason`); that no
file precedes an error needs the entries to stand behind clean declarations
(`EmitsBehindClean`), and what is written to be the file that was opened
(`StreamIsOpen`). That the outputs are complete needs `OutputsBehind`: as long as
nothing went wrong, what lies behind the process is written, by a declaration
that is not before it (`Written`), and what it has still to write has an entry
ahead that goes to the same file (`HasEntry`). The entries stand in the order of
the declarations (`InOrder`), so that of two with one name the last is written
last; and a Yul object, which takes the entry over from the one before it, also
takes over its file. This is where the language counts: an object that came
behind a contract would take the entry of a file that is not its own. There is a
lemma for each part with a case for each action.

`ExpressionProofs` is about the two halves of `expression_code`.

`PhisComplete` and `BlocksFollowRules` are for every condition, with any number
of operators, whose right operands stay in one block. That hypothesis,
`~RhsMayBranch`, is the restriction under which the code is right; without it
`boolexpr_nested` refutes the first. Under it the expression is a chain of `k`
operators to the left down to one innermost operand, which may be checked, and
everything can be said in closed form: the blocks and the node of the right
operand of operator `i` are numbers in `k` and `i` (`Cont`, `Rhs`, `Right`).
`EmitInv` says that the emission is on the way down with `k` operators open, or
on the way up with `j` of them left, or between the operands of one, and what
the blocks have by then (`Terms`, `Contents`, `Phis`). For `BlocksFollowRules`,
`ExecInv` says where an execution can be (`Where`): before the innermost operand,
at the end of a left operand, before or behind a right one, or at a target of the
branch; and that what `ShortCircuit` decides after the last operand evaluated is
what the blocks do from there (`Follows`). `Decide` climbs the tree
by recursion, so `Decisions` shows once, by induction over the chain, that it has
the closed form `After`. Then each step of the blocks is a step of
`ShortCircuit` or none.

`NothingWideIsLeft` and `HelpersEnd` are for every width of the words
(`WordAssumption`) and of the operations the pass starts from
(`JobsAssumption`), over `LoweringSpec`, the pass without the conditions that
the run puts beside it. `PassInv` says that every wide unsigned instruction is on
the worklist until it is replaced, and that a call leads to a function of less
`Rank`: one of less width, or, at the same width, from remainder to division and
from both to shifts and products. What waits on the worklist satisfies that
already (`Queued`), which is what makes it inductive. A set of functions that call
each other in circles would have a least rank, and none.

`StateStorageProofs` proves `PackedReadsBack`, `IndexIsChecked`,
`ReadsLastAssigned` and `SlotsAreApart` for words of any number of bytes of any
number of bits, any set of contracts and any history.
The assumptions say that words have bytes (`WordAssumption`), that types nest as
the compiler can lay them out (`TypesAssumption`: a scalar fits a word, no array
has strings or structs), that variables have such types (`ContractsAssumption`),
that keys and junk are numbers and there is a key (`ValuesAssumption`; a key is
not 0, which in a hash stands for none), and that strings are of bytes, of which one can hold twice
the length of any string that fits a word (`StringsAssumption`: 62 in 8 bits).

The first is arithmetic. A packed store is `keep + v * 2^shift`, where `keep`
is what lies above; what a load of the same place then gives is computed in
`PackedValue`, from division with remainder, and it is `v` if and only if
`v * 2^shift` is below `2^bits`. `PackedInv` adds to the property only that words
are numbers. That the place is the same before and after the store is
`PlaceDenotes`: what is stored decides whether an index is refused, never where
a location leads.

The second is about the whole storage. The slot of a dynamic array holds its
length, and the claim is that no history makes it other than zero, in a contract
whose slots are apart (`Unlengthened`, a part of `IndexInv`). A leaf writes its
own slot, which no other occupant has, and a string also the words behind the
hash of its slot. Those words are nobody's slot: every hash in the address of a
location inside its arrays is of a key (`Keyed`), for the elements of a dynamic
array would be behind a hash without one but do not exist, and a string is
hashed without one. That is where the two halves of the property need each
other: an accepted index is inside its array because no dynamic array was ever
lengthened (`AcceptedIsInside`), and no length is ever written because every
index accepted before was inside. The other direction, that an index inside is
accepted where the lengths fit the type of the index, needs no history
(`FittingIsAccepted`). A copy of structs is an induction over its members
(`CopyProps`).

The third says of every location that shares no word that it reads what was
assigned to it last. Half of it is that a store reads back: a number because it
fits its type (`Clean`, which what is loaded always is), a long string because its
word is odd and its data lie where the word is not, in as many words as it takes
(`LongReadsBack`, over `OverDigits`, which gives the bytes of the word that a copy
builds), and a short one if and only if its length comes through the OR with junk
(`InlineReadsBack`). A string of zeros may be right by chance: if its length byte
turned odd it reads as a long string from the words behind its hash, which may be
as many zeros. `ReadsLastAssigned` leaves it out, and the run has such a string
and such junk. The other half is that a store to one leaf changes no word that another leaf without
neighbours reads (`LeavesElsewhere`, `LoadsSame`): their slots differ because slots
are apart, the data of two strings because a hash is what was hashed
(`DataApart`), and a slot and data because of `Keyed`. `StoreRight` puts the two
together for one store; an exchange is two of them, a copy is an induction
(`CopyRight`), and `ReadsInv` adds that nothing is held before the first access.
It needs `IndexInv`: an assignment that was accepted has gone to a leaf inside its
arrays.

The fourth (`SlotsApartExactly`) is an equivalence about the layout, and the
induction is over types, from the innermost outwards (`TypeInduction`; they nest
`MaxDepth` deep). `Laying`, which is inductive, says that a variable begins behind
the rooms, as `emitVarDecl` reckons them, of those before it. What a type is given
(`Room`) is at most what it needs (`Extent`), and less exactly for the `Short`
ones (`RoomAndExtent`). One half (`RoomyIsApart`): if nothing is short where it
matters, the region of each part lies inside the region of the whole, apart from
those of the other parts (`PartInside`, `PartsApart`), and two occupants part
somewhere on the way from their variables: at two parts of one place
(`ForkApart`), at two variables (`RootsApart`), or where one is behind the hash
of the other (`ChainApart`). Only two elements of one word may share it. The other
half (`ApartIsRoomy`) finds two that do share: it needs that a region has no
gap, so that whatever begins inside it meets an occupant. That holds of a type
without overlaps (`Filled`), and a type cannot have the first overlap on the way
outwards without two occupants sharing a slot (`StructFine`, `ArrayFine`), so
both are shown together (`ApartIsFine`).

The model had to be corrected for it, each time because the property was false of
types the run did not have: an array of one element whose element overlaps, an
empty struct, which takes no slot and so meets nobody, and no keys at all, so
that what a mapping holds has no location. The run has contracts of the first two
kinds since.

Only model-checked are `ComputesTheSame`, the properties of the calls and of the
parser, and the four liveness properties: the encodings and the parser because
their reference is recursive over a tree of values, `ComputesTheSame` because
arithmetic by words is an induction over the width, and liveness because it is
out of the prover's reach.

## 6. What is not modelled

In the scopes: the isolated scope of a member access, `this` and `super`, struct
constructors, `using for`, unresolved type names, and which declaration an
inherited body means if its heir stands first in the source.

In the immutables: the slots of `SemaResolveImmutable.cpp`, a map filled with one
`try_emplace` per call of `setimmutable`.

In the driver: temporary files and `clearOutputFiles`, which no caller reaches;
errors while a contract is generated, of which all but one are assertions; the
optimisation pipeline, which runs twice over a module for some actions.

In the integer lowering: signed division and the arithmetic shift, which the
pass extends and leaves to LLVM as they are.

In the contract code: events, built-in functions, `new`, `delegatecall`, the gas
and value of a call, and the EVM variants of all of it; arrays of strings or of
structs in the storage, over which the compiler divides by zero; what is read
beyond the word of an inline string whose length byte took junk; the type
annotation pass, whose types the models take as given.

In the parser: the texts of literals (`ParseLiteral.cpp`) and what `Sema` makes
of a node.

Of the parts in section 1: the scanner of the lexer and the token tables, the
source and file manager and the AST consumers, which are functions of their
input and keep no state between two calls that another part reads; the
remaining passes of the type checker, which annotate a tree node by node. Values
and types of expressions in the statements, and labels of switch cases (each case
has its own).

A base contract that does not exist is an assertion of the parser's caller and
does not occur in the graphs. A cycle that no root reaches is never searched;
the properties speak of the contracts that the roots reach.
`emitAsmLeaveStmt` outside a function reads a `ReturnBlock` nobody set: the
model stops in `undefined`.
