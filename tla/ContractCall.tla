---------------------------- MODULE ContractCall ----------------------------
(***************************************************************************)
(* A contract that SOLL compiled calls a function of another one that SOLL *)
(* compiled: the caller encodes the arguments (emitExternalCall, which is  *)
(* an abi.encode behind a selector), the dispatcher of the callee finds    *)
(* the function, loads its arguments from the call data and runs it, the   *)
(* results are encoded and finish the callee, and the caller decodes what  *)
(* has come back.  The expressions abi.encode and abi.encodePacked are the *)
(* first part alone.                                                       *)
(*                                                                         *)
(* What the function does is its outcome: results, or a revert.  The host  *)
(* that carries the call is external: it stops a contract that copies call *)
(* data beyond their end.                                                  *)
(***************************************************************************)
EXTENDS ABICodec

CONSTANTS
  Programs        \* the calls and expressions to compile; records of
                  \*   kind      "encode", "packed", "call" or "plain", a call
                  \*             with data that no contract of SOLL encoded
                  \*   argTypes, args   what the caller has
                  \*   params    the types of the parameters of the function
                  \*   rets, results   what the function returns
                  \*   reverts   whether it reverts instead
                  \*   selector  "f", its selector, or another
                  \*   size      of the call data of a plain call
                  \*   fallback  whether the callee has a fallback function

VARIABLES
  program,        \* the program that runs
  pc,             \* where it is
  work,           \* the encoding under way: [ts, vs, size, e, places, todo]
  calldata,       \* [size, selector, mem] of the call
  args,           \* what the callee has loaded
  status,         \* how the callee ended
  returned,       \* [size, mem] it has returned
  result          \* what the caller has decoded

vars == <<program, pc, work, calldata, args, status, returned, result>>

----------------------------------------------------------------------------

Work(ts, vs, size) == [ts |-> ts, vs |-> vs, size |-> size, e |-> Emitter(0),
                       places |-> <<>>, todo |-> DynamicOf(ts)]
Idle == Work(<<>>, <<>>, 0)
Nothing == [size |-> 0, mem |-> {}]

Init ==
  /\ program \in Programs
  /\ pc = CASE program.kind \in {"encode", "call"} -> "encode"
            [] program.kind = "packed" -> "packed"
            [] OTHER -> "dispatch"
  /\ work = CASE program.kind \in {"encode", "call"} ->
                   Work(program.argTypes, program.args,
                        TupleSize(program.argTypes, program.args))
              [] program.kind = "packed" ->
                   Work(program.argTypes, program.args,
                        PackedTupleSize(program.argTypes, program.args))
              [] OTHER -> Idle
  /\ calldata = [size |-> IF program.kind = "plain" THEN program.size ELSE 0,
                 selector |-> program.selector, mem |-> {}]
  /\ args = <<>>
  /\ status = "running"
  /\ returned = Nothing
  /\ result = <<>>

----------------------------------------------------------------------------
(* Encoding a tuple, element by element, of the caller and of the callee.  *)

Placed == Len(work.places)

EmitNextHead ==
  /\ pc \in {"encode", "answer"}
  /\ Placed < Len(work.ts)
  /\ work' = [work EXCEPT
                !.e = EmitHead(@, work.ts[Placed + 1], work.vs[Placed + 1]),
                !.places = Append(@, work.e.at)]
  /\ UNCHANGED <<program, pc, calldata, args, status, returned, result>>

EmitNextTail ==
  /\ pc \in {"encode", "answer"}
  /\ Placed = Len(work.ts)
  /\ work.todo # <<>>
  /\ LET i == Head(work.todo)
     IN  work' = [work EXCEPT
                    !.e = EmitTail(@, 0, work.places[i], work.ts[i], work.vs[i]),
                    !.todo = Tail(@)]
  /\ UNCHANGED <<program, pc, calldata, args, status, returned, result>>

EmitNextPacked ==
  /\ pc = "packed"
  /\ Placed < Len(work.ts)
  /\ work' = [work EXCEPT
                !.e = EmitPacked(@, work.ts[Placed + 1], work.vs[Placed + 1], FALSE),
                !.places = Append(@, work.e.at)]
  /\ UNCHANGED <<program, pc, calldata, args, status, returned, result>>

Encoded == /\ pc \in {"encode", "answer"}
           /\ Placed = Len(work.ts)
           /\ work.todo = <<>>
Packed  == pc = "packed" /\ Placed = Len(work.ts)

(* A call of a contract is a call with abi.encodeWithSelector, which packs *)
(* the selector and the encoded arguments.                                 *)
WithSelector == [size     |-> 4 + work.size,
                 selector |-> program.selector,
                 mem      |-> Shift(work.e.out, 4)]
Call ==
  /\ Encoded
  /\ pc = "encode"
  /\ program.kind = "call"
  /\ calldata' = WithSelector
  /\ pc' = "dispatch"
  /\ work' = Idle
  /\ UNCHANGED <<program, args, status, returned, result>>

----------------------------------------------------------------------------
(* The callee. *)

EndCallee(how, data) ==
  /\ status' = how
  /\ returned' = data
  /\ pc' = IF program.kind = "call" THEN "decode" ELSE "done"

(* The error block: the fallback function, or a revert. *)
Error ==
  /\ EndCallee(IF program.fallback THEN "fallback" ELSE "revert", Nothing)
  /\ UNCHANGED <<program, work, calldata, args, result>>

ParamsSize == Total([i \in DOMAIN program.params |->
                        ABIStaticSize(program.params[i])])

(* callDataCopy of bytes the call data do not have. *)
Trap ==
  /\ EndCallee("trap", Nothing)
  /\ UNCHANGED <<program, work, calldata, args, result>>

Matches == calldata.size >= 4 /\ calldata.selector = "f"

Dispatch ==
  /\ pc = "dispatch"
  /\ IF ~ Matches THEN Error
     ELSE IF 4 + ParamsSize > calldata.size THEN Trap
     ELSE /\ pc' = "static"
          /\ UNCHANGED <<program, work, calldata, args, status, returned, result>>

\* Mutation: the offsets count from behind the selector.
ParamOffsetWithoutSelector(i) ==
  Total([j \in 1 .. i - 1 |-> ABIStaticSize(program.params[j])])
ParamOffset(i) == 4 + Total([j \in 1 .. i - 1 |->
                                ABIStaticSize(program.params[j])])

(* The values put into an array are discarded: the argument is undefined.  *)
(* Of a string the offset is loaded.                                       *)
LoadParamStatic(i) ==
  LET t == program.params[i]
  IN  CASE t.cat = "array"  -> Lost
        [] t.cat = "string" -> [base |-> NumberAt(calldata.mem, ParamOffset(i))]
        [] OTHER            -> WordAt(calldata.mem, ParamOffset(i), t)

LoadStatic ==
  /\ pc = "static"
  /\ IF Len(args) < Len(program.params)
     THEN /\ args' = Append(args, LoadParamStatic(Len(args) + 1))
          /\ UNCHANGED pc
     ELSE /\ pc' = "dynamic"
          /\ UNCHANGED args
  /\ UNCHANGED <<program, work, calldata, status, returned, result>>

Unloaded == {i \in DOMAIN program.params :
               program.params[i].cat = "string" /\ "base" \in DOMAIN args[i]}

LoadParamDynamic(i) ==
  LET base == args[i].base
      n    == NumberAt(calldata.mem, base + 4)
  IN  IF base + 36 > calldata.size \/ base + 36 + n > calldata.size THEN Trap
      ELSE /\ args' = [args EXCEPT ![i] = DataAt(calldata.mem, base + 36, n)]
           /\ UNCHANGED <<program, pc, work, calldata, status, returned, result>>

LoadDynamic ==
  /\ pc = "dynamic"
  /\ Unloaded # {}
  /\ LoadParamDynamic(CHOOSE i \in Unloaded : \A j \in Unloaded : i <= j)

(* The body of the function; its results are encoded by emitABIStore. *)
Run ==
  /\ pc = "dynamic"
  /\ Unloaded = {}
  /\ IF program.reverts
     THEN EndCallee("revert", Nothing) /\ UNCHANGED work
     ELSE IF program.rets = <<>>
     THEN EndCallee("ok", Nothing) /\ UNCHANGED work
     ELSE /\ pc' = "answer"
          /\ work' = Work(program.rets, program.results,
                          TupleSize(program.rets, program.results))
          /\ UNCHANGED <<status, returned>>
  /\ UNCHANGED <<program, calldata, args, result>>

Finish ==
  /\ Encoded
  /\ pc = "answer"
  /\ EndCallee("ok", [size |-> work.size, mem |-> work.e.out])
  /\ UNCHANGED <<program, work, calldata, args, result>>

----------------------------------------------------------------------------
(* Back in the caller: the status is not looked at. *)

DecodeResult ==
  /\ pc = "decode"
  /\ result' = CASE program.rets = <<>> -> <<>>
                 [] Len(program.rets) = 1 ->
                      <<Decode(returned.mem, 0, program.rets[1]).val>>
                 [] OTHER -> DecodeTuple(returned.mem, 0, program.rets).val
  /\ pc' = "done"
  /\ UNCHANGED <<program, work, calldata, args, status, returned>>

Stopped == /\ \/ pc = "done"
              \/ Packed
              \/ Encoded /\ program.kind = "encode"
           /\ UNCHANGED vars

Next == EmitNextHead \/ EmitNextTail \/ EmitNextPacked \/ Call \/ Dispatch
          \/ LoadStatic \/ LoadDynamic \/ Run \/ Finish \/ DecodeResult
          \/ Stopped

Spec == Init /\ [][Next]_vars /\ WF_vars(Next)

----------------------------------------------------------------------------
(* A type and a value with everything inside them. *)
RECURSIVE Parts(_, _)
Parts(t, v) ==
  {<<t, v>>} \cup
  CASE t.cat = "array"  -> UNION {Parts(t.elem, v.elems[i]) : i \in DOMAIN v.elems}
    [] t.cat = "struct" -> UNION {Parts(t.elems[i], v.elems[i]) : i \in DOMAIN v.elems}
    [] OTHER -> {}
WorkParts == UNION {Parts(work.ts[i], work.vs[i]) : i \in DOMAIN work.ts}

SpacedOut(p)  == p[1].cat = "array" /\ p[1].len > 1 /\ IsDynamic(p[1].elem)
Overrated(p)  == /\ p[1].cat = "array" /\ p[1].elem.cat = "struct"
                 /\ ~ IsDynamic(p[1].elem) /\ p[2].elems # <<>>
Unsigned(p)   == p[1].cat = "int" /\ p[1].bits < 256 /\ p[2].neg
BoolArray(p)  == p[1].cat = "array" /\ p[1].elem = Bool /\ p[2].elems # <<>>

(* abi.encode and the results of a function are the encoding of the ABI    *)
(* specification up to padding (which the code leaves as it finds it),     *)
(* except that an array of fixed length of dynamic elements is spaced out  *)
(* and a negative number narrower than a word loses its sign; and they are *)
(* as long as the specification says but for an array of structs, which is *)
(* longer.  (AbiEmitter::emitEncodeTuple and getEncodeTupleSize.)          *)
EncodingIsStandard ==
  Encoded =>
    LET standard == EncTuple(work.ts, work.vs)
    IN  /\ (work.e.out = standard.out)
             <=> \A p \in WorkParts : ~ SpacedOut(p) /\ ~ Unsigned(p)
        /\ (work.size = standard.size) <=> \A p \in WorkParts : ~ Overrated(p)
        /\ work.size >= standard.size

(* Nothing is written behind the buffer that was allocated from the size   *)
(* computed first, at no step of the encoding, unless an array of fixed    *)
(* length of dynamic elements is encoded; then something is, if no array   *)
(* of structs has made room.  (CGExpr.cpp emitAbiEncode, emitABIStore.)    *)
WritesStayInside ==
  LET outside == \E p \in work.e.out : p.at + p.len > work.size
  IN  /\ outside => \E p \in WorkParts : SpacedOut(p)
      /\ Encoded /\ (\E p \in WorkParts : SpacedOut(p))
            /\ (\A p \in WorkParts : ~ Overrated(p)) => outside

(* abi.encodePacked is what Solidity documents, of that size and not       *)
(* beyond the buffer, except that the elements of an array of bool take a  *)
(* byte instead of a word, and those of an array of narrow integers lose   *)
(* their sign.  (AbiEmitter::emitEncodePacked.)                            *)
PackedIsStandard ==
  Packed =>
    LET standard == EncPackedTuple(work.ts, work.vs, FALSE)
        signs    == \E i \in DOMAIN work.ts :
                       work.ts[i].cat = "array"
                         /\ \E p \in Parts(work.ts[i], work.vs[i]) : Unsigned(p)
    IN  /\ work.size = standard.size
        /\ \A p \in work.e.out : p.at + p.len <= work.size
        /\ (work.e.out = standard.out)
             <=> ~ signs /\ \A p \in WorkParts : ~ BoolArray(p)

(* A function of another contract starts with the arguments the caller     *)
(* gave, in any mixture of static and dynamic ones, except that an array   *)
(* arrives undefined, of bytesN with N < 32 the padding arrives, and a     *)
(* negative argument narrower than its parameter arrives positive.         *)
(* (CodeGenModule::emitABILoad behind emitExternalCall.)                   *)
Arrives(i) ==
  LET t == program.params[i] a == program.argTypes[i]
  IN  /\ t.cat # "array"
      /\ t.cat = "fixedbytes" => t.bits = 256
      /\ t.cat = "int" /\ a.bits < t.bits => ~ program.args[i].neg
ArgumentsArrive ==
  (pc \in {"dynamic", "answer"} /\ Unloaded = {} /\ program.kind = "call") =>
     \A i \in DOMAIN program.params : (args[i] = program.args[i]) <=> Arrives(i)

(* What an external call yields is what the called function returned if    *)
(* and only if it did return (nothing tells the caller of a revert) and    *)
(* the types read back: numbers, bool, address, bytes1 and empty strings,  *)
(* each behind elements of 256 bits or bytesN alone.                       *)
(* (CodeGenFunction::emitExternalCall, AbiEmitter::getDecode.)             *)
RECURSIVE FullWidth(_)
FullWidth(t) == CASE t.cat = "struct" -> \A i \in DOMAIN t.elems : FullWidth(t.elems[i])
                  [] t.cat \in Scalars -> t.cat = "fixedbytes" \/ t.bits = 256
                  [] OTHER -> FALSE
RECURSIVE ReadsBack(_, _)
ReadsBack(ts, vs) ==
  \A i \in DOMAIN ts :
    /\ \A j \in 1 .. i - 1 : FullWidth(ts[j])
    /\ CASE ts[i].cat = "string" -> Len(ts) > 1 /\ vs[i].len = 0
         [] ts[i].cat = "struct" -> ReadsBack(ts[i].elems, vs[i].elems)
         [] ts[i].cat = "fixedbytes" -> ts[i].bits = 8
         [] OTHER -> TRUE
ResultIsFaithful ==
  (pc = "done" /\ program.kind = "call") =>
     ((result = program.results)
        <=> (program.rets = <<>> \/ (status = "ok" /\ ReadsBack(program.rets, program.results))))
=============================================================================
