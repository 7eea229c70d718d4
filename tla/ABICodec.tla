------------------------------ MODULE ABICodec ------------------------------
(***************************************************************************)
(* The code AbiEmitter generates for the contract ABI: how much room an    *)
(* encoding is given, what is written where, and what is read back, next   *)
(* to the encoding that the contract ABI specification prescribes.         *)
(*                                                                         *)
(* A scalar value is a name and whether it is negative, a string or bytes  *)
(* a name and a length, an array or a struct the record of its elements.   *)
(* Memory and call data are sets of pieces: so many bytes at such a place  *)
(* holding such a thing.  Distances are bytes, as in the code; the contents *)
(* of a string and the digits of a number are abstracted to the name of    *)
(* the value.                                                              *)
(* The target is Ewasm, where emitEndianConvert makes every word big       *)
(* endian and the store of an integer of n bits writes n / 8 bytes.        *)
(***************************************************************************)
EXTENDS ContractTypes

----------------------------------------------------------------------------
(* Types. *)

RECURSIVE IsDynamic(_)
IsDynamic(t) ==
  CASE t.cat = "string" -> TRUE
    [] t.cat = "array"  -> t.len = Unsized \/ IsDynamic(t.elem)
    [] t.cat = "struct" -> \E i \in DOMAIN t.elems : IsDynamic(t.elems[i])
    [] OTHER            -> FALSE

(* A struct counts a head and a tail for every element, a static one too. *)
RECURSIVE ABIStaticSize(_)
ABIStaticSize(t) ==
  CASE t.cat = "array" /\ t.len # Unsized -> t.len * ABIStaticSize(t.elem)
    [] t.cat = "struct" -> Total([i \in DOMAIN t.elems |->
                                     32 + ABIStaticSize(t.elems[i])])
    [] OTHER -> 32

----------------------------------------------------------------------------
(* Pieces of memory.  A number takes a word ("full"), a word whose upper   *)
(* part should be ones and is zero ("zext"), or only its own bytes ("raw").*)

Piece(at, len, kind, id, n) ==
  [at |-> at, len |-> len, kind |-> kind, id |-> id, n |-> n]
Number(at, n)   == Piece(at, 32, "num", <<>>, n)
Data(at, v)     == IF v.len = 0 THEN {} ELSE {Piece(at, v.len, "data", v.id, v.len)}
Shift(out, d)   == {[p EXCEPT !.at = @ + d] : p \in out}
RoundUp(n)      == ((n + 31) \div 32) * 32

Sign(v) == IF v.neg THEN 1 ELSE 0

(* CreateZExtOrTrunc of a loaded value to 256 bits. *)
Extended(at, t, v) ==
  Piece(at, 32, IF v.neg /\ t.bits < 256 THEN "zext" ELSE "full", v.id, Sign(v))

(* copyToInt8Ptr of a value that is not extended. *)
RawWord(at, t, v) ==    \* Mutation: stored as a word all the same.
  Piece(at, 32, IF t.bits = 256 THEN "full" ELSE "raw", v.id, Sign(v))
Raw(at, t, v) ==
  Piece(at, t.bits \div 8, IF t.bits = 256 THEN "full" ELSE "raw", v.id, Sign(v))

----------------------------------------------------------------------------
(* The size the generated code computes before it encodes. *)

RECURSIVE EncodeSize(_, _)

\* Mutation: the words for the offsets are forgotten.
TupleSizeOfElements(ts, vs) ==
  Total([i \in DOMAIN ts |-> EncodeSize(ts[i], vs[i])])
TupleSize(ts, vs) ==
  Total([i \in DOMAIN ts |->
           (IF IsDynamic(ts[i]) THEN 32 ELSE 0) + EncodeSize(ts[i], vs[i])])

EncodeSize(t, v) ==
  CASE t.cat = "string" -> ((v.len + 63) \div 32) * 32
    [] t.cat = "array"  ->
         LET length == IF t.len = Unsized THEN 32 ELSE 0
         IN  IF ~ IsDynamic(t.elem)
             THEN length + Len(v.elems) * ABIStaticSize(t.elem)
             ELSE length + 32 * Len(v.elems)
                    + Total([i \in DOMAIN v.elems |-> EncodeSize(t.elem, v.elems[i])])
    [] t.cat = "struct" -> TupleSize(t.elems, v.elems)
    [] OTHER            -> ABIStaticSize(t)

(* What the generated code writes.  An emitter is the place it has reached *)
(* and the pieces behind it.                                               *)

Emitter(at) == [at |-> at, out |-> {}]
Put(e, p)   == [at |-> p.at + p.len, out |-> e.out \cup {p}]

RECURSIVE EmitEncode(_, _, _)

EmitString(e, v) ==
  [at  |-> e.at + 32 + v.len + ((32 - (v.len % 32)) % 32),
   out |-> e.out \cup {Number(e.at, v.len)} \cup Data(e.at + 32, v)]

(* The elements of an array with dynamic elements have their offsets in    *)
(* front; the code leaves as many ABIStaticSize(t) for them as there are   *)
(* elements.                                                               *)
EmitArray(e, t, v) ==
  LET begin == e.at + (IF t.len = Unsized THEN 32 ELSE 0)
      out   == e.out \cup (IF t.len = Unsized THEN {Number(e.at, Len(v.elems))}
                                              ELSE {})
      tail  == IF IsDynamic(t.elem) THEN begin + Len(v.elems) * ABIStaticSize(t)
                                    ELSE begin
      Element(acc, i) ==
        LET head == IF IsDynamic(t.elem)
                    THEN {Number(begin + 32 * (i - 1), acc.at - begin)}
                    ELSE {}
        IN  EmitEncode([acc EXCEPT !.out = @ \cup head], t.elem, v.elems[i])
  IN  FoldLeft(Element, [at |-> tail, out |-> out], [i \in DOMAIN v.elems |-> i])

(* The first pass over a tuple writes the static elements and leaves a word*)
(* for each dynamic one, the second fills the words and appends the rest.  *)
DynamicOf(ts) == SelectSeq([i \in DOMAIN ts |-> i], LAMBDA i : IsDynamic(ts[i]))
EmitHead(e, t, v) == IF IsDynamic(t) THEN [e EXCEPT !.at = @ + 32]
                                     ELSE EmitEncode(e, t, v)
\* Mutation: the offset counts from the start of the buffer.
EmitTailFromStart(e, begin, head, t, v) ==
  EmitEncode([e EXCEPT !.out = @ \cup {Number(head, e.at)}], t, v)
EmitTail(e, begin, head, t, v) ==
  EmitEncode([e EXCEPT !.out = @ \cup {Number(head, e.at - begin)}], t, v)

EmitTuple(e, ts, vs) ==
  LET first(acc, i)  == Append(acc, EmitHead(acc[i], ts[i], vs[i]))
      places         == FoldLeft(first, <<e>>, [i \in DOMAIN ts |-> i])
      second(acc, i) == EmitTail(acc, e.at, places[i].at, ts[i], vs[i])
  IN  FoldLeft(second, Last(places), DynamicOf(ts))

EmitEncode(e, t, v) ==
  CASE t.cat = "string"     -> EmitString(e, v)
    [] t.cat = "array"      -> EmitArray(e, t, v)
    [] t.cat = "struct"     -> EmitTuple(e, t.elems, v.elems)
    [] t.cat = "fixedbytes" -> [at  |-> e.at + 32,
                                out |-> e.out \cup {Raw(e.at, t, v)}]
    [] OTHER                -> Put(e, Extended(e.at, t, v))

----------------------------------------------------------------------------
(* abi.encodePacked: no padding and no lengths, but the elements of arrays *)
(* have a word each.                                                       *)

RECURSIVE EncodePackedSize(_, _)
EncodePackedSize(t, v) ==
  CASE t.cat = "string" -> v.len
    [] t.cat = "array"  ->
         IF ~ IsDynamic(t.elem) THEN Len(v.elems) * ABIStaticSize(t.elem)
         ELSE Total([i \in DOMAIN v.elems |-> EncodePackedSize(t.elem, v.elems[i])])
    [] t.cat = "bool"   -> 1
    [] OTHER            -> t.bits \div 8

PackedTupleSize(ts, vs) ==
  Total([i \in DOMAIN ts |-> EncodePackedSize(ts[i], vs[i])])

RECURSIVE EmitPacked(_, _, _, _)
EmitPacked(e, t, v, inArray) ==
  CASE t.cat = "string" -> [at |-> e.at + v.len, out |-> e.out \cup Data(e.at, v)]
    [] t.cat = "array"  ->
         LET Element(acc, i) == EmitPacked(acc, t.elem, v.elems[i], TRUE)
         IN  FoldLeft(Element, e, [i \in DOMAIN v.elems |-> i])
    [] t.cat = "bool"   -> Put(e, Piece(e.at, 1, "raw", v.id, 0))
    [] t.cat = "fixedbytes" /\ inArray ->
         [at |-> e.at + 32, out |-> e.out \cup {Raw(e.at, t, v)}]
    [] t.cat = "fixedbytes" /\ ~ inArray -> Put(e, Raw(e.at, t, v))
    [] OTHER -> Put(e, IF inArray THEN Extended(e.at, t, v) ELSE Raw(e.at, t, v))

----------------------------------------------------------------------------
(* Reading.  What comes back is the value that was written, or Lost: other *)
(* bytes than those of one value, or not all of them.                      *)

Lost        == [id |-> <<>>, lost |-> TRUE]
EmptyString == [id |-> <<>>, len |-> 0]

(* CreateZExtOrTrunc of the word at a place to the bits of a type: a value *)
(* in a whole word survives it, and ones missing above its own bits are not*)
(* missed; of bytes at the upper end of a word only the padding is left.   *)
WordAt(mem, at, t) ==
  LET here == {p \in mem : /\ p.at = at
                           /\ p.kind = "full" \/ (p.kind = "zext" /\ t.bits < 256)}
  IN  IF here = {} THEN Lost
      ELSE LET p == CHOOSE q \in here : TRUE IN [id |-> p.id, neg |-> p.n = 1]

NumberAt(mem, at) ==
  LET here == {p \in mem : p.at = at /\ p.kind = "num"}
  IN  IF here = {} THEN -1 ELSE (CHOOSE p \in here : TRUE).n

DataAt(mem, at, n) ==
  IF n = 0 THEN EmptyString
  ELSE LET here == {p \in mem : p.at = at /\ p.kind = "data" /\ p.len = n}
       IN  IF here = {} THEN Lost
           ELSE [id |-> (CHOOSE p \in here : TRUE).id, len |-> n]

(* getDecode: the value and how far the pointer moved.  It moves by the    *)
(* width of the value, not by the word the value stands in; the bytes of a *)
(* bytesN are not brought into the machine's order.                        *)
Int32 == IntTy(32, TRUE)
StepOfBits(t) == IF t.cat = "fixedbytes" THEN 32 ELSE t.bits    \* Mutation.
Step(t) == IF t.cat = "fixedbytes" THEN 32 ELSE t.bits \div 8

RECURSIVE Decode(_, _, _)

DecodeTuple(mem, at, ts) ==
  LET Width(t)    == IF IsDynamic(t) THEN Step(Int32)
                     ELSE Decode(mem, at, t).next - at
      Place(i)    == at + Total([j \in 1 .. i - 1 |-> Width(ts[j])])
      Element(i)  == IF IsDynamic(ts[i])
                     THEN IF NumberAt(mem, Place(i)) < 0 THEN Lost
                          ELSE Decode(mem, at + NumberAt(mem, Place(i)), ts[i]).val
                     ELSE Decode(mem, Place(i), ts[i]).val
  IN  [val  |-> [i \in DOMAIN ts |-> Element(i)], next |-> Place(Len(ts) + 1)]

Decode(mem, at, t) ==
  CASE t.cat = "string" ->
         LET n == NumberAt(mem, at)
         IN  [val  |-> IF n < 0 THEN Lost ELSE DataAt(mem, at + Step(Int32), n),
              next |-> at + Step(Int32) + RoundUp(n)]
    [] t.cat = "struct" ->
         LET d == DecodeTuple(mem, at, t.elems)
         IN  [val |-> [elems |-> d.val], next |-> d.next]
    [] t.cat = "fixedbytes" ->
         [val |-> IF t.bits = 8 /\ \E p \in mem : p.at = at /\ p.kind = "raw"
                  THEN LET p == CHOOSE q \in mem : q.at = at /\ q.kind = "raw"
                       IN  [id |-> p.id, neg |-> FALSE]
                  ELSE Lost,
          next |-> at + 32]
    [] OTHER -> [val |-> WordAt(mem, at, t), next |-> at + Step(t)]

----------------------------------------------------------------------------
(* The encoding the contract ABI specification prescribes, from its        *)
(* recursive definition: heads, then tails; the padding has no piece.      *)

RECURSIVE Enc(_, _)

HeadSize(t, v) == IF IsDynamic(t) THEN 32 ELSE Enc(t, v).size

EncTuple(ts, vs) ==
  LET heads == Total([i \in DOMAIN ts |-> HeadSize(ts[i], vs[i])])
      head(i) == Total([j \in 1 .. i - 1 |-> HeadSize(ts[j], vs[j])])
      tail(i) == heads + Total([j \in 1 .. i - 1 |->
                     IF IsDynamic(ts[j]) THEN Enc(ts[j], vs[j]).size ELSE 0])
      element(i) == IF IsDynamic(ts[i])
                    THEN {Number(head(i), tail(i))}
                           \cup Shift(Enc(ts[i], vs[i]).out, tail(i))
                    ELSE Shift(Enc(ts[i], vs[i]).out, head(i))
  IN  [size |-> tail(Len(ts) + 1), out |-> UNION {element(i) : i \in DOMAIN ts}]

Enc(t, v) ==
  CASE t.cat = "string" ->
         [size |-> 32 + RoundUp(v.len), out |-> {Number(0, v.len)} \cup Data(32, v)]
    [] t.cat = "array"  ->
         LET all == EncTuple([i \in DOMAIN v.elems |-> t.elem], v.elems)
         IN  IF t.len = Unsized
             THEN [size |-> 32 + all.size,
                   out  |-> {Number(0, Len(v.elems))} \cup Shift(all.out, 32)]
             ELSE all
    [] t.cat = "struct" -> EncTuple(t.elems, v.elems)
    [] t.cat = "fixedbytes" -> [size |-> 32, out |-> {Raw(0, t, v)}]
    [] OTHER -> [size |-> 32, out |-> {Piece(0, 32, "full", v.id, Sign(v))}]

(* The packed encoding that Solidity documents. *)
RECURSIVE EncPacked(_, _, _)
EncPackedTuple(ts, vs, inArray) ==
  LET at(i) == Total([j \in 1 .. i - 1 |-> EncPacked(ts[j], vs[j], inArray).size])
  IN  [size |-> at(Len(ts) + 1),
       out  |-> UNION {Shift(EncPacked(ts[i], vs[i], inArray).out, at(i))
                         : i \in DOMAIN ts}]

EncPacked(t, v, inArray) ==
  CASE t.cat = "string" -> [size |-> v.len, out |-> Data(0, v)]
    [] t.cat = "array"  -> EncPackedTuple([i \in DOMAIN v.elems |-> t.elem], v.elems, TRUE)
    [] t.cat \in Scalars /\ inArray -> Enc(t, v)
    [] t.cat = "bool" /\ ~ inArray -> [size |-> 1, out |-> {Piece(0, 1, "raw", v.id, 0)}]
    [] OTHER -> [size |-> t.bits \div 8, out |-> {Raw(0, t, v)}]
=============================================================================
