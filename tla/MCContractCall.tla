--------------------------- MODULE MCContractCall ---------------------------
(* Expressions and calls with up to three arguments and two results: every    *)
(* kind of type, strings shorter than a word, of a word and longer, arrays  *)
(* of dynamic size with up to two elements, negative numbers.               *)
EXTENDS ContractCall, FiniteSets

Uint    == IntTy(256, FALSE)
Int256  == IntTy(256, TRUE)
Int64   == IntTy(64, TRUE)
Uint64  == IntTy(64, FALSE)
Bytes1  == FixedBytes(1)
Bytes4  == FixedBytes(4)
Bytes32 == FixedBytes(32)

StringLengths == {0, 5, 32, 33}

(* The values of a type, each scalar and string named by where it stands. *)
RECURSIVE Values(_, _)
TupleValues(ts, id) ==
  LET extend(acc, i) == {Append(s, v) : s \in acc, v \in Values(ts[i], Append(id, i))}
  IN  FoldLeft(extend, {<<>>}, [i \in DOMAIN ts |-> i])
Values(t, id) ==
  CASE t.cat = "string" -> {[id |-> IF n = 0 THEN <<>> ELSE id, len |-> n]
                              : n \in StringLengths}
    [] t.cat = "array"  ->
         LET lengths == IF t.len = Unsized THEN {0, 2} ELSE {t.len}
             all     == UNION {TupleValues([i \in 1 .. n |-> t.elem], id) : n \in lengths}
         IN  {[elems |-> s] : s \in all}
    [] t.cat = "struct" -> {[elems |-> s] : s \in TupleValues(t.elems, id)}
    [] t.cat = "int" /\ t.signed -> {[id |-> id, neg |-> b] : b \in BOOLEAN}
    [] OTHER -> {[id |-> id, neg |-> FALSE]}

Plain   == {Uint, Int64, Bool, Address, Bytes1, Bytes4, Bytes32, String}
Stored  == Plain \cup
           {Array(Int64, Unsized), Array(Uint, 2), Array(Array(Uint, 2), Unsized),
            Array(String, 1), Array(String, 2), Array(Array(Bool, Unsized), 2),
            Struct(<<Int64, Uint>>), Struct(<<String, Array(Uint, 2)>>)}
InMemory == {Array(Struct(<<Uint, Uint>>), 2)}
Packable == Plain \cup {Array(Int64, Unsized), Array(Uint, 2), Array(Bool, 2),
                        Array(Array(Bytes4, 2), Unsized)}
Loadable == Plain \cup {Array(Uint, 2)}

Tuples(S) == {<<s>> : s \in S} \cup (S \X S)
Triples == LET S == {Uint, Int64, String, Array(String, 2)} IN S \X S \X S

Program(kind, argTypes, params, rets) ==
  {[kind |-> kind, argTypes |-> argTypes, args |-> a, params |-> params,
    rets |-> rets, results |-> r, reverts |-> b, selector |-> "f",
    size |-> 0, fallback |-> FALSE]
     : a \in TupleValues(argTypes, <<0>>), r \in TupleValues(rets, <<1>>),
       b \in IF kind = "call" THEN BOOLEAN ELSE {FALSE}}

Expressions ==
  UNION {Program("encode", ts, <<>>, <<>>) : ts \in Tuples(Stored) \cup Tuples(InMemory) \cup Triples}
    \cup UNION {Program("packed", ts, <<>>, <<>>) : ts \in Tuples(Packable)}

Calls ==
  UNION {Program("call", ts, ts, <<>>) : ts \in {<<>>, <<Uint, String, String>>, <<Array(Uint, 2), String, Int64>>}
                                                     \cup Tuples(Loadable)}
    \cup Program("call", <<Int64>>, <<Int256>>, <<Bool>>)
    \cup UNION {Program("call", <<>>, <<>>, ts)
                  : ts \in Tuples(Plain \cup {Struct(<<Uint, Bool>>)})}

PlainCalls ==
  {[kind |-> "plain", argTypes |-> <<>>, args |-> <<>>, params |-> ts,
    rets |-> <<>>, results |-> <<>>, reverts |-> b, selector |-> s,
    size |-> n, fallback |-> f]
     : ts \in {<<>>, <<Uint, String>>}, b \in BOOLEAN, s \in {"f", "g"},
       n \in {0, 3, 4, 36}, f \in BOOLEAN}

MCPrograms == Expressions \cup Calls \cup PlainCalls
=============================================================================
