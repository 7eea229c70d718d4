--------------------------- MODULE MCContractCode ---------------------------
(* The code of a contract: a run is one of its calls or expressions, as in *)
(* MCContractCall, or assignments to its state variables.                  *)
EXTENDS MCContractCall, StateStorage

\* Types of state variables in words of 9 bits: as wide as a word, narrower
\* ones that share it, strings, and what is built from them.
W    == IntTy(9, FALSE)
N    == IntTy(4, FALSE)
Two  == IntTy(2, FALSE)
Pair == Struct(<<W, String>>)
Map(t) == Mapping("key", t)

VariableSets == {
  <<W, String, N>>, <<String, W>>, <<Map(W), Map(W)>>, <<Map(String), W>>,
  <<Map(Map(W))>>, <<Map(Pair)>>, <<Map(Array(W, 2)), W>>, <<Map(Array(W, Unsized))>>,
  <<Array(W, 2), W>>, <<Array(N, 3), W>>, <<Array(Two, 5), Bool>>, <<Array(Bool, 3), Bool>>,
  <<Array(Array(W, 2), 2)>>, <<Array(Array(W, 2), 1), W>>, <<Array(Array(N, 2), 2), W>>,
  <<Array(Map(W), 2), W>>, <<Array(W, Unsized), W>>,
  <<Pair>>, <<Pair, Pair>>, <<Struct(<<W>>), W>>, <<W, Struct(<<W, W>>)>>,
  <<Struct(<<Pair, W>>)>>, <<Struct(<<W, Pair>>)>>, <<Struct(<<Array(W, 2), W>>)>>,
  <<Struct(<<W>>), Array(W, Unsized)>>,
  <<Struct(<<>>), W>>, <<Struct(<<W>>), Struct(<<>>)>>,
  <<Array(Array(Array(W, 2), 2), 1)>>, <<Array(Map(Struct(<<Pair, W>>)), 1)>>}

\* Indices wide enough for every length but in the second set.
MCContracts ==
  {[vars |-> vs, indexBits |-> 8] : vs \in VariableSets}
    \cup {[vars |-> <<Array(W, 4)>>, indexBits |-> b] : b \in {1, 2, 3}}

\* What is inside the variables, by depth.
InsideOf(t) == {p.type : p \in Components(t, 1)}
MCTypes ==
  LET level[d \in 0 .. MaxDepth] ==
        IF d = 0 THEN UNION {Range(c.vars) : c \in MCContracts}
                 ELSE UNION {InsideOf(t) : t \in level[d - 1]}
  IN  level

MCStrings == {<<>>, <<0>>, <<1, 2>>, <<1, 2, 1, 2>>}

\* While one of the two runs, the other stands still.
NoProgram  == [kind |-> "none"]
NoContract == [vars |-> <<>>]

CallsOnly ==
  /\ Init
  /\ contract = NoContract
  /\ layout = <<>> /\ cursor = 0 /\ storage = <<>> /\ held = <<>> /\ dirty = {}
  /\ last = [loc |-> <<>>, ok |-> TRUE]
  /\ assigns = 0
StorageOnly ==
  /\ StorageInit
  /\ program = NoProgram
  /\ pc = "done"
  /\ work = Idle
  /\ calldata = [size |-> 0, selector |-> "f", mem |-> {}]
  /\ args = <<>> /\ status = "running" /\ returned = Nothing /\ result = <<>>

MCInit == CallsOnly \/ StorageOnly
MCNext == \/ contract = NoContract /\ Next /\ UNCHANGED storageVars
          \/ program = NoProgram /\ StorageNext /\ UNCHANGED vars
=============================================================================
