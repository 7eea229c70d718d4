---------------------------- MODULE ContractTypes ----------------------------
(***************************************************************************)
(* The types of Type.h that the code of a contract keeps apart: a type is  *)
(* a record with its category, and what the category has.                  *)
(***************************************************************************)
EXTENDS Integers, Sequences, SequencesExt

Unsized == 0            \* the length of an array of dynamic size

IntTy(bits, signed) == [cat |-> "int", bits |-> bits, signed |-> signed]
Bool              == [cat |-> "bool", bits |-> 1]
Address           == [cat |-> "address", bits |-> 160]
FixedBytes(n)     == [cat |-> "fixedbytes", bits |-> 8 * n]
String            == [cat |-> "string"]
Array(elem, len)  == [cat |-> "array", elem |-> elem, len |-> len]
Struct(elems)     == [cat |-> "struct", elems |-> elems]

Scalars == {"int", "bool", "address", "fixedbytes"}

Total(s) ==
  LET sum[i \in 0 .. Len(s)] == IF i = 0 THEN 0 ELSE sum[i - 1] + s[i]
  IN  sum[Len(s)]
=============================================================================
