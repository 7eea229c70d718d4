---------------------------- MODULE ParserCode ----------------------------
(***************************************************************************)
(* The steps that the functions of the parser are made of.                 *)
(*                                                                         *)
(* A function of Parser.cpp, ParseAsm.cpp or ParseYul.cpp is a sequence of *)
(* steps.  It has the current token Tok, a stack of what it has made so    *)
(* far, and it returns one value: a tree, or Null for a null pointer.      *)
(* SolidityParser and YulParser give the functions, Parser runs them.      *)
(***************************************************************************)
EXTENDS Naturals, Sequences

\* A node of the syntax tree; a leaf is a token.
Node(is, kids) == [is |-> is, kids |-> kids]
Token(t) == Node(t, <<>>)
Null == Node("null", <<>>)

(***************************************************************************)
(* Tokens.  One stands for many where the parser does not tell them apart: *)
(* all integer types are uint, bytes1 to bytes32 are bytes32, bytes and    *)
(* string are bytes, fixed and ufixed of all sizes fixed, all numbers 1.   *)
(***************************************************************************)
Name == {"a", "b", "abi", "decode", "revert", "leave", "object", "code", "data"}
Literal == {"1", "true", "'s'"}
Unit == {"ether"}

\* isElementaryTypeName: all keywords from address on, the units among them.
Elementary == {"uint", "bool", "bytes32", "bytes", "address", "byte", "fixed"} \cup Unit
\* Those of them that parseTypeName has no case for, that parsePrimaryExpression
\* casts to, and that parseAsmType knows.
Unread == {"byte", "fixed"} \cup Unit
Castable == {"uint", "bytes", "address"}
AsmType == {"uint", "bool"}

Location == {"memory", "storage", "calldata"}
Visibility == {"public", "private", "internal", "external"}
Mutability == {"constant", "pure", "view", "payable"}
ContractKind == {"contract", "interface", "library"}
UnaryOp == {"!", "~", "++", "--", "delete", "+", "-"}
AssignOp == {"=", "+="}

Paren == {"(", ")"}
Bracket == {"[", "]"}
Brace == {"{", "}"}
String == {"'s'"}
Special == Paren \cup Bracket \cup Brace \cup String

Punctuator == {"(", ")", "[", "]", "{", "}", ".", ",", ";", ":", ":=", "=>", "->",
    "?", "=", "+=", "!", "~", "++", "--", "+", "-", "*", "**", "==", "&&", "||"}

\* Tokens that have no IdentifierInfo: all but identifiers and keywords.
NoIdentifier == Punctuator \cup {"1", "'s'", "eof"}

\* getBinOpPrecedence, for the operators that stand for their level here.
Precedence(t) ==
    CASE t = "||" -> 4
      [] t = "&&" -> 5
      [] t = "==" -> 9
      [] t \in {"+", "-"} -> 12
      [] t \in {"*", "**"} -> 14
      [] OTHER -> 0

(***************************************************************************)
(* Steps that consume.                                                     *)
(***************************************************************************)

\* ConsumeParen, ConsumeToken and so on assert the kind of Tok.
TakeAny == [op |-> "take", kind |-> "any"]
TakeToken == [op |-> "take", kind |-> "token"]
TakeParen == [op |-> "take", kind |-> "paren"]
TakeBracket == [op |-> "take", kind |-> "bracket"]
TakeBrace == [op |-> "take", kind |-> "brace"]
TakeString == [op |-> "take", kind |-> "string"]

\* Tok becomes a leaf and is consumed.
Leaf == [op |-> "leaf", kind |-> "any"]
LeafToken == [op |-> "leaf", kind |-> "token"]
\* The same of a token whose getIdentifierInfo() is dereferenced.
Identifier == [op |-> "identifier"]

\* if (ExpectAndConsume(t)) return nullptr;
Expect(t) == [op |-> "expect", token |-> t, strict |-> TRUE]
\* ExpectAndConsume(t); whatever it returns
Want(t) == [op |-> "expect", token |-> t, strict |-> FALSE]
\* if (ExpectAndConsumeSemi()) return nullptr;
ExpectSemi == [op |-> "semi"]

(***************************************************************************)
(* Steps that branch.  A case is a sequence of sets, for Tok and for the   *)
(* tokens behind it, and the steps to take if they match.                  *)
(***************************************************************************)
On(cases, otherwise) == [op |-> "on", cases |-> cases, otherwise |-> otherwise]
When(ahead, body) == On(<< <<ahead, body>> >>, <<>>)
If(ahead, body, otherwise) == On(<< <<ahead, body>> >>, otherwise)

While(tokens, body) == [op |-> "loop", tokens |-> tokens, in |-> TRUE, body |-> body]
Until(tokens, body) == [op |-> "loop", tokens |-> tokens, in |-> FALSE, body |-> body]

\* If the top of the stack is a null pointer, it is dropped and body taken.
WhenNull(body) == [op |-> "whenNull", body |-> body]

(***************************************************************************)
(* Steps on the stack.                                                     *)
(***************************************************************************)
Push(v) == [op |-> "push", value |-> v]
Drop == [op |-> "drop"]
\* A function is called without an argument, or with the top of the stack.
Call(f) == [op |-> "call", fun |-> f, pass |-> FALSE]
Pass(f) == [op |-> "call", fun |-> f, pass |-> TRUE]
\* The top of the stack is dereferenced.
Deref == [op |-> "deref"]
\* The top n become one node, or all of them in a node that is returned.
Fold(is, n) == [op |-> "fold", is |-> is, n |-> n]
FoldAll(is) == [op |-> "foldAll", is |-> is]
Give(is) == [op |-> "give", is |-> is]
\* The top of the stack is returned, or a null pointer.
Return == [op |-> "return"]
ReturnNull == [op |-> "null"]

\* A diagnostic; an assertion that fails.
Report == [op |-> "report"]
Fail == [op |-> "fail"]

\* Steps that only one or two functions take; Parser says what they do.
Step(name) == [op |-> name]
=============================================================================
