--------------------------- MODULE StatementOrder ---------------------------
(***************************************************************************)
(* The order in which the statements of a function run, read off its tree. *)
(* A tree t is the sequence of its nodes in the order they are visited,    *)
(* each with its kind k, the node it stands in (up, 0 for the function     *)
(* itself) and the section of that node (sec).                             *)
(***************************************************************************)
EXTENDS Naturals, Sequences, FiniteSetsExt

Kind(t, p) == t[p].k

\* The statements of section s of node p.
Members(t, p, s) == {q \in DOMAIN t : t[q].up = p /\ t[q].sec = s}

Later(t, p) == {q \in Members(t, t[p].up, t[p].sec) : q > p}

\* Node p and those it stands in: what stands in c comes right behind it,
\* and never hangs higher.
Around(t, p) == {c \in 1..p : \A q \in (c + 1)..p : t[q].up >= c}

\* The loop that p stands in.
LoopOf(t, p) ==
  t[Max({c \in Around(t, p) :
           t[c].sec \in {"body", "forbody", "forpost", "asminit"}})].up

\* Every break and continue stands in the body of a loop, as the languages
\* want it; elsewhere it has no meaning.
JumpsInLoops(t) ==
  \A p \in DOMAIN t : Kind(t, p) \in {"brk", "cnt"} =>
    \E c \in Around(t, p) :
      /\ t[c].sec \in {"body", "forbody"}
      /\ \A d \in Around(t, p) :
           d > c => t[d].sec \notin {"fun", "forpost", "asminit"}

\* The labels of a switch, the value that takes none of the cases first.
Cases(t, p)   == {q \in Members(t, p, "switch") : Kind(t, q) = "case"}
Default(t, p) == Members(t, p, "switch") \ Cases(t, p)
NthCase(t, p, i) ==
  CHOOSE q \in Cases(t, p) : Cardinality({r \in Cases(t, p) : r <= q}) = i

Outcomes(t, p) ==
  CASE Kind(t, p) \in {"req", "payable", "if", "ifelse", "while", "do", "for",
                       "asmfor"} -> {1, 2}
    [] Kind(t, p) = "switch"     -> 1..(Cardinality(Cases(t, p)) + 1)
    [] OTHER                     -> {1}

-----------------------------------------------------------------------------
(* Which point comes next when control is at a place: where a section      *)
(* begins, behind a node, or at the value of a switch that no case takes.  *)
(* `next` gives it for other places.                                       *)

Place(at, p, s) == [at |-> at, node |-> p, sec |-> s]
Into(p, s)      == Place("into", p, s)
Behind(p)       == Place("behind", p, "none")
NoCase(p)       == Place("nocase", p, "none")

Sections == {"root", "then", "else", "body", "forbody", "forpost", "asminit",
             "case", "fun", "switch"}

Places(t) ==
  [at : {"into", "behind", "nocase"}, node : 0..Len(t),
   sec : Sections \cup {"none"}]

At(p)    == [st |-> "running", node |-> p]
Returned == [st |-> "return", node |-> 0]
Reverted == [st |-> "revert", node |-> 0]

\* When the statements of a section are done.
SectionEnd(next, p, s) ==
  CASE s \in {"root", "fun"}          -> Returned
    [] s \in {"then", "else", "case"} -> next[Behind(p)]
    [] s = "forbody"                  -> next[Into(p, "forpost")]
    [] OTHER                          -> At(p)

\* When control comes to node p.
Enter(t, next, p) ==
  CASE Kind(t, p) = "revert" -> Reverted
    [] Kind(t, p) = "fun"    -> next[Behind(p)]
    [] Kind(t, p) = "do"     -> next[Into(p, "body")]
    [] Kind(t, p) = "asmfor" -> next[Into(p, "asminit")]
    [] Kind(t, p) = "brk"    -> next[Behind(LoopOf(t, p))]
    [] Kind(t, p) = "cnt"    -> SectionEnd(next, LoopOf(t, p),
                                  IF Kind(t, LoopOf(t, p)) \in {"while", "do"}
                                  THEN "body" ELSE "forbody")
    [] OTHER                 -> At(p)

FromInto(t, next, p, s) ==
  IF Members(t, p, s) = {} THEN SectionEnd(next, p, s)
  ELSE Enter(t, next, Min(Members(t, p, s)))

FromBehind(t, next, p) ==
  CASE p = 0                -> Returned
    [] p # 0 /\ t[p].sec = "switch" -> next[Behind(t[p].up)]
    [] p # 0 /\ t[p].sec # "switch" ->
         IF Later(t, p) # {} THEN Enter(t, next, Min(Later(t, p)))
         ELSE SectionEnd(next, t[p].up, t[p].sec)

FromNoCase(t, next, p) ==
  IF Default(t, p) = {} THEN next[Behind(p)]
  ELSE next[Into(Min(Default(t, p)), "case")]

From(t, next, x) ==
  CASE x.at = "into"   -> FromInto(t, next, x.node, x.sec)
    [] x.at = "behind" -> FromBehind(t, next, x.node)
    [] x.at = "nocase" -> FromNoCase(t, next, x.node)

Point(t) == LET point[x \in Places(t)] == From(t, point, x) IN point

\* The point that follows node p with outcome v; 0 is the function itself.
Follow(t, next, p, v) ==
  IF p = 0 THEN next[Into(0, "root")]
  ELSE LET k == Kind(t, p) IN
    CASE k = "fun"                        -> next[Into(p, "fun")]
      [] k \in {"ret", "leave"}           -> Returned
      [] k = "req" /\ v = 2               -> Reverted
      [] k = "payable" /\ v = 1           -> Reverted
      [] k \in {"if", "ifelse"} /\ v = 1  -> next[Into(p, "then")]
      [] k = "ifelse" /\ v = 2            -> next[Into(p, "else")]
      [] k \in {"while", "do"} /\ v = 1   -> next[Into(p, "body")]
      [] k \in {"for", "forever", "asmfor"} /\ v = 1 -> next[Into(p, "forbody")]
      [] k = "switch" /\ v = 1            -> next[NoCase(p)]
      [] k = "switch" /\ v > 1            -> next[Into(NthCase(t, p, v - 1), "case")]
      [] OTHER                            -> next[Behind(p)]
=============================================================================
