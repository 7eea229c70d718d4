---------------------------- MODULE InheritNodes ----------------------------
(***************************************************************************)
(* Sema::resolveInherit after the linearisation, and resolveUniqueName:    *)
(* the checks of DeclContractKindChecker, the members that                 *)
(* InjectInheritContract hands from base to heir, and the names under      *)
(* which the functions are emitted.                                        *)
(*                                                                         *)
(* A member is <<c, i>>: the i-th sub node of contract c.                  *)
(***************************************************************************)
EXTENDS Linearization

CONSTANTS
  Programs(_), \* bound: the contract kinds and members considered with bases
  Names,      \* names of members
  NoContract  \* no contract

Decls ==
  [kind : {"fun"}, name : Names, virtual : BOOLEAN, override : BOOLEAN,
   vis : {"external", "public", "internal", "private"},
   mut : {"nonpayable", "view", "pure", "payable"}]
  \cup [kind : {"var", "event"}, name : Names]

ASSUME NoContractAssumption == NoContract \notin Contracts
ASSUME ProgramsAssumption ==
  \A g \in Graphs : \A p \in Programs(g) :
    /\ p.kind \in [Contracts -> {"contract", "interface"}]
    /\ p.ctors \subseteq Contracts
    /\ p.members \in [Contracts -> Seq(Decls)]

VARIABLES
  prog,     \* kind: contract -> "contract" or "interface"; ctors: those with
            \* a constructor; members: contract -> its sub nodes
  virt,     \* the functions that are virtual
  errs,     \* the diagnostics, [e, at]
  topoLeft, \* the contracts of ToplogicOrderContracts still to come
  cont,     \* the contract whose members are collected
  todo,     \* the members still to be injected, of the most basic base first
  result,   \* DeclResult
  inherit,  \* contract -> InheritNodes
  unnamed,  \* the contracts that DeclUniqueNameResolver has not visited
  uname,    \* member -> the contract in its unique name
  stage     \* "solve", "kinds", "inject", "names", "done", or "undefined"

pvars == <<prog, virt, errs, topoLeft, cont, todo, result, inherit, unnamed,
           uname, stage>>
ivars == <<vars, pvars>>

Member(m) == prog.members[m[1]][m[2]]
SubNodes(c) == [i \in DOMAIN prog.members[c] |-> <<c, i>>]
Members == UNION {ToSet(SubNodes(c)) : c \in Contracts}
Functions == {m \in Members : Member(m).kind = "fun"}

Error(e, m) == [e |-> e, at |-> m]
If(failed, error) == IF failed THEN {error} ELSE {}

-----------------------------------------------------------------------------
(* The end of solve(), then DeclContractKindChecker. *)

Resolve ==
  /\ stage = "solve" /\ pc # "solve"
  /\ stage' = IF pc = "ok" THEN "kinds" ELSE "names"
  /\ UNCHANGED <<vars, prog, virt, errs, topoLeft, cont, todo, result, inherit,
                 unnamed, uname>>

Interfaces == {c \in Contracts : prog.kind[c] = "interface"}

CheckKinds ==
  LET own == {m \in Functions : m[1] \in Interfaces}
      v   == virt \cup own
  IN /\ stage = "kinds"
     /\ virt' = v
     /\ errs' = errs
          \cup {Error("interface_base", <<c, 0>>) : c \in
                  {d \in Interfaces : ~(ToSet(bases[d]) \subseteq Interfaces)}}
          \cup {Error("interface_not_external", m) : m \in
                  {f \in own : Member(f).vis # "external"}}
          \cup {Error("interface_ctor", <<c, 0>>) : c \in
                  Interfaces \cap prog.ctors}
          \cup {Error("interface_var", m) : m \in
                  {x \in Members : x[1] \in Interfaces /\ Member(x).kind = "var"}}
          \cup {Error("private_virtual", m) : m \in
                  {f \in v : Member(f).vis = "private"}}
     /\ topoLeft' = topo
     /\ stage' = "inject"
     /\ UNCHANGED <<vars, prog, cont, todo, result, inherit, unnamed, uname>>

-----------------------------------------------------------------------------
(* The loop of resolveInherit over the contracts in topological order.  The *)
(* bases come from the end of the linearisation, the contract comes last.   *)

\* Mutant: the linearisation is not reversed.
NextContractForward ==
  /\ stage = "inject" /\ cont = NoContract /\ topoLeft # <<>>
  /\ cont' = Head(topoLeft)
  /\ topoLeft' = Tail(topoLeft)
  /\ todo' = FlattenSeq([i \in DOMAIN resolved[Head(topoLeft)] |->
                           SubNodes(resolved[Head(topoLeft)][i])])
  /\ result' = <<>>
  /\ UNCHANGED <<vars, prog, virt, errs, inherit, unnamed, uname, stage>>

NextContract ==
  /\ stage = "inject" /\ cont = NoContract /\ topoLeft # <<>>
  /\ cont' = Head(topoLeft)
  /\ topoLeft' = Tail(topoLeft)
  /\ todo' = FlattenSeq([i \in DOMAIN resolved[Head(topoLeft)] |->
                           SubNodes(Reverse(resolved[Head(topoLeft)])[i])])
  /\ result' = <<>>
  /\ UNCHANGED <<vars, prog, virt, errs, inherit, unnamed, uname, stage>>

Child == Head(todo)
SameName == {i \in DOMAIN result : Member(result[i]).name = Member(Child).name}
Parent == result[Min(SameName)]

\* One round of the loop of InjectInheritContract.
Injecting(kinds) ==
  /\ stage = "inject" /\ todo # <<>>
  /\ IF SameName = {} THEN "none" \in kinds ELSE Member(Parent).kind \in kinds

\* The child, unless it is a member of the contract itself.
AppendTo(nodes) ==
  /\ result' = IF Child[1] # cont THEN Append(nodes, Child) ELSE nodes
  /\ todo' = Tail(todo)
  /\ UNCHANGED <<vars, prog, virt, topoLeft, cont, inherit, unnamed, uname,
                 stage>>

InjectNew ==
  /\ Injecting({"none"})
  /\ AppendTo(result)
  /\ UNCHANGED errs

\* Mutant: the cases of the switch do not fall through.
MayBecomeTheSame ==
  [nonpayable |-> {"nonpayable"}, view |-> {"view"}, pure |-> {"pure"},
   payable |-> {"payable"}]

\* What a function of the given mutability may be overridden by.
MayBecome ==
  [nonpayable |-> {"nonpayable", "view", "pure"},
   view       |-> {"view", "pure"},
   pure       |-> {"pure"},
   payable    |-> {"payable"}]

\* Only external to public is allowed.
VisibilityMatches(p, c) == p = c \/ (p = "external" /\ c = "public")

\* Mutant: the overridden function is not erased.
InjectOverrideBeside ==
  /\ Injecting({"fun"}) /\ Member(Child).kind = "fun"
  /\ LET p == Member(Parent)  c == Member(Child)
     IN errs' = errs
          \cup If(~c.override, Error("override_missing", Child))
          \cup If(Parent \notin virt, Error("virtual_missing", Parent))
          \cup If(~VisibilityMatches(p.vis, c.vis), Error("visibility", Child))
          \cup If(c.mut \notin MayBecome[p.mut], Error("mutability", Child))
  /\ AppendTo(result)

InjectOverride ==
  /\ Injecting({"fun"}) /\ Member(Child).kind = "fun"
  /\ LET p == Member(Parent)  c == Member(Child)
     IN errs' = errs
          \cup If(~c.override, Error("override_missing", Child))
          \cup If(Parent \notin virt, Error("virtual_missing", Parent))
          \cup If(~VisibilityMatches(p.vis, c.vis), Error("visibility", Child))
          \cup If(c.mut \notin MayBecome[p.mut], Error("mutability", Child))
  /\ AppendTo(RemoveAt(result, Min(SameName)))

\* The other branch of the dynamic_cast reports at the location of the null
\* pointer that the cast returned.
OverrideByOther ==
  /\ Injecting({"fun"}) /\ Member(Child).kind # "fun"
  /\ stage' = "undefined"
  /\ UNCHANGED <<vars, prog, virt, errs, topoLeft, cont, todo, result, inherit,
                 unnamed, uname>>

InjectOverVar ==
  /\ Injecting({"var"})
  /\ errs' = errs \cup {Error("var_overridden", Child)}
  /\ AppendTo(result)

\* A parent that is neither function nor variable stays beside the child.
InjectBeside ==
  /\ Injecting({"event"})
  /\ AppendTo(result)
  /\ UNCHANGED errs

EndContract ==
  /\ stage = "inject" /\ cont # NoContract /\ todo = <<>>
  /\ inherit' = [inherit EXCEPT ![cont] = result]
  /\ cont' = NoContract
  /\ UNCHANGED <<vars, prog, virt, errs, topoLeft, todo, result, unnamed, uname,
                 stage>>

Injected ==
  /\ stage = "inject" /\ cont = NoContract /\ topoLeft = <<>>
  /\ stage' = "names"
  /\ UNCHANGED <<vars, prog, virt, errs, topoLeft, cont, todo, result, inherit,
                 unnamed, uname>>

-----------------------------------------------------------------------------
(* DeclUniqueNameResolver visits the contracts in the order of the source, *)
(* which may be any, and in each of them InheritNodes and SubNodes; a      *)
(* contract without either is not worth a step.                            *)

Visible(c) == inherit[c] \o SubNodes(c)

NameMembers ==
  /\ stage = "names"
  /\ \E c \in unnamed :
       /\ Visible(c) # <<>>
       /\ uname' = [m \in Members |->
                      IF m \in ToSet(Visible(c)) THEN c ELSE uname[m]]
       /\ unnamed' = unnamed \ {c}
  /\ UNCHANGED <<vars, prog, virt, errs, topoLeft, cont, todo, result, inherit,
                 stage>>

Named ==
  /\ stage = "names" /\ \A c \in unnamed : Visible(c) = <<>>
  /\ stage' = "done"
  /\ UNCHANGED <<vars, prog, virt, errs, topoLeft, cont, todo, result, inherit,
                 unnamed, uname>>

Over == stage \in {"done", "undefined"} /\ UNCHANGED ivars

-----------------------------------------------------------------------------
InitNodes ==
  /\ Init
  /\ prog \in Programs(bases)
  /\ virt = {m \in Functions : Member(m).virtual}
  /\ errs = {} /\ topoLeft = <<>> /\ cont = NoContract
  /\ todo = <<>> /\ result = <<>>
  /\ inherit = [c \in Contracts |-> <<>>]
  /\ unnamed = Contracts
  /\ uname = [m \in Members |-> NoContract]
  /\ stage = "solve"

Solve ==
  /\ NextRoot \/ Descend \/ JoinBase \/ JoinOwnBases \/ Take \/ Stuck \/ Merged
     \/ Solved
  /\ UNCHANGED pvars

NextNodes ==
  \/ Solve \/ Resolve \/ CheckKinds
  \/ NextContract \/ InjectNew \/ InjectOverride \/ OverrideByOther
  \/ InjectOverVar \/ InjectBeside \/ EndContract \/ Injected
  \/ NameMembers \/ Named \/ Over

SpecNodes == InitNodes /\ [][NextNodes]_ivars /\ WF_ivars(NextNodes)

-----------------------------------------------------------------------------
(* Properties. *)

Accepted == stage = "done" /\ pc = "ok" /\ errs = {}

\* The linearisation of a contract, also of one without bases or heirs.
LineOf(c) == IF resolved[c] = <<>> THEN <<c>> ELSE resolved[c]

\* The functions and variables that c has or inherits.
Declared(c) ==
  {m \in Members : m[1] \in ToSet(LineOf(c)) /\ Member(m).kind # "event"}

Same(m, x) == Member(m).name = Member(x).name
Nearer(c, m, x) == Before(LineOf(c), m[1], x[1])

MostDerived(c, m) == \A x \in Declared(c) : x # m /\ Same(m, x) => Nearer(c, m, x)

\* For c, m is what comes next over p.
Redeclares(c, m, p) ==
  /\ Same(m, p) /\ Nearer(c, m, p)
  /\ ~\E x \in Declared(c) : Same(m, x) /\ Nearer(c, m, x) /\ Nearer(c, x, p)

\* No overloading, and no event with the name of a function or variable.
NamesApart ==
  \A m, x \in Members : Same(m, x) =>
    /\ m[1] = x[1] => m = x
    /\ Member(m).kind = "event" <=> Member(x).kind = "event"

Solid(nodes) == {i \in DOMAIN nodes : Member(nodes[i]).kind # "event"}

\* What scopes, types and the dispatcher see of a contract is, for each
\* name, exactly one declaration: the most derived one, which is its own if
\* it has one.
VisibleAreMostDerived ==
  Accepted /\ NamesApart =>
    \A c \in Contracts :
      /\ {Visible(c)[i] : i \in Solid(Visible(c))}
           = {m \in Declared(c) : MostDerived(c, m)}
      /\ \A i, j \in Solid(Visible(c)) :
           Same(Visible(c)[i], Visible(c)[j]) => i = j

IsVirtual(m) == Member(m).virtual \/ m[1] \in Interfaces

Licensed(p, c) ==
  /\ Member(p).kind = "fun" /\ Member(c).kind = "fun"
  /\ IsVirtual(p) /\ Member(c).override
  /\ \/ Member(p).vis = Member(c).vis
     \/ Member(p).vis = "external" /\ Member(c).vis = "public"
  /\ \/ Member(p).mut = Member(c).mut
     \/ Member(p).mut # "payable" /\ Member(c).mut = "pure"
     \/ Member(p).mut = "nonpayable" /\ Member(c).mut = "view"

SoundInterface(c) ==
  /\ ToSet(bases[c]) \subseteq Interfaces
  /\ c \notin prog.ctors
  /\ \A m \in Members : m[1] = c => Member(m).kind # "var"
  /\ \A m \in Functions : m[1] = c => Member(m).vis = "external"

SoundKinds ==
  /\ \A c \in Interfaces : SoundInterface(c)
  /\ \A m \in Functions : Member(m).vis = "private" => ~IsVirtual(m)

\* A program is accepted exactly when its interfaces are interfaces, no
\* private function is virtual, and along every linearisation each
\* redeclaration overrides a virtual function that it may override.
AcceptedIffLicensed ==
  stage = "done" /\ pc = "ok" /\ NamesApart =>
    (errs = {} <=>
       /\ SoundKinds
       /\ \A c \in ToSet(topo) : \A m, p \in Declared(c) :
            Redeclares(c, m, p) => Licensed(p, m))

\* A unit's functions are all emitted into one module under their unique
\* names, which the visit of every heir rewrites: two functions never end
\* up with the same one, whatever order the source has.
UniqueNamesDistinct ==
  Accepted /\ NamesApart =>
    \A m, n \in Functions : m # n /\ Same(m, n) => uname[m] # uname[n]

\* err_func_to_var_overrided_unsoupport: a function overridden by something
\* else is reported.
FunctionOverrideIsReported == stage # "undefined"
=============================================================================
