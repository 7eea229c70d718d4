------------------------------ MODULE MCDriver ------------------------------
EXTENDS Driver

Decl(k, n)   == [kind |-> k, name |-> n]
Object(n)    == [kind |-> "object", name |-> "none", objects |-> n]
Input(d, n, ds) ==
  [dir |-> d, name |-> n, exists |-> TRUE, errors |-> FALSE, decls |-> ds]

Kinds == {"contract", "interface", "abstract"}
SolDecls ==
  {<<>>} \cup {<<Decl(k, "A")>> : k \in Kinds}
  \cup {<<Decl(k, "A"), Decl(l, "B")>> : k, l \in Kinds}

Missing(i) == [i EXCEPT !.exists = FALSE]
Wrong(i)   == [i EXCEPT !.errors = TRUE]

SolInputs(d) ==
  LET good == {Input(d, "x", ds) : ds \in SolDecls}
  IN good \cup {Missing(Input(d, "x", <<>>))} \cup
     {Wrong(Input(d, "x", ds)) : ds \in {<<>>, <<Decl("contract", "A")>>}}
YulInputs(n) ==
  {Input("d", n, <<Object(o)>>) : o \in 1..2}
  \cup {Missing(Input("d", n, <<>>)), Wrong(Input("d", n, <<Object(1)>>))}

\* Up to three inputs, in one directory or two.
MCInputs ==
  {<<>>} \cup {<<a>> : a \in SolInputs("d")}
  \cup {<<a, b>> : a \in SolInputs("d"), b \in SolInputs("d") \cup SolInputs("e")}
  \cup {<<a, b>> : a \in YulInputs("x"), b \in YulInputs("x") \cup YulInputs("y")}
  \cup {<<a, b, a>> : a, b \in {Input("d", "x", <<Decl("contract", "A")>>),
             Missing(Input("d", "x", <<>>)),
             Wrong(Input("d", "x", <<Decl("contract", "B")>>))}}

MCInvocations ==
  [inputs : MCInputs, action : CodeGenActions \cup OtherActions,
   target : {"EWASM", "EVM"}, runtime : BOOLEAN, hasTM : BOOLEAN,
   locked : {{}, {<<"d", "A">>}}]
=============================================================================
