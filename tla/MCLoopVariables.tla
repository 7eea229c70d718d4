-------------------------- MODULE MCLoopVariables ---------------------------
EXTENDS MCScopeResolve

\* for(uint n = ...; n ...; n += 1) { body }
Loop(n, body) ==
  [k |-> "for", init |-> <<Let(n, <<>>)>>, cond |-> <<Id(n)>>,
   loop |-> <<Id(n)>>, body |-> body]

\* The loops of mat_mul in docs/examples/features/matrix.sol.
MatMul ==
  Fun("mat_mul", <<"t">>, <<
    Let("base", <<>>), Let("rtn", <<>>), Let("tmp", <<>>),
    Loop("cnt", <<
      Loop("i", <<Loop("j", <<Id("tmp"), Id("i"), Id("j")>>)>>),
      Loop("i", <<Loop("j", <<Loop("k",
        <<Id("tmp"), Id("rtn"), Id("base"), Id("i"), Id("j"), Id("k")>>)>>)>>),
      Loop("i", <<Loop("j", <<Id("rtn"), Id("tmp"), Id("i"), Id("j")>>)>>)>>),
    Id("rtn")>>)

MatrixVisits == {SolidityUnit(<<Contract("MAT", <<>>, <<MatMul>>)>>)}
MatrixNames ==
  {"MAT", "mat_mul", "t", "base", "rtn", "tmp", "cnt", "i", "j", "k"}
=============================================================================
