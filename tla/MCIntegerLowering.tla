------------------------- MODULE MCIntegerLowering -------------------------
EXTENDS IntegerLowering

Job(op, w, as, bs) == [op |-> op, w |-> w, as |-> as, bs |-> bs]
Below(w) == 0..(2^w - 1)

\* Powers of two, one less, and a few between; and those above a half.
Edges(w) == Below(w) \cap (UNION {{2^k - 1, 2^k} : k \in 0..(w - 1)}
                          \cup {5, 11, 2^w - 2, 2^w - 1})
Large(w) == {e \in Edges(w) : e > 2^(w \div 2)} \cup {0, 3}

\* All operands up to four bits, then some; sixteen bits are more than the
\* pass widens.
MCJobs ==
  {Job(op, w, Below(w), Below(w)) : op \in {"Mul", "UDiv", "URem"}, w \in 3..4}
  \cup {Job(op, w, Large(w), Large(w)) : op \in {"Mul", "UDiv", "URem"}, w \in 5..6}
  \cup {Job("UDiv", 8, Large(8), Edges(8))}
  \cup {Job(op, 8, Large(8), Large(8)) : op \in {"Mul", "URem"}}
  \cup {Job(op, w, Edges(w), 0..w) : op \in {"Shl", "LShr"}, w \in 3..8}
  \cup {Job("UDiv", 16, {2^16 - 1, 51966}, {1, 6, 255, 256, 2^15})}
  \cup {Job("Exp", 8, {0, 3, 254}, {0, 1, 2, 5, 129}),
        Job("Bswap", 8, Below(8), {0})}
  \cup {Job(op, w, {0}, {0}) : op \in Signed, w \in {2, 3, 8}}
=============================================================================
