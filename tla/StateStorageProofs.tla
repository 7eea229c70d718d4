------------------------- MODULE StateStorageProofs -------------------------
(***************************************************************************)
(* What TLAPS proves about the state variables of a contract, for every    *)
(* width of words, bytes and numbers, and for every set of types: which    *)
(* elements of packed arrays read back, that an index is checked, that     *)
(* every other location reads what was assigned to it last, and which      *)
(* variables share slots.                                                  *)
(***************************************************************************)
EXTENDS StateStorage, SequenceLemmas

-----------------------------------------------------------------------------
(* Powers of two. *)

\* The recursion in Pow2 has a solution.
LEMMA PowExists ==
  ASSUME NEW m \in Nat
  PROVE  \E g : g = [i \in 0 .. m |-> IF i = 0 THEN 1 ELSE 2 * g[i - 1]]
<1>. DEFINE Solves(g, k) == g = [i \in 0 .. k |-> IF i = 0 THEN 1 ELSE 2 * g[i - 1]]
            S == {k \in Nat : \E g : Solves(g, k)}
<1>1. 0 \in S
  <2>1. Solves([i \in 0 .. 0 |-> 1], 0)
    OBVIOUS
  <2>2. QED
    BY <2>1
<1>2. ASSUME NEW k \in Nat, k \in S PROVE k + 1 \in S
  <2>1. PICK g : Solves(g, k)
    BY <1>2
  <2>. DEFINE h == [i \in 0 .. (k + 1) |-> IF i <= k THEN g[i] ELSE 2 * g[k]]
  <2>2. ASSUME NEW i \in 0 .. (k + 1)
        PROVE  h[i] = IF i = 0 THEN 1 ELSE 2 * h[i - 1]
    <3>1. CASE i <= k
      <4>1. g[i] = IF i = 0 THEN 1 ELSE 2 * g[i - 1]
        BY <2>1, <3>1
      <4>2. i # 0 => h[i - 1] = g[i - 1]
        BY <3>1
      <4>3. QED
        BY <4>1, <4>2, <3>1
    <3>2. CASE i = k + 1
      BY <3>2
    <3>3. QED
      BY <3>1, <3>2
  <2>3. Solves(h, k + 1)
    BY <2>2
  <2>. HIDE DEF h, Solves
  <2>4. \E x : Solves(x, k + 1)
    BY <2>3
  <2>5. k + 1 \in Nat
    OBVIOUS
  <2>6. QED
    BY <2>4, <2>5
<1>. HIDE DEF S
<1>3. Nat \subseteq S
  BY <1>1, <1>2, NaturalInduction
<1>4. QED
  BY <1>3 DEF S

\* The function that Pow2 of n ends with.
LEMMA PowUnfolds ==
  ASSUME NEW n \in Nat
  PROVE  \E g : /\ Pow2(n) = g[n]
                /\ g = [i \in 0 .. n |-> IF i = 0 THEN 1 ELSE 2 * g[i - 1]]
<1>. DEFINE f == CHOOSE g : g = [i \in 0 .. n |-> IF i = 0 THEN 1 ELSE 2 * g[i - 1]]
<1>1. f = [i \in 0 .. n |-> IF i = 0 THEN 1 ELSE 2 * f[i - 1]]
  BY PowExists, Zenon
<1>2. Pow2(n) = f[n]
  BY Zenon DEF Pow2
<1>. HIDE DEF f
<1>3. QED
  BY <1>1, <1>2

LEMMA PowSteps ==
  /\ Pow2(0) = 1
  /\ \A n \in Nat : Pow2(n + 1) = 2 * Pow2(n)
<1>1. Pow2(0) = 1
  <2>1. PICK g : /\ Pow2(0) = g[0]
                 /\ g = [i \in 0 .. 0 |-> IF i = 0 THEN 1 ELSE 2 * g[i - 1]]
    BY PowUnfolds
  <2>2. QED
    BY <2>1
<1>2. ASSUME NEW n \in Nat PROVE Pow2(n + 1) = 2 * Pow2(n)
  <2>1. PICK g : /\ Pow2(n) = g[n]
                 /\ g = [i \in 0 .. n |-> IF i = 0 THEN 1 ELSE 2 * g[i - 1]]
    BY PowUnfolds
  <2>2. PICK h : /\ Pow2(n + 1) = h[n + 1]
                 /\ h = [i \in 0 .. (n + 1) |-> IF i = 0 THEN 1 ELSE 2 * h[i - 1]]
    <3>1. n + 1 \in Nat
      OBVIOUS
    <3>2. QED
      BY <3>1, PowUnfolds
  <2>. DEFINE S == {k \in Nat : k <= n => g[k] = h[k]}
  <2>3. 0 \in S
    BY <2>1, <2>2
  <2>4. ASSUME NEW k \in Nat, k \in S PROVE k + 1 \in S
    <3>1. SUFFICES ASSUME k + 1 <= n PROVE g[k + 1] = h[k + 1]
      OBVIOUS
    <3>2. g[k] = h[k]
      BY <2>4, <3>1
    <3>3. g[k + 1] = 2 * g[k] /\ h[k + 1] = 2 * h[k]
      BY <2>1, <2>2, <3>1
    <3>4. QED
      BY <3>2, <3>3
  <2>. HIDE DEF S
  <2>5. n \in S
    BY <2>3, <2>4, NaturalInduction
  <2>6. h[n + 1] = 2 * h[n]
    BY <2>2
  <2>7. QED
    BY <2>1, <2>2, <2>5, <2>6 DEF S
<1>3. QED
  BY <1>1, <1>2

LEMMA PowPositive ==
  \A n \in Nat : Pow2(n) \in Nat \ {0}
<1>. DEFINE S == {n \in Nat : Pow2(n) \in Nat \ {0}}
<1>1. 0 \in S
  BY PowSteps
<1>2. ASSUME NEW n \in Nat, n \in S PROVE n + 1 \in S
  <2>1. Pow2(n + 1) = 2 * Pow2(n)
    BY PowSteps
  <2>2. QED
    BY <1>2, <2>1
<1>. HIDE DEF S
<1>3. Nat \subseteq S
  BY <1>1, <1>2, NaturalInduction
<1>4. QED
  BY <1>3 DEF S

LEMMA PowAdds ==
  ASSUME NEW m \in Nat, NEW n \in Nat
  PROVE  Pow2(m + n) = Pow2(m) * Pow2(n)
<1>. DEFINE S == {k \in Nat : Pow2(m + k) = Pow2(m) * Pow2(k)}
<1>1. 0 \in S
  <2>1. Pow2(m) \in Nat /\ m + 0 = m
    BY PowPositive
  <2>2. QED
    BY <2>1, PowSteps
<1>2. ASSUME NEW k \in Nat, k \in S PROVE k + 1 \in S
  <2>1. Pow2((m + k) + 1) = 2 * Pow2(m + k) /\ Pow2(k + 1) = 2 * Pow2(k)
    BY PowSteps
  <2>2. PICK a \in Nat, b \in Nat : a = Pow2(m) /\ b = Pow2(k)
    BY PowPositive
  <2>3. 2 * (a * b) = a * (2 * b)
    OBVIOUS
  <2>4. (m + k) + 1 = m + (k + 1)
    OBVIOUS
  <2>5. QED
    BY <1>2, <2>1, <2>2, <2>3, <2>4
<1>. HIDE DEF S
<1>3. n \in S
  BY <1>1, <1>2, NaturalInduction
<1>4. QED
  BY <1>3 DEF S

\* A number is smaller than its power.
LEMMA PowGrows ==
  \A n \in Nat : n < Pow2(n)
<1>. DEFINE S == {n \in Nat : n < Pow2(n)}
<1>1. 0 \in S
  BY PowSteps
<1>2. ASSUME NEW n \in Nat, n \in S PROVE n + 1 \in S
  <2>1. Pow2(n + 1) = 2 * Pow2(n) /\ Pow2(n) \in Nat
    BY PowSteps, PowPositive
  <2>2. QED
    BY <1>2, <2>1
<1>. HIDE DEF S
<1>3. Nat \subseteq S
  BY <1>1, <1>2, NaturalInduction
<1>4. QED
  BY <1>3 DEF S
-----------------------------------------------------------------------------
(* Elements that share a word. *)

LEMMA Division ==
  ASSUME NEW M \in Nat \ {0}, NEW x \in Nat
  PROVE  /\ x = (x \div M) * M + (x % M)
         /\ x % M \in 0 .. (M - 1)
         /\ x \div M \in Nat
OBVIOUS

LEMMA DivisionIsUnique ==
  ASSUME NEW M \in Nat \ {0}, NEW k \in Nat, NEW r \in 0 .. (M - 1)
  PROVE  (k * M + r) \div M = k /\ (k * M + r) % M = r
<1>1. PICK x \in Nat : x = k * M + r
  OBVIOUS
<1>2. PICK j \in Nat, y \in 0 .. (M - 1) :
        j = x \div M /\ y = x % M /\ x = j * M + y
  BY Division
<1>3. k * M + r = j * M + y
  BY <1>1, <1>2
<1>4. k = j /\ r = y
  BY <1>3
<1>5. QED
  BY <1>1, <1>2, <1>4

LEMMA Products ==
  ASSUME NEW x \in Nat, NEW y \in Nat, NEW z \in Nat
  PROVE  /\ x * y \in Nat
         /\ x * (y * z) = (x * z) * y /\ x * (y * z) = (x * y) * z
         /\ x # 0 => y <= x * y
         /\ (x + y) * z = x * z + y * z
<1>1. x * y \in Nat /\ x * (y * z) = (x * z) * y /\ x * (y * z) = (x * y) * z
      /\ (x + y) * z = x * z + y * z
  OBVIOUS
<1>2. ASSUME x # 0 PROVE y <= x * y
  <2>1. PICK k \in Nat : x = k + 1
    <3>1. x - 1 \in Nat
      BY <1>2
    <3>2. x = (x - 1) + 1
      OBVIOUS
    <3>3. QED
      BY <3>1, <3>2
  <2>2. x * y = k * y + y /\ k * y \in Nat
    BY <2>1
  <2>3. QED
    BY <2>2
<1>3. QED
  BY <1>1, <1>2

\* The word that StoreNumber leaves where an element of b bits is shifted by
\* s over the word old.
Packed(old, b, s, v) == (old - (old % Pow2(b + s))) + v * Pow2(s)

SplitsAt(w, B, Q, v) == \E q \in Nat : w = (q * Q) * B + v * Q

LEMMA PackedSplits ==
  ASSUME NEW old \in Nat, NEW b \in Nat, NEW s \in Nat, NEW v \in Nat
  PROVE  SplitsAt(Packed(old, b, s, v), Pow2(b), Pow2(s), v)
<1>1. PICK B \in Nat \ {0}, Q \in Nat \ {0} : B = Pow2(b) /\ Q = Pow2(s)
  BY PowPositive
<1>2. Pow2(b + s) = B * Q
  BY <1>1, PowAdds
<1>3. PICK M \in Nat \ {0} : M = B * Q
  <2>1. b + s \in Nat
    OBVIOUS
  <2>2. QED
    BY <1>2, <2>1, PowPositive
<1>4. PICK q \in Nat, r \in Nat : q = old \div M /\ r = old % M /\ old = q * M + r
  BY Division
<1>5. q * M \in Nat /\ v * Q \in Nat /\ q * M = (q * Q) * B
  BY <1>3, Products
<1>6. old - r = q * M
  BY <1>4, <1>5
<1>7. Packed(old, b, s, v) = (q * Q) * B + v * Q
  BY <1>1, <1>2, <1>3, <1>4, <1>5, <1>6 DEF Packed
<1>8. QED
  BY <1>1, <1>7 DEF SplitsAt

LEMMA PackedIsNatural ==
  ASSUME NEW old \in Nat, NEW b \in Nat, NEW s \in Nat, NEW v \in Nat
  PROVE  Packed(old, b, s, v) \in Nat
<1>1. PICK q \in Nat : Packed(old, b, s, v) = (q * Pow2(s)) * Pow2(b) + v * Pow2(s)
  <2>1. SplitsAt(Packed(old, b, s, v), Pow2(b), Pow2(s), v)
    BY PackedSplits
  <2>2. QED
    BY <2>1 DEF SplitsAt
<1>2. Pow2(s) \in Nat /\ Pow2(b) \in Nat
  BY PowPositive
<1>3. q * Pow2(s) \in Nat /\ v * Pow2(s) \in Nat
  BY <1>2
<1>4. (q * Pow2(s)) * Pow2(b) \in Nat
  BY <1>2, <1>3
<1>5. QED
  BY <1>1, <1>3, <1>4

\* A value that was packed reads back if and only if it survives the shift.
LEMMA PackedValue ==
  ASSUME NEW old \in Nat, NEW b \in Nat, NEW s \in Nat, NEW v \in Nat,
         s % Pow2(b) < b
  PROVE  (Packed(old, b, s, v) % Pow2(b)) \div Pow2(s % Pow2(b)) = v
           <=> v * Pow2(s) < Pow2(b)
<1>1. PICK B \in Nat \ {0}, Q \in Nat \ {0} : B = Pow2(b) /\ Q = Pow2(s)
  BY PowPositive
<1>2. PICK by \in Nat : by = s % B /\ by < b
  BY <1>1, Division
<1>3. PICK q \in Nat : Packed(old, b, s, v) = (q * Q) * B + v * Q
  <2>1. SplitsAt(Packed(old, b, s, v), Pow2(b), Pow2(s), v)
    BY PackedSplits
  <2>2. QED
    BY <1>1, <2>1 DEF SplitsAt
<1>4. PICK w \in Nat : w = Packed(old, b, s, v)
  BY PackedIsNatural
<1>5. PICK h \in Nat : h = q * Q
  BY Products
<1>6. PICK u \in Nat : u = v * Q
  BY Products
<1>7. w = h * B + u
  BY <1>3, <1>4, <1>5, <1>6
<1>8. PICK value \in 0 .. (B - 1) : value = w % B
  BY Division
<1>9. PICK D \in Nat \ {0} : D = Pow2(by)
  BY <1>2, PowPositive
<1>10. s < B => by = s
  <2>1. s < B => (0 * B + s) % B = s
    BY DivisionIsUnique
  <2>2. 0 * B + s = s
    OBVIOUS
  <2>3. QED
    BY <1>2, <2>1, <2>2
<1>11. ASSUME u < B PROVE value \div D = v
  <2>1. value = u
    <3>1. u \in 0 .. (B - 1)
      BY <1>11
    <3>2. (h * B + u) % B = u
      BY <3>1, DivisionIsUnique
    <3>3. QED
      BY <1>7, <1>8, <3>2
  <2>2. CASE v = 0
    <3>1. u = 0 /\ 0 = 0 * D + 0
      BY <1>6, <2>2
    <3>2. (0 * D + 0) \div D = 0
      BY DivisionIsUnique
    <3>3. QED
      BY <2>1, <2>2, <3>1, <3>2
  <2>3. CASE v # 0
    <3>1. Q <= u
      BY <1>6, <2>3, Products
    <3>2. s < Q
      BY <1>1, PowGrows
    <3>3. D = Q
      BY <1>1, <1>9, <1>10, <1>11, <3>1, <3>2
    <3>4. (v * D + 0) \div D = v
      BY DivisionIsUnique
    <3>5. v * D + 0 = u
      BY <1>6, <3>3
    <3>6. QED
      BY <2>1, <3>4, <3>5
  <2>4. QED
    BY <2>2, <2>3
<1>12. ASSUME u >= B PROVE value \div D # v
  <2>1. CASE s < B
    <3>1. D = Q
      BY <1>1, <1>9, <1>10, <2>1
    <3>2. PICK k \in Nat, r \in Nat : k = value \div D /\ value = k * D + r
      <4>1. value \in Nat
        OBVIOUS
      <4>2. /\ value = (value \div D) * D + (value % D)
            /\ value % D \in 0 .. (D - 1)
            /\ value \div D \in Nat
        BY <4>1, Division
      <4>3. QED
        BY <4>2
    <3>3. k = v => value = u + r
      BY <1>6, <3>1, <3>2
    <3>4. QED
      BY <1>12, <3>2, <3>3
  <2>2. CASE s >= B
    <3>1. b < B
      BY <1>1, PowGrows
    <3>2. PICK d \in Nat : s = b + d
      <4>1. s - b \in Nat /\ s = b + (s - b)
        BY <2>2, <3>1
      <4>2. QED
        BY <4>1
    <3>3. PICK e \in Nat : e = Pow2(d) /\ Q = B * e
      BY <1>1, <3>2, PowAdds, PowPositive
    <3>4. u = (v * e) * B
      BY <1>6, <3>3, Products
    <3>5. PICK f \in Nat : f = v * e
      BY Products
    <3>6. (h + f) * B = h * B + f * B
      BY Products
    <3>7. w = (h + f) * B + 0
      BY <1>7, <3>4, <3>5, <3>6
    <3>8. value = 0
      <4>1. h + f \in Nat /\ 0 \in 0 .. (B - 1)
        OBVIOUS
      <4>2. ((h + f) * B + 0) % B = 0
        BY <4>1, DivisionIsUnique
      <4>3. QED
        BY <1>8, <3>7, <4>2
    <3>9. value \div D = 0
      <4>1. (0 * D + 0) \div D = 0
        BY DivisionIsUnique
      <4>2. 0 * D + 0 = 0
        OBVIOUS
      <4>3. QED
        BY <3>8, <4>1, <4>2
    <3>10. v # 0
      <4>1. v = 0 => u = 0
        BY <1>6
      <4>2. QED
        BY <1>12, <4>1
    <3>11. QED
      BY <3>9, <3>10
  <2>3. QED
    BY <2>1, <2>2
<1>13. value \div D = v <=> u < B
  BY <1>11, <1>12
<1>14. QED
  BY <1>1, <1>2, <1>4, <1>6, <1>8, <1>9, <1>13

-----------------------------------------------------------------------------
(* What is stored are natural numbers.                                     *)

LEMMA BytesAreNatural ==
  /\ WordBits \in Nat \ {0}
  /\ \A w, i \in Nat : i \in 1 .. WordBytes => ByteAt(w, i) \in Nat
  /\ \A w \in Nat, i \in Nat : Bit(w, i) \in Nat
<1>1. WordBits \in Nat \ {0}
  BY WordAssumption DEF WordBits
<1>2. ASSUME NEW w \in Nat, NEW i \in 1 .. WordBytes PROVE ByteAt(w, i) \in Nat
  <2>1. ByteBits * (WordBytes - i) \in Nat /\ ByteBits \in Nat
    BY WordAssumption
  <2>2. PICK M \in Nat \ {0}, N \in Nat \ {0} :
          M = Pow2(ByteBits * (WordBytes - i)) /\ N = Pow2(ByteBits)
    BY <2>1, PowPositive
  <2>3. w \div M \in Nat
    BY Division
  <2>4. (w \div M) % N \in Nat
    BY <2>3, Division
  <2>5. QED
    BY <2>2, <2>4 DEF ByteAt
<1>3. ASSUME NEW w \in Nat, NEW i \in Nat PROVE Bit(w, i) \in Nat
  <2>1. PICK M \in Nat \ {0} : M = Pow2(i)
    BY PowPositive
  <2>2. w \div M \in Nat
    BY Division
  <2>3. QED
    BY <2>1, <2>2 DEF Bit
<1>4. QED
  BY <1>1, <1>2, <1>3

\* The recursion in Or has a solution.
LEMMA OrExists ==
  ASSUME NEW m \in Nat, NEW d
  PROVE  \E g : g = [i \in 0 .. m |-> IF i = 0 THEN 0 ELSE g[i - 1] + d[i]]
<1>. DEFINE Solves(g, k) == g = [i \in 0 .. k |-> IF i = 0 THEN 0 ELSE g[i - 1] + d[i]]
            S == {k \in Nat : \E g : Solves(g, k)}
<1>1. 0 \in S
  <2>1. Solves([i \in 0 .. 0 |-> 0], 0)
    OBVIOUS
  <2>. HIDE DEF Solves
  <2>2. QED
    BY <2>1
<1>2. ASSUME NEW k \in Nat, k \in S PROVE k + 1 \in S
  <2>1. PICK g : Solves(g, k)
    BY <1>2
  <2>. DEFINE h == [i \in 0 .. (k + 1) |-> IF i <= k THEN g[i] ELSE IF i = 0 THEN 0 ELSE g[i - 1] + d[i]]
  <2>2. ASSUME NEW i \in 0 .. (k + 1)
        PROVE  h[i] = IF i = 0 THEN 0 ELSE h[i - 1] + d[i]
    <3>1. CASE i <= k
      <4>1. g[i] = IF i = 0 THEN 0 ELSE g[i - 1] + d[i]
        BY <2>1, <3>1
      <4>2. i # 0 => h[i - 1] = g[i - 1]
        BY <3>1
      <4>3. QED
        BY <4>1, <4>2, <3>1
    <3>2. CASE i = k + 1
      <4>1. i # 0 => h[i - 1] = g[i - 1]
        BY <3>2
      <4>2. QED
        BY <3>2, <4>1
    <3>3. QED
      BY <3>1, <3>2
  <2>3. Solves(h, k + 1)
    BY <2>2
  <2>. HIDE DEF h, Solves
  <2>4. \E x : Solves(x, k + 1)
    BY <2>3
  <2>5. k + 1 \in Nat
    OBVIOUS
  <2>6. QED
    BY <2>4, <2>5
<1>. HIDE DEF S
<1>3. Nat \subseteq S
  BY <1>1, <1>2, NaturalInduction
<1>4. QED
  BY <1>3 DEF S

LEMMA OrIsNatural ==
  ASSUME NEW x \in Nat, NEW y \in Nat
  PROVE  Or(x, y) \in Nat
<1>. DEFINE b(i) == IF Bit(x, i - 1) + Bit(y, i - 1) = 0 THEN 0 ELSE Pow2(i - 1)
            d == [i \in 1 .. WordBits |-> b(i)]
            F(g) == [i \in 0 .. WordBits |-> IF i = 0 THEN 0 ELSE g[i - 1] + b(i)]
<1>1. WordBits \in Nat
  BY BytesAreNatural
<1>2. \E g : g = F(g)
  <2>1. PICK g : g = [i \in 0 .. WordBits |-> IF i = 0 THEN 0 ELSE g[i - 1] + d[i]]
    BY <1>1, OrExists
  <2>2. \A i \in 0 .. WordBits : i # 0 => d[i] = b(i)
    BY <1>1
  <2>. HIDE DEF b, d
  <2>3. g = F(g)
    BY <2>1, <2>2
  <2>4. QED
    BY <2>3
<1>3. PICK g : g = F(g) /\ Or(x, y) = g[WordBits]
  <2>. DEFINE f == CHOOSE g : g = F(g)
  <2>1. f = F(f)
    BY <1>2, Zenon
  <2>2. Or(x, y) = f[WordBits]
    BY Zenon DEF Or
  <2>. HIDE DEF f, F
  <2>3. QED
    BY <2>1, <2>2
<1>. DEFINE S == {n \in Nat : n <= WordBits => g[n] \in Nat}
<1>4. 0 \in S
  BY <1>1, <1>3
<1>5. ASSUME NEW n \in Nat, n \in S PROVE n + 1 \in S
  <2>1. SUFFICES ASSUME n + 1 <= WordBits PROVE g[n + 1] \in Nat
    OBVIOUS
  <2>2. g[n] \in Nat
    BY <1>1, <1>5, <2>1
  <2>3. b(n + 1) \in Nat
    BY PowPositive
  <2>. HIDE DEF b
  <2>4. g[n + 1] = g[n] + b(n + 1)
    BY <1>1, <1>3, <2>1
  <2>5. QED
    BY <2>2, <2>3, <2>4
<1>. HIDE DEF S, F
<1>6. WordBits \in S
  BY <1>1, <1>4, <1>5, NaturalInduction
<1>7. QED
  BY <1>1, <1>3, <1>6 DEF S

Horner(g, m, k0, d) ==
  g = [i \in 0 .. m |-> IF i = 0 THEN 0 ELSE g[i - 1] * k0 + d[i]]

\* The recursion in Over has a solution.
LEMMA OverExists ==
  ASSUME NEW m \in Nat, NEW k0, NEW d
  PROVE  \E g : Horner(g, m, k0, d)
<1>. DEFINE Solves(g, k) == g = [i \in 0 .. k |-> IF i = 0 THEN 0 ELSE g[i - 1] * k0 + d[i]]
            S == {k \in Nat : \E g : Solves(g, k)}
<1>1. 0 \in S
  <2>1. Solves([i \in 0 .. 0 |-> 0], 0)
    OBVIOUS
  <2>. HIDE DEF Solves
  <2>2. QED
    BY <2>1
<1>2. ASSUME NEW k \in Nat, k \in S PROVE k + 1 \in S
  <2>1. PICK g : Solves(g, k)
    BY <1>2
  <2>. DEFINE h == [i \in 0 .. (k + 1) |-> IF i <= k THEN g[i] ELSE IF i = 0 THEN 0 ELSE g[i - 1] * k0 + d[i]]
  <2>2. ASSUME NEW i \in 0 .. (k + 1)
        PROVE  h[i] = IF i = 0 THEN 0 ELSE h[i - 1] * k0 + d[i]
    <3>1. CASE i <= k
      <4>1. g[i] = IF i = 0 THEN 0 ELSE g[i - 1] * k0 + d[i]
        BY <2>1, <3>1
      <4>2. i # 0 => h[i - 1] = g[i - 1]
        BY <3>1
      <4>3. QED
        BY <4>1, <4>2, <3>1
    <3>2. CASE i = k + 1
      <4>1. i # 0 => h[i - 1] = g[i - 1]
        BY <3>2
      <4>2. QED
        BY <3>2, <4>1
    <3>3. QED
      BY <3>1, <3>2
  <2>3. Solves(h, k + 1)
    BY <2>2
  <2>. HIDE DEF h, Solves
  <2>4. \E x : Solves(x, k + 1)
    BY <2>3
  <2>5. k + 1 \in Nat
    OBVIOUS
  <2>6. QED
    BY <2>4, <2>5
<1>. HIDE DEF S
<1>3. Nat \subseteq S
  BY <1>1, <1>2, NaturalInduction
<1>4. QED
  BY <1>3 DEF S, Horner

LEMMA OverIsNatural ==
  ASSUME NEW s \in Seq(Nat), NEW junk \in Nat
  PROVE  Over(s, junk) \in Nat
<1>. DEFINE b(i) == IF i <= Len(s) THEN s[i] ELSE ByteAt(junk, i)
            d == [i \in 1 .. WordBytes |-> b(i)]
            F(g) == [i \in 0 .. WordBytes |->
                       IF i = 0 THEN 0 ELSE g[i - 1] * Pow2(ByteBits) + b(i)]
<1>1. WordBytes \in Nat /\ Pow2(ByteBits) \in Nat
  BY WordAssumption, PowPositive
<1>2. \E g : g = F(g)
  <2>1. PICK g : Horner(g, WordBytes, Pow2(ByteBits), d)
    <3>. HIDE DEF d
    <3>1. QED
      BY <1>1, OverExists
  <2>2. \A i \in 0 .. WordBytes : i # 0 => d[i] = b(i)
    BY <1>1
  <2>. HIDE DEF b, d
  <2>3. g = F(g)
    BY <2>1, <2>2 DEF Horner
  <2>4. QED
    BY <2>3
<1>3. PICK g : g = F(g) /\ Over(s, junk) = g[WordBytes]
  <2>. DEFINE f == CHOOSE g : g = F(g)
  <2>1. f = F(f)
    BY <1>2, Zenon
  <2>2. Over(s, junk) = f[WordBytes]
    BY Zenon DEF Over
  <2>. HIDE DEF f, F
  <2>3. QED
    BY <2>1, <2>2
<1>. DEFINE S == {n \in Nat : n <= WordBytes => g[n] \in Nat}
<1>4. 0 \in S
  BY <1>1, <1>3
<1>5. ASSUME NEW n \in Nat, n \in S PROVE n + 1 \in S
  <2>1. SUFFICES ASSUME n + 1 <= WordBytes PROVE g[n + 1] \in Nat
    OBVIOUS
  <2>2. g[n] \in Nat
    BY <1>1, <1>5, <2>1
  <2>3. b(n + 1) \in Nat
    <3>1. n + 1 \in 1 .. WordBytes /\ n + 1 \in Nat
      BY <1>1, <2>1
    <3>2. n + 1 <= Len(s) => s[n + 1] \in Nat
      BY <3>1
    <3>3. ByteAt(junk, n + 1) \in Nat
      BY <3>1, BytesAreNatural
    <3>4. QED
      BY <3>2, <3>3
  <2>. HIDE DEF b
  <2>4. g[n + 1] = g[n] * Pow2(ByteBits) + b(n + 1)
    BY <1>1, <1>3, <2>1
  <2>5. g[n] * Pow2(ByteBits) \in Nat
    BY <1>1, <2>2
  <2>6. QED
    BY <2>3, <2>4, <2>5
<1>. HIDE DEF S, F
<1>6. WordBytes \in S
  BY <1>1, <1>4, <1>5, NaturalInduction
<1>7. QED
  BY <1>1, <1>3, <1>6 DEF S

-----------------------------------------------------------------------------
(* Where a location leads.                                                 *)

Leads(g, c, slots, words, loc, m) ==
  g = [n \in 1 .. m |-> IF n = 1 THEN Variable(c, slots, loc[1])
                       ELSE Follow(c, words, g[n - 1], loc[n])]

\* The recursion in Place has a solution.
LEMMA PlaceExists ==
  ASSUME NEW c, NEW slots, NEW words, NEW loc, NEW m \in Nat
  PROVE  \E g : Leads(g, c, slots, words, loc, m)
<1>. DEFINE Solves(g, k) == g = [i \in 1 .. k |-> IF i = 1 THEN Variable(c, slots, loc[1]) ELSE Follow(c, words, g[i - 1], loc[i])]
            S == {k \in Nat : \E g : Solves(g, k)}
<1>1. 0 \in S
  <2>1. Solves([i \in 1 .. 0 |-> Variable(c, slots, loc[1])], 0)
    OBVIOUS
  <2>. HIDE DEF Solves
  <2>2. QED
    BY <2>1
<1>2. ASSUME NEW k \in Nat, k \in S PROVE k + 1 \in S
  <2>1. PICK g : Solves(g, k)
    BY <1>2
  <2>. DEFINE h == [i \in 1 .. (k + 1) |-> IF i <= k THEN g[i] ELSE IF i = 1 THEN Variable(c, slots, loc[1]) ELSE Follow(c, words, g[i - 1], loc[i])]
  <2>2. ASSUME NEW i \in 1 .. (k + 1)
        PROVE  h[i] = IF i = 1 THEN Variable(c, slots, loc[1]) ELSE Follow(c, words, h[i - 1], loc[i])
    <3>1. CASE i <= k
      <4>1. g[i] = IF i = 1 THEN Variable(c, slots, loc[1]) ELSE Follow(c, words, g[i - 1], loc[i])
        BY <2>1, <3>1
      <4>2. i # 1 => h[i - 1] = g[i - 1]
        BY <3>1
      <4>3. QED
        BY <4>1, <4>2, <3>1
    <3>2. CASE i = k + 1
      <4>1. i # 1 => h[i - 1] = g[i - 1]
        BY <3>2
      <4>2. QED
        BY <3>2, <4>1
    <3>3. QED
      BY <3>1, <3>2
  <2>3. Solves(h, k + 1)
    BY <2>2
  <2>. HIDE DEF h, Solves
  <2>4. \E x : Solves(x, k + 1)
    BY <2>3
  <2>5. k + 1 \in Nat
    OBVIOUS
  <2>6. QED
    BY <2>4, <2>5
<1>. HIDE DEF S
<1>3. Nat \subseteq S
  BY <1>1, <1>2, NaturalInduction
<1>4. QED
  BY <1>3 DEF S, Leads

LEMMA PlaceUnfolds ==
  ASSUME NEW c, NEW slots, NEW words, NEW loc, Len(loc) \in Nat
  PROVE  \E g : /\ Leads(g, c, slots, words, loc, Len(loc))
                /\ Place(c, slots, words, loc) = g[Len(loc)]
<1>. DEFINE f == CHOOSE g : Leads(g, c, slots, words, loc, Len(loc))
<1>1. Leads(f, c, slots, words, loc, Len(loc))
  BY PlaceExists, Zenon
<1>2. Place(c, slots, words, loc) = f[Len(loc)]
  BY Zenon DEF Place, Leads
<1>. HIDE DEF f
<1>3. QED
  BY <1>1, <1>2

\* A location of one step is a variable, and one more step is followed from
\* where the others lead.
LEMMA PlaceSteps ==
  ASSUME NEW c, NEW slots, NEW words
  PROVE  /\ \A v : Place(c, slots, words, <<v>>) = Variable(c, slots, v)
         /\ \A loc \in Seq(Nat), i \in Nat : loc # <<>> =>
              Place(c, slots, words, Append(loc, i))
                = Follow(c, words, Place(c, slots, words, loc), i)
<1>1. ASSUME NEW v PROVE Place(c, slots, words, <<v>>) = Variable(c, slots, v)
  <2>1. Len(<<v>>) = 1 /\ Len(<<v>>) \in Nat
    OBVIOUS
  <2>2. PICK g : /\ Leads(g, c, slots, words, <<v>>, 1)
                 /\ Place(c, slots, words, <<v>>) = g[1]
    BY <2>1, PlaceUnfolds
  <2>3. QED
    BY <2>2 DEF Leads
<1>2. ASSUME NEW loc \in Seq(Nat), NEW i \in Nat, loc # <<>>
      PROVE  Place(c, slots, words, Append(loc, i))
               = Follow(c, words, Place(c, slots, words, loc), i)
  <2>. DEFINE more == Append(loc, i)
              m == Len(loc)
  <2>1. /\ m \in Nat \ {0} /\ Len(more) = m + 1
        /\ \A n \in 1 .. m : more[n] = loc[n]
        /\ more[m + 1] = i
    BY <1>2
  <2>. HIDE DEF more, m
  <2>2. PICK g : /\ Leads(g, c, slots, words, loc, m)
                 /\ Place(c, slots, words, loc) = g[m]
    BY <2>1, PlaceUnfolds DEF m
  <2>3. PICK h : /\ Leads(h, c, slots, words, more, m + 1)
                 /\ Place(c, slots, words, more) = h[m + 1]
    <3>1. m + 1 \in Nat
      BY <2>1
    <3>2. QED
      BY <2>1, <3>1, PlaceUnfolds
  <2>. DEFINE S == {n \in Nat : n + 1 <= m => g[n + 1] = h[n + 1]}
  <2>4. 0 \in S
    BY <2>1, <2>2, <2>3 DEF Leads
  <2>5. ASSUME NEW n \in Nat, n \in S PROVE n + 1 \in S
    <3>1. SUFFICES ASSUME (n + 1) + 1 <= m PROVE g[(n + 1) + 1] = h[(n + 1) + 1]
      OBVIOUS
    <3>2. g[n + 1] = h[n + 1]
      BY <2>1, <2>5, <3>1
    <3>3. PICK k : k = n + 2 /\ k \in 2 .. m /\ k - 1 = n + 1 /\ (n + 1) + 1 = k
      BY <2>1, <3>1
    <3>4. g[k] = Follow(c, words, g[k - 1], loc[k])
      BY <2>1, <2>2, <3>3 DEF Leads
    <3>5. h[k] = Follow(c, words, h[k - 1], more[k])
      BY <2>1, <2>3, <3>3 DEF Leads
    <3>6. more[k] = loc[k]
      BY <2>1, <3>3
    <3>7. QED
      BY <3>2, <3>3, <3>4, <3>5, <3>6
  <2>. HIDE DEF S
  <2>6. m - 1 \in S /\ m - 1 + 1 = m
    <3>1. Nat \subseteq S
      BY <2>4, <2>5, NaturalInduction
    <3>2. QED
      BY <2>1, <3>1
  <2>7. g[m] = h[m]
    BY <2>1, <2>6 DEF S
  <2>8. h[m + 1] = Follow(c, words, h[m], more[m + 1])
    <3>1. m + 1 \in 1 .. (m + 1) /\ m + 1 # 1 /\ (m + 1) - 1 = m
      BY <2>1
    <3>2. QED
      BY <2>3, <3>1 DEF Leads
  <2>9. QED
    BY <2>1, <2>2, <2>3, <2>7, <2>8 DEF more
<1>3. QED
  BY <1>1, <1>2

-----------------------------------------------------------------------------
(* The locations so many steps inside a variable.                          *)

Nests(g, c, slack, m) ==
  g = [i \in 0 .. m |-> IF i = 0 THEN Variables(c) ELSE Inside(g[i - 1], slack)]

\* The recursion in Level has a solution.
LEMMA LevelExists ==
  ASSUME NEW c, NEW slack, NEW m \in Nat
  PROVE  \E g : Nests(g, c, slack, m)
<1>. DEFINE Solves(g, k) == g = [i \in 0 .. k |-> IF i = 0 THEN Variables(c) ELSE Inside(g[i - 1], slack)]
            S == {k \in Nat : \E g : Solves(g, k)}
<1>1. 0 \in S
  <2>1. Solves([i \in 0 .. 0 |-> Variables(c)], 0)
    OBVIOUS
  <2>. HIDE DEF Solves
  <2>2. QED
    BY <2>1
<1>2. ASSUME NEW k \in Nat, k \in S PROVE k + 1 \in S
  <2>1. PICK g : Solves(g, k)
    BY <1>2
  <2>. DEFINE h == [i \in 0 .. (k + 1) |-> IF i <= k THEN g[i] ELSE IF i = 0 THEN Variables(c) ELSE Inside(g[i - 1], slack)]
  <2>2. ASSUME NEW i \in 0 .. (k + 1)
        PROVE  h[i] = IF i = 0 THEN Variables(c) ELSE Inside(h[i - 1], slack)
    <3>1. CASE i <= k
      <4>1. g[i] = IF i = 0 THEN Variables(c) ELSE Inside(g[i - 1], slack)
        BY <2>1, <3>1
      <4>2. i # 0 => h[i - 1] = g[i - 1]
        BY <3>1
      <4>3. QED
        BY <4>1, <4>2, <3>1
    <3>2. CASE i = k + 1
      <4>1. i # 0 => h[i - 1] = g[i - 1]
        BY <3>2
      <4>2. QED
        BY <3>2, <4>1
    <3>3. QED
      BY <3>1, <3>2
  <2>3. Solves(h, k + 1)
    BY <2>2
  <2>. HIDE DEF h, Solves
  <2>4. \E x : Solves(x, k + 1)
    BY <2>3
  <2>5. k + 1 \in Nat
    OBVIOUS
  <2>6. QED
    BY <2>4, <2>5
<1>. HIDE DEF S
<1>3. Nat \subseteq S
  BY <1>1, <1>2, NaturalInduction
<1>4. QED
  BY <1>3 DEF S, Nests

LEMMA LevelUnfolds ==
  ASSUME NEW c, NEW slack, NEW n \in Nat
  PROVE  \E g : Nests(g, c, slack, n) /\ Level(c, slack, n) = g[n]
<1>. DEFINE f == CHOOSE g : Nests(g, c, slack, n)
<1>1. Nests(f, c, slack, n)
  BY LevelExists, Zenon
<1>2. Level(c, slack, n) = f[n]
  BY Zenon DEF Level, Nests
<1>. HIDE DEF f
<1>3. QED
  BY <1>1, <1>2

LEMMA LevelSteps ==
  ASSUME NEW c, NEW slack
  PROVE  /\ Level(c, slack, 0) = Variables(c)
         /\ \A n \in Nat : Level(c, slack, n + 1) = Inside(Level(c, slack, n), slack)
<1>1. Level(c, slack, 0) = Variables(c)
  <2>1. PICK g : Nests(g, c, slack, 0) /\ Level(c, slack, 0) = g[0]
    BY LevelUnfolds
  <2>2. QED
    BY <2>1 DEF Nests
<1>2. ASSUME NEW n \in Nat
      PROVE  Level(c, slack, n + 1) = Inside(Level(c, slack, n), slack)
  <2>1. PICK g : Nests(g, c, slack, n) /\ Level(c, slack, n) = g[n]
    BY LevelUnfolds
  <2>2. PICK h : Nests(h, c, slack, n + 1) /\ Level(c, slack, n + 1) = h[n + 1]
    <3>1. n + 1 \in Nat
      OBVIOUS
    <3>2. QED
      BY <3>1, LevelUnfolds
  <2>. DEFINE S == {k \in Nat : k <= n => g[k] = h[k]}
  <2>3. 0 \in S
    BY <2>1, <2>2 DEF Nests
  <2>4. ASSUME NEW k \in Nat, k \in S PROVE k + 1 \in S
    <3>1. SUFFICES ASSUME k + 1 <= n PROVE g[k + 1] = h[k + 1]
      OBVIOUS
    <3>2. g[k] = h[k]
      BY <2>4, <3>1
    <3>3. g[k + 1] = Inside(g[k], slack) /\ h[k + 1] = Inside(h[k], slack)
      <4>1. /\ k + 1 \in 0 .. n /\ k + 1 \in 0 .. (n + 1)
            /\ k + 1 # 0 /\ (k + 1) - 1 = k
        BY <3>1
      <4>2. QED
        BY <2>1, <2>2, <4>1 DEF Nests
    <3>4. QED
      BY <3>2, <3>3
  <2>. HIDE DEF S
  <2>5. n \in S
    BY <2>3, <2>4, NaturalInduction
  <2>6. h[n + 1] = Inside(h[n], slack)
    <3>1. n + 1 \in 0 .. (n + 1) /\ n + 1 # 0 /\ (n + 1) - 1 = n
      OBVIOUS
    <3>2. QED
      BY <2>2, <3>1 DEF Nests
  <2>7. QED
    BY <2>1, <2>2, <2>5, <2>6 DEF S
<1>3. QED
  BY <1>1, <1>2

\* What a type is, and what is inside it.
LEMMA TypeProps ==
  ASSUME NEW d \in 0 .. MaxDepth, NEW t \in Types[d]
  PROVE  /\ t.cat \in Scalars => t.bits \in 1 .. WordBits
         /\ t.cat \in Scalars \cup {"string", "mapping", "array", "struct"}
         /\ t.cat = "mapping" => d + 1 \in 0 .. MaxDepth /\ t.value \in Types[d + 1]
         /\ t.cat = "array" => /\ d + 1 \in 0 .. MaxDepth /\ t.elem \in Types[d + 1]
                               /\ t.len \in Nat /\ t.elem.cat \notin {"string", "struct"}
         /\ t.cat = "struct" => /\ t.elems \in Seq(Types[d + 1])
                                /\ t.elems # <<>> => d + 1 \in 0 .. MaxDepth
<1>1. MaxDepth \in Nat
  BY TypesAssumption
<1>2. NestsIn(IF d = MaxDepth THEN {} ELSE Types[d + 1], t)
  BY TypesAssumption
<1>3. CASE d = MaxDepth
  <2>1. NestsIn({}, t)
    BY <1>2, <1>3
  <2>2. t.cat = "struct" => t.elems = <<>>
    BY <2>1, EmptySeq DEF NestsIn, Scalars
  <2>3. QED
    BY <2>1, <2>2 DEF NestsIn, Scalars
<1>4. CASE d # MaxDepth
  <2>1. NestsIn(Types[d + 1], t) /\ d + 1 \in 0 .. MaxDepth
    BY <1>1, <1>2, <1>4
  <2>2. QED
    BY <2>1 DEF NestsIn, Scalars
<1>5. QED
  BY <1>3, <1>4

LEMMA ComponentProps ==
  ASSUME NEW d \in 0 .. MaxDepth, NEW t \in Types[d], NEW slack,
         NEW p \in Components(t, slack)
  PROVE  /\ t.cat \in {"mapping", "array", "struct"}
         /\ d + 1 \in 0 .. MaxDepth
         /\ p.type \in Types[d + 1]
         /\ p.step \in Nat
         /\ t.cat = "mapping" => p.step \in Keys /\ p.type = t.value
         /\ t.cat = "array" => /\ p.step \in 0 .. t.len + slack - 1 /\ p.type = t.elem
                               /\ p.type.cat \notin {"string", "struct"}
         /\ t.cat = "struct" => p.step \in DOMAIN t.elems /\ p.type = t.elems[p.step]
<1>1. CASE t.cat = "mapping"
  <2>1. p \in {[step |-> k, type |-> t.value] : k \in Keys}
    BY <1>1 DEF Components
  <2>2. p.step \in Keys /\ p.type = t.value /\ p.step \in Nat
    BY <2>1, ValuesAssumption
  <2>3. d + 1 \in 0 .. MaxDepth /\ t.value \in Types[d + 1]
    BY <1>1, TypeProps
  <2>4. QED
    BY <1>1, <2>2, <2>3
<1>2. CASE t.cat = "array"
  <2>1. p \in {[step |-> i, type |-> t.elem] : i \in 0 .. t.len + slack - 1}
    BY <1>2 DEF Components
  <2>2. p.step \in 0 .. t.len + slack - 1 /\ p.type = t.elem
    BY <2>1
  <2>3. p.step \in Nat
    BY <2>2
  <2>4. /\ d + 1 \in 0 .. MaxDepth /\ t.elem \in Types[d + 1]
        /\ t.elem.cat \notin {"string", "struct"}
    BY <1>2, TypeProps
  <2>5. QED
    BY <1>2, <2>2, <2>3, <2>4
<1>3. CASE t.cat = "struct"
  <2>1. p \in {[step |-> i, type |-> t.elems[i]] : i \in DOMAIN t.elems}
    BY <1>3 DEF Components
  <2>2. t.elems \in Seq(Types[d + 1])
    BY <1>3, TypeProps
  <2>3. PICK i \in DOMAIN t.elems : p = [step |-> i, type |-> t.elems[i]]
    BY <2>1
  <2>4. i \in Nat /\ t.elems[i] \in Types[d + 1] /\ t.elems # <<>>
    BY <2>2, <2>3
  <2>5. QED
    BY <1>3, <2>3, <2>4, TypeProps
<1>4. CASE t.cat \in Scalars \cup {"string"}
  BY <1>4 DEF Components, Scalars
<1>5. QED
  BY <1>1, <1>2, <1>3, <1>4, TypeProps

\* Location x is location y and one more step.
Behind(x, y, slack) ==
  \E p \in Components(y.type, slack) :
    x = [loc |-> Append(y.loc, p.step), type |-> p.type]

LEMMA LevelIsInside ==
  ASSUME NEW c, NEW slack, NEW n \in Nat, NEW x \in Level(c, slack, n + 1)
  PROVE  \E y \in Level(c, slack, n) : Behind(x, y, slack)
<1>1. x \in Inside(Level(c, slack, n), slack)
  BY LevelSteps
<1>2. PICK y \in Level(c, slack, n) :
        x \in {[loc |-> Append(y.loc, p.step), type |-> p.type] : p \in Components(y.type, slack)}
  BY <1>1 DEF Inside
<1>3. QED
  BY <1>2 DEF Behind

\* A location so many steps inside a variable has as many numbers, and a type
\* of that depth.
LevelType(x, n) ==
  /\ x = [loc |-> x.loc, type |-> x.type]
  /\ x.loc \in Seq(Nat) /\ x.loc # <<>> /\ Len(x.loc) = n + 1
  /\ x.type \in Types[n]

LEMMA VariableProps ==
  ASSUME NEW c \in Contracts, NEW x \in Variables(c)
  PROVE  /\ LevelType(x, 0)
         /\ \E v \in DOMAIN c.vars : x = [loc |-> <<v>>, type |-> c.vars[v]]
<1>1. PICK v \in DOMAIN c.vars : x = [loc |-> <<v>>, type |-> c.vars[v]]
  BY DEF Variables
<1>2. c.vars \in Seq(Types[0])
  BY ContractsAssumption
<1>3. v \in Nat /\ c.vars[v] \in Types[0]
  BY <1>2
<1>4. <<v>> \in Seq(Nat) /\ <<v>> # <<>> /\ Len(<<v>>) = 0 + 1
  BY <1>3
<1>5. QED
  BY <1>1, <1>3, <1>4 DEF LevelType

LEMMA InsideType ==
  ASSUME NEW n \in 0 .. MaxDepth, NEW y, LevelType(y, n),
         NEW slack, NEW p \in Components(y.type, slack), NEW x,
         x = [loc |-> Append(y.loc, p.step), type |-> p.type]
  PROVE  LevelType(x, n + 1)
<1>1. p.step \in Nat /\ p.type \in Types[n + 1]
  BY ComponentProps DEF LevelType
<1>2. y.loc \in Seq(Nat) /\ Len(y.loc) = n + 1
  BY DEF LevelType
<1>3. /\ Append(y.loc, p.step) \in Seq(Nat) /\ Append(y.loc, p.step) # <<>>
      /\ Len(Append(y.loc, p.step)) = (n + 1) + 1
  <2>1. PICK s \in Seq(Nat), i \in Nat : s = y.loc /\ i = p.step
    BY <1>1, <1>2
  <2>2. Append(s, i) \in Seq(Nat) /\ Len(Append(s, i)) = Len(s) + 1 /\ Append(s, i) # <<>>
    OBVIOUS
  <2>3. QED
    BY <1>2, <2>1, <2>2
<1>4. QED
  BY <1>1, <1>3 DEF LevelType

LEMMA LevelProps ==
  ASSUME NEW c \in Contracts, NEW slack, NEW n \in 0 .. MaxDepth,
         NEW x \in Level(c, slack, n)
  PROVE  LevelType(x, n)
<1>. DEFINE S == {k \in Nat : k <= MaxDepth =>
                    \A z \in Level(c, slack, k) : LevelType(z, k)}
<1>1. MaxDepth \in Nat
  BY TypesAssumption
<1>2. 0 \in S
  BY LevelSteps, VariableProps
<1>3. ASSUME NEW k \in Nat, k \in S PROVE k + 1 \in S
  <2>1. SUFFICES ASSUME k + 1 <= MaxDepth, NEW z \in Level(c, slack, k + 1)
                 PROVE  LevelType(z, k + 1)
    OBVIOUS
  <2>2. PICK y \in Level(c, slack, k) : Behind(z, y, slack)
    BY LevelIsInside
  <2>3. LevelType(y, k) /\ k \in 0 .. MaxDepth
    BY <1>1, <1>3, <2>1
  <2>4. QED
    BY <2>2, <2>3, InsideType DEF Behind
<1>. HIDE DEF S
<1>4. n \in S
  BY <1>1, <1>2, <1>3, NaturalInduction
<1>5. QED
  BY <1>4 DEF S

-----------------------------------------------------------------------------
(* The place of a location.                                                *)

\* A place for a thing of type t.
Denotes(a, t) ==
  /\ a = [type |-> t, at |-> a.at, shift |-> a.shift, ok |-> a.ok]
  /\ a.at = [base |-> a.at.base, off |-> a.at.off]
  /\ a.shift = NoShift \/ (a.shift \in Nat /\ t.cat \in Scalars)
  /\ a.ok \in BOOLEAN

\* Places that differ at most in whether an index was refused.
Same(a, b) == a.type = b.type /\ a.at = b.at /\ a.shift = b.shift

LEMMA VariableDenotes ==
  ASSUME NEW c, NEW slots, NEW v
  PROVE  Denotes(Variable(c, slots, v), c.vars[v])
BY DEF Variable, Denotes, Slot

LEMMA ElementDenotes ==
  ASSUME NEW d \in 0 .. MaxDepth, NEW t \in Types[d], t.cat = "array",
         NEW a, Denotes(a, t), NEW i \in Nat, NEW c, NEW words
  PROVE  Denotes(Element(c, words, a, i), t.elem)
<1>1. /\ d + 1 \in 0 .. MaxDepth /\ t.elem \in Types[d + 1]
      /\ t.elem.cat \in Scalars => t.elem.bits \in 1 .. WordBits
  <2>1. d + 1 \in 0 .. MaxDepth /\ t.elem \in Types[d + 1]
    BY TypeProps
  <2>2. QED
    BY <2>1, TypeProps
<1>2. WordBits \in Nat \ {0}
  BY BytesAreNatural
<1>3. t.elem.cat \notin Scalars => PerSlot(t) = 1
  <2>1. WordBits \div WordBits = 1
    BY <1>2
  <2>2. QED
    BY <2>1 DEF PerSlot, BitNum
<1>4. t.elem.cat \in Scalars => PerSlot(t) \in Nat \ {0}
  <2>1. ASSUME NEW b \in 1 .. WordBits PROVE WordBits \div b \in Nat \ {0}
    BY <1>2
  <2>2. QED
    BY <1>1, <2>1 DEF PerSlot, BitNum
<1>5. PerSlot(t) # 1 => i % PerSlot(t) \in Nat /\ t.elem.cat \in Scalars
  <2>1. ASSUME NEW b \in Nat \ {0} PROVE i % b \in Nat
    OBVIOUS
  <2>2. QED
    BY <1>3, <1>4, <2>1
<1>. DEFINE e == Element(c, words, a, i)
<1>6. /\ e = [type |-> t.elem, at |-> e.at, shift |-> e.shift, ok |-> e.ok]
      /\ e.shift = IF PerSlot(t) # 1 THEN i % PerSlot(t) ELSE NoShift
      /\ e.ok \in BOOLEAN
  BY DEF Element, Denotes
<1>7. e.at = [base |-> e.at.base, off |-> e.at.off]
  <2>1. ASSUME NEW at, at = [base |-> at.base, off |-> at.off], NEW k
        PROVE  Plus(at, k) = [base |-> Plus(at, k).base, off |-> Plus(at, k).off]
    BY <2>1 DEF Plus
  <2>2. a.at = [base |-> a.at.base, off |-> a.at.off]
    BY DEF Denotes
  <2>3. Hash(a.at, 0) = [base |-> Hash(a.at, 0).base, off |-> Hash(a.at, 0).off]
    BY DEF Hash
  <2>4. e.at = Plus(IF a.type.len = Unsized THEN Hash(a.at, 0) ELSE a.at,
                    IF PerSlot(a.type) # 1 THEN i \div PerSlot(a.type) ELSE i)
    BY DEF Element
  <2>. HIDE DEF e
  <2>5. QED
    BY <2>1, <2>2, <2>3, <2>4
<1>. HIDE DEF e
<1>8. Denotes(e, t.elem)
  BY <1>5, <1>6, <1>7 DEF Denotes
<1>9. QED
  BY <1>8 DEF e

LEMMA FollowDenotes ==
  ASSUME NEW d \in 0 .. MaxDepth, NEW t \in Types[d], NEW a, Denotes(a, t),
         NEW slack, NEW p \in Components(t, slack), NEW c, NEW words
  PROVE  Denotes(Follow(c, words, a, p.step), p.type)
<1>1. a.type = t /\ p.step \in Nat
  BY ComponentProps DEF Denotes
<1>2. CASE t.cat = "array"
  <2>1. p.type = t.elem
    BY <1>2, ComponentProps
  <2>2. Follow(c, words, a, p.step) = Element(c, words, a, p.step)
    BY <1>1, <1>2 DEF Follow
  <2>3. QED
    BY <1>1, <1>2, <2>1, <2>2, ElementDenotes
<1>3. CASE t.cat = "mapping"
  <2>1. p.type = t.value
    BY <1>3, ComponentProps
  <2>2. Follow(c, words, a, p.step) = Entry(a, p.step)
    BY <1>1, <1>3 DEF Follow
  <2>3. a.shift = NoShift
    BY <1>3 DEF Denotes, Scalars
  <2>4. Denotes(Entry(a, p.step), t.value)
    BY <1>1, <2>3 DEF Denotes, Entry, Hash
  <2>5. QED
    BY <2>1, <2>2, <2>4
<1>4. CASE t.cat = "struct"
  <2>1. p.type = t.elems[p.step]
    BY <1>4, ComponentProps
  <2>2. Follow(c, words, a, p.step) = Member(a, p.step)
    BY <1>1, <1>4 DEF Follow
  <2>3. a.shift = NoShift
    BY <1>4 DEF Denotes, Scalars
  <2>4. Denotes(Member(a, p.step), t.elems[p.step])
    BY <1>1, <2>3 DEF Denotes, Member, Plus
  <2>5. QED
    BY <2>1, <2>2, <2>4
<1>5. QED
  BY <1>2, <1>3, <1>4, ComponentProps

\* What is stored has no influence on where a location leads.
LEMMA FollowSame ==
  ASSUME NEW d \in 0 .. MaxDepth, NEW t \in Types[d],
         NEW a, Denotes(a, t), NEW b, Denotes(b, t), Same(a, b),
         NEW slack, NEW p \in Components(t, slack), NEW c, NEW w, NEW x
  PROVE  Same(Follow(c, w, a, p.step), Follow(c, x, b, p.step))
<1>1. a.type = t /\ b.type = t /\ a.at = b.at /\ a.shift = b.shift
  BY DEF Denotes, Same
<1>2. CASE t.cat = "array"
  <2>1. Same(Element(c, w, a, p.step), Element(c, x, b, p.step))
    BY <1>1 DEF Same, Element
  <2>2. QED
    BY <1>1, <1>2, <2>1 DEF Follow
<1>3. CASE t.cat = "mapping"
  <2>1. Same(Entry(a, p.step), Entry(b, p.step))
    BY <1>1 DEF Same, Entry, Denotes
  <2>2. QED
    BY <1>1, <1>3, <2>1 DEF Follow
<1>4. CASE t.cat = "struct"
  <2>1. Same(Member(a, p.step), Member(b, p.step))
    BY <1>1 DEF Same, Member, Denotes
  <2>2. QED
    BY <1>1, <1>4, <2>1 DEF Follow
<1>5. QED
  BY <1>2, <1>3, <1>4, ComponentProps

LEMMA PlaceDenotes ==
  ASSUME NEW c \in Contracts, NEW slack, NEW n \in 0 .. MaxDepth,
         NEW x \in Level(c, slack, n), NEW slots, NEW w, NEW u
  PROVE  /\ Denotes(Place(c, slots, w, x.loc), x.type)
         /\ Same(Place(c, slots, w, x.loc), Place(c, slots, u, x.loc))
<1>. DEFINE P(z) == /\ Denotes(Place(c, slots, w, z.loc), z.type)
                    /\ Denotes(Place(c, slots, u, z.loc), z.type)
                    /\ Same(Place(c, slots, w, z.loc), Place(c, slots, u, z.loc))
            S == {k \in Nat : k <= MaxDepth => \A z \in Level(c, slack, k) : P(z)}
<1>1. MaxDepth \in Nat
  BY TypesAssumption
<1>2. 0 \in S
  <2>1. SUFFICES ASSUME NEW z \in Variables(c) PROVE P(z)
    BY LevelSteps
  <2>2. PICK v \in DOMAIN c.vars : z = [loc |-> <<v>>, type |-> c.vars[v]]
    BY VariableProps
  <2>3. /\ Place(c, slots, w, z.loc) = Variable(c, slots, v)
        /\ Place(c, slots, u, z.loc) = Variable(c, slots, v)
    BY <2>2, PlaceSteps
  <2>4. QED
    BY <2>2, <2>3, VariableDenotes DEF Same
<1>3. ASSUME NEW k \in Nat, k \in S PROVE k + 1 \in S
  <2>1. SUFFICES ASSUME k + 1 <= MaxDepth, NEW z \in Level(c, slack, k + 1)
                 PROVE  P(z)
    OBVIOUS
  <2>2. PICK y \in Level(c, slack, k) : Behind(z, y, slack)
    BY LevelIsInside
  <2>3. PICK p \in Components(y.type, slack) :
          z = [loc |-> Append(y.loc, p.step), type |-> p.type]
    BY <2>2 DEF Behind
  <2>4. k \in 0 .. MaxDepth
    BY <1>1, <2>1
  <2>5. LevelType(y, k)
    BY <2>4, LevelProps
  <2>6. P(y)
    BY <1>1, <1>3, <2>1
  <2>7. p.step \in Nat /\ y.loc \in Seq(Nat) /\ y.loc # <<>> /\ y.type \in Types[k]
    BY <2>4, <2>5, ComponentProps DEF LevelType
  <2>8. /\ Place(c, slots, w, z.loc) = Follow(c, w, Place(c, slots, w, y.loc), p.step)
        /\ Place(c, slots, u, z.loc) = Follow(c, u, Place(c, slots, u, y.loc), p.step)
    BY <2>3, <2>7, PlaceSteps
  <2>9. z.type = p.type
    BY <2>3
  <2>10. QED
    BY <2>4, <2>6, <2>7, <2>8, <2>9, FollowDenotes, FollowSame
<1>. HIDE DEF S, P
<1>4. n \in S
  BY <1>1, <1>2, <1>3, NaturalInduction
<1>5. QED
  BY <1>1, <1>4 DEF S, P

-----------------------------------------------------------------------------
(* What a store changes.                                                   *)

Words(w) == \A at \in DOMAIN w : w[at] \in Nat

\* A value of type t.
Value(t, v) == IF t.cat = "string" THEN v \in Seq(Nat) ELSE v \in Nat

\* The addresses that the store to a place may write.
MayWrite(a, y) ==
  y = a.at \/ (a.type.cat = "string" /\ \E i \in Nat : y = Plus(Hash(a.at, 0), i))

LEMMA WordIsNatural ==
  ASSUME NEW w, Words(w), NEW at
  PROVE  WordOf(w, at) \in Nat
BY DEF WordOf, Words

LEMMA UpdateProps ==
  ASSUME NEW w, NEW x, NEW v
  PROVE  /\ Words(w) /\ v \in Nat => Words(Update(w, x, v))
         /\ WordOf(Update(w, x, v), x) = v
         /\ \A y : y # x => WordOf(Update(w, x, v), y) = WordOf(w, y)
<1>. DEFINE u == Update(w, x, v)
<1>1. /\ DOMAIN u = {x} \cup DOMAIN w
      /\ \A y \in DOMAIN u : u[y] = IF y = x THEN v ELSE w[y]
  BY DEF Update
<1>. HIDE DEF u
<1>2. Words(w) /\ v \in Nat => Words(u)
  BY <1>1 DEF Words
<1>3. WordOf(u, x) = v
  BY <1>1 DEF WordOf
<1>4. \A y : y # x => WordOf(u, y) = WordOf(w, y)
  BY <1>1 DEF WordOf
<1>5. QED
  BY <1>2, <1>3, <1>4 DEF u

LEMMA StoreNumberProps ==
  ASSUME NEW w, Words(w), NEW a, NEW v \in Nat, a.type.bits \in Nat,
         a.shift = NoShift \/ a.shift \in Nat
  PROVE  /\ Words(StoreNumber(w, a, v))
         /\ a.shift # NoShift => WordOf(StoreNumber(w, a, v), a.at)
                                   = Packed(WordOf(w, a.at), a.type.bits, a.shift, v)
         /\ \A y : y # a.at => WordOf(StoreNumber(w, a, v), y) = WordOf(w, y)
<1>. DEFINE new == IF a.shift = NoShift THEN v
                   ELSE Packed(WordOf(w, a.at), a.type.bits, a.shift, v)
<1>1. StoreNumber(w, a, v) = Update(w, a.at, new)
  BY DEF StoreNumber, Packed
<1>2. new \in Nat
  BY WordIsNatural, PackedIsNatural
<1>3. a.shift # NoShift => new = Packed(WordOf(w, a.at), a.type.bits, a.shift, v)
  OBVIOUS
<1>. HIDE DEF new
<1>4. QED
  BY <1>1, <1>2, <1>3, UpdateProps

LEMMA StoreStringProps ==
  ASSUME NEW w, Words(w), NEW at, NEW s \in Seq(Nat), NEW junk \in Nat
  PROVE  /\ Words(StoreString(w, at, s, junk))
         /\ \A y : y # at /\ (\A i \in Nat : y # Plus(Hash(at, 0), i))
              => WordOf(StoreString(w, at, s, junk), y) = WordOf(w, y)
<1>1. WordBytes \in Nat \ {0} /\ ByteBits \in Nat /\ Len(s) \in Nat
  BY WordAssumption
<1>2. CASE Inline(s)
  <2>. DEFINE new == (Over(s, junk) - (Over(s, junk) % Pow2(ByteBits)))
                       + LengthByte(s, junk)
  <2>1. StoreString(w, at, s, junk) = Update(w, at, new)
    BY <1>2 DEF StoreString
  <2>2. PICK word \in Nat : word = Over(s, junk)
    BY OverIsNatural
  <2>3. PICK M \in Nat \ {0} : M = Pow2(ByteBits)
    BY <1>1, PowPositive
  <2>4. word - (word % M) \in Nat
    <3>1. /\ word = (word \div M) * M + (word % M)
          /\ word \div M \in Nat /\ word % M \in Nat
      BY Division
    <3>2. (word \div M) * M \in Nat
      BY <3>1
    <3>3. QED
      BY <3>1, <3>2
  <2>5. LengthByte(s, junk) \in Nat
    <3>1. WordBytes \in 1 .. WordBytes
      BY <1>1
    <3>2. ByteAt(junk, WordBytes) \in Nat
      BY <3>1, <1>1, BytesAreNatural
    <3>3. 2 * Len(s) \in Nat
      BY <1>1
    <3>4. QED
      BY <3>2, <3>3, OrIsNatural DEF LengthByte
  <2>6. new \in Nat
    BY <2>2, <2>3, <2>4, <2>5
  <2>. HIDE DEF new
  <2>7. QED
    BY <2>1, <2>6, UpdateProps
<1>3. CASE ~ Inline(s)
  <2>. DEFINE count == (Len(s) + WordBytes - 1) \div WordBytes
              data == {Plus(Hash(at, 0), i) : i \in 0 .. count - 1}
              put == Update(w, at, 2 * Len(s) + 1)
              part(i) == SubSeq(s, i * WordBytes + 1, Len(s))
              all == [x \in DOMAIN put \cup data |->
                        IF x \in data THEN Over(part(x.off), junk) ELSE put[x]]
  <2>1. StoreString(w, at, s, junk) = all
    BY <1>3 DEF StoreString
  <2>2. 2 * Len(s) + 1 \in Nat
    BY <1>1
  <2>3. Words(put) /\ \A y : y # at => WordOf(put, y) = WordOf(w, y)
    BY <2>2, UpdateProps
  <2>4. ASSUME NEW x \in data PROVE Over(part(x.off), junk) \in Nat
    <3>1. PICK i \in 0 .. count - 1 : x = Plus(Hash(at, 0), i)
      OBVIOUS
    <3>2. x.off = i
      BY <3>1 DEF Plus, Hash
    <3>3. PICK L \in Nat, B \in Nat \ {0} : L = Len(s) /\ B = WordBytes
      BY <1>1
    <3>4. PICK c \in Nat, r \in Nat : c = (L + B - 1) \div B /\ L + B - 1 = c * B + r
      <4>1. PICK z \in Nat : z = L + B - 1
        OBVIOUS
      <4>2. z = (z \div B) * B + (z % B) /\ z \div B \in Nat /\ z % B \in Nat
        <5>. HIDE DEF count, data, put, part, all
        <5>1. z % B \in 0 .. (B - 1) /\ z = (z \div B) * B + (z % B) /\ z \div B \in Nat
          BY Division
        <5>2. QED
          BY <5>1
      <4>3. QED
        BY <4>1, <4>2
    <3>5. i \in Nat /\ i + 1 <= c
      BY <3>3, <3>4
    <3>6. i * B + 1 \in 1 .. L + 1
      <4>1. PICK k \in Nat : c = (i + 1) + k
        <5>1. c - (i + 1) \in Nat /\ c = (i + 1) + (c - (i + 1))
          BY <3>5
        <5>2. QED
          BY <5>1
      <4>2. c * B = i * B + B + k * B /\ i * B \in Nat /\ k * B \in Nat
        BY <3>5, <4>1
      <4>3. QED
        BY <3>4, <4>2
    <3>7. L \in (i * B + 1) - 1 .. Len(s)
      BY <3>3, <3>6
    <3>8. SubSeq(s, i * B + 1, L) \in Seq(Nat)
      BY <3>3, <3>6, <3>7, SubSeqProperties
    <3>9. part(x.off) \in Seq(Nat)
      BY <3>2, <3>3, <3>8
    <3>10. QED
      BY <3>9, OverIsNatural
  <2>5. \A x \in data : \E i \in Nat : x = Plus(Hash(at, 0), i)
    <3>1. \A i \in 0 .. count - 1 : i \in Nat
      OBVIOUS
    <3>2. QED
      BY <3>1
  <2>. HIDE DEF put, data, part
  <2>6. DOMAIN all = DOMAIN put \cup data
    OBVIOUS
  <2>7. \A x \in DOMAIN all : all[x] = IF x \in data THEN Over(part(x.off), junk) ELSE put[x]
    OBVIOUS
  <2>. HIDE DEF all
  <2>8. Words(all)
    BY <2>3, <2>4, <2>6, <2>7 DEF Words
  <2>9. ASSUME NEW y, y # at, \A i \in Nat : y # Plus(Hash(at, 0), i)
        PROVE  WordOf(all, y) = WordOf(w, y)
    <3>1. y \notin data
      BY <2>5, <2>9
    <3>2. WordOf(all, y) = WordOf(put, y)
      BY <2>6, <2>7, <3>1 DEF WordOf
    <3>3. QED
      BY <2>3, <2>9, <3>2
  <2>10. QED
    BY <2>1, <2>8, <2>9
<1>4. QED
  BY <1>2, <1>3

LEMMA StoresProps ==
  ASSUME NEW d \in 0 .. MaxDepth, NEW t \in Types[d], t.cat \in Leaf,
         NEW a, Denotes(a, t), NEW w, Words(w), NEW v, Value(t, v), NEW junk \in Nat
  PROVE  /\ Words(Stores(w, a, v, junk))
         /\ a.shift # NoShift =>
              /\ t.bits \in 1 .. WordBits /\ a.shift \in Nat /\ v \in Nat
              /\ WordOf(Stores(w, a, v, junk), a.at)
                   = Packed(WordOf(w, a.at), t.bits, a.shift, v)
         /\ \A y : ~ MayWrite(a, y) => WordOf(Stores(w, a, v, junk), y) = WordOf(w, y)
<1>1. a.type = t /\ (a.shift = NoShift \/ a.shift \in Nat)
  BY DEF Denotes
<1>2. CASE t.cat = "string"
  <2>1. a.shift = NoShift
    BY <1>2 DEF Denotes, Scalars
  <2>2. Stores(w, a, v, junk) = StoreString(w, a.at, v, junk) /\ v \in Seq(Nat)
    BY <1>1, <1>2 DEF Stores, Value
  <2>3. \A y : ~ MayWrite(a, y) => y # a.at /\ \A i \in Nat : y # Plus(Hash(a.at, 0), i)
    BY <1>1, <1>2 DEF MayWrite
  <2>4. /\ Words(StoreString(w, a.at, v, junk))
        /\ \A y : y # a.at /\ (\A i \in Nat : y # Plus(Hash(a.at, 0), i))
              => WordOf(StoreString(w, a.at, v, junk), y) = WordOf(w, y)
    BY <2>2, StoreStringProps
  <2>5. QED
    BY <2>1, <2>2, <2>3, <2>4
<1>3. CASE t.cat \in Scalars
  <2>1. t.bits \in 1 .. WordBits /\ t.bits \in Nat
    <3>1. t.bits \in 1 .. WordBits
      BY <1>3, TypeProps
    <3>2. WordBits \in Nat
      BY BytesAreNatural
    <3>3. QED
      BY <3>1, <3>2
  <2>2. Stores(w, a, v, junk) = StoreNumber(w, a, v) /\ v \in Nat
    BY <1>1, <1>3 DEF Stores, Value, Scalars
  <2>3. \A y : ~ MayWrite(a, y) => y # a.at
    BY DEF MayWrite
  <2>4. QED
    BY <1>1, <2>1, <2>2, <2>3, StoreNumberProps
<1>4. QED
  BY <1>2, <1>3 DEF Leaf

LEMMA LoadStringProps ==
  ASSUME NEW w, Words(w), NEW at
  PROVE  LoadString(w, at) \in Seq(Nat)
<1>1. WordBytes \in Nat \ {0} /\ Pow2(ByteBits) \in Nat \ {0}
  BY WordAssumption, PowPositive
<1>. DEFINE word == WordOf(w, at)
            inline == word % 2 = 0
            n == IF inline THEN (word % Pow2(ByteBits)) \div 2 ELSE word \div 2
            part(i) == IF inline THEN word
                       ELSE WordOf(w, Plus(Hash(at, 0), (i - 1) \div WordBytes))
<1>2. \A i : part(i) \in Nat
  BY WordIsNatural
<1>3. n \in Nat
  <2>1. word \in Nat
    BY WordIsNatural
  <2>2. word % Pow2(ByteBits) \in Nat
    BY <1>1, <2>1
  <2>. HIDE DEF word
  <2>3. QED
    BY <2>1, <2>2
<1>4. \A i \in 1 .. n : ByteAt(part(i), ((i - 1) % WordBytes) + 1) \in Nat
  <2>. HIDE DEF n, part
  <2>1. TAKE i \in 1 .. n
  <2>2. i - 1 \in Nat
    BY <1>3
  <2>3. ((i - 1) % WordBytes) + 1 \in 1 .. WordBytes
    BY <1>1, <2>2
  <2>4. part(i) \in Nat
    BY <1>2
  <2>5. ((i - 1) % WordBytes) + 1 \in Nat
    BY <1>1, <2>3
  <2>6. QED
    BY <2>3, <2>4, <2>5, BytesAreNatural
<1>5. LoadString(w, at) = [i \in 1 .. n |-> ByteAt(part(i), ((i - 1) % WordBytes) + 1)]
  BY DEF LoadString
<1>. HIDE DEF n, part
<1>6. QED
  BY <1>3, <1>4, <1>5

LEMMA LoadsProps ==
  ASSUME NEW d \in 0 .. MaxDepth, NEW t \in Types[d], t.cat \in Leaf,
         NEW a, Denotes(a, t), NEW w, Words(w)
  PROVE  /\ Loads(w, a) # {}
         /\ \A v \in Loads(w, a) : Value(t, v)
<1>1. a.type = t /\ (a.shift = NoShift \/ a.shift \in Nat)
  BY DEF Denotes
<1>2. CASE t.cat = "string"
  <2>1. Loads(w, a) = {LoadString(w, a.at)}
    BY <1>1, <1>2 DEF Loads
  <2>2. QED
    BY <1>2, <2>1, LoadStringProps DEF Value
<1>3. CASE t.cat \in Scalars
  <2>1. t.bits \in 1 .. WordBits /\ t.bits \in Nat
    <3>1. t.bits \in 1 .. WordBits
      BY <1>3, TypeProps
    <3>2. WordBits \in Nat
      BY BytesAreNatural
    <3>3. QED
      BY <3>1, <3>2
  <2>2. PICK B \in Nat \ {0} : B = Pow2(t.bits)
    BY <2>1, PowPositive
  <2>3. PICK value \in Nat : value = WordOf(w, a.at) % B
    <3>1. WordOf(w, a.at) \in Nat
      BY WordIsNatural
    <3>2. QED
      BY <3>1, Division
  <2>4. Loads(w, a) = IF a.shift = NoShift THEN {value}
                      ELSE IF a.shift % B >= t.bits THEN 0 .. B - 1
                      ELSE {value \div Pow2(a.shift % B)}
    <3>1. t.cat # "string"
      BY <1>3 DEF Scalars
    <3>2. QED
      BY <1>1, <2>2, <2>3, <3>1 DEF Loads
  <2>5. a.shift # NoShift => value \div Pow2(a.shift % B) \in Nat
    <3>1. a.shift \in Nat => a.shift % B \in Nat
      OBVIOUS
    <3>2. a.shift \in Nat => Pow2(a.shift % B) \in Nat \ {0}
      BY <3>1, PowPositive
    <3>3. QED
      BY <1>1, <3>2, Division
  <2>6. 0 .. B - 1 # {} /\ 0 .. B - 1 \subseteq Nat
    <3>1. 0 \in 0 .. B - 1
      OBVIOUS
    <3>2. QED
      BY <3>1
  <2>7. Loads(w, a) # {} /\ Loads(w, a) \subseteq Nat
    BY <2>4, <2>5, <2>6
  <2>8. t.cat # "string"
    BY <1>3 DEF Scalars
  <2>9. QED
    BY <2>7, <2>8 DEF Value
<1>4. QED
  BY <1>2, <1>3 DEF Leaf

-----------------------------------------------------------------------------
(* The locations of a contract.                                            *)

\* A place whose type is one of a contract, of a category wanted.
Sited(a, wanted) ==
  \E d \in 0 .. MaxDepth :
    a.type \in Types[d] /\ Denotes(a, a.type) /\ a.type.cat \in wanted

LEMMA FoundAtLevel ==
  ASSUME NEW slack, NEW wanted, NEW loc \in Locations(slack, wanted)
  PROVE  \E n \in 0 .. MaxDepth : \E x \in Level(contract, slack, n) :
           x.loc = loc /\ x.type.cat \in wanted
BY DEF Locations, Found

LEMMA LocationProps ==
  ASSUME contract \in Contracts, NEW slack, NEW wanted,
         NEW loc \in Locations(slack, wanted), NEW slots, NEW w, NEW u
  PROVE  /\ loc # <<>>
         /\ Sited(Place(contract, slots, w, loc), wanted)
         /\ Same(Place(contract, slots, w, loc), Place(contract, slots, u, loc))
<1>1. PICK n \in 0 .. MaxDepth : \E x \in Level(contract, slack, n) :
        x.loc = loc /\ x.type.cat \in wanted
  BY FoundAtLevel
<1>. PICK x \in Level(contract, slack, n) : x.loc = loc /\ x.type.cat \in wanted
  BY <1>1
<1>2. LevelType(x, n)
  BY LevelProps
<1>3. /\ Denotes(Place(contract, slots, w, loc), x.type)
      /\ Same(Place(contract, slots, w, loc), Place(contract, slots, u, loc))
  BY <1>1, PlaceDenotes
<1>4. Place(contract, slots, w, loc).type = x.type
  BY <1>3 DEF Denotes
<1>5. x.type \in Types[n] /\ loc # <<>>
  BY <1>1, <1>2 DEF LevelType
<1>6. QED
  BY <1>1, <1>3, <1>4, <1>5 DEF Sited

\* The place that an assignment or an exchange goes to.
LEMMA StoreSited ==
  ASSUME NEW a, Sited(a, Leaf), NEW w, Words(w), NEW v, Value(a.type, v),
         NEW junk \in Nat
  PROVE  /\ Words(Stores(w, a, v, junk))
         /\ a.shift # NoShift =>
              /\ a.type.bits \in 1 .. WordBits /\ a.shift \in Nat /\ v \in Nat
              /\ WordOf(Stores(w, a, v, junk), a.at)
                   = Packed(WordOf(w, a.at), a.type.bits, a.shift, v)
         /\ \A y : ~ MayWrite(a, y) => WordOf(Stores(w, a, v, junk), y) = WordOf(w, y)
<1>1. PICK d \in 0 .. MaxDepth :
        a.type \in Types[d] /\ Denotes(a, a.type) /\ a.type.cat \in Leaf
  BY DEF Sited
<1>2. QED
  BY <1>1, StoresProps

LEMMA LoadSited ==
  ASSUME NEW a, Sited(a, Leaf), NEW w, Words(w)
  PROVE  /\ Loads(w, a) # {}
         /\ \A v \in Loads(w, a) : Value(a.type, v)
<1>1. PICK d \in 0 .. MaxDepth :
        a.type \in Types[d] /\ Denotes(a, a.type) /\ a.type.cat \in Leaf
  BY DEF Sited
<1>2. QED
  BY <1>1, LoadsProps

\* What was stored last reads back as PackedReadsBack says.
LEMMA PackedLoad ==
  ASSUME NEW a, Sited(a, Leaf), a.shift # NoShift, NEW b, Same(a, b),
         NEW w, Words(w), NEW v, Value(a.type, v), NEW junk \in Nat
  PROVE  (Loads(Stores(w, a, v, junk), b) = {v})
           <=> /\ v * Pow2(b.shift) < Pow2(b.type.bits)
               /\ b.shift % Pow2(b.type.bits) < b.type.bits
<1>. DEFINE u == Stores(w, a, v, junk)
<1>1. PICK bits \in Nat, shift \in Nat, old \in Nat :
        /\ bits = a.type.bits /\ shift = a.shift /\ old = WordOf(w, a.at)
        /\ bits # 0 /\ v \in Nat
        /\ WordOf(u, a.at) = Packed(old, bits, shift, v)
  <2>1. /\ a.type.bits \in 1 .. WordBits /\ a.shift \in Nat /\ v \in Nat
        /\ WordOf(u, a.at) = Packed(WordOf(w, a.at), a.type.bits, a.shift, v)
    BY StoreSited
  <2>2. WordOf(w, a.at) \in Nat
    BY WordIsNatural
  <2>3. WordBits \in Nat
    BY BytesAreNatural
  <2>4. a.type.bits \in Nat /\ a.type.bits # 0
    BY <2>1, <2>3
  <2>. HIDE DEF u
  <2>5. QED
    BY <2>1, <2>2, <2>4
<1>2. a.type.cat # "string"
  <2>1. PICK d \in 0 .. MaxDepth : Denotes(a, a.type)
    BY DEF Sited
  <2>2. a.type.cat \in Scalars
    BY <2>1 DEF Denotes
  <2>3. QED
    BY <2>2 DEF Scalars
<1>3. b.type = a.type /\ b.at = a.at /\ b.shift = a.shift
  BY DEF Same
<1>4. PICK B \in Nat \ {0}, by \in Nat : B = Pow2(bits) /\ by = shift % B
  <2>1. PICK B \in Nat \ {0} : B = Pow2(bits)
    BY PowPositive
  <2>2. shift % B \in Nat
    BY Division
  <2>3. QED
    BY <2>1, <2>2
<1>5. Loads(u, b) = IF by >= bits THEN 0 .. B - 1
                    ELSE {(Packed(old, bits, shift, v) % B) \div Pow2(by)}
  <2>. HIDE DEF u
  <2>1. QED
    BY <1>1, <1>2, <1>3, <1>4 DEF Loads
<1>. HIDE DEF u
<1>6. CASE by >= bits
  <2>1. B >= 2
    <3>1. bits < B
      BY <1>4, PowGrows
    <3>2. QED
      BY <1>1, <3>1
  <2>2. 0 \in 0 .. B - 1 /\ 1 \in 0 .. B - 1
    BY <2>1
  <2>3. Loads(u, b) # {v}
    <3>1. Loads(u, b) = 0 .. B - 1
      BY <1>5, <1>6
    <3>2. 0 \in Loads(u, b) /\ 1 \in Loads(u, b)
      BY <2>2, <3>1
    <3>3. QED
      BY <3>2
  <2>4. ~ (by < bits)
    BY <1>6
  <2>5. QED
    BY <1>1, <1>3, <1>4, <2>3, <2>4 DEF u
<1>7. CASE by < bits
  <2>1. Loads(u, b) = {(Packed(old, bits, shift, v) % B) \div Pow2(by)}
    BY <1>5, <1>7
  <2>2. (Packed(old, bits, shift, v) % B) \div Pow2(by) = v <=> v * Pow2(shift) < B
    BY <1>1, <1>4, <1>7, PackedValue
  <2>3. Loads(u, b) = {v} <=> v * Pow2(shift) < B
    BY <2>1, <2>2
  <2>4. QED
    BY <1>1, <1>3, <1>4, <1>7, <2>3 DEF u
<1>8. QED
  BY <1>4, <1>6, <1>7

-----------------------------------------------------------------------------
(* A struct is copied member by member.                                    *)

CopiesTo(g, to, from, junk, m) ==
  g = [i \in 0 .. m |-> IF i = 0 THEN [words |-> storage, held |-> held, dirty |-> dirty]
                        ELSE CopyMember(g[i - 1], to, from, i, junk)]

\* The recursion in CopyMembers has a solution.
LEMMA CopyExists ==
  ASSUME NEW to, NEW from, NEW junk, NEW m \in Nat
  PROVE  \E g : CopiesTo(g, to, from, junk, m)
<1>. DEFINE Solves(g, k) == g = [i \in 0 .. k |-> IF i = 0 THEN [words |-> storage, held |-> held, dirty |-> dirty] ELSE CopyMember(g[i - 1], to, from, i, junk)]
            S == {k \in Nat : \E g : Solves(g, k)}
<1>1. 0 \in S
  <2>1. Solves([i \in 0 .. 0 |-> [words |-> storage, held |-> held, dirty |-> dirty]], 0)
    OBVIOUS
  <2>. HIDE DEF Solves
  <2>2. QED
    BY <2>1
<1>2. ASSUME NEW k \in Nat, k \in S PROVE k + 1 \in S
  <2>1. PICK g : Solves(g, k)
    BY <1>2
  <2>. DEFINE h == [i \in 0 .. (k + 1) |-> IF i <= k THEN g[i] ELSE IF i = 0 THEN [words |-> storage, held |-> held, dirty |-> dirty] ELSE CopyMember(g[i - 1], to, from, i, junk)]
  <2>2. ASSUME NEW i \in 0 .. (k + 1)
        PROVE  h[i] = IF i = 0 THEN [words |-> storage, held |-> held, dirty |-> dirty] ELSE CopyMember(h[i - 1], to, from, i, junk)
    <3>1. CASE i <= k
      <4>1. g[i] = IF i = 0 THEN [words |-> storage, held |-> held, dirty |-> dirty] ELSE CopyMember(g[i - 1], to, from, i, junk)
        BY <2>1, <3>1
      <4>2. i # 0 => h[i - 1] = g[i - 1]
        BY <3>1
      <4>3. QED
        BY <4>1, <4>2, <3>1
    <3>2. CASE i = k + 1
      <4>1. i # 0 => h[i - 1] = g[i - 1]
        BY <3>2
      <4>2. QED
        BY <3>2, <4>1
    <3>3. QED
      BY <3>1, <3>2
  <2>3. Solves(h, k + 1)
    BY <2>2
  <2>. HIDE DEF h, Solves
  <2>4. \E x : Solves(x, k + 1)
    BY <2>3
  <2>5. k + 1 \in Nat
    OBVIOUS
  <2>6. QED
    BY <2>4, <2>5
<1>. HIDE DEF S
<1>3. Nat \subseteq S
  BY <1>1, <1>2, NaturalInduction
<1>4. QED
  BY <1>3 DEF S, CopiesTo

LEMMA CopyUnfolds ==
  ASSUME NEW to, NEW from, NEW junk, NEW n \in Nat, n = Len(Access(to).type.elems)
  PROVE  \E g : CopiesTo(g, to, from, junk, n) /\ CopyMembers(to, from, junk) = g[n]
<1>. DEFINE f == CHOOSE g : CopiesTo(g, to, from, junk, n)
<1>1. CopiesTo(f, to, from, junk, n)
  BY CopyExists, Zenon
<1>2. CopyMembers(to, from, junk) = f[n]
  BY Zenon DEF CopyMembers, CopiesTo
<1>. HIDE DEF f
<1>3. QED
  BY <1>1, <1>2

LEMMA MemberSited ==
  ASSUME NEW a, Sited(a, {"struct"}), Copyable(a.type), NEW i \in 1 .. Len(a.type.elems)
  PROVE  Sited(Member(a, i), Leaf) /\ Member(a, i).type = a.type.elems[i]
<1>1. PICK d \in 0 .. MaxDepth :
        a.type \in Types[d] /\ Denotes(a, a.type) /\ a.type.cat = "struct"
  BY DEF Sited
<1>. DEFINE p == [step |-> i, type |-> a.type.elems[i]]
<1>2. a.type.elems \in Seq(Types[d + 1]) /\ i \in DOMAIN a.type.elems
  BY <1>1, TypeProps
<1>3. p \in Components(a.type, 0)
  BY <1>1, <1>2 DEF Components
<1>4. /\ p.type = a.type.elems[i] /\ p.step = i
      /\ p.type \in Types[d + 1] /\ d + 1 \in 0 .. MaxDepth
  BY <1>1, <1>3, ComponentProps
<1>5. Denotes(Follow({}, {}, a, p.step), p.type)
  BY <1>1, <1>3, FollowDenotes
<1>6. Follow({}, {}, a, p.step) = Member(a, i)
  BY <1>1, <1>4 DEF Follow
<1>7. Member(a, i).type = a.type.elems[i]
  BY DEF Member
<1>8. a.type.elems[i].cat \in Leaf
  BY <1>2 DEF Copyable
<1>9. QED
  BY <1>4, <1>5, <1>6, <1>7, <1>8 DEF Sited

LEMMA CopyProps ==
  ASSUME NEW to, NEW from, NEW junk \in Nat, Words(storage),
         Sited(Access(to), {"struct"}), Sited(Access(from), {"struct"}),
         Access(to).type = Access(from).type, Copyable(Access(to).type)
  PROVE  /\ Words(CopyMembers(to, from, junk).words)
         /\ \A y : (\A i \in 1 .. Len(Access(to).type.elems) : ~ MayWrite(Member(Access(to), i), y))
              => WordOf(CopyMembers(to, from, junk).words, y) = WordOf(storage, y)
<1>. DEFINE a == Access(to)
            b == Access(from)
<1>1. PICK n \in Nat : n = Len(a.type.elems)
  <2>1. PICK d \in 0 .. MaxDepth : a.type \in Types[d] /\ a.type.cat = "struct"
    BY DEF Sited
  <2>2. a.type.elems \in Seq(Types[d + 1])
    BY <2>1, TypeProps
  <2>. HIDE DEF a
  <2>3. QED
    BY <2>2
<1>2. PICK g : CopiesTo(g, to, from, junk, n) /\ CopyMembers(to, from, junk) = g[n]
  BY <1>1, CopyUnfolds
<1>. DEFINE Kept(w) == \A y : (\A i \in 1 .. n : ~ MayWrite(Member(a, i), y))
                         => WordOf(w, y) = WordOf(storage, y)
            S == {k \in Nat : k <= n => Words(g[k].words) /\ Kept(g[k].words)}
<1>3. 0 \in S
  <2>1. g[0].words = storage
    BY <1>2 DEF CopiesTo
  <2>2. QED
    BY <2>1
<1>4. ASSUME NEW k \in Nat, k \in S PROVE k + 1 \in S
  <2>1. SUFFICES ASSUME k + 1 <= n PROVE Words(g[k + 1].words) /\ Kept(g[k + 1].words)
    OBVIOUS
  <2>2. PICK i \in 1 .. n : i = k + 1 /\ i - 1 = k
    BY <2>1
  <2>3. g[i] = CopyMember(g[k], to, from, i, junk)
    BY <1>2, <2>2 DEF CopiesTo
  <2>4. Words(g[k].words) /\ Kept(g[k].words)
    BY <1>4, <2>1
  <2>5. /\ Sited(Member(a, i), Leaf) /\ Sited(Member(b, i), Leaf)
        /\ Member(a, i).type = Member(b, i).type
    <3>1. Sited(Member(a, i), Leaf) /\ Member(a, i).type = a.type.elems[i]
      BY <1>1, MemberSited
    <3>2. Sited(Member(b, i), Leaf) /\ Member(b, i).type = b.type.elems[i]
      BY <1>1, MemberSited
    <3>3. QED
      BY <3>1, <3>2
  <2>6. PICK v : /\ g[i].words = Stores(g[k].words, Member(a, i), v, junk)
                 /\ Value(Member(a, i).type, v)
    <3>. DEFINE v == CHOOSE u \in Loads(g[k].words, Member(b, i)) : TRUE
    <3>1. g[i].words = Stores(g[k].words, Member(a, i), v, junk)
      BY <2>3 DEF CopyMember
    <3>2. v \in Loads(g[k].words, Member(b, i))
      BY <2>4, <2>5, LoadSited
    <3>. HIDE DEF v
    <3>3. Value(Member(a, i).type, v)
      BY <2>4, <2>5, <3>2, LoadSited
    <3>4. QED
      BY <3>1, <3>3
  <2>. HIDE DEF a, b
  <2>7. /\ Words(g[i].words)
        /\ \A y : ~ MayWrite(Member(a, i), y) => WordOf(g[i].words, y) = WordOf(g[k].words, y)
    BY <2>4, <2>5, <2>6, StoreSited
  <2>8. Kept(g[i].words)
    BY <2>4, <2>7
  <2>9. QED
    BY <2>2, <2>7, <2>8
<1>. HIDE DEF S
<1>5. n \in S
  BY <1>3, <1>4, NaturalInduction
<1>6. Words(g[n].words) /\ Kept(g[n].words)
  BY <1>5 DEF S
<1>7. QED
  BY <1>1, <1>2, <1>6

-----------------------------------------------------------------------------
(* Packed elements.                                                        *)

PackedInv ==
  /\ contract \in Contracts
  /\ Words(storage)
  /\ last.loc # <<>> => Declared
  /\ PackedReadsBack

LEMMA AccessProps ==
  ASSUME contract \in Contracts, NEW slack, NEW wanted,
         NEW loc \in Locations(slack, wanted)
  PROVE  /\ loc # <<>>
         /\ Sited(Access(loc), wanted)
         /\ contract' = contract /\ layout' = layout => Same(Access(loc), Access(loc)')
BY LocationProps DEF Access

LEMMA ValuesProps ==
  ASSUME NEW a, Sited(a, Leaf), NEW v \in ValuesOf(a.type)
  PROVE  Value(a.type, v)
<1>1. PICK d \in 0 .. MaxDepth : a.type \in Types[d] /\ a.type.cat \in Leaf
  BY DEF Sited
<1>2. CASE a.type.cat = "string"
  <2>1. v \in Seq(Bytes)
    BY <1>2, StringsAssumption DEF ValuesOf
  <2>2. Bytes \subseteq Nat
    BY DEF Bytes
  <2>3. v \in Seq(Nat)
    BY <2>1, <2>2, SeqGrows
  <2>4. QED
    BY <1>2, <2>3 DEF Value
<1>3. CASE a.type.cat # "string"
  <2>1. a.type.bits \in 1 .. WordBits
    BY <1>1, <1>3, TypeProps DEF Leaf
  <2>2. WordBits \in Nat
    BY BytesAreNatural
  <2>3. a.type.bits \in Nat
    BY <2>1, <2>2
  <2>4. Pow2(a.type.bits) - 1 \in Nat
    <3>1. Pow2(a.type.bits) \in Nat \ {0}
      BY <2>3, PowPositive
    <3>2. QED
      BY <3>1
  <2>5. QED
    BY <1>3, <2>4 DEF ValuesOf, Value
<1>4. QED
  BY <1>2, <1>3

LEMMA LocationsStay ==
  ASSUME contract' = contract, NEW slack, NEW wanted
  PROVE  Locations(slack, wanted)' = Locations(slack, wanted)
BY DEF Locations

\* What was stored last reads back, or not, as PackedReadsBack says.
LEMMA StoredLast ==
  ASSUME contract \in Contracts, contract' = contract, layout' = layout,
         NEW slack, NEW loc \in Locations(slack, Leaf),
         NEW w, Words(w), NEW v, Value(Access(loc).type, v), NEW junk \in Nat,
         storage' = Stores(w, Access(loc), v, junk),
         NEW h, held' = Holding(h, loc, v), last' = [loc |-> loc, ok |-> TRUE]
  PROVE  Words(storage)' /\ PackedReadsBack'
<1>1. /\ Sited(Access(loc), Leaf)
      /\ Same(Access(loc), Access(loc)')
  BY AccessProps
<1>2. Words(storage')
  BY <1>1, StoreSited
<1>3. last'.loc = loc /\ last'.ok /\ held'[loc] = v
  BY DEF Holding, Update
<1>4. Access(loc).shift = NoShift => Access(loc)'.shift = NoShift
  BY <1>1 DEF Same
<1>5. Access(loc).shift # NoShift =>
        ((Loads(storage', Access(loc)') = {v})
           <=> /\ v * Pow2(Access(loc)'.shift) < Pow2(Access(loc)'.type.bits)
               /\ Access(loc)'.shift % Pow2(Access(loc)'.type.bits) < Access(loc)'.type.bits)
  BY <1>1, PackedLoad
<1>6. PackedReadsBack'
  BY <1>3, <1>4, <1>5 DEF PackedReadsBack
<1>7. QED
  BY <1>2, <1>6 DEF Words

LEMMA PackedInit ==
  StorageInit => PackedInv
<1>1. Words(<<>>)
  BY DEF Words
<1>2. QED
  BY <1>1 DEF StorageInit, PackedInv, PackedReadsBack

LEMMA PackedStep ==
  PackedInv /\ [StorageNext]_storageVars => PackedInv'
<1>. SUFFICES ASSUME PackedInv, [StorageNext]_storageVars PROVE PackedInv'
  OBVIOUS
<1>1. contract \in Contracts /\ Words(storage)
  BY DEF PackedInv
<1>2. Junk \subseteq Nat
  BY ValuesAssumption
<1>3. CASE DeclareVar
  <2>1. ~ Declared /\ last' = last /\ contract' = contract /\ storage' = storage
    BY <1>3 DEF DeclareVar
  <2>2. last.loc = <<>>
    BY <2>1 DEF PackedInv
  <2>3. PackedReadsBack'
    BY <2>1, <2>2 DEF PackedReadsBack
  <2>4. QED
    BY <1>1, <2>1, <2>2, <2>3 DEF PackedInv, Words
<1>4. ASSUME Running, NEW loc \in Attempts, OutOfBoundRevert(loc)
      PROVE  PackedInv'
  <2>1. /\ ~ last'.ok /\ contract' = contract /\ layout' = layout /\ storage' = storage
    BY <1>4 DEF OutOfBoundRevert
  <2>2. PackedReadsBack'
    BY <2>1 DEF PackedReadsBack
  <2>3. Declared'
    BY <1>4, <2>1 DEF Running, Declared
  <2>4. QED
    BY <1>1, <2>1, <2>2, <2>3 DEF PackedInv, Words
<1>5. ASSUME Running, NEW loc \in Attempts, NEW v \in ValuesOf(Access(loc).type),
             NEW junk \in Junk, Assign(loc, v, junk)
      PROVE  PackedInv'
  <2>1. /\ contract' = contract /\ layout' = layout
        /\ storage' = Stores(storage, Access(loc), v, junk)
        /\ held' = Holding(held, loc, v) /\ last' = [loc |-> loc, ok |-> TRUE]
    BY <1>5 DEF Assign
  <2>2. loc \in Locations(1, Leaf) /\ junk \in Nat
    BY <1>2 DEF Attempts
  <2>3. Value(Access(loc).type, v)
    BY <1>1, <2>2, AccessProps, ValuesProps
  <2>4. Words(storage)' /\ PackedReadsBack'
    BY <1>1, <2>1, <2>2, <2>3, StoredLast
  <2>5. Declared'
    BY <1>5, <2>1 DEF Running, Declared
  <2>6. QED
    BY <1>1, <2>1, <2>4, <2>5 DEF PackedInv
<1>6. ASSUME Running, NEW x \in Leaves, NEW y \in Leaves, NEW junk \in Junk,
             Swap(x, y, junk)
      PROVE  PackedInv'
  <2>1. /\ contract' = contract /\ layout' = layout /\ last' = [loc |-> y, ok |-> TRUE]
        /\ Access(x).type = Access(y).type
    BY <1>6 DEF Swap
  <2>2. PICK vx \in Loads(storage, Access(x)), vy \in Loads(storage, Access(y)) :
          /\ storage' = StoredBoth(x, y, vx, vy, junk)
          /\ held' = Holding(Holding(held, x, vy), y, vx)
    BY <1>6 DEF Swap
  <2>3. x \in Locations(0, Leaf) /\ y \in Locations(0, Leaf) /\ junk \in Nat
    BY <1>2 DEF Leaves
  <2>4. Sited(Access(x), Leaf) /\ Sited(Access(y), Leaf)
    BY <1>1, <2>3, AccessProps
  <2>5. Value(Access(x).type, vx) /\ Value(Access(y).type, vy)
    BY <1>1, <2>4, LoadSited
  <2>. DEFINE w == Stores(storage, Access(x), vy, junk)
  <2>6. Words(w)
    BY <1>1, <2>1, <2>3, <2>4, <2>5, StoreSited
  <2>7. storage' = Stores(w, Access(y), vx, junk)
    BY <2>2 DEF StoredBoth
  <2>. HIDE DEF w
  <2>8. Value(Access(y).type, vx)
    BY <2>1, <2>5
  <2>9. Words(storage)' /\ PackedReadsBack'
    <3>1. PICK h : held' = Holding(h, y, vx)
      BY <2>2
    <3>2. QED
      BY <1>1, <2>1, <2>3, <2>6, <2>7, <2>8, <3>1, StoredLast
  <2>10. Declared'
    BY <1>6, <2>1 DEF Running, Declared
  <2>11. QED
    BY <1>1, <2>1, <2>9, <2>10 DEF PackedInv
<1>7. ASSUME Running, NEW to \in Locations(0, {"struct"}),
             NEW from \in Locations(0, {"struct"}), NEW junk \in Junk,
             CopyStruct(to, from, junk)
      PROVE  PackedInv'
  <2>1. /\ contract' = contract /\ layout' = layout /\ last' = [loc |-> to, ok |-> TRUE]
        /\ Access(to).type = Access(from).type /\ Copyable(Access(to).type)
        /\ storage' = CopyMembers(to, from, junk).words
    BY <1>7 DEF CopyStruct
  <2>2. Sited(Access(to), {"struct"}) /\ Sited(Access(from), {"struct"})
    BY <1>1, AccessProps
  <2>3. Words(storage')
    BY <1>1, <1>2, <2>1, <2>2, CopyProps
  <2>4. to \notin Leaves
    <3>1. ASSUME to \in Leaves PROVE FALSE
      <4>1. Sited(Access(to), Leaf)
        BY <1>1, <3>1, AccessProps DEF Leaves
      <4>2. Access(to).type.cat \in Leaf /\ Access(to).type.cat = "struct"
        BY <2>2, <4>1 DEF Sited
      <4>3. QED
        BY <4>2 DEF Leaf, Scalars
    <3>2. QED
      BY <3>1
  <2>5. Leaves' = Leaves
    BY <2>1, LocationsStay DEF Leaves
  <2>6. PackedReadsBack'
    BY <2>1, <2>4, <2>5 DEF PackedReadsBack
  <2>7. Declared'
    BY <1>7, <2>1 DEF Running, Declared
  <2>8. QED
    BY <1>1, <2>1, <2>3, <2>6, <2>7 DEF PackedInv, Words
<1>8. CASE UNCHANGED storageVars
  <2>1. PackedReadsBack'
    BY <1>8 DEF storageVars, PackedInv, PackedReadsBack, Leaves, Locations, Access
  <2>2. Declared' = Declared
    BY <1>8 DEF storageVars, Declared
  <2>3. QED
    BY <1>1, <1>8, <2>1, <2>2 DEF storageVars, PackedInv, Words
<1>9. CASE StoppedStorage
  BY <1>8, <1>9 DEF StoppedStorage
<1>10. QED
  BY <1>3, <1>4, <1>5, <1>6, <1>7, <1>8, <1>9 DEF StorageNext

\* Of an array with several elements in a word, the element assigned last
\* reads back if and only if its value survives the shift: for words and
\* elements of every width, and for every contract.
THEOREM PackedElementsReadBack == StorageSpec => []PackedReadsBack
<1>1. PackedInv => PackedReadsBack
  BY DEF PackedInv
<1>2. QED
  BY <1>1, PackedInit, PackedStep, PTL DEF StorageSpec

-----------------------------------------------------------------------------
(* Indices.  Nothing writes the length of an array of dynamic size, so none *)
(* of its elements is accepted; what is accepted is inside its array.       *)

Unlengthened ==
  \A loc \in Locations(0, {"array"}) :
    Access(loc).type.len = Unsized => WordOf(storage, Access(loc).at) = 0

Fits ==
  \A loc \in Locations(0, {"array"}) : Access(loc).type.len < Pow2(contract.indexBits)

IndexInv ==
  /\ PackedInv
  /\ last.loc = <<>> => storage = <<>>
  /\ Declared /\ Apart => Unlengthened
  /\ IndexIsChecked

\* All hashes in an address are of keys.
Keyed(at) == \E S : at.base \in Seq(S \X Keys)

LEMMA KeyedFollow ==
  ASSUME NEW d \in 0 .. MaxDepth, NEW t \in Types[d], NEW a, Denotes(a, t), Keyed(a.at),
         NEW p \in Components(t, 0), NEW c, NEW words
  PROVE  Keyed(Follow(c, words, a, p.step).at)
<1>1. a.type = t
  BY DEF Denotes
<1>2. ASSUME NEW k PROVE Plus(a.at, k).base = a.at.base
  <2>1. a.at = [base |-> a.at.base, off |-> a.at.off]
    BY DEF Denotes
  <2>2. QED
    BY <2>1 DEF Plus
<1>3. CASE t.cat = "array"
  <2>1. p.step \in 0 .. t.len + 0 - 1 /\ t.len \in Nat
    BY <1>3, ComponentProps, TypeProps
  <2>2. t.len # Unsized
    BY <2>1 DEF Unsized
  <2>3. \E k : Element(c, words, a, p.step).at = Plus(a.at, k)
    BY <1>1, <2>2 DEF Element
  <2>4. Follow(c, words, a, p.step) = Element(c, words, a, p.step)
    BY <1>1, <1>3 DEF Follow
  <2>5. QED
    BY <1>2, <2>3, <2>4 DEF Keyed
<1>4. CASE t.cat = "mapping"
  <2>1. Follow(c, words, a, p.step).at = Hash(a.at, p.step)
    BY <1>1, <1>4 DEF Follow, Entry
  <2>2. p.step \in Keys
    BY <1>4, ComponentProps
  <2>3. PICK S : a.at.base \in Seq(S \X Keys)
    BY DEF Keyed
  <2>. DEFINE U == S \cup {a.at.off}
  <2>4. a.at.base \in Seq(U \X Keys)
    <3>1. S \X Keys \subseteq U \X Keys
      OBVIOUS
    <3>. HIDE DEF U
    <3>2. QED
      BY <2>3, <3>1, SeqGrows
  <2>5. <<a.at.off, p.step>> \in U \X Keys
    BY <2>2
  <2>. HIDE DEF U
  <2>6. Append(a.at.base, <<a.at.off, p.step>>) \in Seq(U \X Keys)
    BY <2>4, <2>5
  <2>7. Hash(a.at, p.step).base = Append(a.at.base, <<a.at.off, p.step>>)
    BY DEF Hash
  <2>8. QED
    BY <2>1, <2>6, <2>7 DEF Keyed
<1>5. CASE t.cat = "struct"
  <2>1. \E k : Follow(c, words, a, p.step).at = Plus(a.at, k)
    BY <1>1, <1>5 DEF Follow, Member
  <2>2. QED
    BY <1>2, <2>1 DEF Keyed
<1>6. QED
  BY <1>3, <1>4, <1>5, ComponentProps

LEMMA KeyedPlace ==
  ASSUME NEW c \in Contracts, NEW n \in 0 .. MaxDepth, NEW x \in Level(c, 0, n),
         NEW slots, NEW w
  PROVE  Keyed(Place(c, slots, w, x.loc).at)
<1>. DEFINE S == {k \in Nat : k <= MaxDepth =>
                    \A z \in Level(c, 0, k) : Keyed(Place(c, slots, w, z.loc).at)}
<1>1. MaxDepth \in Nat
  BY TypesAssumption
<1>2. 0 \in S
  <2>1. SUFFICES ASSUME NEW z \in Variables(c) PROVE Keyed(Place(c, slots, w, z.loc).at)
    BY LevelSteps
  <2>2. PICK v \in DOMAIN c.vars : z = [loc |-> <<v>>, type |-> c.vars[v]]
    BY VariableProps
  <2>3. Place(c, slots, w, z.loc) = Variable(c, slots, v)
    BY <2>2, PlaceSteps
  <2>4. Variable(c, slots, v).at.base = <<>>
    BY DEF Variable, Slot
  <2>5. <<>> \in Seq({} \X Keys)
    OBVIOUS
  <2>6. QED
    BY <2>3, <2>4, <2>5 DEF Keyed
<1>3. ASSUME NEW k \in Nat, k \in S PROVE k + 1 \in S
  <2>1. SUFFICES ASSUME k + 1 <= MaxDepth, NEW z \in Level(c, 0, k + 1)
                 PROVE  Keyed(Place(c, slots, w, z.loc).at)
    OBVIOUS
  <2>2. PICK y \in Level(c, 0, k) : Behind(z, y, 0)
    BY LevelIsInside
  <2>3. PICK p \in Components(y.type, 0) :
          z = [loc |-> Append(y.loc, p.step), type |-> p.type]
    BY <2>2 DEF Behind
  <2>4. k \in 0 .. MaxDepth
    BY <1>1, <2>1
  <2>5. LevelType(y, k) /\ Denotes(Place(c, slots, w, y.loc), y.type)
    BY <2>4, LevelProps, PlaceDenotes
  <2>6. Keyed(Place(c, slots, w, y.loc).at)
    BY <1>1, <1>3, <2>1
  <2>7. p.step \in Nat /\ y.loc \in Seq(Nat) /\ y.loc # <<>> /\ y.type \in Types[k]
    BY <2>4, <2>5, ComponentProps DEF LevelType
  <2>8. Place(c, slots, w, z.loc) = Follow(c, w, Place(c, slots, w, y.loc), p.step)
    BY <2>3, <2>7, PlaceSteps
  <2>9. QED
    BY <2>4, <2>5, <2>6, <2>7, <2>8, KeyedFollow
<1>. HIDE DEF S
<1>4. n \in S
  BY <1>1, <1>2, <1>3, NaturalInduction
<1>5. QED
  BY <1>1, <1>4 DEF S

LEMMA KeyedAccess ==
  ASSUME contract \in Contracts, NEW wanted, NEW loc \in Locations(0, wanted)
  PROVE  Keyed(Access(loc).at)
<1>1. PICK n \in 0 .. MaxDepth : \E x \in Level(contract, 0, n) :
        x.loc = loc /\ x.type.cat \in wanted
  BY FoundAtLevel
<1>2. PICK x \in Level(contract, 0, n) : x.loc = loc
  BY <1>1
<1>3. QED
  BY <1>2, KeyedPlace DEF Access

\* The data of a string lie behind a hash that is not of a key.
LEMMA DataElsewhere ==
  ASSUME NEW a, Keyed(a), NEW b, Keyed(b), NEW i
  PROVE  b # Plus(Hash(a, 0), i)
<1>1. PICK S : a.base \in Seq(S \X Keys)
  BY DEF Keyed
<1>2. PICK T : b.base \in Seq(T \X Keys)
  BY DEF Keyed
<1>. DEFINE e == <<a.off, 0>>
            m == Len(a.base) + 1
            h == Append(a.base, e)
<1>3. h[m] = e /\ m \in 1 .. Len(h)
  <2>1. a.base \in Seq((S \X Keys) \cup {e}) /\ e \in (S \X Keys) \cup {e}
    <3>1. S \X Keys \subseteq (S \X Keys) \cup {e}
      OBVIOUS
    <3>2. QED
      BY <1>1, <3>1, SeqGrows
  <2>2. PICK U : a.base \in Seq(U) /\ e \in U
    BY <2>1
  <2>. HIDE DEF e
  <2>3. QED
    BY <2>2
<1>4. Plus(Hash(a, 0), i).base = h
  BY DEF Plus, Hash
<1>5. ASSUME b.base = h PROVE FALSE
  <2>. HIDE DEF h, m
  <2>1. h[m] \in T \X Keys
    BY <1>2, <1>3, <1>5
  <2>2. e \in T \X Keys
    BY <1>3, <2>1
  <2>3. 0 \in Keys
    BY <2>2
  <2>4. QED
    BY <2>3, ValuesAssumption
<1>6. QED
  BY <1>4, <1>5

\* No leaf writes the length of an array of dynamic size.
LEMMA WritesElsewhere ==
  ASSUME contract \in Contracts, Apart, NEW l \in Locations(0, {"array"}),
         Access(l).type.len = Unsized, NEW m \in Leaves
  PROVE  ~ MayWrite(Access(m), Access(l).at)
<1>1. Sited(Access(l), {"array"}) /\ Sited(Access(m), Leaf)
  BY AccessProps DEF Leaves
<1>2. Access(l).type.cat = "array" /\ Access(m).type.cat \in Leaf
  BY <1>1 DEF Sited
<1>3. l # m
  BY <1>2 DEF Leaf, Scalars
<1>4. Access(l).shift = NoShift
  <2>1. Denotes(Access(l), Access(l).type)
    BY <1>1 DEF Sited
  <2>2. QED
    BY <1>2, <2>1 DEF Denotes, Scalars
<1>5. l \in Occupants /\ m \in Occupants
  <2>1. m \in Locations(0, Leaf \cup {"mapping"})
    BY DEF Leaves, Locations
  <2>2. QED
    BY <2>1 DEF Occupants
<1>6. Access(l).at # Access(m).at
  BY <1>3, <1>4, <1>5 DEF Apart, Neighbours
<1>7. Keyed(Access(l).at) /\ Keyed(Access(m).at)
  BY KeyedAccess DEF Leaves
<1>8. \A i : Access(l).at # Plus(Hash(Access(m).at, 0), i)
  BY <1>7, DataElsewhere
<1>9. QED
  BY <1>6, <1>8 DEF MayWrite

Accepts(c, words, a, i) ==
  a.type.cat = "array" =>
    ~ OutOfBound(i, IF a.type.len = Unsized THEN WordOf(words, a.at) ELSE a.type.len,
                 c.indexBits)

\* A step is accepted when all before it are and its index is not refused.
LEMMA FollowOk ==
  ASSUME NEW a, a.type.cat \in {"mapping", "array", "struct"},
         NEW i, NEW c, NEW words
  PROVE  Follow(c, words, a, i).ok <=> a.ok /\ Accepts(c, words, a, i)
<1>2. CASE a.type.cat = "array"
  <2>1. Follow(c, words, a, i) = Element(c, words, a, i)
    BY <1>2 DEF Follow
  <2>. DEFINE length == IF a.type.len = Unsized THEN WordOf(words, a.at) ELSE a.type.len
              refused == OutOfBound(i, length, c.indexBits)
  <2>2. Element(c, words, a, i).ok = (a.ok /\ ~ refused)
    BY Zenon DEF Element
  <2>3. Accepts(c, words, a, i) <=> ~ refused
    BY <1>2 DEF Accepts
  <2>. HIDE DEF refused
  <2>4. QED
    BY <2>1, <2>2, <2>3
<1>3. CASE a.type.cat = "mapping"
  BY <1>3 DEF Follow, Entry, Accepts
<1>4. CASE a.type.cat = "struct"
  BY <1>4 DEF Follow, Member, Accepts
<1>5. QED
  BY <1>2, <1>3, <1>4

LEMMA StepOk ==
  ASSUME NEW d \in 0 .. MaxDepth, NEW t \in Types[d], NEW a, Denotes(a, t),
         NEW slack, NEW p \in Components(t, slack), NEW c, NEW words
  PROVE  /\ a.type = t
         /\ Follow(c, words, a, p.step).ok <=> a.ok /\ Accepts(c, words, a, p.step)
<1>1. a.type = t
  BY DEF Denotes
<1>2. t.cat \in {"mapping", "array", "struct"}
  BY DEF Components
<1>3. QED
  BY <1>1, <1>2, FollowOk

\* An index that is accepted is inside.
LEMMA AcceptedStep ==
  ASSUME NEW d \in 0 .. MaxDepth, NEW t \in Types[d], NEW a, Denotes(a, t),
         NEW p \in Components(t, 1), NEW c \in Contracts, NEW words,
         t.cat = "array" /\ t.len = Unsized => WordOf(words, a.at) = 0,
         Follow(c, words, a, p.step).ok
  PROVE  a.ok /\ p \in Components(t, 0)
<1>. a.type = t /\ a.ok /\ Accepts(c, words, a, p.step)
  BY StepOk
<1>1. CASE t.cat # "array"
  <2>1. a.ok
    OBVIOUS
  <2>2. Components(t, 0) = Components(t, 1)
    BY <1>1 DEF Components
  <2>3. QED
    BY <2>1, <2>2
<1>2. CASE t.cat = "array"
  <2>1. t.len \in Nat /\ c.indexBits \in Nat
    BY <1>2, TypeProps, ContractsAssumption
  <2>2. PICK B \in Nat \ {0} : B = Pow2(c.indexBits)
    BY <2>1, PowPositive
  <2>3. PICK i \in Nat : p = [step |-> i, type |-> t.elem] /\ i = p.step
    BY <1>2, <2>1 DEF Components
  <2>4. PICK length : length = IF t.len = Unsized THEN WordOf(words, a.at) ELSE t.len
    OBVIOUS
  <2>5. length \in Nat /\ length = t.len
    BY <1>2, <2>1, <2>4 DEF Unsized
  <2>7. a.ok /\ ~ OutOfBound(i, length, c.indexBits)
    BY <1>2, <2>3, <2>4 DEF Accepts
  <2>8. i < length % B
    <3>1. length % B \in Nat
      BY <2>5, Division
    <3>2. ~ (i >= length % B)
      BY <2>2, <2>7 DEF OutOfBound
    <3>3. QED
      BY <3>1, <3>2
  <2>9. length % B <= length
    <3>1. PICK n \in Nat : n = length
      BY <2>5
    <3>2. n \div B \in Nat /\ n % B \in 0 .. B - 1 /\ n = (n \div B) * B + (n % B)
      BY Division
    <3>3. (n \div B) * B \in Nat
      BY <3>2
    <3>4. QED
      BY <3>1, <3>2, <3>3
  <2>10. i \in 0 .. t.len + 0 - 1
    <3>1. length % B \in Nat
      BY <2>5, Division
    <3>2. QED
      BY <2>5, <2>8, <2>9, <3>1
  <2>11. QED
    BY <1>2, <2>3, <2>7, <2>10 DEF Components
<1>3. QED
  BY <1>1, <1>2

LEMMA FoundIsLocation ==
  ASSUME NEW n \in 0 .. MaxDepth, NEW slack, NEW x \in Level(contract, slack, n),
         NEW wanted, x.type.cat \in wanted
  PROVE  x.loc \in Locations(slack, wanted)
BY DEF Locations, Found

LEMMA AcceptedIsInside ==
  ASSUME contract \in Contracts, Unlengthened,
         NEW wanted, NEW loc \in Locations(1, wanted), Access(loc).ok
  PROVE  loc \in Locations(0, wanted)
<1>. DEFINE At(z) == Place(contract, layout, storage, z.loc)
            S == {k \in Nat : k <= MaxDepth =>
                    \A z \in Level(contract, 1, k) : At(z).ok => z \in Level(contract, 0, k)}
<1>1. MaxDepth \in Nat
  BY TypesAssumption
<1>2. 0 \in S
  BY LevelSteps
<1>3. ASSUME NEW k \in Nat, k \in S PROVE k + 1 \in S
  <2>1. SUFFICES ASSUME k + 1 <= MaxDepth, NEW z \in Level(contract, 1, k + 1), At(z).ok
                 PROVE  z \in Level(contract, 0, k + 1)
    OBVIOUS
  <2>2. PICK y \in Level(contract, 1, k) : Behind(z, y, 1)
    BY LevelIsInside
  <2>3. PICK p \in Components(y.type, 1) :
          z = [loc |-> Append(y.loc, p.step), type |-> p.type]
    BY <2>2 DEF Behind
  <2>4. k \in 0 .. MaxDepth
    BY <1>1, <2>1
  <2>5. LevelType(y, k) /\ Denotes(At(y), y.type)
    BY <2>4, LevelProps, PlaceDenotes
  <2>6. p.step \in Nat /\ y.loc \in Seq(Nat) /\ y.loc # <<>> /\ y.type \in Types[k]
    BY <2>4, <2>5, ComponentProps DEF LevelType
  <2>7. At(z) = Follow(contract, storage, At(y), p.step)
    BY <2>3, <2>6, PlaceSteps
  <2>8. At(y).ok
    <3>. HIDE DEF At
    <3>1. Follow(contract, storage, At(y), p.step).ok
      BY <2>1, <2>7
    <3>2. At(y).ok /\ Accepts(contract, storage, At(y), p.step)
      BY <2>4, <2>5, <2>6, <3>1, StepOk
    <3>3. QED
      BY <3>2
  <2>9. y \in Level(contract, 0, k)
    BY <1>1, <1>3, <2>1, <2>8
  <2>10. y.type.cat = "array" /\ y.type.len = Unsized => WordOf(storage, At(y).at) = 0
    <3>1. ASSUME y.type.cat = "array", y.type.len = Unsized
          PROVE  WordOf(storage, At(y).at) = 0
      <4>1. y.loc \in Locations(0, {"array"})
        BY <2>4, <2>9, <3>1, FoundIsLocation
      <4>2. Access(y.loc) = At(y) /\ At(y).type = y.type
        BY <2>5 DEF Access, Denotes
      <4>3. QED
        BY <3>1, <4>1, <4>2 DEF Unlengthened
    <3>2. QED
      BY <3>1
  <2>11. p \in Components(y.type, 0)
    <3>. HIDE DEF At
    <3>1. QED
      BY <2>1, <2>4, <2>5, <2>6, <2>7, <2>10, AcceptedStep
  <2>12. z \in Inside(Level(contract, 0, k), 0)
    <3>1. z \in {[loc |-> Append(y.loc, q.step), type |-> q.type] : q \in Components(y.type, 0)}
      BY <2>3, <2>11
    <3>. HIDE DEF At, S
    <3>2. QED
      BY <2>9, <3>1 DEF Inside
  <2>13. QED
    BY <2>12, LevelSteps
<1>. HIDE DEF S
<1>4. Nat \subseteq S
  BY <1>2, <1>3, NaturalInduction
<1>5. PICK n \in 0 .. MaxDepth : \E x \in Level(contract, 1, n) :
        x.loc = loc /\ x.type.cat \in wanted
  BY FoundAtLevel
<1>6. PICK x \in Level(contract, 1, n) : x.loc = loc /\ x.type.cat \in wanted
  BY <1>5
<1>7. x \in Level(contract, 0, n)
  BY <1>1, <1>4, <1>6 DEF S, Access
<1>8. QED
  BY <1>6, <1>7, FoundIsLocation

\* An index inside is accepted where every length fits the type of the index.
LEMMA FittingStep ==
  ASSUME NEW d \in 0 .. MaxDepth, NEW t \in Types[d], NEW a, Denotes(a, t), a.ok,
         NEW p \in Components(t, 0), NEW c \in Contracts, NEW words,
         t.cat = "array" => t.len < Pow2(c.indexBits)
  PROVE  Follow(c, words, a, p.step).ok
<1>. a.type = t /\ (Follow(c, words, a, p.step).ok <=> Accepts(c, words, a, p.step))
  BY StepOk
<1>1. CASE t.cat # "array"
  BY <1>1 DEF Accepts
<1>2. CASE t.cat = "array"
  <2>1. t.len \in Nat /\ c.indexBits \in Nat
    BY <1>2, TypeProps, ContractsAssumption
  <2>2. PICK B \in Nat \ {0} : B = Pow2(c.indexBits)
    BY <2>1, PowPositive
  <2>3. p.step \in 0 .. t.len + 0 - 1
    BY <1>2, ComponentProps
  <2>4. t.len # Unsized /\ p.step < t.len /\ p.step \in Nat
    BY <2>1, <2>3 DEF Unsized
  <2>5. t.len % B = t.len
    BY <1>2, <2>1, <2>2
  <2>6. ~ OutOfBound(p.step, t.len, c.indexBits)
    BY <2>1, <2>2, <2>4, <2>5 DEF OutOfBound
  <2>7. QED
    BY <1>2, <2>4, <2>6 DEF Accepts
<1>3. QED
  BY <1>1, <1>2

LEMMA FittingIsAccepted ==
  ASSUME contract \in Contracts, Fits, NEW wanted, NEW loc \in Locations(0, wanted)
  PROVE  Access(loc).ok
<1>. DEFINE At(z) == Place(contract, layout, storage, z.loc)
            S == {k \in Nat : k <= MaxDepth => \A z \in Level(contract, 0, k) : At(z).ok}
<1>1. MaxDepth \in Nat
  BY TypesAssumption
<1>2. 0 \in S
  <2>1. SUFFICES ASSUME NEW z \in Variables(contract) PROVE At(z).ok
    BY LevelSteps
  <2>2. PICK v \in DOMAIN contract.vars : z = [loc |-> <<v>>, type |-> contract.vars[v]]
    BY VariableProps
  <2>3. At(z) = Variable(contract, layout, v)
    BY <2>2, PlaceSteps
  <2>4. QED
    BY <2>3 DEF Variable
<1>3. ASSUME NEW k \in Nat, k \in S PROVE k + 1 \in S
  <2>1. SUFFICES ASSUME k + 1 <= MaxDepth, NEW z \in Level(contract, 0, k + 1)
                 PROVE  At(z).ok
    OBVIOUS
  <2>2. PICK y \in Level(contract, 0, k) : Behind(z, y, 0)
    BY LevelIsInside
  <2>3. PICK p \in Components(y.type, 0) :
          z = [loc |-> Append(y.loc, p.step), type |-> p.type]
    BY <2>2 DEF Behind
  <2>4. k \in 0 .. MaxDepth
    BY <1>1, <2>1
  <2>5. LevelType(y, k) /\ Denotes(At(y), y.type)
    BY <2>4, LevelProps, PlaceDenotes
  <2>6. p.step \in Nat /\ y.loc \in Seq(Nat) /\ y.loc # <<>> /\ y.type \in Types[k]
    BY <2>4, <2>5, ComponentProps DEF LevelType
  <2>7. At(z) = Follow(contract, storage, At(y), p.step)
    BY <2>3, <2>6, PlaceSteps
  <2>8. At(y).ok
    BY <1>1, <1>3, <2>1
  <2>9. y.type.cat = "array" => y.type.len < Pow2(contract.indexBits)
    <3>1. ASSUME y.type.cat = "array" PROVE y.type.len < Pow2(contract.indexBits)
      <4>1. y.loc \in Locations(0, {"array"})
        BY <2>4, <3>1, FoundIsLocation
      <4>2. Access(y.loc) = At(y) /\ At(y).type = y.type
        BY <2>5 DEF Access, Denotes
      <4>3. QED
        BY <4>1, <4>2 DEF Fits
    <3>2. QED
      BY <3>1
  <2>10. QED
    <3>. HIDE DEF At
    <3>1. QED
      BY <2>4, <2>5, <2>6, <2>7, <2>8, <2>9, FittingStep
<1>. HIDE DEF S
<1>4. Nat \subseteq S
  BY <1>2, <1>3, NaturalInduction
<1>5. PICK n \in 0 .. MaxDepth : \E x \in Level(contract, 0, n) :
        x.loc = loc /\ x.type.cat \in wanted
  BY FoundAtLevel
<1>6. PICK x \in Level(contract, 0, n) : x.loc = loc /\ x.type.cat \in wanted
  BY <1>5
<1>7. QED
  BY <1>1, <1>4, <1>6 DEF S, Access

\* The members that a copy writes are leaves.
LEMMA MemberLocation ==
  ASSUME contract \in Contracts, NEW to \in Locations(0, {"struct"}),
         Copyable(Access(to).type), NEW i \in 1 .. Len(Access(to).type.elems)
  PROVE  Append(to, i) \in Leaves /\ Access(Append(to, i)) = Member(Access(to), i)
<1>1. PICK n \in 0 .. MaxDepth : \E x \in Level(contract, 0, n) :
        x.loc = to /\ x.type.cat \in {"struct"}
  BY FoundAtLevel
<1>2. PICK x \in Level(contract, 0, n) : x.loc = to /\ x.type.cat = "struct"
  BY <1>1
<1>3. Access(to) = Place(contract, layout, storage, x.loc)
  BY <1>2 DEF Access
<1>4. LevelType(x, n) /\ Access(to).type = x.type
  <2>1. LevelType(x, n)
    BY LevelProps
  <2>2. Denotes(Access(to), x.type)
    BY <1>3, PlaceDenotes
  <2>3. QED
    BY <2>1, <2>2 DEF Denotes
<1>5. x.type \in Types[n] /\ x.loc \in Seq(Nat) /\ x.loc # <<>>
  BY <1>4 DEF LevelType
<1>6. x.type.elems \in Seq(Types[n + 1])
  BY <1>2, <1>5, TypeProps
<1>7. i \in DOMAIN x.type.elems /\ i \in Nat
  BY <1>4, <1>6
<1>. DEFINE p == [step |-> i, type |-> x.type.elems[i]]
            z == [loc |-> Append(x.loc, p.step), type |-> p.type]
<1>8. p \in Components(x.type, 0)
  BY <1>2, <1>7 DEF Components
<1>9. n + 1 \in 0 .. MaxDepth
  BY <1>5, <1>8, ComponentProps
<1>10. z \in Level(contract, 0, n + 1)
  <2>1. z \in {[loc |-> Append(x.loc, q.step), type |-> q.type] : q \in Components(x.type, 0)}
    BY <1>8
  <2>. HIDE DEF z
  <2>2. z \in Inside(Level(contract, 0, n), 0)
    BY <2>1 DEF Inside
  <2>3. n \in Nat
    BY TypesAssumption
  <2>4. QED
    BY <2>2, <2>3, LevelSteps
<1>11. z.type.cat \in Leaf
  BY <1>2, <1>4, <1>7 DEF Copyable
<1>12. z.loc = Append(to, i)
  BY <1>2
<1>13. Append(to, i) \in Leaves
  <2>. HIDE DEF z
  <2>1. QED
    BY <1>9, <1>10, <1>11, <1>12, FoundIsLocation DEF Leaves
<1>14. Access(Append(to, i)) = Follow(contract, storage, Access(to), i)
  BY <1>2, <1>3, <1>5, <1>7, PlaceSteps DEF Access
<1>15. Follow(contract, storage, Access(to), i) = Member(Access(to), i)
  BY <1>2, <1>4 DEF Follow
<1>16. QED
  BY <1>13, <1>14, <1>15

\* What is stored has no influence on where the occupants lie.
LEMMA OccupantsStay ==
  ASSUME contract \in Contracts, contract' = contract, layout' = layout
  PROVE  /\ Occupants' = Occupants
         /\ \A loc \in Occupants : Same(Access(loc), Access(loc)')
<1>1. ASSUME NEW wanted, NEW loc \in Locations(0, wanted)
      PROVE  Same(Access(loc), Access(loc)')
  BY AccessProps
<1>2. ASSUME NEW wanted
      PROVE  Locations(0, wanted)' = Locations(0, wanted)
  BY LocationsStay
<1>3. \A loc \in Locations(0, {"array"}) : Access(loc).type = Access(loc)'.type
  BY <1>1 DEF Same
<1>4. {loc \in Locations(0, {"array"}) : Access(loc).type.len = Unsized}
        = {loc \in Locations(0, {"array"})' : Access(loc)'.type.len = Unsized}
  BY <1>2, <1>3
<1>5. Occupants' = Occupants
  BY <1>2, <1>4 DEF Occupants
<1>6. QED
  BY <1>1, <1>5 DEF Occupants

LEMMA ApartStays ==
  ASSUME contract \in Contracts, contract' = contract, layout' = layout
  PROVE  (Apart' <=> Apart) /\ (Fits' <=> Fits)
<1>1. /\ Occupants' = Occupants
      /\ \A loc \in Occupants : /\ Access(loc).at = Access(loc)'.at
                                /\ Access(loc).shift = Access(loc)'.shift
  BY OccupantsStay DEF Same
<1>2. Apart' <=> Apart
  BY <1>1 DEF Apart, Neighbours
<1>3. Locations(0, {"array"})' = Locations(0, {"array"})
  BY LocationsStay
<1>4. \A loc \in Locations(0, {"array"}) : Access(loc).type = Access(loc)'.type
  BY AccessProps DEF Same
<1>5. Fits' <=> Fits
  BY <1>3, <1>4 DEF Fits
<1>6. QED
  BY <1>2, <1>5

LEMMA UnlengthenedStays ==
  ASSUME contract \in Contracts, contract' = contract, layout' = layout, Unlengthened,
         \A loc \in Locations(0, {"array"}) :
           Access(loc).type.len = Unsized =>
             WordOf(storage', Access(loc).at) = WordOf(storage, Access(loc).at)
  PROVE  Unlengthened'
<1>1. Locations(0, {"array"})' = Locations(0, {"array"})
  BY LocationsStay
<1>2. \A loc \in Locations(0, {"array"}) :
        Access(loc).type = Access(loc)'.type /\ Access(loc).at = Access(loc)'.at
  BY AccessProps DEF Same
<1>3. \A loc \in Locations(0, {"array"}) :
        Access(loc)'.type.len = Unsized => WordOf(storage', Access(loc)'.at) = 0
  BY <1>2 DEF Unlengthened
<1>4. QED
  BY <1>1, <1>3 DEF Unlengthened, WordOf

LEMMA IndexChecked ==
  IndexIsChecked <=>
    (last.loc # <<>> /\ Apart =>
       /\ last.ok => last.loc \in Leaves \cup Locations(0, {"struct"})
       /\ ~ last.ok /\ last.loc \in Leaves => ~ Fits)
BY DEF IndexIsChecked, Fits

LEMMA IndexInit ==
  StorageInit => IndexInv
<1>1. StorageInit => last.loc = <<>> /\ storage = <<>>
  BY DEF StorageInit
<1>2. storage = <<>> => Unlengthened
  <2>1. storage = <<>> => \A at : WordOf(storage, at) = 0
    BY DEF WordOf
  <2>2. QED
    BY <2>1 DEF Unlengthened
<1>3. QED
  BY <1>1, <1>2, PackedInit, IndexChecked DEF IndexInv

\* A step that assigns: no length is written, and its location is inside.
LEMMA StoringStep ==
  ASSUME IndexInv, contract \in Contracts, contract' = contract, layout' = layout,
         Declared, PackedInv', last'.ok, last'.loc # <<>>,
         Apart => last'.loc \in Leaves \cup Locations(0, {"struct"}),
         Apart => \A loc \in Locations(0, {"array"}) :
                    Access(loc).type.len = Unsized =>
                      WordOf(storage', Access(loc).at) = WordOf(storage, Access(loc).at)
  PROVE  IndexInv'
<1>1. Apart' <=> Apart
  BY ApartStays
<1>2. /\ Leaves' = Leaves
      /\ Locations(0, {"struct"})' = Locations(0, {"struct"})
  BY LocationsStay DEF Leaves
<1>3. Apart => Unlengthened'
  BY UnlengthenedStays DEF IndexInv
<1>4. IndexIsChecked'
  BY <1>1, <1>2 DEF IndexIsChecked
<1>5. QED
  BY <1>1, <1>3, <1>4 DEF IndexInv

LEMMA IndexStep ==
  IndexInv /\ [StorageNext]_storageVars => IndexInv'
<1>. SUFFICES ASSUME IndexInv, [StorageNext]_storageVars PROVE IndexInv'
  OBVIOUS
<1>1. contract \in Contracts /\ Words(storage) /\ PackedInv
  BY DEF PackedInv, IndexInv
<1>2. PackedInv'
  BY <1>1, PackedStep
<1>3. Junk \subseteq Nat
  BY ValuesAssumption
<1>4. CASE DeclareVar
  <2>1. ~ Declared /\ last' = last /\ contract' = contract /\ storage' = storage
    BY <1>4 DEF DeclareVar
  <2>2. last.loc = <<>> /\ storage = <<>>
    BY <2>1 DEF PackedInv, IndexInv
  <2>3. Unlengthened'
    <3>1. \A at : WordOf(storage', at) = 0
      BY <2>1, <2>2 DEF WordOf
    <3>2. QED
      BY <3>1 DEF Unlengthened, WordOf
  <2>4. IndexIsChecked'
    BY <2>1, <2>2 DEF IndexIsChecked
  <2>5. QED
    BY <1>2, <2>1, <2>2, <2>3, <2>4 DEF IndexInv
<1>5. ASSUME Running, NEW loc \in Attempts, OutOfBoundRevert(loc)
      PROVE  IndexInv'
  <2>1. /\ last' = [loc |-> loc, ok |-> FALSE] /\ ~ Access(loc).ok
        /\ contract' = contract /\ layout' = layout /\ storage' = storage
    BY <1>5 DEF OutOfBoundRevert
  <2>2. loc \in Locations(1, Leaf) /\ Declared
    BY <1>5 DEF Attempts, Running
  <2>3. loc # <<>>
    BY <1>1, <2>2, AccessProps
  <2>4. Apart => Unlengthened'
    BY <1>1, <2>1, <2>2, UnlengthenedStays DEF IndexInv
  <2>5. loc \in Leaves => ~ Fits
    BY <1>1, <2>1, FittingIsAccepted DEF Leaves
  <2>6. (Apart' <=> Apart) /\ (Fits' <=> Fits) /\ Leaves' = Leaves
    BY <1>1, <2>1, ApartStays, LocationsStay DEF Leaves
  <2>7. IndexIsChecked'
    BY <2>1, <2>5, <2>6 DEF IndexIsChecked, Fits
  <2>8. QED
    BY <1>2, <2>1, <2>3, <2>4, <2>6, <2>7 DEF IndexInv
<1>6. ASSUME Running, NEW loc \in Attempts, NEW v \in ValuesOf(Access(loc).type),
             NEW junk \in Junk, Assign(loc, v, junk)
      PROVE  IndexInv'
  <2>1. /\ contract' = contract /\ layout' = layout /\ Access(loc).ok
        /\ storage' = Stores(storage, Access(loc), v, junk)
        /\ last' = [loc |-> loc, ok |-> TRUE]
    BY <1>6 DEF Assign
  <2>2. loc \in Locations(1, Leaf) /\ junk \in Nat /\ Declared
    BY <1>3, <1>6 DEF Attempts, Running
  <2>3. loc # <<>> /\ Sited(Access(loc), Leaf)
    BY <1>1, <2>2, AccessProps
  <2>4. Value(Access(loc).type, v)
    BY <2>3, ValuesProps
  <2>5. Apart => loc \in Leaves
    BY <1>1, <2>1, <2>2, AcceptedIsInside DEF IndexInv, Leaves
  <2>6. \A y : ~ MayWrite(Access(loc), y) => WordOf(storage', y) = WordOf(storage, y)
    <3>1. ASSUME NEW a, Sited(a, Leaf), Value(a.type, v)
          PROVE  \A y : ~ MayWrite(a, y) =>
                   WordOf(Stores(storage, a, v, junk), y) = WordOf(storage, y)
      BY <1>1, <2>2, <3>1, StoreSited
    <3>2. QED
      BY <2>1, <2>3, <2>4, <3>1
  <2>7. ASSUME Apart, NEW l \in Locations(0, {"array"}), Access(l).type.len = Unsized
        PROVE  WordOf(storage', Access(l).at) = WordOf(storage, Access(l).at)
    BY <1>1, <2>5, <2>6, <2>7, WritesElsewhere
  <2>8. last'.ok /\ last'.loc # <<>>
    BY <2>1, <2>3
  <2>9. Apart => last'.loc \in Leaves \cup Locations(0, {"struct"})
    BY <2>1, <2>5
  <2>10. QED
    BY <1>1, <1>2, <2>1, <2>2, <2>7, <2>8, <2>9, StoringStep
<1>7. ASSUME Running, NEW x \in Leaves, NEW y \in Leaves, NEW junk \in Junk,
             Swap(x, y, junk)
      PROVE  IndexInv'
  <2>1. /\ contract' = contract /\ layout' = layout /\ last' = [loc |-> y, ok |-> TRUE]
        /\ Access(x).type = Access(y).type /\ Declared
    BY <1>7 DEF Swap, Running
  <2>2. PICK vx \in Loads(storage, Access(x)), vy \in Loads(storage, Access(y)) :
          storage' = StoredBoth(x, y, vx, vy, junk)
    BY <1>7 DEF Swap
  <2>3. x \in Locations(0, Leaf) /\ y \in Locations(0, Leaf) /\ junk \in Nat
    BY <1>3 DEF Leaves
  <2>4. Sited(Access(x), Leaf) /\ Sited(Access(y), Leaf) /\ y # <<>>
    BY <1>1, <2>3, AccessProps
  <2>5. Value(Access(x).type, vy) /\ Value(Access(y).type, vx)
    <3>1. Value(Access(x).type, vx) /\ Value(Access(y).type, vy)
      BY <1>1, <2>4, LoadSited
    <3>2. QED
      BY <2>1, <3>1
  <2>. DEFINE w == Stores(storage, Access(x), vy, junk)
  <2>6. /\ Words(w)
        /\ \A at : ~ MayWrite(Access(x), at) => WordOf(w, at) = WordOf(storage, at)
    <3>1. ASSUME NEW a, Sited(a, Leaf), Value(a.type, vy)
          PROVE  /\ Words(Stores(storage, a, vy, junk))
                 /\ \A at : ~ MayWrite(a, at) =>
                      WordOf(Stores(storage, a, vy, junk), at) = WordOf(storage, at)
      BY <1>1, <2>3, <3>1, StoreSited
    <3>2. QED
      BY <2>4, <2>5, <3>1
  <2>7. storage' = Stores(w, Access(y), vx, junk)
    BY <2>2 DEF StoredBoth
  <2>. HIDE DEF w
  <2>8. \A at : ~ MayWrite(Access(y), at) => WordOf(storage', at) = WordOf(w, at)
    BY <2>3, <2>4, <2>5, <2>6, <2>7, StoreSited
  <2>9. ASSUME Apart, NEW l \in Locations(0, {"array"}), Access(l).type.len = Unsized
        PROVE  WordOf(storage', Access(l).at) = WordOf(storage, Access(l).at)
    <3>1. ~ MayWrite(Access(x), Access(l).at) /\ ~ MayWrite(Access(y), Access(l).at)
      BY <1>1, <2>9, WritesElsewhere
    <3>2. QED
      BY <2>6, <2>8, <3>1
  <2>10. last'.ok /\ last'.loc # <<>> /\ last'.loc \in Leaves
    BY <2>1, <2>4
  <2>11. QED
    BY <1>1, <1>2, <2>1, <2>9, <2>10, StoringStep
<1>8. ASSUME Running, NEW to \in Locations(0, {"struct"}),
             NEW from \in Locations(0, {"struct"}), NEW junk \in Junk,
             CopyStruct(to, from, junk)
      PROVE  IndexInv'
  <2>1. /\ contract' = contract /\ layout' = layout /\ last' = [loc |-> to, ok |-> TRUE]
        /\ Access(to).type = Access(from).type /\ Copyable(Access(to).type)
        /\ storage' = CopyMembers(to, from, junk).words /\ Declared
    BY <1>8 DEF CopyStruct, Running
  <2>2. Sited(Access(to), {"struct"}) /\ Sited(Access(from), {"struct"}) /\ to # <<>>
    BY <1>1, AccessProps
  <2>3. \A at : (\A i \in 1 .. Len(Access(to).type.elems) : ~ MayWrite(Member(Access(to), i), at))
                  => WordOf(storage', at) = WordOf(storage, at)
    BY <1>1, <1>3, <2>1, <2>2, CopyProps
  <2>4. ASSUME Apart, NEW l \in Locations(0, {"array"}), Access(l).type.len = Unsized
        PROVE  WordOf(storage', Access(l).at) = WordOf(storage, Access(l).at)
    <3>1. ASSUME NEW i \in 1 .. Len(Access(to).type.elems)
          PROVE  ~ MayWrite(Member(Access(to), i), Access(l).at)
      <4>1. Append(to, i) \in Leaves /\ Access(Append(to, i)) = Member(Access(to), i)
        BY <1>1, <2>1, MemberLocation
      <4>2. QED
        BY <1>1, <2>4, <4>1, WritesElsewhere
    <3>2. QED
      BY <2>3, <3>1
  <2>5. last'.ok /\ last'.loc # <<>> /\ last'.loc \in Locations(0, {"struct"})
    BY <2>1, <2>2
  <2>6. QED
    BY <1>1, <1>2, <2>1, <2>4, <2>5, StoringStep
<1>9. CASE UNCHANGED storageVars
  <2>1. /\ contract' = contract /\ layout' = layout /\ storage' = storage /\ last' = last
    BY <1>9 DEF storageVars
  <2>2. (Apart' <=> Apart) /\ (Fits' <=> Fits) /\ Leaves' = Leaves
        /\ Locations(0, {"struct"})' = Locations(0, {"struct"}) /\ (Declared' <=> Declared)
    BY <1>1, <2>1, ApartStays, LocationsStay DEF Leaves, Declared
  <2>3. IndexIsChecked'
    BY <2>1, <2>2 DEF IndexInv, IndexIsChecked, Fits
  <2>4. Declared /\ Apart => Unlengthened'
    BY <1>1, <2>1, UnlengthenedStays DEF IndexInv
  <2>5. QED
    BY <1>2, <2>1, <2>2, <2>3, <2>4 DEF IndexInv
<1>10. CASE StoppedStorage
  BY <1>9, <1>10 DEF StoppedStorage
<1>11. QED
  BY <1>4, <1>5, <1>6, <1>7, <1>8, <1>9, <1>10 DEF StorageNext

\* In a contract whose slots are apart, what is accessed lies inside all its
\* arrays, and nothing inside is refused unless a length is too large for the
\* type of an index: for every contract, and whatever was assigned before.
THEOREM IndicesAreChecked == StorageSpec => []IndexIsChecked
<1>1. IndexInv => IndexIsChecked
  BY DEF IndexInv
<1>2. QED
  BY <1>1, IndexInit, IndexStep, PTL DEF StorageSpec

-----------------------------------------------------------------------------
(* Bytes and bits of a word.                                               *)

LEMMA ByteProps ==
  /\ ByteBits \in Nat \ {0} /\ WordBytes \in Nat \ {0}
  /\ Pow2(ByteBits) \in Nat \ {0} /\ Bytes \subseteq Nat
  /\ \E h \in Nat : Pow2(ByteBits) = 2 * h
<1>1. ByteBits \in Nat \ {0} /\ WordBytes \in Nat \ {0}
  BY WordAssumption
<1>2. Pow2(ByteBits) \in Nat \ {0}
  BY <1>1, PowPositive
<1>3. PICK k \in Nat : ByteBits = k + 1
  <2>1. ByteBits - 1 \in Nat /\ ByteBits = (ByteBits - 1) + 1
    BY <1>1
  <2>2. QED
    BY <2>1
<1>4. Pow2(k) \in Nat /\ Pow2(ByteBits) = 2 * Pow2(k)
  BY <1>3, PowSteps, PowPositive
<1>5. QED
  BY <1>1, <1>2, <1>4 DEF Bytes

LEMMA DivisionTwice ==
  ASSUME NEW B \in Nat \ {0}, NEW D \in Nat \ {0}, NEW k \in Nat, NEW r \in 0 .. B - 1
  PROVE  (k * B + r) \div (D * B) = k \div D
<1>1. PICK q \in Nat, e \in 0 .. D - 1 : q = k \div D /\ k = q * D + e
  <2>1. k = (k \div D) * D + (k % D) /\ k % D \in 0 .. (D - 1) /\ k \div D \in Nat
    BY Division
  <2>2. QED
    BY <2>1
<1>2. PICK M \in Nat \ {0} : M = D * B
  <2>1. D * B \in Nat /\ B <= D * B
    BY Products
  <2>2. QED
    BY <2>1
<1>3. PICK f \in Nat : f = e * B
  BY Products
<1>4. f + r \in 0 .. M - 1
  <2>1. PICK g \in Nat : D = e + 1 + g
    <3>1. D - e - 1 \in Nat /\ D = e + 1 + (D - e - 1)
      OBVIOUS
    <3>2. QED
      BY <3>1
  <2>2. D * B = e * B + B + g * B /\ g * B \in Nat
    BY <2>1
  <2>3. QED
    BY <1>2, <1>3, <2>2
<1>5. k * B + r = q * M + (f + r)
  <2>1. PICK u \in Nat : u = q * D
    BY Products
  <2>2. (u + e) * B = u * B + e * B
    BY Products
  <2>3. u * B = q * M
    <3>1. q * (D * B) = (q * D) * B
      BY Products
    <3>2. QED
      BY <1>2, <2>1, <3>1
  <2>4. q * M \in Nat
    BY Products
  <2>5. k * B = q * M + f
    BY <1>1, <1>3, <2>1, <2>2, <2>3
  <2>6. QED
    BY <2>4, <2>5
<1>6. (q * M + (f + r)) \div M = q
  BY <1>4, DivisionIsUnique
<1>7. QED
  BY <1>1, <1>2, <1>5, <1>6

LEMMA ByteIsByte ==
  ASSUME NEW w \in Nat, NEW i \in 1 .. WordBytes
  PROVE  ByteAt(w, i) \in Bytes
<1>1. PICK B \in Nat \ {0} : B = Pow2(ByteBits)
  BY ByteProps
<1>2. ByteBits * (WordBytes - i) \in Nat
  BY ByteProps
<1>3. PICK D \in Nat \ {0} : D = Pow2(ByteBits * (WordBytes - i))
  BY <1>2, PowPositive
<1>4. w \div D \in Nat
  BY Division
<1>5. (w \div D) % B \in 0 .. (B - 1)
  BY <1>4, Division
<1>6. QED
  BY <1>1, <1>3, <1>5 DEF ByteAt, Bytes

\* The last byte of a word, and the bytes before it.
LEMMA LastByte ==
  ASSUME NEW q \in Nat, NEW l \in Bytes
  PROVE  /\ ByteAt(q * Pow2(ByteBits) + l, WordBytes) = l
         /\ \A i \in 1 .. WordBytes : i # WordBytes =>
              ByteAt(q * Pow2(ByteBits) + l, i)
                = (q \div Pow2(ByteBits * (WordBytes - i - 1))) % Pow2(ByteBits)
<1>1. PICK B \in Nat \ {0} : B = Pow2(ByteBits)
  BY ByteProps
<1>2. l \in 0 .. B - 1
  BY <1>1 DEF Bytes
<1>3. PICK w \in Nat : w = q * B + l
  BY <1>2, Products
<1>4. ByteAt(w, WordBytes) = l
  <2>1. ByteBits * (WordBytes - WordBytes) = 0
    BY ByteProps
  <2>2. Pow2(ByteBits * (WordBytes - WordBytes)) = 1
    BY <2>1, PowSteps
  <2>3. w \div 1 = w
    OBVIOUS
  <2>4. w % B = l
    BY <1>2, <1>3, DivisionIsUnique
  <2>5. QED
    BY <1>1, <2>2, <2>3, <2>4 DEF ByteAt
<1>5. ASSUME NEW i \in 1 .. WordBytes, i # WordBytes
      PROVE  ByteAt(w, i) = (q \div Pow2(ByteBits * (WordBytes - i - 1))) % B
  <2>1. PICK n \in Nat : n = WordBytes - i - 1
    BY <1>5, ByteProps
  <2>2. PICK m \in Nat : m = ByteBits * n
    BY ByteProps, Products
  <2>3. ByteBits * (WordBytes - i) = m + ByteBits
    <3>1. WordBytes - i = n + 1
      BY <2>1, ByteProps
    <3>2. ByteBits * (n + 1) = ByteBits * n + ByteBits
      BY ByteProps
    <3>3. QED
      BY <2>2, <3>1, <3>2
  <2>4. PICK D \in Nat \ {0} : D = Pow2(m)
    BY PowPositive
  <2>5. Pow2(m + ByteBits) = D * B
    BY <1>1, <2>4, PowAdds, ByteProps
  <2>6. w \div (D * B) = q \div D
    BY <1>2, <1>3, DivisionTwice
  <2>7. ByteAt(w, i) = (w \div (D * B)) % B
    BY <1>1, <2>3, <2>5 DEF ByteAt
  <2>8. QED
    BY <2>1, <2>2, <2>4, <2>6, <2>7
<1>6. QED
  BY <1>1, <1>3, <1>4, <1>5

\* The bytes of what a copy leaves: those of the string, then those of the junk.
LEMMA OverDigits ==
  ASSUME NEW s \in Seq(Bytes), NEW junk \in Nat, NEW j \in 1 .. WordBytes
  PROVE  ByteAt(Over(s, junk), j) = IF j <= Len(s) THEN s[j] ELSE ByteAt(junk, j)
<1>. DEFINE b(i) == IF i <= Len(s) THEN s[i] ELSE ByteAt(junk, i)
            d == [i \in 1 .. WordBytes |-> b(i)]
            F(g) == [i \in 0 .. WordBytes |->
                       IF i = 0 THEN 0 ELSE g[i - 1] * Pow2(ByteBits) + b(i)]
<1>1. WordBytes \in Nat /\ Pow2(ByteBits) \in Nat
  BY WordAssumption, PowPositive
<1>2. \E g : g = F(g)
  <2>1. PICK g : Horner(g, WordBytes, Pow2(ByteBits), d)
    <3>. HIDE DEF d
    <3>1. QED
      BY <1>1, OverExists
  <2>2. \A i \in 0 .. WordBytes : i # 0 => d[i] = b(i)
    BY <1>1
  <2>. HIDE DEF b, d
  <2>3. g = F(g)
    BY <2>1, <2>2 DEF Horner
  <2>4. QED
    BY <2>3
<1>3. PICK g : g = F(g) /\ Over(s, junk) = g[WordBytes]
  <2>. DEFINE f == CHOOSE g : g = F(g)
  <2>1. f = F(f)
    BY <1>2, Zenon
  <2>2. Over(s, junk) = f[WordBytes]
    BY Zenon DEF Over
  <2>. HIDE DEF f, F
  <2>3. QED
    BY <2>1, <2>2
<1>4. \A i \in 1 .. WordBytes : b(i) \in Bytes
  <2>1. TAKE i \in 1 .. WordBytes
  <2>2. i <= Len(s) => s[i] \in Bytes
    <3>1. i \in Nat /\ i # 0 /\ Len(s) \in Nat
      BY <1>1
    <3>2. QED
      BY <3>1
  <2>3. ByteAt(junk, i) \in Bytes
    BY ByteIsByte
  <2>4. QED
    BY <2>2, <2>3
<1>5. PICK B \in Nat \ {0} : B = Pow2(ByteBits)
  BY ByteProps
<1>6. /\ g[0] = 0
      /\ \A i \in 1 .. WordBytes : g[i] = g[i - 1] * B + b(i)
  <2>. HIDE DEF b
  <2>1. QED
    BY <1>1, <1>3, <1>5
<1>. HIDE DEF b, F
<1>. DEFINE Digits(n) == \A i \in 1 .. n : (g[n] \div Pow2(ByteBits * (n - i))) % B = b(i)
            S == {n \in Nat : n <= WordBytes => g[n] \in Nat /\ Digits(n)}
<1>7. 0 \in S
  BY <1>6
<1>8. ASSUME NEW n \in Nat, n \in S PROVE n + 1 \in S
  <2>1. SUFFICES ASSUME n + 1 <= WordBytes PROVE g[n + 1] \in Nat /\ Digits(n + 1)
    OBVIOUS
  <2>2. g[n] \in Nat /\ Digits(n)
    BY <1>1, <1>8, <2>1
  <2>. HIDE DEF S
  <2>3. n + 1 \in 1 .. WordBytes /\ (n + 1) - 1 = n
    BY <1>1, <2>1
  <2>4. PICK x \in Nat, l \in 0 .. B - 1, y \in Nat :
          x = g[n] /\ l = b(n + 1) /\ y = x * B + l /\ y = g[n + 1]
    <3>1. b(n + 1) \in 0 .. B - 1
      BY <1>4, <1>5, <2>3 DEF Bytes
    <3>2. g[n + 1] = g[n] * B + b(n + 1)
      BY <1>6, <2>3
    <3>3. g[n] * B \in Nat
      BY <2>2, Products
    <3>4. QED
      BY <2>2, <3>1, <3>2, <3>3
  <2>5. ASSUME NEW i \in 1 .. n + 1
        PROVE  (y \div Pow2(ByteBits * ((n + 1) - i))) % B = b(i)
    <3>1. CASE i = n + 1
      <4>1. ByteBits * ((n + 1) - i) = 0
        BY <3>1, ByteProps
      <4>2. Pow2(ByteBits * ((n + 1) - i)) = 1
        BY <4>1, PowSteps
      <4>3. y \div 1 = y
        OBVIOUS
      <4>4. y % B = l
        <5>1. (x * B + l) % B = l
          BY DivisionIsUnique, Zenon
        <5>2. QED
          BY <2>4, <5>1
      <4>5. QED
        BY <2>4, <3>1, <4>2, <4>3, <4>4
    <3>2. CASE i # n + 1
      <4>1. PICK e \in Nat : e = n - i /\ (n + 1) - i = e + 1 /\ i \in 1 .. n
        BY <3>2
      <4>2. PICK m \in Nat : m = ByteBits * e
        BY ByteProps, Products
      <4>3. ByteBits * (e + 1) = m + ByteBits
        BY <4>2, ByteProps
      <4>4. PICK D \in Nat \ {0} : D = Pow2(m)
        BY PowPositive
      <4>5. Pow2(m + ByteBits) = D * B
        BY <1>5, <4>4, PowAdds, ByteProps
      <4>6. y \div (D * B) = x \div D
        <5>1. (x * B + l) \div (D * B) = x \div D
          BY DivisionTwice
        <5>2. QED
          BY <2>4, <5>1
      <4>7. (x \div D) % B = b(i)
        BY <2>2, <2>4, <4>1, <4>2, <4>4
      <4>8. QED
        BY <4>1, <4>3, <4>5, <4>6, <4>7
    <3>3. QED
      BY <3>1, <3>2
  <2>6. QED
    BY <2>4, <2>5
<1>. HIDE DEF S
<1>9. WordBytes \in S
  BY <1>1, <1>7, <1>8, NaturalInduction
<1>10. Digits(WordBytes)
  BY <1>1, <1>9 DEF S
<1>11. (g[WordBytes] \div Pow2(ByteBits * (WordBytes - j))) % B = b(j)
  BY <1>10
<1>12. QED
  BY <1>3, <1>5, <1>11 DEF ByteAt, b

\* What is ORed from numbers of so many bits has no more.
LEMMA OrIsShort ==
  ASSUME NEW x \in Nat, NEW y \in Nat, NEW m \in Nat, m <= WordBits,
         x < Pow2(m), y < Pow2(m)
  PROVE  Or(x, y) \in 0 .. Pow2(m) - 1
<1>. DEFINE b(i) == IF Bit(x, i - 1) + Bit(y, i - 1) = 0 THEN 0 ELSE Pow2(i - 1)
            d == [i \in 1 .. WordBits |-> b(i)]
            F(g) == [i \in 0 .. WordBits |-> IF i = 0 THEN 0 ELSE g[i - 1] + b(i)]
<1>1. WordBits \in Nat
  BY BytesAreNatural
<1>2. \E g : g = F(g)
  <2>1. PICK g : g = [i \in 0 .. WordBits |-> IF i = 0 THEN 0 ELSE g[i - 1] + d[i]]
    BY <1>1, OrExists
  <2>2. \A i \in 0 .. WordBits : i # 0 => d[i] = b(i)
    BY <1>1
  <2>. HIDE DEF b, d
  <2>3. g = F(g)
    BY <2>1, <2>2
  <2>4. QED
    BY <2>3
<1>3. PICK g : g = F(g) /\ Or(x, y) = g[WordBits]
  <2>. DEFINE f == CHOOSE g : g = F(g)
  <2>1. f = F(f)
    BY <1>2, Zenon
  <2>2. Or(x, y) = f[WordBits]
    BY Zenon DEF Or
  <2>. HIDE DEF f, F
  <2>3. QED
    BY <2>1, <2>2
<1>4. /\ g[0] = 0
      /\ \A n \in Nat : n + 1 <= WordBits => g[n + 1] = g[n] + b(n + 1)
  <2>. HIDE DEF b
  <2>1. QED
    BY <1>1, <1>3
<1>5. \A n \in Nat : b(n + 1) = 0 \/ b(n + 1) = Pow2(n)
  OBVIOUS
<1>6. \A n \in Nat : n >= m => b(n + 1) = 0
  <2>1. TAKE n \in Nat
  <2>2. HAVE n >= m
  <2>3. PICK N \in Nat \ {0} : N = Pow2(n)
    BY PowPositive
  <2>4. Pow2(m) <= N
    <3>1. PICK e \in Nat : n = m + e
      <4>1. n - m \in Nat /\ n = m + (n - m)
        BY <2>2
      <4>2. QED
        BY <4>1
    <3>2. PICK M \in Nat \ {0}, E \in Nat \ {0} : M = Pow2(m) /\ E = Pow2(e)
      BY PowPositive
    <3>3. N = M * E
      BY <2>3, <3>1, <3>2, PowAdds
    <3>4. E * M = M * E /\ M <= E * M
      BY <3>2, Products
    <3>5. QED
      BY <3>2, <3>3, <3>4
  <2>5. ASSUME NEW z \in Nat, z < Pow2(m) PROVE Bit(z, n) = 0
    <3>1. Pow2(m) \in Nat
      BY PowPositive
    <3>2. z \in 0 .. N - 1
      BY <2>4, <2>5, <3>1
    <3>3. (0 * N + z) \div N = 0
      BY <3>2, DivisionIsUnique
    <3>4. 0 * N + z = z
      OBVIOUS
    <3>5. QED
      BY <2>3, <3>3, <3>4 DEF Bit
  <2>6. Bit(x, n) = 0 /\ Bit(y, n) = 0
    BY <2>5
  <2>7. QED
    BY <2>6
<1>. HIDE DEF b, F
<1>. DEFINE Small(n) == g[n] \in Nat /\ g[n] < Pow2(IF n <= m THEN n ELSE m)
            S == {n \in Nat : n <= WordBits => Small(n)}
<1>7. 0 \in S
  BY <1>4, PowSteps
<1>8. ASSUME NEW n \in Nat, n \in S PROVE n + 1 \in S
  <2>1. SUFFICES ASSUME n + 1 <= WordBits PROVE Small(n + 1)
    OBVIOUS
  <2>2. Small(n)
    BY <1>1, <1>8, <2>1
  <2>3. g[n + 1] = g[n] + b(n + 1)
    BY <1>4, <2>1
  <2>4. Pow2(n) \in Nat /\ Pow2(n + 1) = 2 * Pow2(n)
    BY PowSteps, PowPositive
  <2>5. CASE n >= m
    <3>1. b(n + 1) = 0
      BY <1>6, <2>5
    <3>2. Pow2(IF n <= m THEN n ELSE m) = Pow2(IF n + 1 <= m THEN n + 1 ELSE m)
      BY <2>5
    <3>3. QED
      BY <2>2, <2>3, <3>1, <3>2
  <2>6. CASE n < m
    <3>1. g[n] < Pow2(n)
      BY <2>2, <2>6
    <3>2. n + 1 <= m
      BY <2>6
    <3>3. g[n + 1] \in Nat /\ g[n + 1] < Pow2(n + 1)
      BY <1>5, <2>2, <2>3, <2>4, <3>1
    <3>4. QED
      BY <3>2, <3>3
  <2>7. QED
    BY <2>5, <2>6
<1>. HIDE DEF S
<1>9. WordBits \in S
  BY <1>1, <1>7, <1>8, NaturalInduction
<1>10. Small(WordBits)
  BY <1>1, <1>9 DEF S
<1>11. Pow2(IF WordBits <= m THEN WordBits ELSE m) = Pow2(m)
  BY <1>1
<1>12. Pow2(m) \in Nat
  BY PowPositive
<1>13. QED
  BY <1>3, <1>10, <1>11, <1>12

-----------------------------------------------------------------------------
(* What is stored reads back.                                              *)

\* A value that can stand in a place of type t.
Clean(t, v) == IF t.cat = "string" THEN v \in Seq(Bytes) ELSE v \in 0 .. Pow2(t.bits) - 1

\* A place for a string or a number.
LEMMA SitedLeaf ==
  ASSUME NEW a, Sited(a, Leaf)
  PROVE  /\ a.shift = NoShift \/ a.shift \in Nat
         /\ a.type.cat # "string" => a.type.bits \in Nat /\ Pow2(a.type.bits) \in Nat \ {0}
         /\ \A v : Clean(a.type, v) => Value(a.type, v)
<1>1. PICK d \in 0 .. MaxDepth :
        a.type \in Types[d] /\ Denotes(a, a.type) /\ a.type.cat \in Leaf
  BY DEF Sited
<1>2. a.type.cat # "string" => a.type.bits \in 1 .. WordBits
  BY <1>1, TypeProps DEF Leaf
<1>3. WordBits \in Nat
  BY BytesAreNatural
<1>4. a.type.cat # "string" => a.type.bits \in Nat
  BY <1>2, <1>3
<1>5. a.type.cat # "string" => Pow2(a.type.bits) \in Nat \ {0}
  BY <1>4, PowPositive
<1>6. a.shift = NoShift \/ a.shift \in Nat
  BY <1>1 DEF Denotes
<1>7. ASSUME NEW v, Clean(a.type, v) PROVE Value(a.type, v)
  <2>1. Seq(Bytes) \subseteq Seq(Nat)
    BY ByteProps, SeqGrows
  <2>2. a.type.cat = "string" => v \in Seq(Nat)
    BY <1>7, <2>1 DEF Clean
  <2>3. a.type.cat # "string" => v \in Nat
    BY <1>5, <1>7 DEF Clean
  <2>4. QED
    BY <2>2, <2>3 DEF Value
<1>8. QED
  BY <1>4, <1>5, <1>6, <1>7

LEMMA ValuesClean ==
  ASSUME NEW a, Sited(a, Leaf), NEW v \in ValuesOf(a.type)
  PROVE  Clean(a.type, v)
<1>1. CASE a.type.cat = "string"
  BY <1>1, StringsAssumption DEF ValuesOf, Clean
<1>2. CASE a.type.cat # "string"
  <2>1. PICK B \in Nat \ {0} : B = Pow2(a.type.bits)
    BY <1>2, SitedLeaf
  <2>2. a.type.bits \in 1 .. WordBits /\ WordBits \in Nat
    <3>1. PICK d \in 0 .. MaxDepth : a.type \in Types[d] /\ a.type.cat \in Leaf
      BY DEF Sited
    <3>2. QED
      BY <1>2, <3>1, TypeProps, BytesAreNatural DEF Leaf
  <2>3. 1 < B
    <3>1. a.type.bits \in Nat /\ a.type.bits # 0
      BY <2>2
    <3>2. a.type.bits < B
      BY <2>1, <3>1, PowGrows
    <3>3. QED
      BY <3>1, <3>2
  <2>4. v = 1 \/ v = B - 1
    BY <1>2, <2>1 DEF ValuesOf
  <2>5. v \in 0 .. B - 1
    BY <2>3, <2>4
  <2>6. QED
    BY <1>2, <2>1, <2>5 DEF Clean
<1>3. QED
  BY <1>1, <1>2

LEMMA LoadStringClean ==
  ASSUME NEW w, Words(w), NEW at
  PROVE  LoadString(w, at) \in Seq(Bytes)
<1>. DEFINE word == WordOf(w, at)
            inline == word % 2 = 0
            n == IF inline THEN (word % Pow2(ByteBits)) \div 2 ELSE word \div 2
            part(i) == IF inline THEN word
                       ELSE WordOf(w, Plus(Hash(at, 0), (i - 1) \div WordBytes))
<1>1. LoadString(w, at) = [i \in 1 .. n |-> ByteAt(part(i), ((i - 1) % WordBytes) + 1)]
  BY DEF LoadString
<1>2. \A i : part(i) \in Nat
  BY WordIsNatural
<1>3. n \in Nat
  <2>1. word \in Nat
    BY WordIsNatural
  <2>2. word % Pow2(ByteBits) \in Nat
    BY <2>1, ByteProps
  <2>. HIDE DEF word
  <2>3. QED
    BY <2>1, <2>2
<1>. HIDE DEF n, part
<1>4. \A i \in 1 .. n : ByteAt(part(i), ((i - 1) % WordBytes) + 1) \in Bytes
  <2>1. TAKE i \in 1 .. n
  <2>2. i - 1 \in Nat
    BY <1>3
  <2>3. ((i - 1) % WordBytes) + 1 \in 1 .. WordBytes
    BY <2>2, ByteProps
  <2>4. part(i) \in Nat
    BY <1>2
  <2>5. QED
    BY <2>3, <2>4, ByteIsByte
<1>5. QED
  BY <1>1, <1>3, <1>4

LEMMA LoadsClean ==
  ASSUME NEW a, Sited(a, Leaf), NEW w, Words(w), NEW v \in Loads(w, a)
  PROVE  Clean(a.type, v)
<1>1. CASE a.type.cat = "string"
  BY <1>1, LoadStringClean DEF Loads, Clean
<1>2. CASE a.type.cat # "string"
  <2>1. PICK bits \in Nat, B \in Nat \ {0} : bits = a.type.bits /\ B = Pow2(bits)
    BY <1>2, SitedLeaf
  <2>2. PICK old \in Nat : old = WordOf(w, a.at)
    BY WordIsNatural
  <2>3. PICK value \in 0 .. B - 1 : value = old % B
    BY Division
  <2>4. v \in (IF a.shift = NoShift THEN {value}
               ELSE IF a.shift % B >= bits THEN 0 .. B - 1
               ELSE {value \div Pow2(a.shift % B)})
    BY <1>2, <2>1, <2>2, <2>3 DEF Loads
  <2>5. ASSUME a.shift \in Nat PROVE value \div Pow2(a.shift % B) \in 0 .. B - 1
    <3>1. a.shift % B \in Nat
      BY <2>5
    <3>2. PICK D \in Nat \ {0} : D = Pow2(a.shift % B)
      BY <3>1, PowPositive
    <3>3. PICK k \in Nat, r \in Nat : k = value \div D /\ value = k * D + r
      <4>1. value \in Nat
        OBVIOUS
      <4>2. value = (value \div D) * D + (value % D) /\ value % D \in 0 .. (D - 1)
            /\ value \div D \in Nat
        BY <4>1, Division
      <4>3. QED
        BY <4>2
    <3>4. k <= D * k /\ D * k = k * D /\ k * D \in Nat
      BY Products
    <3>5. QED
      BY <3>2, <3>3, <3>4
  <2>6. v \in 0 .. B - 1
    BY <2>4, <2>5, SitedLeaf
  <2>7. QED
    BY <1>2, <2>1, <2>6 DEF Clean
<1>3. QED
  BY <1>1, <1>2

LEMMA NumberReadsBack ==
  ASSUME NEW a, Sited(a, Leaf), a.type.cat # "string", a.shift = NoShift,
         NEW w, NEW v, Clean(a.type, v), NEW junk
  PROVE  Loads(Stores(w, a, v, junk), a) = {v}
<1>1. PICK B \in Nat \ {0} : B = Pow2(a.type.bits)
  BY SitedLeaf
<1>2. v \in 0 .. B - 1
  BY <1>1 DEF Clean
<1>3. WordOf(Stores(w, a, v, junk), a.at) = v
  BY UpdateProps DEF Stores, StoreNumber
<1>4. v % B = v
  <2>1. (0 * B + v) % B = v
    BY <1>2, DivisionIsUnique
  <2>2. 0 * B + v = v
    BY <1>2
  <2>3. QED
    BY <2>1, <2>2
<1>5. QED
  BY <1>1, <1>3, <1>4 DEF Loads

\* The word of a string inline: q is what lies above its last byte.
InlineAs(q, word, s, junk) ==
  /\ word = q * Pow2(ByteBits) + LengthByte(s, junk)
  /\ \A l \in Bytes : \A i \in 1 .. Len(s) : ByteAt(q * Pow2(ByteBits) + l, i) = s[i]

LEMMA LengthFits ==
  ASSUME NEW s \in Seq(Bytes), Inline(s), NEW junk \in Nat
  PROVE  LengthByte(s, junk) \in Bytes /\ 2 * Len(s) \in Bytes
<1>1. PICK B \in Nat \ {0}, W \in Nat \ {0}, n \in Nat :
        B = Pow2(ByteBits) /\ W = WordBytes /\ n = Len(s)
  BY ByteProps
<1>2. 2 * (W - 1) \in 0 .. B - 1
  BY <1>1, StringsAssumption DEF Bytes
<1>3. n < W
  BY <1>1 DEF Inline
<1>4. 2 * n \in 0 .. B - 1
  BY <1>2, <1>3
<1>5. ByteAt(junk, WordBytes) \in 0 .. B - 1
  <2>1. WordBytes \in 1 .. WordBytes
    BY ByteProps
  <2>2. QED
    BY <1>1, <2>1, ByteIsByte DEF Bytes
<1>6. ByteBits <= WordBits
  <2>1. ByteBits <= WordBytes * ByteBits
    BY ByteProps, Products
  <2>2. QED
    BY <2>1 DEF WordBits
<1>7. Or(ByteAt(junk, WordBytes), 2 * n) \in 0 .. B - 1
  <2>1. PICK x \in Nat : x = ByteAt(junk, WordBytes) /\ x < B
    BY <1>5
  <2>2. PICK y \in Nat : y = 2 * n /\ y < B
    BY <1>4
  <2>3. Or(x, y) \in 0 .. Pow2(ByteBits) - 1
    BY <1>1, <1>6, <2>1, <2>2, OrIsShort, ByteProps
  <2>4. QED
    BY <1>1, <2>1, <2>2, <2>3
<1>8. QED
  BY <1>1, <1>4, <1>7 DEF LengthByte, Bytes

LEMMA InlineWord ==
  ASSUME NEW s \in Seq(Bytes), Inline(s), NEW junk \in Nat, NEW w, NEW at
  PROVE  \E q \in Nat : InlineAs(q, WordOf(StoreString(w, at, s, junk), at), s, junk)
<1>1. PICK B \in Nat \ {0} : B = Pow2(ByteBits)
  BY ByteProps
<1>2. s \in Seq(Nat)
  BY ByteProps, SeqGrows
<1>3. PICK word \in Nat : word = Over(s, junk)
  BY <1>2, OverIsNatural
<1>4. PICK q \in Nat, low \in 0 .. B - 1, u \in Nat :
        word = u + low /\ u = q * B /\ low = word % B
  <2>1. word = (word \div B) * B + (word % B) /\ word % B \in 0 .. (B - 1)
        /\ word \div B \in Nat
    BY Division
  <2>2. (word \div B) * B \in Nat
    BY <2>1, Products
  <2>3. QED
    BY <2>1, <2>2
<1>5. StoreString(w, at, s, junk) = Update(w, at, (word - low) + LengthByte(s, junk))
  BY <1>1, <1>3, <1>4 DEF StoreString
<1>6. word - low = u
  BY <1>4
<1>7. WordOf(StoreString(w, at, s, junk), at) = q * Pow2(ByteBits) + LengthByte(s, junk)
  <2>. DEFINE new == (word - low) + LengthByte(s, junk)
  <2>1. WordOf(Update(w, at, new), at) = new
    <3>. HIDE DEF new
    <3>1. QED
      BY UpdateProps
  <2>2. new = q * B + LengthByte(s, junk)
    BY <1>4, <1>6
  <2>3. QED
    BY <1>1, <1>5, <2>1, <2>2
<1>8. ASSUME NEW l \in Bytes, NEW i \in 1 .. Len(s)
      PROVE  ByteAt(q * Pow2(ByteBits) + l, i) = s[i]
  <2>1. i \in 1 .. WordBytes /\ i # WordBytes /\ i <= Len(s)
    <3>1. Len(s) \in Nat /\ WordBytes \in Nat /\ Len(s) < WordBytes
      BY ByteProps DEF Inline
    <3>2. QED
      BY <3>1
  <2>2. ByteAt(word, i) = s[i]
    BY <1>3, <2>1, OverDigits
  <2>3. low \in Bytes
    BY <1>1 DEF Bytes
  <2>4. ByteAt(q * Pow2(ByteBits) + low, i) = ByteAt(q * Pow2(ByteBits) + l, i)
    BY <2>1, <2>3, LastByte
  <2>5. QED
    BY <1>1, <1>4, <2>2, <2>4
<1>9. QED
  BY <1>7, <1>8 DEF InlineAs

\* A short string reads back if and only if the junk leaves its length alone;
\* the one exception may be a string of zeros.
LEMMA InlineReadsBack ==
  ASSUME NEW s \in Seq(Bytes), Inline(s), NEW junk \in Nat, NEW w, NEW at
  PROVE  /\ ~ LengthShows(s, junk) => LoadString(StoreString(w, at, s, junk), at) = s
         /\ LengthShows(s, junk) /\ ToSet(s) \ {0} # {} =>
              LoadString(StoreString(w, at, s, junk), at) # s
<1>. DEFINE m == StoreString(w, at, s, junk)
<1>1. PICK B \in Nat \ {0}, h \in Nat : B = Pow2(ByteBits) /\ B = 2 * h
  BY ByteProps
<1>2. PICK q \in Nat : InlineAs(q, WordOf(m, at), s, junk)
  BY InlineWord
<1>3. PICK n \in Nat, L \in 0 .. B - 1 :
        n = Len(s) /\ L = LengthByte(s, junk) /\ 2 * n \in 0 .. B - 1
  BY <1>1, LengthFits DEF Bytes
<1>4. PICK u \in Nat : u = q * h /\ q * B = 2 * u
  <2>1. q * (2 * h) = 2 * (q * h) /\ q * h \in Nat
    OBVIOUS
  <2>2. QED
    BY <1>1, <2>1
<1>5. PICK word \in Nat : word = WordOf(m, at) /\ word = q * B + L /\ word = 2 * u + L
  <2>1. WordOf(m, at) = q * B + L
    BY <1>1, <1>2, <1>3 DEF InlineAs
  <2>2. L \in Nat /\ q * B + L = 2 * u + L /\ 2 * u + L \in Nat
    BY <1>4
  <2>3. q * B + L \in Nat
    BY <2>2
  <2>4. QED
    BY <2>1, <2>2, <2>3
<1>6. word % B = L
  BY <1>5, DivisionIsUnique
<1>7. \A l \in 0 .. B - 1 : \A i \in 1 .. n : ByteAt(q * B + l, i) = s[i]
  BY <1>1, <1>2, <1>3 DEF InlineAs, Bytes
<1>8. LengthShows(s, junk) <=> L # 2 * n
  BY <1>3 DEF LengthShows
<1>9. s = [i \in 1 .. n |-> s[i]]
  BY <1>3
<1>10. ASSUME word % 2 = 0
       PROVE  LoadString(m, at) = [i \in 1 .. L \div 2 |-> ByteAt(word, ((i - 1) % WordBytes) + 1)]
  BY <1>1, <1>5, <1>6, <1>10 DEF LoadString
<1>11. word % 2 # 0 => Len(LoadString(m, at)) = word \div 2
  <2>1. ASSUME word % 2 # 0
        PROVE  LoadString(m, at) = [i \in 1 .. word \div 2 |->
                 ByteAt(WordOf(m, Plus(Hash(at, 0), (i - 1) \div WordBytes)),
                        ((i - 1) % WordBytes) + 1)]
    BY <1>5, <2>1 DEF LoadString
  <2>2. word \div 2 \in Nat
    OBVIOUS
  <2>. HIDE DEF m
  <2>3. QED
    BY <2>1, <2>2
<1>. HIDE DEF m
<1>12. ASSUME L = 2 * n PROVE LoadString(m, at) = s
  <2>1. word % 2 = 0 /\ L \div 2 = n
    BY <1>5, <1>12
  <2>2. ASSUME NEW i \in 1 .. n PROVE ByteAt(word, ((i - 1) % WordBytes) + 1) = s[i]
    <3>1. PICK W \in Nat \ {0} : W = WordBytes /\ n < W
      BY <1>3, ByteProps DEF Inline
    <3>2. ((i - 1) % W) + 1 = i
      <4>1. i - 1 \in 0 .. W - 1
        BY <3>1
      <4>2. (0 * W + (i - 1)) % W = i - 1
        BY <4>1, DivisionIsUnique
      <4>3. 0 * W + (i - 1) = i - 1
        OBVIOUS
      <4>4. QED
        BY <4>2, <4>3
    <3>3. QED
      BY <1>5, <1>7, <3>1, <3>2
  <2>3. QED
    BY <1>9, <1>10, <2>1, <2>2
<1>13. ASSUME L # 2 * n, ToSet(s) \ {0} # {} PROVE LoadString(m, at) # s
  <2>1. CASE word % 2 = 0
    <3>1. PICK k \in Nat : k = L \div 2 /\ L = 2 * k
      BY <1>5, <2>1
    <3>2. Len(LoadString(m, at)) = k
      BY <1>10, <2>1, <3>1
    <3>3. QED
      BY <1>3, <1>13, <3>1, <3>2
  <2>2. CASE word % 2 # 0
    <3>1. SUFFICES ASSUME word \div 2 = n PROVE FALSE
      BY <1>3, <1>11, <2>2
    <3>2. word = 2 * n + 1
      BY <2>2, <3>1
    <3>3. word < B
      BY <1>1, <1>3, <3>2
    <3>4. q = 0
      <4>1. q # 0 => B <= q * B
        BY Products
      <4>2. q * B \in Nat
        BY Products
      <4>3. QED
        BY <1>5, <3>3, <4>1, <4>2
    <3>5. ASSUME NEW i \in 1 .. n PROVE s[i] = 0
      <4>1. ByteAt(0, i) = s[i]
        <5>1. q * B + 0 = 0
          BY <3>4
        <5>2. QED
          BY <1>7, <5>1
      <4>2. ByteAt(0, i) = 0
        <5>1. PICK W \in Nat \ {0} : W = WordBytes /\ n < W
          BY <1>3, ByteProps DEF Inline
        <5>2. ByteBits * (WordBytes - i) \in Nat
          <6>1. W - i \in Nat
            BY <5>1
          <6>2. QED
            BY <5>1, <6>1, ByteProps, Products
        <5>3. PICK D \in Nat \ {0} : D = Pow2(ByteBits * (WordBytes - i))
          BY <5>2, PowPositive
        <5>4. 0 \div D = 0 /\ 0 % B = 0
          OBVIOUS
        <5>5. QED
          BY <1>1, <5>3, <5>4 DEF ByteAt
      <4>3. QED
        BY <4>1, <4>2
    <3>6. ToSet(s) \subseteq {0}
      BY <1>3, <3>5 DEF ToSet
    <3>7. QED
      BY <1>13, <3>6
  <2>3. QED
    BY <2>1, <2>2
<1>14. QED
  BY <1>8, <1>12, <1>13 DEF m

\* A long string always reads back: its word says how long it is, and its data
\* lie where the word is not.
LEMMA LongReadsBack ==
  ASSUME NEW s \in Seq(Bytes), ~ Inline(s), NEW junk \in Nat, NEW w,
         NEW at, Keyed(at)
  PROVE  LoadString(StoreString(w, at, s, junk), at) = s
<1>. DEFINE count == (Len(s) + WordBytes - 1) \div WordBytes
            data == {Plus(Hash(at, 0), i) : i \in 0 .. count - 1}
            put == Update(w, at, 2 * Len(s) + 1)
            part(i) == SubSeq(s, i * WordBytes + 1, Len(s))
            m == [x \in DOMAIN put \cup data |->
                    IF x \in data THEN Over(part(x.off), junk) ELSE put[x]]
<1>1. StoreString(w, at, s, junk) = m
  BY DEF StoreString
<1>2. PICK W \in Nat \ {0}, n \in Nat : W = WordBytes /\ n = Len(s)
  BY ByteProps
<1>3. WordOf(m, at) = 2 * n + 1
  <2>1. at \notin data
    BY DataElsewhere
  <2>2. at \in DOMAIN put /\ put[at] = 2 * n + 1
    BY <1>2 DEF Update
  <2>. HIDE DEF data, put, part
  <2>3. QED
    BY <2>1, <2>2 DEF WordOf
<1>4. ASSUME NEW k \in 0 .. count - 1
      PROVE  WordOf(m, Plus(Hash(at, 0), k)) = Over(part(k), junk)
  <2>1. Plus(Hash(at, 0), k) \in data
    OBVIOUS
  <2>2. Plus(Hash(at, 0), k).off = k
    BY DEF Plus, Hash
  <2>. HIDE DEF data, put, part, count
  <2>3. QED
    BY <2>1, <2>2 DEF WordOf
<1>5. LoadString(m, at)
        = [i \in 1 .. n |-> ByteAt(WordOf(m, Plus(Hash(at, 0), (i - 1) \div W)),
                                   ((i - 1) % W) + 1)]
  <2>. HIDE DEF m
  <2>1. (2 * n + 1) % 2 # 0 /\ (2 * n + 1) \div 2 = n
    OBVIOUS
  <2>2. QED
    BY <1>2, <1>3, <2>1 DEF LoadString
<1>6. PICK C \in Nat, r \in 0 .. W - 1 : C = count /\ n + W - 1 = C * W + r
  <2>1. PICK z \in Nat : z = n + W - 1
    OBVIOUS
  <2>. HIDE DEF data, put, part, m
  <2>2. z % W \in 0 .. (W - 1) /\ z = (z \div W) * W + (z % W) /\ z \div W \in Nat
    BY Division
  <2>3. QED
    BY <1>2, <2>1, <2>2
<1>. HIDE DEF data, put, m, count
<1>7. ASSUME NEW i \in 1 .. n
      PROVE  ByteAt(WordOf(m, Plus(Hash(at, 0), (i - 1) \div W)), ((i - 1) % W) + 1) = s[i]
  <2>1. PICK k \in Nat, e \in 0 .. W - 1, f \in Nat :
          k = (i - 1) \div W /\ e = (i - 1) % W /\ f = k * W /\ i - 1 = f + e
    <3>1. PICK z \in Nat : z = i - 1
      OBVIOUS
    <3>2. z % W \in 0 .. (W - 1) /\ z = (z \div W) * W + (z % W) /\ z \div W \in Nat
      BY Division
    <3>3. (z \div W) * W \in Nat
      BY <3>2, Products
    <3>4. QED
      BY <3>1, <3>2, <3>3
  <2>2. k \in 0 .. C - 1
    <3>1. SUFFICES ASSUME k >= C PROVE FALSE
      OBVIOUS
    <3>2. PICK g \in Nat : k = C + g
      <4>1. k - C \in Nat /\ k = C + (k - C)
        BY <3>1
      <4>2. QED
        BY <4>1
    <3>3. k * W = C * W + g * W /\ C * W \in Nat /\ g * W \in Nat
      BY <3>2
    <3>4. QED
      BY <1>6, <2>1, <3>3
  <2>3. /\ part(k) \in Seq(Bytes) /\ Len(part(k)) = n - f
        /\ e + 1 <= n - f /\ part(k)[e + 1] = s[i]
    <3>1. f + 1 \in 1 .. Len(s) + 1 /\ Len(s) \in (f + 1) - 1 .. Len(s)
      BY <1>2, <2>1
    <3>2. part(k) = SubSeq(s, f + 1, Len(s))
      BY <1>2, <2>1
    <3>. HIDE DEF part
    <3>3. /\ SubSeq(s, f + 1, Len(s)) \in Seq(Bytes)
          /\ Len(SubSeq(s, f + 1, Len(s)))
               = IF f + 1 <= Len(s) THEN Len(s) - (f + 1) + 1 ELSE 0
          /\ \A j \in 1 .. Len(s) - (f + 1) + 1 :
               SubSeq(s, f + 1, Len(s))[j] = s[(f + 1) + j - 1]
      BY <3>1, SubSeqProperties
    <3>4. e + 1 \in 1 .. Len(s) - (f + 1) + 1 /\ (f + 1) + (e + 1) - 1 = i
      BY <1>2, <2>1
    <3>5. SubSeq(s, f + 1, Len(s))[e + 1] = s[i]
      BY <3>3, <3>4
    <3>6. f + 1 <= n /\ e + 1 <= n - f /\ n - (f + 1) + 1 = n - f
      BY <2>1
    <3>7. Len(SubSeq(s, f + 1, Len(s))) = n - f
      BY <1>2, <3>3, <3>6
    <3>8. QED
      BY <3>2, <3>3, <3>5, <3>6, <3>7
  <2>4. WordOf(m, Plus(Hash(at, 0), k)) = Over(part(k), junk)
    BY <1>4, <1>6, <2>2
  <2>5. e + 1 \in 1 .. WordBytes
    BY <1>2
  <2>. HIDE DEF part
  <2>6. ByteAt(Over(part(k), junk), e + 1) = s[i]
    BY <2>3, <2>5, OverDigits
  <2>7. QED
    BY <2>1, <2>4, <2>6
<1>8. s = [i \in 1 .. n |-> s[i]]
  BY <1>2
<1>9. QED
  BY <1>1, <1>5, <1>7, <1>8

\* What a leaf with no neighbours in its word reads after it is assigned.
Reads(words, a, v) == Loads(words, a) = {v}
Spoilt(t, v, junk) == t.cat = "string" /\ Inline(v) /\ LengthShows(v, junk)

LEMMA StoredReadsBack ==
  ASSUME NEW a, Sited(a, Leaf), Keyed(a.at), a.shift = NoShift,
         NEW w, NEW v, Clean(a.type, v), NEW junk \in Nat
  PROVE  /\ ~ Spoilt(a.type, v, junk) => Reads(Stores(w, a, v, junk), a, v)
         /\ Spoilt(a.type, v, junk) /\ ToSet(v) \ {0} # {} =>
              ~ Reads(Stores(w, a, v, junk), a, v)
<1>1. CASE a.type.cat # "string"
  BY <1>1, NumberReadsBack DEF Reads, Spoilt
<1>2. CASE a.type.cat = "string"
  <2>1. v \in Seq(Bytes)
    BY <1>2 DEF Clean
  <2>2. Reads(Stores(w, a, v, junk), a, v)
          <=> LoadString(StoreString(w, a.at, v, junk), a.at) = v
    BY <1>2 DEF Reads, Loads, Stores
  <2>3. CASE Inline(v)
    BY <1>2, <2>1, <2>2, <2>3, InlineReadsBack DEF Spoilt
  <2>4. CASE ~ Inline(v)
    BY <2>1, <2>2, <2>4, LongReadsBack DEF Spoilt
  <2>5. QED
    BY <2>3, <2>4
<1>3. QED
  BY <1>1, <1>2

\* A leaf reads the words that it may write, and no other.
LEMMA LoadsSame ==
  ASSUME NEW a, NEW b, Same(a, b), NEW w, NEW u,
         \A y : MayWrite(a, y) => WordOf(w, y) = WordOf(u, y),
         Words(w)
  PROVE  Loads(w, a) = Loads(u, b)
<1>1. a.type = b.type /\ a.at = b.at /\ a.shift = b.shift
  BY DEF Same
<1>2. WordOf(w, a.at) = WordOf(u, a.at)
  BY DEF MayWrite
<1>3. CASE a.type.cat # "string"
  BY <1>1, <1>2, <1>3 DEF Loads
<1>4. CASE a.type.cat = "string"
  <2>1. \A i \in Nat : WordOf(w, Plus(Hash(a.at, 0), i)) = WordOf(u, Plus(Hash(a.at, 0), i))
    BY <1>4 DEF MayWrite
  <2>. DEFINE word == WordOf(w, a.at)
              inline == word % 2 = 0
              n == IF inline THEN (word % Pow2(ByteBits)) \div 2 ELSE word \div 2
              byte(z, i) ==
                ByteAt(IF inline THEN word
                       ELSE WordOf(z, Plus(Hash(a.at, 0), (i - 1) \div WordBytes)),
                       ((i - 1) % WordBytes) + 1)
  <2>2. LoadString(w, a.at) = [i \in 1 .. n |-> byte(w, i)]
    BY DEF LoadString
  <2>3. LoadString(u, a.at) = [i \in 1 .. n |-> byte(u, i)]
    BY <1>2 DEF LoadString
  <2>4. \A i \in 1 .. n : byte(w, i) = byte(u, i)
    <3>1. TAKE i \in 1 .. n
    <3>2. i - 1 \in Nat
      OBVIOUS
    <3>3. (i - 1) \div WordBytes \in Nat
      BY <3>2, ByteProps, Division
    <3>4. WordOf(w, Plus(Hash(a.at, 0), (i - 1) \div WordBytes))
            = WordOf(u, Plus(Hash(a.at, 0), (i - 1) \div WordBytes))
      BY <2>1, <3>3
    <3>5. QED
      BY <3>4
  <2>. HIDE DEF n, byte
  <2>5. LoadString(w, a.at) = LoadString(u, a.at)
    BY <2>2, <2>3, <2>4
  <2>6. QED
    BY <1>1, <1>4, <2>5 DEF Loads
<1>5. QED
  BY <1>3, <1>4

\* The data of two strings lie apart when their words do.
LEMMA DataApart ==
  ASSUME NEW a, Keyed(a), a = [base |-> a.base, off |-> a.off],
         NEW b, Keyed(b), b = [base |-> b.base, off |-> b.off],
         NEW i, NEW j, Plus(Hash(a, 0), i) = Plus(Hash(b, 0), j)
  PROVE  a = b
<1>1. PICK S : a.base \in Seq(S \X Keys)
  BY DEF Keyed
<1>2. PICK T : b.base \in Seq(T \X Keys)
  BY DEF Keyed
<1>. DEFINE e == <<a.off, 0>>
            f == <<b.off, 0>>
            U == (S \X Keys) \cup (T \X Keys) \cup {e, f}
<1>3. a.base \in Seq(U) /\ b.base \in Seq(U) /\ e \in U /\ f \in U
  <2>1. S \X Keys \subseteq U /\ T \X Keys \subseteq U /\ e \in U /\ f \in U
    OBVIOUS
  <2>. HIDE DEF U, e, f
  <2>2. QED
    BY <1>1, <1>2, <2>1, SeqGrows
<1>4. Append(a.base, e) = Append(b.base, f)
  <2>1. Plus(Hash(a, 0), i).base = Append(a.base, e)
    BY DEF Plus, Hash
  <2>2. Plus(Hash(b, 0), j).base = Append(b.base, f)
    BY DEF Plus, Hash
  <2>. HIDE DEF U, e, f
  <2>3. QED
    BY <2>1, <2>2
<1>5. a.base = b.base /\ e = f
  <2>. HIDE DEF U, e, f
  <2>1. QED
    BY <1>3, <1>4, AppendInjective
<1>6. a.off = b.off
  BY <1>5
<1>7. QED
  BY <1>5, <1>6

\* In a contract whose slots are apart, the store to one leaf does not write
\* what another one, with no neighbours in its word, reads.
LEMMA LeavesElsewhere ==
  ASSUME contract \in Contracts, Apart, NEW l \in Leaves, NEW m \in Leaves, l # m,
         Access(l).shift = NoShift, NEW y, MayWrite(Access(l), y)
  PROVE  ~ MayWrite(Access(m), y)
<1>1. Sited(Access(l), Leaf) /\ Sited(Access(m), Leaf)
  BY AccessProps DEF Leaves
<1>2. l \in Occupants /\ m \in Occupants
  <2>1. Leaves \subseteq Locations(0, Leaf \cup {"mapping"})
    BY DEF Leaves, Locations
  <2>2. QED
    BY <2>1 DEF Occupants
<1>3. Access(l).at # Access(m).at
  BY <1>2 DEF Apart, Neighbours
<1>4. Keyed(Access(l).at) /\ Keyed(Access(m).at)
  BY KeyedAccess DEF Leaves
<1>5. /\ Access(l).at = [base |-> Access(l).at.base, off |-> Access(l).at.off]
      /\ Access(m).at = [base |-> Access(m).at.base, off |-> Access(m).at.off]
  BY <1>1 DEF Sited, Denotes
<1>6. PICK a, b : a = Access(l).at /\ b = Access(m).at
  OBVIOUS
<1>7. \A i, j : /\ a # Plus(Hash(b, 0), j) /\ b # Plus(Hash(a, 0), i)
                /\ Plus(Hash(a, 0), i) # Plus(Hash(b, 0), j)
  <2>1. \A i : a # Plus(Hash(b, 0), i) /\ b # Plus(Hash(a, 0), i)
    BY <1>4, <1>6, DataElsewhere
  <2>2. \A i, j : Plus(Hash(a, 0), i) # Plus(Hash(b, 0), j)
    BY <1>3, <1>4, <1>5, <1>6, DataApart
  <2>3. QED
    BY <2>1, <2>2
<1>8. y = a \/ \E i : y = Plus(Hash(a, 0), i)
  BY <1>6 DEF MayWrite
<1>9. ASSUME MayWrite(Access(m), y) PROVE y = b \/ \E j : y = Plus(Hash(b, 0), j)
  BY <1>6, <1>9 DEF MayWrite
<1>10. QED
  BY <1>3, <1>6, <1>7, <1>8, <1>9

-----------------------------------------------------------------------------
(* What every leaf reads.                                                  *)

\* What was assigned last to a location with a thing of type t.
Wanted(h, loc, t) == IF loc \in DOMAIN h THEN h[loc] ELSE Unassigned(t)

\* Leaf loc at a reads what ReadsLastAssigned says.
RightAt(w, h, d, loc, a) ==
  a.shift = NoShift =>
    /\ loc \notin d => Reads(w, a, Wanted(h, loc, a.type))
    /\ loc \in d /\ ToSet(Wanted(h, loc, a.type)) \ {0} # {} =>
         ~ Reads(w, a, Wanted(h, loc, a.type))
AllRight(w, h, d) == \A loc \in Leaves : RightAt(w, h, d, loc, Access(loc))

LEMMA ReadsAreRight ==
  ReadsLastAssigned <=> (Declared /\ Apart => AllRight(storage, held, dirty))
BY DEF ReadsLastAssigned, AllRight, RightAt, Reads, Wanted

\* An assignment to a leaf leaves every leaf right.
LEMMA StoreRight ==
  ASSUME contract \in Contracts, Apart, NEW loc \in Leaves,
         NEW w, Words(w), NEW h, NEW d, AllRight(w, h, d),
         NEW v, Clean(Access(loc).type, v), NEW junk \in Nat
  PROVE  /\ Words(Stores(w, Access(loc), v, junk))
         /\ AllRight(Stores(w, Access(loc), v, junk), Holding(h, loc, v),
                     Soiled(d, loc, v, junk))
<1>1. Sited(Access(loc), Leaf) /\ Keyed(Access(loc).at)
  BY AccessProps, KeyedAccess DEF Leaves
<1>2. ASSUME NEW a, Sited(a, Leaf), Clean(a.type, v)
      PROVE  /\ Words(Stores(w, a, v, junk))
             /\ \A y : ~ MayWrite(a, y) => WordOf(Stores(w, a, v, junk), y) = WordOf(w, y)
  <2>1. Value(a.type, v)
    BY <1>2, SitedLeaf
  <2>2. QED
    BY <1>2, <2>1, StoreSited
<1>. DEFINE u == Stores(w, Access(loc), v, junk)
            g == Holding(h, loc, v)
            e == Soiled(d, loc, v, junk)
<1>3. Words(u) /\ \A y : ~ MayWrite(Access(loc), y) => WordOf(u, y) = WordOf(w, y)
  BY <1>1, <1>2
<1>4. /\ loc \in DOMAIN g /\ g[loc] = v
      /\ \A l : l # loc => (l \in DOMAIN g <=> l \in DOMAIN h)
                             /\ (l \in DOMAIN h => g[l] = h[l])
  BY DEF Holding, Update
<1>5. /\ loc \in e <=> Spoilt(Access(loc).type, v, junk)
      /\ \A l : l # loc => (l \in e <=> l \in d)
  BY DEF Soiled, Spoilt
<1>6. ASSUME Access(loc).shift = NoShift
      PROVE  /\ ~ Spoilt(Access(loc).type, v, junk) => Reads(u, Access(loc), v)
             /\ Spoilt(Access(loc).type, v, junk) /\ ToSet(v) \ {0} # {} =>
                  ~ Reads(u, Access(loc), v)
  <2>1. PICK a : a = Access(loc)
    OBVIOUS
  <2>2. /\ ~ Spoilt(a.type, v, junk) => Reads(Stores(w, a, v, junk), a, v)
        /\ Spoilt(a.type, v, junk) /\ ToSet(v) \ {0} # {} =>
             ~ Reads(Stores(w, a, v, junk), a, v)
    BY <1>1, <1>6, <2>1, StoredReadsBack
  <2>3. QED
    BY <2>1, <2>2
<1>. HIDE DEF u, g, e
<1>7. RightAt(u, g, e, loc, Access(loc))
  BY <1>4, <1>5, <1>6 DEF RightAt, Wanted
<1>8. ASSUME NEW l \in Leaves, l # loc PROVE RightAt(u, g, e, l, Access(l))
  <2>1. SUFFICES ASSUME Access(l).shift = NoShift PROVE RightAt(u, g, e, l, Access(l))
    BY DEF RightAt
  <2>2. \A y : MayWrite(Access(l), y) => WordOf(w, y) = WordOf(u, y)
    BY <1>3, <1>8, <2>1, LeavesElsewhere
  <2>3. PICK a : a = Access(l)
    OBVIOUS
  <2>4. Loads(w, a) = Loads(u, a)
    BY <2>2, <2>3, LoadsSame DEF Same
  <2>5. \A z : Reads(w, a, z) <=> Reads(u, a, z)
    BY <2>4 DEF Reads
  <2>6. Wanted(g, l, a.type) = Wanted(h, l, a.type)
    BY <1>4, <1>8 DEF Wanted
  <2>7. RightAt(w, h, d, l, a)
    BY <2>3 DEF AllRight
  <2>8. RightAt(u, g, e, l, a)
    BY <1>5, <1>8, <2>5, <2>6, <2>7 DEF RightAt
  <2>9. QED
    BY <2>3, <2>8
<1>9. QED
  BY <1>3, <1>7, <1>8 DEF AllRight, u, g, e

\* Where nothing was stored, nothing is read.
LEMMA NothingStored ==
  ASSUME contract \in Contracts
  PROVE  AllRight(<<>>, <<>>, {})
<1>1. \A at : WordOf(<<>>, at) = 0
  BY DEF WordOf
<1>2. ASSUME NEW a, Sited(a, Leaf), a.shift = NoShift
      PROVE  Reads(<<>>, a, Unassigned(a.type))
  <2>1. CASE a.type.cat = "string"
    <3>1. PICK B \in Nat \ {0} : B = Pow2(ByteBits)
      BY ByteProps
    <3>2. 0 % 2 = 0 /\ (0 % B) \div 2 = 0
      OBVIOUS
    <3>3. LoadString(<<>>, a.at) = [i \in 1 .. 0 |-> ByteAt(0, ((i - 1) % WordBytes) + 1)]
      BY <1>1, <3>1, <3>2 DEF LoadString
    <3>4. LoadString(<<>>, a.at) = <<>>
      BY <3>3
    <3>5. QED
      BY <2>1, <3>4 DEF Reads, Loads, Unassigned
  <2>2. CASE a.type.cat # "string"
    <3>1. PICK B \in Nat \ {0} : B = Pow2(a.type.bits)
      BY <1>2, <2>2, SitedLeaf
    <3>2. 0 % B = 0
      OBVIOUS
    <3>3. QED
      BY <1>1, <1>2, <2>2, <3>1, <3>2 DEF Reads, Loads, Unassigned
  <2>3. QED
    BY <2>1, <2>2
<1>3. ASSUME NEW loc \in Leaves PROVE Sited(Access(loc), Leaf)
  BY AccessProps DEF Leaves
<1>4. \A loc, t : Wanted(<<>>, loc, t) = Unassigned(t)
  BY DEF Wanted
<1>5. ASSUME NEW loc \in Leaves PROVE RightAt(<<>>, <<>>, {}, loc, Access(loc))
  <2>1. PICK a : a = Access(loc)
    OBVIOUS
  <2>2. RightAt(<<>>, <<>>, {}, loc, a)
    BY <1>2, <1>3, <1>4, <2>1 DEF RightAt
  <2>3. QED
    BY <2>1, <2>2
<1>6. QED
  BY <1>5 DEF AllRight

\* So does a struct that is copied.
LEMMA CopyRight ==
  ASSUME contract \in Contracts, Apart, Words(storage), AllRight(storage, held, dirty),
         NEW to \in Locations(0, {"struct"}), NEW from \in Locations(0, {"struct"}),
         Access(to).type = Access(from).type, Copyable(Access(to).type),
         NEW junk \in Nat
  PROVE  AllRight(CopyMembers(to, from, junk).words, CopyMembers(to, from, junk).held,
                  CopyMembers(to, from, junk).dirty)
<1>. DEFINE a == Access(to)
            b == Access(from)
<1>1. Sited(a, {"struct"}) /\ Sited(b, {"struct"})
  BY AccessProps
<1>2. PICK n \in Nat : n = Len(a.type.elems)
  <2>1. PICK d \in 0 .. MaxDepth : a.type \in Types[d] /\ a.type.cat = "struct"
    BY <1>1 DEF Sited
  <2>2. a.type.elems \in Seq(Types[d + 1])
    BY <2>1, TypeProps
  <2>. HIDE DEF a
  <2>3. QED
    BY <2>2
<1>3. PICK g : CopiesTo(g, to, from, junk, n) /\ CopyMembers(to, from, junk) = g[n]
  BY <1>2, CopyUnfolds
<1>. DEFINE Good(c) == Words(c.words) /\ AllRight(c.words, c.held, c.dirty)
            S == {k \in Nat : k <= n => Good(g[k])}
<1>4. 0 \in S
  <2>1. g[0] = [words |-> storage, held |-> held, dirty |-> dirty]
    BY <1>3 DEF CopiesTo
  <2>2. QED
    BY <2>1
<1>5. ASSUME NEW k \in Nat, k \in S PROVE k + 1 \in S
  <2>1. SUFFICES ASSUME k + 1 <= n PROVE Good(g[k + 1])
    OBVIOUS
  <2>2. PICK i \in 1 .. n : i = k + 1 /\ i - 1 = k
    BY <2>1
  <2>3. g[i] = CopyMember(g[k], to, from, i, junk)
    BY <1>3, <2>2 DEF CopiesTo
  <2>4. Good(g[k])
    BY <1>5, <2>1
  <2>. HIDE DEF S
  <2>5. /\ Sited(Member(b, i), Leaf) /\ Member(a, i).type = Member(b, i).type
    <3>1. Sited(Member(a, i), Leaf) /\ Member(a, i).type = a.type.elems[i]
      BY <1>1, <1>2, MemberSited
    <3>2. Sited(Member(b, i), Leaf) /\ Member(b, i).type = b.type.elems[i]
      BY <1>1, <1>2, MemberSited
    <3>3. QED
      BY <3>1, <3>2
  <2>6. Append(to, i) \in Leaves /\ Access(Append(to, i)) = Member(a, i)
    BY <1>2, MemberLocation
  <2>7. PICK l \in Leaves : l = Append(to, i) /\ Access(l) = Member(a, i)
    BY <2>6
  <2>8. PICK v : /\ g[i].words = Stores(g[k].words, Access(l), v, junk)
                 /\ g[i].held = Holding(g[k].held, l, v)
                 /\ g[i].dirty = Soiled(g[k].dirty, l, v, junk)
                 /\ Clean(Access(l).type, v)
    <3>. DEFINE v == CHOOSE u \in Loads(g[k].words, Member(b, i)) : TRUE
    <3>1. g[i] = [words |-> Stores(g[k].words, Member(a, i), v, junk),
                  held  |-> Holding(g[k].held, Append(to, i), v),
                  dirty |-> Soiled(g[k].dirty, Append(to, i), v, junk)]
      BY <2>3 DEF CopyMember
    <3>2. v \in Loads(g[k].words, Member(b, i))
      BY <2>4, <2>5, LoadSited
    <3>. HIDE DEF v, Good
    <3>3. Words(g[k].words)
      BY <2>4 DEF Good
    <3>4. Clean(Member(b, i).type, v)
      BY <2>5, <3>2, <3>3, LoadsClean
    <3>5. QED
      BY <2>5, <2>7, <3>1, <3>4
  <2>9. Words(g[k].words) /\ AllRight(g[k].words, g[k].held, g[k].dirty)
    BY <2>4
  <2>. HIDE DEF a, b
  <2>10. Good(g[i])
    BY <2>8, <2>9, StoreRight
  <2>11. QED
    BY <2>2, <2>10
<1>. HIDE DEF S
<1>6. n \in S
  BY <1>4, <1>5, NaturalInduction
<1>7. Good(g[n])
  BY <1>6 DEF S
<1>8. QED
  BY <1>3, <1>7

\* What is right stays so where only the words change that places are found
\* with.
LEMMA RightStays ==
  ASSUME contract \in Contracts, contract' = contract, layout' = layout,
         Words(storage'), AllRight(storage', held', dirty')
  PROVE  AllRight(storage, held, dirty)'
<1>1. Leaves' = Leaves
  BY LocationsStay DEF Leaves
<1>2. ASSUME NEW loc \in Leaves
      PROVE  RightAt(storage', held', dirty', loc, Access(loc)')
  <2>1. PICK a, b : a = Access(loc) /\ b = Access(loc)'
    OBVIOUS
  <2>2. Same(a, b)
    BY <2>1, AccessProps DEF Leaves
  <2>3. Loads(storage', a) = Loads(storage', b)
    BY <2>2, LoadsSame
  <2>4. \A z : Reads(storage', a, z) <=> Reads(storage', b, z)
    BY <2>3 DEF Reads
  <2>5. RightAt(storage', held', dirty', loc, a)
    BY <2>1 DEF AllRight
  <2>6. RightAt(storage', held', dirty', loc, b)
    BY <2>2, <2>4, <2>5 DEF RightAt, Same
  <2>7. QED
    BY <2>1, <2>6
<1>3. QED
  BY <1>1, <1>2 DEF AllRight, RightAt, Reads, Wanted

-----------------------------------------------------------------------------
(* Every location reads what was assigned to it last.                      *)

ReadsInv ==
  /\ IndexInv
  /\ last.loc = <<>> => held = <<>> /\ dirty = {}
  /\ ReadsLastAssigned

LEMMA ReadsInit ==
  StorageInit => ReadsInv
<1>. SUFFICES ASSUME StorageInit PROVE ReadsInv
  OBVIOUS
<1>1. contract \in Contracts /\ storage = <<>> /\ held = <<>> /\ dirty = {}
  BY DEF StorageInit
<1>2. AllRight(storage, held, dirty)
  BY <1>1, NothingStored
<1>3. QED
  BY <1>1, <1>2, IndexInit, ReadsAreRight DEF ReadsInv

\* A step that assigns.
LEMMA RightStep ==
  ASSUME contract \in Contracts, contract' = contract, layout' = layout, IndexInv',
         last'.loc # <<>>, Apart => AllRight(storage', held', dirty')
  PROVE  ReadsInv'
<1>1. Apart' <=> Apart
  BY ApartStays
<1>2. Words(storage')
  BY DEF IndexInv, PackedInv, Words
<1>3. Apart => AllRight(storage, held, dirty)'
  BY <1>2, RightStays
<1>4. ReadsLastAssigned'
  BY <1>1, <1>3 DEF ReadsLastAssigned, AllRight, RightAt, Reads, Wanted
<1>5. QED
  BY <1>4 DEF ReadsInv

LEMMA ReadsStep ==
  ReadsInv /\ [StorageNext]_storageVars => ReadsInv'
<1>. SUFFICES ASSUME ReadsInv, [StorageNext]_storageVars PROVE ReadsInv'
  OBVIOUS
<1>1. contract \in Contracts /\ Words(storage) /\ IndexInv
  BY DEF PackedInv, IndexInv, ReadsInv
<1>2. IndexInv'
  BY <1>1, IndexStep
<1>3. Junk \subseteq Nat
  BY ValuesAssumption
<1>4. Declared /\ Apart => AllRight(storage, held, dirty)
  BY ReadsAreRight DEF ReadsInv
<1>5. CASE DeclareVar
  <2>1. /\ ~ Declared /\ last' = last /\ contract' = contract /\ storage' = storage
        /\ held' = held /\ dirty' = dirty
    BY <1>5 DEF DeclareVar
  <2>2. last.loc = <<>>
    BY <1>1, <2>1 DEF PackedInv, IndexInv
  <2>3. storage' = <<>> /\ held' = <<>> /\ dirty' = {} /\ contract' \in Contracts
    BY <1>1, <2>1, <2>2 DEF IndexInv, ReadsInv
  <2>4. AllRight(storage, held, dirty)'
    <3>1. contract \in Contracts => AllRight(<<>>, <<>>, {})
      BY NothingStored
    <3>2. (contract \in Contracts => AllRight(<<>>, <<>>, {}))'
      BY NothingStored, PTL
    <3>3. AllRight(<<>>, <<>>, {})'
      BY <2>3, <3>2
    <3>4. QED
      BY <2>3, <3>3 DEF AllRight, RightAt, Reads, Wanted
  <2>5. ReadsLastAssigned'
    BY <2>4 DEF ReadsLastAssigned, AllRight, RightAt, Reads, Wanted
  <2>6. QED
    BY <1>2, <2>3, <2>5 DEF ReadsInv
<1>6. ASSUME Running, NEW loc \in Attempts, OutOfBoundRevert(loc)
      PROVE  ReadsInv'
  <2>1. /\ last' = [loc |-> loc, ok |-> FALSE] /\ contract' = contract /\ layout' = layout
        /\ storage' = storage /\ held' = held /\ dirty' = dirty /\ Declared
    BY <1>6 DEF OutOfBoundRevert, Running
  <2>2. loc \in Locations(1, Leaf)
    BY DEF Attempts
  <2>3. loc # <<>>
    BY <1>1, <2>2, AccessProps
  <2>4. Apart => AllRight(storage', held', dirty')
    BY <1>4, <2>1
  <2>5. QED
    BY <1>1, <1>2, <2>1, <2>3, <2>4, RightStep
<1>7. ASSUME Running, NEW loc \in Attempts, NEW v \in ValuesOf(Access(loc).type),
             NEW junk \in Junk, Assign(loc, v, junk)
      PROVE  ReadsInv'
  <2>1. /\ contract' = contract /\ layout' = layout /\ Access(loc).ok
        /\ storage' = Stores(storage, Access(loc), v, junk)
        /\ held' = Holding(held, loc, v) /\ dirty' = Soiled(dirty, loc, v, junk)
        /\ last' = [loc |-> loc, ok |-> TRUE] /\ Declared
    BY <1>7 DEF Assign, Running
  <2>2. loc \in Locations(1, Leaf) /\ junk \in Nat
    BY <1>3 DEF Attempts
  <2>3. loc # <<>> /\ Sited(Access(loc), Leaf)
    BY <1>1, <2>2, AccessProps
  <2>4. Clean(Access(loc).type, v)
    <3>1. PICK a : a = Access(loc)
      OBVIOUS
    <3>2. QED
      BY <2>3, <3>1, ValuesClean
  <2>5. Apart => loc \in Leaves
    BY <1>1, <2>1, <2>2, AcceptedIsInside DEF IndexInv, Leaves
  <2>6. ASSUME Apart PROVE AllRight(storage', held', dirty')
    <3>1. loc \in Leaves /\ AllRight(storage, held, dirty)
      BY <1>4, <2>1, <2>5, <2>6
    <3>2. AllRight(Stores(storage, Access(loc), v, junk), Holding(held, loc, v),
                   Soiled(dirty, loc, v, junk))
      BY <1>1, <2>2, <2>4, <2>6, <3>1, StoreRight
    <3>3. QED
      BY <2>1, <3>2
  <2>7. QED
    BY <1>1, <1>2, <2>1, <2>3, <2>6, RightStep
<1>8. ASSUME Running, NEW x \in Leaves, NEW y \in Leaves, NEW junk \in Junk,
             Swap(x, y, junk)
      PROVE  ReadsInv'
  <2>1. /\ contract' = contract /\ layout' = layout /\ last' = [loc |-> y, ok |-> TRUE]
        /\ Access(x).type = Access(y).type /\ Declared
    BY <1>8 DEF Swap, Running
  <2>2. PICK vx \in Loads(storage, Access(x)), vy \in Loads(storage, Access(y)) :
          /\ storage' = StoredBoth(x, y, vx, vy, junk)
          /\ held' = Holding(Holding(held, x, vy), y, vx)
          /\ dirty' = Soiled(Soiled(dirty, x, vy, junk), y, vx, junk)
    BY <1>8 DEF Swap
  <2>3. Sited(Access(x), Leaf) /\ Sited(Access(y), Leaf) /\ y # <<>> /\ junk \in Nat
    BY <1>1, <1>3, AccessProps DEF Leaves
  <2>4. Clean(Access(x).type, vy) /\ Clean(Access(y).type, vx)
    <3>1. PICK a, b : a = Access(x) /\ b = Access(y)
      OBVIOUS
    <3>2. Clean(a.type, vx) /\ Clean(b.type, vy)
      BY <1>1, <2>3, <3>1, LoadsClean
    <3>3. QED
      BY <2>1, <3>1, <3>2
  <2>5. PICK w, h, d : /\ w = Stores(storage, Access(x), vy, junk)
                       /\ h = Holding(held, x, vy) /\ d = Soiled(dirty, x, vy, junk)
    OBVIOUS
  <2>6. ASSUME Apart PROVE AllRight(storage', held', dirty')
    <3>1. AllRight(storage, held, dirty)
      BY <1>4, <2>1, <2>6
    <3>2. Words(w) /\ AllRight(w, h, d)
      BY <1>1, <2>3, <2>4, <2>5, <2>6, <3>1, StoreRight
    <3>3. AllRight(Stores(w, Access(y), vx, junk), Holding(h, y, vx), Soiled(d, y, vx, junk))
      BY <1>1, <2>3, <2>4, <2>6, <3>2, StoreRight
    <3>4. /\ storage' = Stores(w, Access(y), vx, junk) /\ held' = Holding(h, y, vx)
          /\ dirty' = Soiled(d, y, vx, junk)
      BY <2>2, <2>5 DEF StoredBoth
    <3>5. QED
      BY <3>3, <3>4
  <2>7. QED
    BY <1>1, <1>2, <2>1, <2>3, <2>6, RightStep
<1>9. ASSUME Running, NEW to \in Locations(0, {"struct"}),
             NEW from \in Locations(0, {"struct"}), NEW junk \in Junk,
             CopyStruct(to, from, junk)
      PROVE  ReadsInv'
  <2>1. /\ contract' = contract /\ layout' = layout /\ last' = [loc |-> to, ok |-> TRUE]
        /\ Access(to).type = Access(from).type /\ Copyable(Access(to).type)
        /\ storage' = CopyMembers(to, from, junk).words
        /\ held' = CopyMembers(to, from, junk).held
        /\ dirty' = CopyMembers(to, from, junk).dirty /\ Declared
    BY <1>9 DEF CopyStruct, Running
  <2>2. to # <<>> /\ junk \in Nat
    BY <1>1, <1>3, AccessProps
  <2>3. Apart => AllRight(storage', held', dirty')
    BY <1>1, <1>4, <2>1, <2>2, CopyRight
  <2>4. QED
    BY <1>1, <1>2, <2>1, <2>2, <2>3, RightStep
<1>10. CASE UNCHANGED storageVars
  <2>1. /\ contract' = contract /\ layout' = layout /\ storage' = storage /\ last' = last
        /\ held' = held /\ dirty' = dirty
    BY <1>10 DEF storageVars
  <2>2. (Apart' <=> Apart) /\ (Declared' <=> Declared)
    BY <1>1, <2>1, ApartStays DEF Declared
  <2>3. Declared /\ Apart => AllRight(storage, held, dirty)'
    <3>1. Words(storage')
      BY <1>1, <2>1
    <3>2. ASSUME Declared, Apart PROVE AllRight(storage', held', dirty')
      BY <1>4, <2>1, <3>2
    <3>3. QED
      BY <1>1, <2>1, <3>1, <3>2, RightStays
  <2>4. ReadsLastAssigned'
    BY <2>2, <2>3 DEF ReadsLastAssigned, AllRight, RightAt, Reads, Wanted
  <2>5. QED
    BY <1>2, <2>1, <2>4 DEF ReadsInv
<1>11. CASE StoppedStorage
  BY <1>10, <1>11 DEF StoppedStorage
<1>12. QED
  BY <1>5, <1>6, <1>7, <1>8, <1>9, <1>10, <1>11 DEF StorageNext

\* In a contract whose slots are apart, whatever has been assigned, exchanged
\* or copied before, every location that shares no word reads what was assigned
\* to it last, and nothing if nothing was; and a short string over junk that
\* shows in its length never does, unless all its bytes are 0.
THEOREM LastAssignedIsRead == StorageSpec => []ReadsLastAssigned
<1>1. ReadsInv => ReadsLastAssigned
  BY DEF ReadsInv
<1>2. QED
  BY <1>1, ReadsInit, ReadsStep, PTL DEF StorageSpec

-----------------------------------------------------------------------------
(* Totals.                                                                 *)

\* The total of the first n numbers of f.
Up(f, n) == Total([j \in 1 .. n |-> f[j]])

Sums(g, f, n) == g = [i \in 0 .. n |-> IF i = 0 THEN 0 ELSE g[i - 1] + f[i]]

\* The recursion in Total has a solution.
LEMMA SumsExist ==
  ASSUME NEW f, NEW m \in Nat
  PROVE  \E g : Sums(g, f, m)
<1>. DEFINE S == {k \in Nat : \E g : Sums(g, f, k)}
<1>1. 0 \in S
  <2>1. Sums([i \in 0 .. 0 |-> 0], f, 0)
    BY DEF Sums
  <2>2. QED
    BY <2>1
<1>2. ASSUME NEW k \in Nat, k \in S PROVE k + 1 \in S
  <2>1. PICK g : Sums(g, f, k)
    BY <1>2
  <2>. DEFINE h == [i \in 0 .. (k + 1) |-> IF i <= k THEN g[i]
                                           ELSE IF i = 0 THEN 0 ELSE g[i - 1] + f[i]]
  <2>2. ASSUME NEW i \in 0 .. (k + 1)
        PROVE  h[i] = IF i = 0 THEN 0 ELSE h[i - 1] + f[i]
    <3>1. CASE i <= k
      <4>1. g[i] = IF i = 0 THEN 0 ELSE g[i - 1] + f[i]
        BY <2>1, <3>1 DEF Sums
      <4>2. i # 0 => h[i - 1] = g[i - 1]
        BY <3>1
      <4>3. QED
        BY <4>1, <4>2, <3>1
    <3>2. CASE i = k + 1
      <4>1. i # 0 => h[i - 1] = g[i - 1]
        BY <3>2
      <4>2. QED
        BY <3>2, <4>1
    <3>3. QED
      BY <3>1, <3>2
  <2>3. Sums(h, f, k + 1)
    BY <2>2 DEF Sums
  <2>. HIDE DEF h
  <2>4. QED
    BY <2>3
<1>. HIDE DEF S
<1>3. m \in S
  BY <1>1, <1>2, NaturalInduction
<1>4. QED
  BY <1>3 DEF S

LEMMA UpUnfolds ==
  ASSUME NEW f, NEW m \in Nat
  PROVE  \E g : Sums(g, f, m) /\ Up(f, m) = g[m]
<1>. DEFINE s == [j \in 1 .. m |-> f[j]]
            F(g) == [i \in 0 .. Len(s) |-> IF i = 0 THEN 0 ELSE g[i - 1] + s[i]]
            h == CHOOSE g : g = F(g)
<1>1. Len(s) = m
  OBVIOUS
<1>2. \A i \in 0 .. m : i # 0 => s[i] = f[i]
  OBVIOUS
<1>3. Total(s) = h[Len(s)]
  BY Zenon DEF Total
<1>. HIDE DEF s
<1>4. ASSUME NEW g PROVE F(g) = [i \in 0 .. m |-> IF i = 0 THEN 0 ELSE g[i - 1] + f[i]]
  BY <1>1, <1>2
<1>5. \A g : g = F(g) <=> Sums(g, f, m)
  <2>. HIDE DEF F
  <2>1. QED
    BY <1>4 DEF Sums
<1>. HIDE DEF F
<1>6. \E g : g = F(g)
  BY <1>5, SumsExist
<1>7. h = F(h)
  BY <1>6, Zenon
<1>. HIDE DEF h
<1>8. QED
  BY <1>1, <1>3, <1>5, <1>7 DEF Up, s

LEMMA UpSteps ==
  ASSUME NEW f
  PROVE  /\ Up(f, 0) = 0
         /\ \A n \in Nat : Up(f, n + 1) = Up(f, n) + f[n + 1]
<1>1. Up(f, 0) = 0
  <2>1. PICK g : Sums(g, f, 0) /\ Up(f, 0) = g[0]
    BY UpUnfolds
  <2>2. QED
    BY <2>1 DEF Sums
<1>2. ASSUME NEW n \in Nat PROVE Up(f, n + 1) = Up(f, n) + f[n + 1]
  <2>1. PICK g : Sums(g, f, n) /\ Up(f, n) = g[n]
    BY UpUnfolds
  <2>2. PICK h : Sums(h, f, n + 1) /\ Up(f, n + 1) = h[n + 1]
    BY UpUnfolds
  <2>. DEFINE S == {k \in Nat : k <= n => g[k] = h[k]}
  <2>3. 0 \in S
    BY <2>1, <2>2 DEF Sums
  <2>4. ASSUME NEW k \in Nat, k \in S PROVE k + 1 \in S
    BY <2>1, <2>2, <2>4 DEF Sums
  <2>. HIDE DEF S
  <2>5. n \in S
    BY <2>3, <2>4, NaturalInduction
  <2>6. g[n] = h[n]
    BY <2>5 DEF S
  <2>7. h[n + 1] = h[n] + f[n + 1]
    BY <2>2 DEF Sums
  <2>8. QED
    BY <2>1, <2>2, <2>6, <2>7
<1>3. QED
  BY <1>1, <1>2

\* Totals of natural numbers grow with how many there are, and with each.
LEMMA UpProps ==
  ASSUME NEW n \in Nat, NEW f, \A j \in 1 .. n : f[j] \in Nat
  PROVE  /\ \A i \in 0 .. n : Up(f, i) \in Nat
         /\ \A i \in 0 .. n : \A k \in i .. n : Up(f, i) <= Up(f, k)
<1>. DEFINE Grows(m) == \A i \in 0 .. m : Up(f, i) \in Nat /\ Up(f, i) <= Up(f, m)
            S == {m \in Nat : m <= n => Grows(m)}
<1>1. 0 \in S
  BY UpSteps
<1>2. ASSUME NEW m \in Nat, m \in S PROVE m + 1 \in S
  <2>1. SUFFICES ASSUME m + 1 <= n PROVE Grows(m + 1)
    OBVIOUS
  <2>2. Grows(m)
    BY <1>2, <2>1
  <2>3. Up(f, m + 1) = Up(f, m) + f[m + 1] /\ f[m + 1] \in Nat
    BY <2>1, UpSteps
  <2>4. PICK u \in Nat, x \in Nat : u = Up(f, m) /\ x = f[m + 1] /\ Up(f, m + 1) = u + x
    <3>1. m \in 0 .. m
      OBVIOUS
    <3>2. QED
      BY <2>2, <2>3, <3>1
  <2>5. ASSUME NEW i \in 0 .. m + 1 PROVE Up(f, i) \in Nat /\ Up(f, i) <= u + x
    <3>1. CASE i = m + 1
      BY <2>4, <3>1
    <3>2. CASE i \in 0 .. m
      <4>1. PICK y \in Nat : y = Up(f, i) /\ y <= u
        BY <2>2, <2>4, <3>2
      <4>2. y <= u + x
        BY <4>1
      <4>3. QED
        BY <4>1, <4>2
    <3>3. QED
      BY <3>1, <3>2
  <2>6. QED
    BY <2>4, <2>5
<1>. HIDE DEF S, Grows
<1>3. Nat \subseteq S
  BY <1>1, <1>2, NaturalInduction
<1>4. \A m \in 0 .. n : Grows(m)
  BY <1>3 DEF S
<1>5. ASSUME NEW i \in 0 .. n, NEW k \in i .. n
      PROVE  Up(f, i) \in Nat /\ Up(f, i) <= Up(f, k)
  <2>1. k \in 0 .. n /\ i \in 0 .. k
    OBVIOUS
  <2>2. QED
    BY <1>4, <2>1 DEF Grows
<1>6. \A i \in 0 .. n : i \in i .. n
  OBVIOUS
<1>7. QED
  BY <1>5, <1>6

\* Two lists of numbers, one of which is nowhere larger.
LEMMA UpCompares ==
  ASSUME NEW n \in Nat, NEW f, NEW g,
         \A j \in 1 .. n : f[j] \in Nat /\ g[j] \in Nat /\ f[j] <= g[j]
  PROVE  Up(f, n) <= Up(g, n)
<1>. DEFINE S == {m \in Nat : m <= n => Up(f, m) <= Up(g, m)}
<1>1. 0 \in S
  BY UpSteps
<1>2. ASSUME NEW m \in Nat, m \in S PROVE m + 1 \in S
  <2>1. SUFFICES ASSUME m + 1 <= n PROVE Up(f, m + 1) <= Up(g, m + 1)
    OBVIOUS
  <2>2. Up(f, m) <= Up(g, m) /\ m \in 0 .. n /\ m + 1 \in 1 .. n
    BY <1>2, <2>1
  <2>3. Up(f, m) \in Nat /\ Up(g, m) \in Nat
    BY <2>2, UpProps
  <2>4. f[m + 1] \in Nat /\ g[m + 1] \in Nat /\ f[m + 1] <= g[m + 1]
    BY <2>2
  <2>5. Up(f, m + 1) = Up(f, m) + f[m + 1] /\ Up(g, m + 1) = Up(g, m) + g[m + 1]
    BY UpSteps
  <2>6. QED
    BY <2>2, <2>3, <2>4, <2>5
<1>. HIDE DEF S
<1>3. n \in S
  BY <1>1, <1>2, NaturalInduction
<1>4. QED
  BY <1>3 DEF S

LEMMA UpAgrees ==
  ASSUME NEW n \in Nat, NEW f, NEW g, \A j \in 1 .. n : f[j] = g[j]
  PROVE  Up(f, n) = Up(g, n)
<1>1. [j \in 1 .. n |-> f[j]] = [j \in 1 .. n |-> g[j]]
  OBVIOUS
<1>2. QED
  BY <1>1 DEF Up

\* A number below a total falls into one of what it is the total of.
LEMMA UpFinds ==
  ASSUME NEW n \in Nat, NEW f, \A j \in 1 .. n : f[j] \in Nat,
         NEW o \in Nat, o < Up(f, n)
  PROVE  \E i \in 1 .. n : Up(f, i - 1) <= o /\ o < Up(f, i - 1) + f[i]
<1>. DEFINE T == {i \in 0 .. n : o < Up(f, i)}
<1>1. PICK x \in T : \A y \in T : x <= y
  <2>1. n \in T /\ T \subseteq Nat
    OBVIOUS
  <2>. HIDE DEF T
  <2>2. QED
    BY <2>1, LeastNatural
<1>2. x # 0
  BY UpSteps
<1>3. PICK i \in 0 .. n - 1 : x = i + 1
  <2>1. x - 1 \in 0 .. n - 1 /\ x = (x - 1) + 1
    BY <1>2
  <2>2. QED
    BY <2>1
<1>4. i \notin T /\ i \in 0 .. n
  <2>1. ~ (x <= i)
    BY <1>3
  <2>2. i \notin T
    BY <1>1, <2>1
  <2>3. QED
    BY <1>3, <2>2
<1>5. Up(f, i) \in Nat
  BY <1>4, UpProps
<1>6. Up(f, i) <= o
  BY <1>4, <1>5
<1>7. Up(f, i + 1) = Up(f, i) + f[i + 1] /\ o < Up(f, i + 1)
  BY <1>3, UpSteps
<1>8. i + 1 \in 1 .. n /\ (i + 1) - 1 = i
  BY <1>3
<1>9. QED
  BY <1>6, <1>7, <1>8

-----------------------------------------------------------------------------
(* Types, from the innermost outwards.                                     *)

\* What a type is made of.
Made(t) ==
  CASE t.cat = "mapping" -> {t.value}
    [] t.cat = "array"   -> {t.elem}
    [] t.cat = "struct"  -> {t.elems[i] : i \in DOMAIN t.elems}
    [] OTHER -> {}

LEMMA MadeDeeper ==
  ASSUME NEW d \in 0 .. MaxDepth, NEW t \in Types[d], NEW u \in Made(t)
  PROVE  d + 1 \in 0 .. MaxDepth /\ u \in Types[d + 1]
<1>1. CASE t.cat = "mapping" \/ t.cat = "array"
  BY <1>1, TypeProps DEF Made
<1>2. CASE t.cat = "struct"
  <2>1. PICK i \in DOMAIN t.elems : u = t.elems[i]
    BY <1>2 DEF Made
  <2>2. t.elems \in Seq(Types[d + 1]) /\ t.elems # <<>>
    <3>1. t.elems \in Seq(Types[d + 1])
      BY <1>2, TypeProps
    <3>2. QED
      BY <2>1, <3>1
  <2>3. QED
    BY <1>2, <2>1, <2>2, TypeProps
<1>3. CASE t.cat \notin {"mapping", "array", "struct"}
  BY <1>3 DEF Made
<1>4. QED
  BY <1>1, <1>2, <1>3

Deep(k) == {t \in AllTypes : \E d \in k .. MaxDepth : t \in Types[d]}

LEMMA DeepProps ==
  /\ \A k \in Nat : k > MaxDepth => Deep(k) = {}
  /\ Deep(0) = AllTypes
  /\ \A k \in Nat : Deep(k + 1) \subseteq Deep(k)
  /\ \A k \in Nat : \A t \in Deep(k) : t \in AllTypes /\ Made(t) \subseteq Deep(k + 1)
<1>1. MaxDepth \in Nat
  BY TypesAssumption
<1>2. \A k \in Nat : k > MaxDepth => Deep(k) = {}
  BY <1>1 DEF Deep
<1>3. Deep(0) = AllTypes
  BY DEF Deep, AllTypes
<1>4. \A k \in Nat : Deep(k + 1) \subseteq Deep(k)
  BY <1>1 DEF Deep
<1>5. ASSUME NEW k \in Nat, NEW t \in Deep(k)
      PROVE  t \in AllTypes /\ Made(t) \subseteq Deep(k + 1)
  <2>1. PICK d \in k .. MaxDepth : t \in Types[d]
    BY DEF Deep
  <2>2. d \in 0 .. MaxDepth
    BY <1>1
  <2>3. ASSUME NEW u \in Made(t) PROVE u \in Deep(k + 1)
    <3>1. d + 1 \in 0 .. MaxDepth /\ u \in Types[d + 1]
      BY <2>1, <2>2, MadeDeeper
    <3>2. d + 1 \in (k + 1) .. MaxDepth
      BY <1>1, <3>1
    <3>3. u \in AllTypes
      BY <3>1 DEF AllTypes
    <3>4. QED
      BY <3>1, <3>2, <3>3 DEF Deep
  <2>4. QED
    BY <2>3 DEF Deep
<1>6. QED
  BY <1>2, <1>3, <1>4, <1>5

\* Induction over types.
LEMMA TypeInduction ==
  ASSUME NEW S, \A t \in AllTypes : Made(t) \subseteq S => t \in S
  PROVE  AllTypes \subseteq S
<1>1. PICK D \in Nat : D = MaxDepth
  BY TypesAssumption
<1>. DEFINE R == {k \in Nat : k <= D + 1 => Deep((D + 1) - k) \subseteq S}
<1>2. 0 \in R
  <2>1. (D + 1) - 0 \in Nat /\ (D + 1) - 0 > MaxDepth
    BY <1>1
  <2>2. Deep((D + 1) - 0) = {}
    BY <2>1, DeepProps
  <2>3. QED
    BY <2>2
<1>3. ASSUME NEW k \in Nat, k \in R PROVE k + 1 \in R
  <2>1. SUFFICES ASSUME k + 1 <= D + 1 PROVE Deep((D + 1) - (k + 1)) \subseteq S
    OBVIOUS
  <2>2. PICK e \in Nat : e = (D + 1) - (k + 1) /\ (D + 1) - k = e + 1
    <3>1. (D + 1) - (k + 1) \in Nat /\ (D + 1) - k = ((D + 1) - (k + 1)) + 1
      BY <2>1
    <3>2. QED
      BY <3>1
  <2>3. Deep(e + 1) \subseteq S
    BY <1>3, <2>1, <2>2
  <2>. HIDE DEF R
  <2>4. QED
    BY <2>2, <2>3, DeepProps
<1>. HIDE DEF R
<1>4. D + 1 \in R
  BY <1>2, <1>3, NaturalInduction
<1>5. (D + 1) - (D + 1) = 0
  OBVIOUS
<1>6. Deep(0) \subseteq S
  BY <1>4, <1>5 DEF R
<1>7. QED
  BY <1>6, DeepProps

\* A recursion over types has a solution: f says what a function on the types
\* makes of a type, and looks only at what the type is made of.
Local(f, V) ==
  /\ \A g \in [AllTypes -> V] : \A t \in AllTypes : f[<<g, t>>] \in V
  /\ \A g, h \in [AllTypes -> V] : \A t \in AllTypes :
       (\A u \in Made(t) : g[u] = h[u]) => f[<<g, t>>] = f[<<h, t>>]
Solved(f, V) == \E g \in [AllTypes -> V] : g = [t \in AllTypes |-> f[<<g, t>>]]

LEMMA TypeRecursion ==
  ASSUME NEW V, NEW v0 \in V, NEW f, Local(f, V)
  PROVE  Solved(f, V)
<1>. USE DEF Local
<1>1. PICK D \in Nat : D = MaxDepth
  BY TypesAssumption
<1>. DEFINE Solves(g, k) == \A t \in Deep(k) : g[t] = f[<<g, t>>]
            R == {k \in Nat : k <= D + 1 => \E g \in [AllTypes -> V] : Solves(g, (D + 1) - k)}
<1>2. 0 \in R
  <2>1. (D + 1) - 0 \in Nat /\ (D + 1) - 0 > MaxDepth
    BY <1>1
  <2>2. Deep((D + 1) - 0) = {}
    BY <2>1, DeepProps
  <2>3. [t \in AllTypes |-> v0] \in [AllTypes -> V]
    OBVIOUS
  <2>4. QED
    BY <2>2, <2>3
<1>3. ASSUME NEW k \in Nat, k \in R PROVE k + 1 \in R
  <2>1. SUFFICES ASSUME k + 1 <= D + 1
                 PROVE  \E g \in [AllTypes -> V] : Solves(g, (D + 1) - (k + 1))
    OBVIOUS
  <2>2. PICK e \in Nat : e = (D + 1) - (k + 1) /\ (D + 1) - k = e + 1
    <3>1. (D + 1) - (k + 1) \in Nat /\ (D + 1) - k = ((D + 1) - (k + 1)) + 1
      BY <2>1
    <3>2. QED
      BY <3>1
  <2>3. PICK g \in [AllTypes -> V] : Solves(g, e + 1)
    BY <1>3, <2>1, <2>2
  <2>. HIDE DEF R
  <2>. DEFINE h == [t \in AllTypes |-> IF t \in Deep(e + 1) THEN g[t] ELSE f[<<g, t>>]]
  <2>4. h \in [AllTypes -> V]
    OBVIOUS
  <2>5. ASSUME NEW t \in Deep(e) PROVE h[t] = f[<<h, t>>]
    <3>1. t \in AllTypes /\ Made(t) \subseteq Deep(e + 1) /\ Deep(e + 1) \subseteq AllTypes
      BY DeepProps DEF Deep
    <3>2. \A u \in Made(t) : g[u] = h[u]
      BY <3>1
    <3>3. h[t] = f[<<g, t>>]
      BY <2>3, <3>1
    <3>. HIDE DEF h
    <3>4. f[<<g, t>>] = f[<<h, t>>]
      BY <2>4, <3>1, <3>2
    <3>5. QED
      BY <3>3, <3>4
  <2>. HIDE DEF h
  <2>6. QED
    BY <2>2, <2>4, <2>5
<1>. HIDE DEF R
<1>4. D + 1 \in R
  BY <1>2, <1>3, NaturalInduction
<1>5. (D + 1) - (D + 1) = 0
  OBVIOUS
<1>6. PICK g \in [AllTypes -> V] : Solves(g, 0)
  BY <1>4, <1>5 DEF R
<1>7. \A t \in AllTypes : g[t] = f[<<g, t>>]
  BY <1>6, DeepProps
<1>8. QED
  BY <1>7 DEF Solved

-----------------------------------------------------------------------------
(* How many slots a type takes, and how many it needs.                     *)

LEMMA AllTypesProps ==
  ASSUME NEW t \in AllTypes
  PROVE  /\ t.cat \in Scalars => t.bits \in 1 .. WordBits
         /\ t.cat \in Scalars \cup {"string", "mapping", "array", "struct"}
         /\ t.cat = "mapping" => t.value \in AllTypes
         /\ t.cat = "array" => /\ t.elem \in AllTypes /\ t.len \in Nat
                               /\ t.elem.cat \notin {"string", "struct"}
         /\ t.cat = "struct" => /\ Len(t.elems) \in Nat /\ DOMAIN t.elems = 1 .. Len(t.elems)
                                /\ \A i \in 1 .. Len(t.elems) : t.elems[i] \in AllTypes
<1>1. PICK d \in 0 .. MaxDepth : t \in Types[d]
  BY DEF AllTypes
<1>2. \A e \in 0 .. MaxDepth : Types[e] \subseteq AllTypes
  BY DEF AllTypes
<1>3. t.cat = "mapping" => t.value \in AllTypes
  BY <1>1, <1>2, TypeProps
<1>4. t.cat = "array" => /\ t.elem \in AllTypes /\ t.len \in Nat
                         /\ t.elem.cat \notin {"string", "struct"}
  BY <1>1, <1>2, TypeProps
<1>5. ASSUME t.cat = "struct"
      PROVE  /\ Len(t.elems) \in Nat /\ DOMAIN t.elems = 1 .. Len(t.elems)
             /\ \A i \in 1 .. Len(t.elems) : t.elems[i] \in AllTypes
  <2>1. t.elems \in Seq(Types[d + 1])
    BY <1>1, <1>5, TypeProps
  <2>2. Len(t.elems) \in Nat /\ DOMAIN t.elems = 1 .. Len(t.elems)
    BY <2>1
  <2>3. ASSUME NEW i \in 1 .. Len(t.elems) PROVE t.elems[i] \in AllTypes
    <3>1. t.elems[i] \in Types[d + 1] /\ t.elems # <<>>
      BY <2>1, <2>2
    <3>2. d + 1 \in 0 .. MaxDepth
      BY <1>1, <1>5, <3>1, TypeProps
    <3>3. QED
      BY <1>2, <3>1, <3>2
  <2>4. QED
    BY <2>2, <2>3
<1>6. QED
  BY <1>1, <1>3, <1>4, <1>5, TypeProps

LEMMA PerSlotProps ==
  ASSUME NEW t \in AllTypes, t.cat = "array"
  PROVE  /\ PerSlot(t) \in Nat \ {0}
         /\ PerSlot(t) # 1 => t.elem.cat \in Scalars
<1>1. t.elem.cat \in Scalars => t.elem.bits \in 1 .. WordBits
  <2>1. t.elem \in AllTypes
    BY AllTypesProps
  <2>2. QED
    BY <2>1, AllTypesProps
<1>2. WordBits \in Nat \ {0}
  BY BytesAreNatural
<1>3. t.elem.cat \notin Scalars => PerSlot(t) = 1
  <2>1. WordBits \div WordBits = 1
    BY <1>2
  <2>2. QED
    BY <2>1 DEF PerSlot, BitNum
<1>4. t.elem.cat \in Scalars => PerSlot(t) \in Nat \ {0}
  <2>1. ASSUME NEW b \in 1 .. WordBits PROVE WordBits \div b \in Nat \ {0}
    BY <1>2
  <2>2. QED
    BY <1>1, <2>1 DEF PerSlot, BitNum
<1>5. QED
  BY <1>3, <1>4

\* How the elements of an array lie in its slots.
LEMMA ArraySlotsProps ==
  ASSUME NEW t \in AllTypes, t.cat = "array"
  PROVE  /\ ArraySlots(t) \in Nat
         /\ PerSlot(t) = 1 => ArraySlots(t) = t.len
         /\ t.len # 0 => ArraySlots(t) > 0
         /\ \A i \in 0 .. t.len - 1 : i \div PerSlot(t) \in 0 .. ArraySlots(t) - 1
         /\ \A o \in 0 .. ArraySlots(t) - 1 : /\ o * PerSlot(t) \in 0 .. t.len - 1
                                              /\ (o * PerSlot(t)) \div PerSlot(t) = o
<1>1. PICK P \in Nat \ {0}, n \in Nat : P = PerSlot(t) /\ n = t.len
  BY PerSlotProps, AllTypesProps
<1>2. PICK C \in Nat, r \in 0 .. P - 1, m \in Nat :
        C = ArraySlots(t) /\ n + P - 1 = m + r /\ m = C * P
  <2>1. PICK z \in Nat : z = n + P - 1
    OBVIOUS
  <2>2. z % P \in 0 .. (P - 1) /\ z = (z \div P) * P + (z % P) /\ z \div P \in Nat
    BY Division
  <2>3. (z \div P) * P \in Nat
    BY <2>2, Products
  <2>4. ArraySlots(t) = z \div P
    BY <1>1, <2>1 DEF ArraySlots
  <2>5. QED
    BY <2>1, <2>2, <2>3, <2>4
<1>3. P = 1 => C = n
  <2>1. P = 1 => C * P = C /\ r = 0
    BY <1>2
  <2>2. QED
    BY <1>2, <2>1
<1>4. n # 0 => C > 0
  <2>1. C = 0 => C * P = 0
    OBVIOUS
  <2>2. QED
    BY <1>2, <2>1
<1>5. ASSUME NEW i \in 0 .. n - 1 PROVE i \div P \in 0 .. C - 1
  <2>1. PICK k \in Nat, f \in Nat, e \in 0 .. P - 1 : k = i \div P /\ f = k * P /\ i = f + e
    <3>1. i \in Nat
      OBVIOUS
    <3>2. i % P \in 0 .. (P - 1) /\ i = (i \div P) * P + (i % P) /\ i \div P \in Nat
      BY <3>1, Division
    <3>3. (i \div P) * P \in Nat
      BY <3>2, Products
    <3>4. QED
      BY <3>2, <3>3
  <2>2. k < C
    <3>1. SUFFICES ASSUME k >= C PROVE FALSE
      OBVIOUS
    <3>2. PICK g \in Nat : k = C + g
      <4>1. k - C \in Nat /\ k = C + (k - C)
        BY <3>1
      <4>2. QED
        BY <4>1
    <3>3. k * P = C * P + g * P /\ g * P \in Nat
      BY <3>2
    <3>4. QED
      BY <1>2, <2>1, <3>3
  <2>3. QED
    BY <2>1, <2>2
<1>6. ASSUME NEW o \in 0 .. C - 1 PROVE o * P \in 0 .. n - 1 /\ (o * P) \div P = o
  <2>1. PICK g \in Nat : C = o + 1 + g
    <3>1. C - (o + 1) \in Nat /\ C = o + 1 + (C - (o + 1))
      OBVIOUS
    <3>2. QED
      BY <3>1
  <2>2. o \in Nat
    OBVIOUS
  <2>3. C * P = o * P + P + g * P /\ g * P \in Nat /\ o * P \in Nat
    BY <2>1, <2>2
  <2>4. o * P \in 0 .. n - 1
    BY <1>2, <2>3
  <2>5. (o * P + 0) \div P = o
    BY <2>2, DivisionIsUnique
  <2>6. o * P + 0 = o * P
    BY <2>3
  <2>7. QED
    BY <2>4, <2>5, <2>6
<1>7. QED
  BY <1>1, <1>2, <1>3, <1>4, <1>5, <1>6

SizeBody(g, u) ==
  CASE u.cat = "struct" -> Total([i \in DOMAIN u.elems |-> g[u.elems[i]] \div 32])
    [] u.cat = "array" /\ u.len # Unsized -> 32 * ArraySlots(u)
    [] OTHER -> 32

\* A total of natural numbers is one.
LEMMA TotalIsNatural ==
  ASSUME NEW n \in Nat, NEW f, f = [i \in 1 .. n |-> f[i]], \A i \in 1 .. n : f[i] \in Nat
  PROVE  Total(f) = Up(f, n) /\ Total(f) \in Nat
<1>1. Total(f) = Up(f, n)
  BY DEF Up
<1>2. QED
  BY <1>1, UpProps

LEMMA SizeUnfolds ==
  \E g : g = [u \in AllTypes |-> SizeBody(g, u)] /\ \A t : StorageSize(t) = g[t]
<1>. DEFINE Solves(g) == g = [u \in AllTypes |-> SizeBody(g, u)]
            h == CHOOSE g : Solves(g)
            f == [p \in [AllTypes -> Nat] \X AllTypes |-> SizeBody(p[1], p[2])]
<1>1. ASSUME NEW g \in [AllTypes -> Nat], NEW t \in AllTypes
      PROVE  f[<<g, t>>] = SizeBody(g, t)
  OBVIOUS
<1>2. ASSUME NEW g \in [AllTypes -> Nat], NEW t \in AllTypes
      PROVE  SizeBody(g, t) \in Nat
  <2>1. CASE t.cat = "struct"
    <3>1. PICK n \in Nat : n = Len(t.elems) /\ DOMAIN t.elems = 1 .. n
                           /\ \A i \in 1 .. n : t.elems[i] \in AllTypes
      BY <2>1, AllTypesProps
    <3>. DEFINE s == [i \in DOMAIN t.elems |-> g[t.elems[i]] \div 32]
    <3>2. \A i \in 1 .. n : g[t.elems[i]] \in Nat
      BY <3>1
    <3>3. \A i \in 1 .. n : g[t.elems[i]] \div 32 \in Nat
      BY <3>2, Division
    <3>4. s = [i \in 1 .. n |-> s[i]] /\ \A i \in 1 .. n : s[i] \in Nat
      BY <3>1, <3>3
    <3>5. SizeBody(g, t) = Total(s)
      BY <2>1 DEF SizeBody
    <3>. HIDE DEF s
    <3>6. QED
      BY <3>4, <3>5, TotalIsNatural
  <2>2. CASE t.cat = "array" /\ t.len # Unsized
    <3>1. ArraySlots(t) \in Nat
      BY <2>2, ArraySlotsProps
    <3>2. QED
      BY <2>2, <3>1 DEF SizeBody
  <2>3. CASE t.cat # "struct" /\ ~ (t.cat = "array" /\ t.len # Unsized)
    BY <2>3 DEF SizeBody
  <2>4. QED
    BY <2>1, <2>2, <2>3
<1>3. ASSUME NEW g \in [AllTypes -> Nat], NEW k \in [AllTypes -> Nat], NEW t \in AllTypes,
             \A u \in Made(t) : g[u] = k[u]
      PROVE  SizeBody(g, t) = SizeBody(k, t)
  <2>1. ASSUME t.cat = "struct"
        PROVE  [i \in DOMAIN t.elems |-> g[t.elems[i]] \div 32]
                 = [i \in DOMAIN t.elems |-> k[t.elems[i]] \div 32]
    BY <1>3, <2>1 DEF Made
  <2>2. QED
    BY <2>1 DEF SizeBody
<1>4. Solved(f, Nat)
  <2>. HIDE DEF f, Solves, h
  <2>1. Local(f, Nat)
    BY <1>1, <1>2, <1>3 DEF Local
  <2>2. QED
    BY <2>1, TypeRecursion, Zenon
<1>5. PICK g \in [AllTypes -> Nat] : g = [t \in AllTypes |-> f[<<g, t>>]]
  BY <1>4, Zenon DEF Solved
<1>6. Solves(g)
  <2>. HIDE DEF f
  <2>1. QED
    BY <1>1, <1>5
<1>7. Solves(h)
  BY <1>6, Zenon
<1>8. ASSUME NEW t PROVE StorageSize(t) = h[t]
  BY Zenon DEF StorageSize, SizeBody
<1>. HIDE DEF h
<1>9. QED
  BY <1>7, <1>8

ExtentBody(g, u) ==
  CASE u.cat = "array" /\ u.len # Unsized ->
         IF PerSlot(u) # 1 THEN ArraySlots(u) ELSE u.len * g[u.elem]
    [] u.cat = "struct" -> Total([i \in DOMAIN u.elems |-> g[u.elems[i]]])
    [] OTHER -> 1

LEMMA ExtentUnfolds ==
  \E g : g = [u \in AllTypes |-> ExtentBody(g, u)] /\ \A t : Extent(t) = g[t]
<1>. DEFINE Solves(g) == g = [u \in AllTypes |-> ExtentBody(g, u)]
            h == CHOOSE g : Solves(g)
            f == [p \in [AllTypes -> Nat] \X AllTypes |-> ExtentBody(p[1], p[2])]
<1>1. ASSUME NEW g \in [AllTypes -> Nat], NEW t \in AllTypes
      PROVE  f[<<g, t>>] = ExtentBody(g, t)
  OBVIOUS
<1>2. ASSUME NEW g \in [AllTypes -> Nat], NEW t \in AllTypes
      PROVE  ExtentBody(g, t) \in Nat
  <2>1. CASE t.cat = "struct"
    <3>1. PICK n \in Nat : n = Len(t.elems) /\ DOMAIN t.elems = 1 .. n
                           /\ \A i \in 1 .. n : t.elems[i] \in AllTypes
      BY <2>1, AllTypesProps
    <3>. DEFINE s == [i \in DOMAIN t.elems |-> g[t.elems[i]]]
    <3>2. s = [i \in 1 .. n |-> s[i]] /\ \A i \in 1 .. n : s[i] \in Nat
      BY <3>1
    <3>3. ExtentBody(g, t) = Total(s)
      BY <2>1 DEF ExtentBody
    <3>. HIDE DEF s
    <3>4. QED
      BY <3>2, <3>3, TotalIsNatural
  <2>2. CASE t.cat = "array" /\ t.len # Unsized
    <3>1. ArraySlots(t) \in Nat
      BY <2>2, ArraySlotsProps
    <3>2. t.len \in Nat /\ g[t.elem] \in Nat
      BY <2>2, AllTypesProps
    <3>3. t.len * g[t.elem] \in Nat
      BY <3>2, Products
    <3>4. QED
      BY <2>2, <3>1, <3>3 DEF ExtentBody
  <2>3. CASE t.cat # "struct" /\ ~ (t.cat = "array" /\ t.len # Unsized)
    BY <2>3 DEF ExtentBody
  <2>4. QED
    BY <2>1, <2>2, <2>3
<1>3. ASSUME NEW g \in [AllTypes -> Nat], NEW k \in [AllTypes -> Nat], NEW t \in AllTypes,
             \A u \in Made(t) : g[u] = k[u]
      PROVE  ExtentBody(g, t) = ExtentBody(k, t)
  <2>1. ASSUME t.cat = "struct"
        PROVE  [i \in DOMAIN t.elems |-> g[t.elems[i]]]
                 = [i \in DOMAIN t.elems |-> k[t.elems[i]]]
    BY <1>3, <2>1 DEF Made
  <2>2. t.cat = "array" => g[t.elem] = k[t.elem]
    BY <1>3 DEF Made
  <2>3. QED
    BY <2>1, <2>2 DEF ExtentBody
<1>4. Solved(f, Nat)
  <2>. HIDE DEF f, Solves, h
  <2>1. Local(f, Nat)
    BY <1>1, <1>2, <1>3 DEF Local
  <2>2. QED
    BY <2>1, TypeRecursion, Zenon
<1>5. PICK g \in [AllTypes -> Nat] : g = [t \in AllTypes |-> f[<<g, t>>]]
  BY <1>4, Zenon DEF Solved
<1>6. Solves(g)
  <2>. HIDE DEF f
  <2>1. QED
    BY <1>1, <1>5
<1>7. Solves(h)
  BY <1>6, Zenon
<1>8. ASSUME NEW t PROVE Extent(t) = h[t]
  BY Zenon DEF Extent, ExtentBody
<1>. HIDE DEF h
<1>9. QED
  BY <1>7, <1>8

OverlapsBody(g, u) ==
  CASE u.cat = "array"   -> /\ u.len # Unsized
                            /\ g[u.elem] \/ (u.len > 1 /\ Short(u))
    [] u.cat = "struct"  -> ShortBeforeOther(u.elems)
                              \/ \E i \in DOMAIN u.elems : g[u.elems[i]]
    [] u.cat = "mapping" -> g[u.value]
    [] OTHER -> FALSE

LEMMA OverlapsUnfolds ==
  \E g : g = [u \in AllTypes |-> OverlapsBody(g, u)] /\ \A t : Overlaps(t) = g[t]
<1>. DEFINE Solves(g) == g = [u \in AllTypes |-> OverlapsBody(g, u)]
            h == CHOOSE g : Solves(g)
            f == [p \in [AllTypes -> BOOLEAN] \X AllTypes |-> OverlapsBody(p[1], p[2])]
<1>1. ASSUME NEW g \in [AllTypes -> BOOLEAN], NEW t \in AllTypes
      PROVE  f[<<g, t>>] = OverlapsBody(g, t)
  OBVIOUS
<1>2. ASSUME NEW g \in [AllTypes -> BOOLEAN], NEW t \in AllTypes
      PROVE  OverlapsBody(g, t) \in BOOLEAN
  <2>1. t.cat = "mapping" => t.value \in AllTypes
    BY AllTypesProps
  <2>2. QED
    BY <2>1 DEF OverlapsBody
<1>3. ASSUME NEW g \in [AllTypes -> BOOLEAN], NEW k \in [AllTypes -> BOOLEAN],
             NEW t \in AllTypes, \A u \in Made(t) : g[u] = k[u]
      PROVE  OverlapsBody(g, t) = OverlapsBody(k, t)
  <2>1. t.cat = "struct" => \A i \in DOMAIN t.elems : g[t.elems[i]] = k[t.elems[i]]
    BY <1>3 DEF Made
  <2>2. t.cat = "array" => g[t.elem] = k[t.elem]
    BY <1>3 DEF Made
  <2>3. t.cat = "mapping" => g[t.value] = k[t.value]
    BY <1>3 DEF Made
  <2>4. QED
    BY <2>1, <2>2, <2>3 DEF OverlapsBody
<1>4. Solved(f, BOOLEAN)
  <2>. HIDE DEF f, Solves, h
  <2>1. Local(f, BOOLEAN)
    BY <1>1, <1>2, <1>3 DEF Local
  <2>2. FALSE \in BOOLEAN
    OBVIOUS
  <2>3. QED
    BY <2>1, <2>2, TypeRecursion, Zenon
<1>5. PICK g \in [AllTypes -> BOOLEAN] : g = [t \in AllTypes |-> f[<<g, t>>]]
  BY <1>4, Zenon DEF Solved
<1>6. Solves(g)
  <2>. HIDE DEF f
  <2>1. QED
    BY <1>1, <1>5
<1>7. Solves(h)
  BY <1>6, Zenon
<1>8. ASSUME NEW t PROVE Overlaps(t) = h[t]
  BY Zenon DEF Overlaps, OverlapsBody
<1>. HIDE DEF h
<1>9. QED
  BY <1>7, <1>8

\* How many slots a type takes, as emitVarDecl and an outer struct reckon.
Room(t)     == StorageSize(t) \div 32
Rooms(ts)   == [j \in 1 .. Len(ts) |-> Room(ts[j])]
Extents(ts) == [j \in 1 .. Len(ts) |-> Extent(ts[j])]

Sized(t) == t.cat = "array" /\ t.len # Unsized

LEMMA RoomProps ==
  ASSUME NEW t \in AllTypes
  PROVE  /\ Room(t) \in Nat
         /\ t.cat = "struct" => Room(t) = Up(Rooms(t.elems), Len(t.elems)) \div 32
         /\ Sized(t) => Room(t) = ArraySlots(t)
         /\ t.cat # "struct" /\ ~ Sized(t) => Room(t) = 1
<1>1. PICK g : g = [u \in AllTypes |-> SizeBody(g, u)] /\ \A u : StorageSize(u) = g[u]
  BY SizeUnfolds
<1>2. \A u \in AllTypes : StorageSize(u) = SizeBody(g, u)
  BY <1>1
<1>3. ASSUME NEW u \in AllTypes, u.cat = "struct"
      PROVE  /\ StorageSize(u) = Up(Rooms(u.elems), Len(u.elems))
             /\ Rooms(u.elems) = [i \in 1 .. Len(u.elems) |-> Rooms(u.elems)[i]]
  <2>1. SizeBody(g, u) = Total([i \in DOMAIN u.elems |-> g[u.elems[i]] \div 32])
    BY <1>3 DEF SizeBody
  <2>2. [i \in DOMAIN u.elems |-> g[u.elems[i]] \div 32] = Rooms(u.elems)
    BY <1>1, <1>3, AllTypesProps DEF Rooms, Room
  <2>3. Rooms(u.elems) = [i \in 1 .. Len(u.elems) |-> Rooms(u.elems)[i]]
    BY DEF Rooms
  <2>4. QED
    BY <1>2, <2>1, <2>2, <2>3 DEF Up
<1>4. ASSUME NEW u \in AllTypes, Sized(u)
      PROVE  StorageSize(u) = 32 * ArraySlots(u) /\ ArraySlots(u) \in Nat
  <2>1. SizeBody(g, u) = 32 * ArraySlots(u)
    BY <1>4 DEF SizeBody, Sized
  <2>2. QED
    BY <1>2, <1>4, <2>1, ArraySlotsProps DEF Sized
<1>5. ASSUME NEW u \in AllTypes, u.cat # "struct", ~ Sized(u)
      PROVE  StorageSize(u) = 32
  <2>1. SizeBody(g, u) = 32
    BY <1>5 DEF SizeBody, Sized
  <2>2. QED
    BY <1>2, <2>1
<1>. DEFINE S == {u \in AllTypes : StorageSize(u) \in Nat}
<1>6. ASSUME NEW u \in AllTypes, Made(u) \subseteq S PROVE u \in S
  <2>1. CASE u.cat = "struct"
    <3>1. PICK n \in Nat : n = Len(u.elems) /\ DOMAIN u.elems = 1 .. n
      BY <2>1, AllTypesProps
    <3>2. \A i \in 1 .. n : StorageSize(u.elems[i]) \in Nat
      BY <1>6, <2>1, <3>1 DEF Made
    <3>3. ASSUME NEW i \in 1 .. n PROVE Rooms(u.elems)[i] \in Nat
      <4>1. Rooms(u.elems)[i] = Room(u.elems[i])
        BY <3>1 DEF Rooms
      <4>2. StorageSize(u.elems[i]) \div 32 \in Nat
        BY <3>2
      <4>3. QED
        BY <4>1, <4>2 DEF Room
    <3>4. Up(Rooms(u.elems), n) \in Nat
      BY <3>3, UpProps
    <3>5. QED
      BY <1>3, <2>1, <3>1, <3>4
  <2>2. CASE Sized(u)
    BY <1>4, <2>2
  <2>3. CASE u.cat # "struct" /\ ~ Sized(u)
    BY <1>5, <2>3
  <2>4. QED
    BY <2>1, <2>2, <2>3
<1>. HIDE DEF S
<1>7. AllTypes \subseteq S
  BY <1>6, TypeInduction
<1>8. StorageSize(t) \in Nat
  BY <1>7 DEF S
<1>9. Room(t) \in Nat
  BY <1>8, Division DEF Room
<1>10. Sized(t) => Room(t) = ArraySlots(t)
  <2>1. \A n \in Nat : (32 * n) \div 32 = n
    OBVIOUS
  <2>2. QED
    BY <1>4, <2>1 DEF Room
<1>11. t.cat = "struct" => Room(t) = Up(Rooms(t.elems), Len(t.elems)) \div 32
  BY <1>3 DEF Room
<1>12. 32 \div 32 = 1
  OBVIOUS
<1>13. t.cat # "struct" /\ ~ Sized(t) => Room(t) = 1
  BY <1>5, <1>12 DEF Room
<1>14. QED
  BY <1>9, <1>10, <1>11, <1>13

LEMMA ExtentProps ==
  ASSUME NEW t \in AllTypes
  PROVE  /\ Extent(t) \in Nat
         /\ t.cat = "struct" => Extent(t) = Up(Extents(t.elems), Len(t.elems))
         /\ Sized(t) /\ PerSlot(t) # 1 => Extent(t) = ArraySlots(t)
         /\ Sized(t) /\ PerSlot(t) = 1 => Extent(t) = t.len * Extent(t.elem)
         /\ t.cat # "struct" /\ ~ Sized(t) => Extent(t) = 1
         /\ t.cat # "struct" => Extent(t) > 0
<1>1. PICK g : g = [u \in AllTypes |-> ExtentBody(g, u)] /\ \A u : Extent(u) = g[u]
  BY ExtentUnfolds
<1>2. \A u \in AllTypes : Extent(u) = ExtentBody(g, u)
  BY <1>1
<1>3. ASSUME NEW u \in AllTypes, u.cat = "struct"
      PROVE  Extent(u) = Up(Extents(u.elems), Len(u.elems))
  <2>1. ExtentBody(g, u) = Total([i \in DOMAIN u.elems |-> g[u.elems[i]]])
    BY <1>3 DEF ExtentBody
  <2>2. [i \in DOMAIN u.elems |-> g[u.elems[i]]] = Extents(u.elems)
    BY <1>1, <1>3, AllTypesProps DEF Extents
  <2>3. Extents(u.elems) = [i \in 1 .. Len(u.elems) |-> Extents(u.elems)[i]]
    BY DEF Extents
  <2>4. QED
    BY <1>2, <2>1, <2>2, <2>3 DEF Up
<1>4. ASSUME NEW u \in AllTypes, Sized(u)
      PROVE  /\ PerSlot(u) # 1 => Extent(u) = ArraySlots(u)
             /\ PerSlot(u) = 1 => Extent(u) = u.len * Extent(u.elem)
  <2>1. ExtentBody(g, u) = IF PerSlot(u) # 1 THEN ArraySlots(u) ELSE u.len * g[u.elem]
    BY <1>4 DEF ExtentBody, Sized
  <2>2. QED
    BY <1>1, <1>2, <2>1
<1>5. ASSUME NEW u \in AllTypes, u.cat # "struct", ~ Sized(u)
      PROVE  Extent(u) = 1
  <2>1. ExtentBody(g, u) = 1
    BY <1>5 DEF ExtentBody, Sized
  <2>2. QED
    BY <1>2, <2>1
<1>. DEFINE S == {u \in AllTypes : Extent(u) \in Nat /\ (u.cat # "struct" => Extent(u) > 0)}
<1>6. ASSUME NEW u \in AllTypes, Made(u) \subseteq S PROVE u \in S
  <2>1. CASE u.cat = "struct"
    <3>1. PICK n \in Nat : n = Len(u.elems) /\ DOMAIN u.elems = 1 .. n
      BY <2>1, AllTypesProps
    <3>2. \A i \in 1 .. n : Extent(u.elems[i]) \in Nat
      BY <1>6, <2>1, <3>1 DEF Made
    <3>3. \A i \in 1 .. n : Extents(u.elems)[i] \in Nat
      BY <3>1, <3>2 DEF Extents
    <3>4. Up(Extents(u.elems), n) \in Nat
      BY <3>3, UpProps
    <3>5. QED
      BY <1>3, <2>1, <3>1, <3>4
  <2>2. CASE Sized(u)
    <3>1. u.len \in Nat \ {0} /\ u.elem.cat # "struct" /\ u.elem \in S
      BY <1>6, <2>2, AllTypesProps DEF Sized, Made, Unsized
    <3>2. CASE PerSlot(u) # 1
      BY <1>4, <2>2, <3>1, <3>2, ArraySlotsProps DEF Sized
    <3>3. CASE PerSlot(u) = 1
      <4>1. PICK e \in Nat \ {0} : e = Extent(u.elem)
        BY <3>1
      <4>2. PICK l \in Nat \ {0} : l = u.len
        BY <3>1
      <4>3. l * e \in Nat /\ e <= l * e
        BY Products
      <4>4. Extent(u) = l * e
        BY <1>4, <2>2, <3>3, <4>1, <4>2
      <4>5. QED
        BY <2>2, <4>3, <4>4
    <3>4. QED
      BY <3>2, <3>3
  <2>3. CASE u.cat # "struct" /\ ~ Sized(u)
    BY <1>5, <2>3
  <2>4. QED
    BY <2>1, <2>2, <2>3
<1>. HIDE DEF S
<1>7. AllTypes \subseteq S
  BY <1>6, TypeInduction
<1>8. Extent(t) \in Nat /\ (t.cat # "struct" => Extent(t) > 0)
  BY <1>7 DEF S
<1>9. QED
  BY <1>3, <1>4, <1>5, <1>8

LEMMA OverlapsProps ==
  ASSUME NEW t \in AllTypes
  PROVE  /\ t.cat = "array" =>
              (Overlaps(t) <=> /\ t.len # Unsized
                               /\ Overlaps(t.elem) \/ (t.len > 1 /\ Short(t)))
         /\ t.cat = "struct" =>
              (Overlaps(t) <=> ShortBeforeOther(t.elems)
                                 \/ \E i \in DOMAIN t.elems : Overlaps(t.elems[i]))
         /\ t.cat = "mapping" => (Overlaps(t) <=> Overlaps(t.value))
         /\ t.cat \notin {"array", "struct", "mapping"} => ~ Overlaps(t)
<1>1. PICK g : g = [u \in AllTypes |-> OverlapsBody(g, u)] /\ \A u : Overlaps(u) = g[u]
  BY OverlapsUnfolds
<1>2. Overlaps(t) = OverlapsBody(g, t)
  BY <1>1
<1>3. t.cat = "array" =>
        OverlapsBody(g, t) = (t.len # Unsized /\ (g[t.elem] \/ (t.len > 1 /\ Short(t))))
  BY DEF OverlapsBody
<1>4. t.cat = "struct" =>
        OverlapsBody(g, t) = (ShortBeforeOther(t.elems)
                                \/ \E i \in DOMAIN t.elems : g[t.elems[i]])
  BY DEF OverlapsBody
<1>5. t.cat = "mapping" => OverlapsBody(g, t) = g[t.value]
  BY DEF OverlapsBody
<1>6. t.cat \notin {"array", "struct", "mapping"} => OverlapsBody(g, t) = FALSE
  BY DEF OverlapsBody
<1>7. QED
  BY <1>1, <1>2, <1>3, <1>4, <1>5, <1>6

\* The code leaves at most the room that a type needs, and less for some.
LEMMA RoomAndExtent ==
  ASSUME NEW t \in AllTypes
  PROVE  /\ Room(t) <= Extent(t)
         /\ Short(t) => Room(t) < Extent(t)
         /\ ~ Short(t) => Room(t) = Extent(t)
<1>. DEFINE S == {u \in AllTypes : /\ Room(u) <= Extent(u)
                                   /\ Short(u) => Room(u) < Extent(u)
                                   /\ ~ Short(u) => Room(u) = Extent(u)}
<1>1. ASSUME NEW u \in AllTypes, Made(u) \subseteq S PROVE u \in S
  <2>0. PICK r \in Nat, e \in Nat : r = Room(u) /\ e = Extent(u)
    BY RoomProps, ExtentProps
  <2>. SUFFICES r <= e /\ (Short(u) => r < e) /\ (~ Short(u) => r = e)
    BY <2>0
  <2>1. CASE u.cat = "struct"
    <3>1. PICK n \in Nat : n = Len(u.elems) /\ DOMAIN u.elems = 1 .. n
                           /\ \A i \in 1 .. n : u.elems[i] \in AllTypes
      BY <2>1, AllTypesProps
    <3>2. \A i \in 1 .. n : Room(u.elems[i]) <= Extent(u.elems[i])
      BY <1>1, <2>1, <3>1 DEF Made
    <3>3. \A i \in 1 .. n : Room(u.elems[i]) \in Nat /\ Extent(u.elems[i]) \in Nat
      BY <3>1, RoomProps, ExtentProps
    <3>4. ASSUME NEW i \in 1 .. n
          PROVE  Rooms(u.elems)[i] = Room(u.elems[i]) /\ Extents(u.elems)[i] = Extent(u.elems[i])
      BY <3>1 DEF Rooms, Extents
    <3>5. /\ Up(Rooms(u.elems), n) <= Up(Extents(u.elems), n)
      BY <3>2, <3>3, <3>4, UpCompares
    <3>6. Up(Rooms(u.elems), n) \in Nat /\ Up(Extents(u.elems), n) \in Nat
      <4>1. \A i \in 1 .. n : Rooms(u.elems)[i] \in Nat /\ Extents(u.elems)[i] \in Nat
        BY <3>3, <3>4
      <4>2. n \in 0 .. n
        OBVIOUS
      <4>3. QED
        BY <4>1, <4>2, UpProps
    <3>7. PICK x \in Nat : x = Up(Rooms(u.elems), n) /\ x <= e /\ r = x \div 32
      BY <2>0, <2>1, <3>1, <3>5, <3>6, RoomProps, ExtentProps
    <3>8. r <= e /\ (e > 0 => r < e)
      BY <3>7
    <3>9. Short(u) <=> e > 0
      BY <2>0, <2>1 DEF Short
    <3>10. QED
      BY <2>0, <3>8, <3>9
  <2>2. CASE Sized(u)
    <3>1. PICK l \in Nat \ {0}, x \in Nat \ {0} : l = u.len /\ x = Extent(u.elem)
      <4>1. u.len \in Nat \ {0} /\ u.elem \in AllTypes /\ u.elem.cat # "struct"
        BY <2>2, AllTypesProps DEF Sized, Unsized
      <4>2. QED
        BY <4>1, ExtentProps
    <3>2. Short(u) <=> x > 1
      BY <2>2, <3>1 DEF Short, Sized
    <3>3. r = ArraySlots(u)
      BY <2>0, <2>2, RoomProps
    <3>4. CASE PerSlot(u) # 1
      <4>1. u.elem.cat \in Scalars /\ u.elem \in AllTypes
        BY <2>2, <3>4, PerSlotProps, AllTypesProps DEF Sized
      <4>2. x = 1
        BY <3>1, <4>1, ExtentProps DEF Scalars, Sized
      <4>3. e = r
        BY <2>0, <2>2, <3>3, <3>4, ExtentProps
      <4>4. QED
        BY <2>0, <3>2, <4>2, <4>3
    <3>5. CASE PerSlot(u) = 1
      <4>1. r = l /\ e = l * x
        BY <2>0, <2>2, <3>1, <3>3, <3>5, ArraySlotsProps, ExtentProps DEF Sized
      <4>2. x = 1 => l * x = l
        OBVIOUS
      <4>3. x > 1 => l < l * x
        <5>1. ASSUME x > 1 PROVE l < l * x
          <6>1. PICK y \in Nat : x = y + 2
            <7>1. x - 2 \in Nat /\ x = (x - 2) + 2
              BY <5>1
            <7>2. QED
              BY <7>1
          <6>2. l * x = l * y + l + l /\ l * y \in Nat
            BY <6>1
          <6>3. QED
            BY <6>2
        <5>2. QED
          BY <5>1
      <4>4. x = 1 \/ x > 1
        OBVIOUS
      <4>5. QED
        BY <2>0, <3>2, <4>1, <4>2, <4>3, <4>4
    <3>6. QED
      BY <3>4, <3>5
  <2>3. CASE u.cat # "struct" /\ ~ Sized(u)
    <3>1. r = 1 /\ e = 1
      BY <2>0, <2>3, RoomProps, ExtentProps
    <3>2. ~ Short(u)
      BY <2>3 DEF Short, Sized
    <3>3. QED
      BY <2>0, <3>1, <3>2
  <2>4. QED
    BY <2>1, <2>2, <2>3
<1>. HIDE DEF S
<1>2. AllTypes \subseteq S
  BY <1>1, TypeInduction
<1>3. QED
  BY <1>2 DEF S

\* A list of types, of a struct or of a contract.
IsList(ts) == /\ Len(ts) \in Nat /\ DOMAIN ts = 1 .. Len(ts)
              /\ \A i \in 1 .. Len(ts) : ts[i] \in AllTypes

LEMMA ListProps ==
  ASSUME NEW ts, IsList(ts), NEW i \in 1 .. Len(ts)
  PROVE  /\ Rooms(ts)[i] = Room(ts[i]) /\ Room(ts[i]) \in Nat
         /\ Extents(ts)[i] = Extent(ts[i]) /\ Extent(ts[i]) \in Nat
BY RoomProps, ExtentProps DEF IsList, Rooms, Extents

\* Where nothing short comes before anything else, every type of a list lies
\* where those before it end.
LEMMA SideBySide ==
  ASSUME NEW ts, IsList(ts), ~ ShortBeforeOther(ts),
         NEW j \in 1 .. Len(ts), Extent(ts[j]) > 0
  PROVE  Up(Rooms(ts), j - 1) = Up(Extents(ts), j - 1)
<1>1. \A i \in 1 .. j - 1 : ~ Short(ts[i])
  BY DEF ShortBeforeOther, IsList
<1>2. \A i \in 1 .. j - 1 : Rooms(ts)[i] = Extents(ts)[i]
  <2>1. ASSUME NEW i \in 1 .. j - 1 PROVE Rooms(ts)[i] = Extents(ts)[i]
    <3>1. i \in 1 .. Len(ts)
      BY DEF IsList
    <3>2. Room(ts[i]) = Extent(ts[i])
      BY <1>1, <3>1, RoomAndExtent DEF IsList
    <3>3. QED
      BY <3>1, <3>2, ListProps
  <2>2. QED
    BY <2>1
<1>3. j - 1 \in Nat
  BY DEF IsList
<1>4. QED
  BY <1>2, <1>3, UpAgrees

\* Where something short does, one type starts inside another.
LEMMA Collision ==
  ASSUME NEW ts, IsList(ts), ShortBeforeOther(ts)
  PROVE  \E i, j \in 1 .. Len(ts) : \E o \in Nat :
           /\ i < j /\ Extent(ts[j]) > 0 /\ o < Extent(ts[i])
           /\ Up(Rooms(ts), j - 1) = Up(Rooms(ts), i - 1) + o
<1>1. PICK n \in Nat : n = Len(ts)
  BY DEF IsList
<1>. DEFINE T == {j \in 1 .. n : Extent(ts[j]) > 0 /\ \E i \in 1 .. j - 1 : Short(ts[i])}
<1>2. \A j : j \in T <=> /\ j \in 1 .. n /\ Extent(ts[j]) > 0
                         /\ \E i \in 1 .. j - 1 : Short(ts[i])
  OBVIOUS
<1>. HIDE DEF T
<1>3. PICK j \in T : \A y \in T : j <= y
  <2>1. T # {}
    BY <1>1, <1>2 DEF ShortBeforeOther, IsList
  <2>2. T \subseteq Nat
    BY <1>2
  <2>3. QED
    BY <2>1, <2>2, LeastNatural
<1>4. PICK i \in 1 .. j - 1 : Short(ts[i])
  BY <1>2
<1>5. i \in 1 .. n /\ j \in 1 .. n /\ i < j /\ i \in Nat /\ i - 1 \in Nat
  <2>1. j \in 1 .. n
    BY <1>2
  <2>2. QED
    BY <2>1
<1>6. PICK r \in Nat, u \in Nat : /\ r = Room(ts[i]) /\ r < Extent(ts[i])
                                  /\ u = Up(Rooms(ts), i - 1)
  <2>1. \A k \in 1 .. i - 1 : Rooms(ts)[k] \in Nat
    BY <1>1, <1>5, ListProps
  <2>2. Up(Rooms(ts), i - 1) \in Nat
    BY <1>5, <2>1, UpProps
  <2>3. ts[i] \in AllTypes
    BY <1>1, <1>5 DEF IsList
  <2>4. QED
    BY <1>4, <2>2, <2>3, RoomProps, RoomAndExtent
<1>7. Up(Rooms(ts), i) = u + r
  <2>1. Up(Rooms(ts), (i - 1) + 1) = Up(Rooms(ts), i - 1) + Rooms(ts)[(i - 1) + 1]
    BY <1>5, UpSteps
  <2>2. (i - 1) + 1 = i /\ Rooms(ts)[i] = Room(ts[i])
    BY <1>1, <1>5, ListProps
  <2>3. QED
    BY <1>6, <2>1, <2>2
<1>8. ASSUME NEW k \in Nat, i <= k, k + 1 < j PROVE Rooms(ts)[k + 1] = 0
  <2>1. k + 1 \in 1 .. n /\ k + 1 \notin T /\ i \in 1 .. (k + 1) - 1
    BY <1>3, <1>5, <1>8
  <2>2. ts[k + 1] \in AllTypes
    BY <1>1, <2>1 DEF IsList
  <2>3. Extent(ts[k + 1]) \in Nat /\ ~ (Extent(ts[k + 1]) > 0)
    <3>1. \E h \in 1 .. (k + 1) - 1 : Short(ts[h])
      BY <1>4, <2>1
    <3>2. QED
      BY <1>2, <2>1, <2>2, <3>1, ExtentProps
  <2>4. Room(ts[k + 1]) = 0
    BY <2>2, <2>3, RoomProps, RoomAndExtent
  <2>5. QED
    BY <1>1, <2>1, <2>4, ListProps
<1>. DEFINE R == {d \in Nat : i + d < j => Up(Rooms(ts), i + d) = u + r}
<1>9. 0 \in R
  BY <1>5, <1>7
<1>10. ASSUME NEW d \in Nat, d \in R PROVE d + 1 \in R
  <2>1. SUFFICES ASSUME i + (d + 1) < j PROVE Up(Rooms(ts), i + (d + 1)) = u + r
    OBVIOUS
  <2>2. i + d \in Nat /\ i <= i + d /\ (i + d) + 1 < j /\ i + (d + 1) = (i + d) + 1
    BY <1>5, <2>1
  <2>3. Rooms(ts)[(i + d) + 1] = 0
    BY <1>8, <2>2
  <2>4. Up(Rooms(ts), (i + d) + 1) = Up(Rooms(ts), i + d) + Rooms(ts)[(i + d) + 1]
    BY <2>2, UpSteps
  <2>5. Up(Rooms(ts), i + d) = u + r
    BY <1>5, <1>10, <2>2
  <2>6. QED
    BY <2>2, <2>3, <2>4, <2>5
<1>. HIDE DEF R
<1>11. (j - 1) - i \in R
  <2>1. (j - 1) - i \in Nat
    BY <1>5
  <2>2. QED
    BY <1>9, <1>10, <2>1, NaturalInduction
<1>12. Up(Rooms(ts), j - 1) = u + r
  <2>1. i + ((j - 1) - i) = j - 1 /\ j - 1 < j
    BY <1>5
  <2>2. QED
    BY <1>11, <2>1 DEF R
<1>13. Extent(ts[j]) > 0
  BY <1>2
<1>14. QED
  BY <1>1, <1>5, <1>6, <1>12, <1>13

LEMMA ListApart ==
  ASSUME NEW ts, IsList(ts), ~ ShortBeforeOther(ts),
         NEW j \in 1 .. Len(ts), Extent(ts[j]) > 0
  PROVE  /\ Up(Rooms(ts), j - 1) + Extent(ts[j]) <= Up(Extents(ts), Len(ts))
         /\ \A i \in 1 .. j - 1 : Extent(ts[i]) > 0 =>
              Up(Rooms(ts), i - 1) + Extent(ts[i]) <= Up(Rooms(ts), j - 1)
<1>1. PICK n \in Nat : n = Len(ts)
  BY DEF IsList
<1>2. \A i \in 1 .. n : Extents(ts)[i] \in Nat
  BY <1>1, ListProps
<1>3. ASSUME NEW i \in 1 .. n, Extent(ts[i]) > 0
      PROVE  Up(Rooms(ts), i - 1) + Extent(ts[i]) = Up(Extents(ts), i)
  <2>1. Up(Rooms(ts), i - 1) = Up(Extents(ts), i - 1)
    BY <1>1, <1>3, SideBySide
  <2>2. i - 1 \in Nat /\ (i - 1) + 1 = i
    OBVIOUS
  <2>3. Up(Extents(ts), (i - 1) + 1) = Up(Extents(ts), i - 1) + Extents(ts)[(i - 1) + 1]
    BY <2>2, UpSteps
  <2>4. QED
    BY <1>1, <2>1, <2>2, <2>3, ListProps
<1>4. \A i \in 0 .. n : \A k \in i .. n : Up(Extents(ts), i) <= Up(Extents(ts), k)
  BY <1>2, UpProps
<1>5. ASSUME NEW i \in 1 .. j - 1, Extent(ts[i]) > 0
      PROVE  Up(Rooms(ts), i - 1) + Extent(ts[i]) <= Up(Rooms(ts), j - 1)
  <2>1. i \in 0 .. n /\ j - 1 \in i .. n /\ i \in 1 .. n
    BY <1>1
  <2>2. Up(Extents(ts), i) <= Up(Extents(ts), j - 1)
    BY <1>4, <2>1
  <2>3. Up(Rooms(ts), j - 1) = Up(Extents(ts), j - 1)
    BY SideBySide
  <2>4. QED
    BY <1>3, <1>5, <2>1, <2>2, <2>3
<1>6. j \in 0 .. n /\ n \in j .. n
  BY <1>1
<1>7. QED
  BY <1>1, <1>3, <1>4, <1>5, <1>6

-----------------------------------------------------------------------------
(* Regions of the storage: some slots from an address on, and all that is  *)
(* hashed from them.                                                       *)

Addresses == [base : Seq(Nat \X Keys), off : Nat]

Within(a, n, y) ==
  \/ y.base = a.base /\ y.off \in a.off .. a.off + n - 1
  \/ /\ Len(y.base) > Len(a.base)
     /\ \A i \in 1 .. Len(a.base) : y.base[i] = a.base[i]
     /\ y.base[Len(a.base) + 1][1] \in a.off .. a.off + n - 1

LEMMA AddressProps ==
  ASSUME NEW a \in Addresses
  PROVE  /\ \A o \in Nat : /\ Plus(a, o) \in Addresses
                           /\ Plus(a, o).base = a.base /\ Plus(a, o).off = a.off + o
         /\ \A k \in Keys :
              /\ Hash(a, k) \in Addresses /\ Hash(a, k).off = 0
              /\ Len(Hash(a, k).base) = Len(a.base) + 1
              /\ \A i \in 1 .. Len(a.base) : Hash(a, k).base[i] = a.base[i]
              /\ Hash(a, k).base[Len(a.base) + 1] = <<a.off, k>>
         /\ Len(a.base) \in Nat /\ a.off \in Nat
         /\ a = [base |-> a.base, off |-> a.off]
<1>1. a.base \in Seq(Nat \X Keys) /\ a.off \in Nat /\ a = [base |-> a.base, off |-> a.off]
  BY DEF Addresses
<1>2. ASSUME NEW o \in Nat
      PROVE  /\ Plus(a, o) \in Addresses
             /\ Plus(a, o).base = a.base /\ Plus(a, o).off = a.off + o
  BY <1>1 DEF Plus, Addresses
<1>3. ASSUME NEW k \in Keys
      PROVE  /\ Hash(a, k) \in Addresses /\ Hash(a, k).off = 0
             /\ Len(Hash(a, k).base) = Len(a.base) + 1
             /\ \A i \in 1 .. Len(a.base) : Hash(a, k).base[i] = a.base[i]
             /\ Hash(a, k).base[Len(a.base) + 1] = <<a.off, k>>
  <2>1. <<a.off, k>> \in Nat \X Keys
    BY <1>1
  <2>2. /\ Append(a.base, <<a.off, k>>) \in Seq(Nat \X Keys)
        /\ Len(Append(a.base, <<a.off, k>>)) = Len(a.base) + 1
        /\ \A i \in 1 .. Len(a.base) : Append(a.base, <<a.off, k>>)[i] = a.base[i]
        /\ Append(a.base, <<a.off, k>>)[Len(a.base) + 1] = <<a.off, k>>
    BY <1>1, <2>1, AppendElements, AppendProperties
  <2>3. Hash(a, k) = [base |-> Append(a.base, <<a.off, k>>), off |-> 0]
    BY DEF Hash
  <2>4. Hash(a, k).base = Append(a.base, <<a.off, k>>) /\ Hash(a, k).off = 0
    BY <2>3
  <2>5. Hash(a, k) \in Addresses
    BY <2>2, <2>3 DEF Addresses
  <2>6. QED
    BY <2>2, <2>4, <2>5
<1>4. QED
  BY <1>1, <1>2, <1>3

LEMMA WithinItself ==
  ASSUME NEW a \in Addresses, NEW n \in Nat, n > 0
  PROVE  Within(a, n, a)
<1>1. PICK x \in Nat : x = a.off
  BY AddressProps
<1>2. x \in x .. x + n - 1
  OBVIOUS
<1>3. QED
  BY <1>1, <1>2 DEF Within

LEMMA WithinPart ==
  ASSUME NEW a \in Addresses, NEW o \in Nat, NEW m \in Nat, NEW n \in Nat, o + m <= n,
         NEW y \in Addresses, Within(Plus(a, o), m, y)
  PROVE  Within(a, n, y)
<1>1. Plus(a, o).base = a.base /\ Plus(a, o).off = a.off + o /\ a.off \in Nat
  BY AddressProps
<1>2. (a.off + o) .. (a.off + o) + m - 1 \subseteq a.off .. a.off + n - 1
  BY <1>1
<1>3. QED
  BY <1>1, <1>2 DEF Within

LEMMA WithinHash ==
  ASSUME NEW a \in Addresses, NEW k \in Keys, NEW m \in Nat, NEW n \in Nat, n > 0,
         NEW y \in Addresses, Within(Hash(a, k), m, y)
  PROVE  /\ Within(a, n, y)
         /\ Len(y.base) > Len(a.base) /\ y.base[Len(a.base) + 1] = <<a.off, k>>
<1>1. PICK l \in Nat, x \in Nat : l = Len(a.base) /\ x = a.off
  BY AddressProps
<1>2. /\ Len(Hash(a, k).base) = l + 1
      /\ \A i \in 1 .. l : Hash(a, k).base[i] = a.base[i]
      /\ Hash(a, k).base[l + 1] = <<x, k>>
  BY <1>1, AddressProps
<1>3. Len(y.base) >= l + 1 /\ \A i \in 1 .. l + 1 : y.base[i] = Hash(a, k).base[i]
  <2>1. CASE y.base = Hash(a, k).base
    BY <1>2, <2>1
  <2>2. CASE y.base # Hash(a, k).base
    <3>1. Len(y.base) \in Nat
      BY AddressProps
    <3>2. QED
      BY <1>2, <2>2, <3>1 DEF Within
  <2>3. QED
    BY <2>1, <2>2
<1>4. y.base[l + 1] = <<x, k>> /\ \A i \in 1 .. l : y.base[i] = a.base[i]
  BY <1>2, <1>3
<1>5. Len(y.base) > l
  <2>1. Len(y.base) \in Nat
    BY AddressProps
  <2>2. QED
    BY <1>3, <2>1
<1>6. x \in x .. x + n - 1
  OBVIOUS
<1>7. QED
  BY <1>1, <1>4, <1>5, <1>6 DEF Within

\* Regions beside each other, and what is hashed with different keys.
LEMMA RegionsApart ==
  ASSUME NEW a \in Addresses, NEW o \in Nat, NEW m \in Nat, NEW p \in Nat, NEW n \in Nat,
         o + m <= p, NEW y \in Addresses, NEW z \in Addresses,
         Within(Plus(a, o), m, y), Within(Plus(a, p), n, z)
  PROVE  y # z
<1>1. /\ Plus(a, o).base = a.base /\ Plus(a, o).off = a.off + o /\ a.off \in Nat
      /\ Plus(a, p).base = a.base /\ Plus(a, p).off = a.off + p
  BY AddressProps
<1>2. \A i \in (a.off + o) .. (a.off + o) + m - 1 : i \notin (a.off + p) .. (a.off + p) + n - 1
  BY <1>1
<1>3. Len(a.base) \in Nat
  BY AddressProps
<1>4. \/ y.base = a.base /\ y.off \in (a.off + o) .. (a.off + o) + m - 1
      \/ /\ Len(y.base) > Len(a.base)
         /\ y.base[Len(a.base) + 1][1] \in (a.off + o) .. (a.off + o) + m - 1
  BY <1>1 DEF Within
<1>5. \/ z.base = a.base /\ z.off \in (a.off + p) .. (a.off + p) + n - 1
      \/ /\ Len(z.base) > Len(a.base)
         /\ z.base[Len(a.base) + 1][1] \in (a.off + p) .. (a.off + p) + n - 1
  BY <1>1 DEF Within
<1>6. SUFFICES ASSUME y = z PROVE FALSE
  OBVIOUS
<1>7. CASE Len(y.base) > Len(a.base)
  <2>1. y.base # a.base
    BY <1>3, <1>7
  <2>2. QED
    BY <1>2, <1>4, <1>5, <1>6, <2>1
<1>8. CASE ~ Len(y.base) > Len(a.base)
  BY <1>2, <1>4, <1>5, <1>6, <1>8
<1>9. QED
  BY <1>7, <1>8

-----------------------------------------------------------------------------
(* Where the parts of a type lie.                                          *)

\* The slots before a member or an element.
Before(t, i) ==
  IF t.cat = "struct" THEN Up(Rooms(t.elems), i - 1)
  ELSE IF PerSlot(t) # 1 THEN i \div PerSlot(t) ELSE i

Packs(t) == t.cat = "array" /\ PerSlot(t) # 1

LEMMA StructList ==
  ASSUME NEW t \in AllTypes, t.cat = "struct"
  PROVE  IsList(t.elems)
BY AllTypesProps DEF IsList

LEMMA TypesAreTypes ==
  ASSUME NEW d \in 0 .. MaxDepth
  PROVE  Types[d] \subseteq AllTypes
BY DEF AllTypes

LEMMA PartBefore ==
  ASSUME NEW d \in 0 .. MaxDepth, NEW t \in Types[d], NEW p \in Components(t, 0),
         t.cat # "mapping"
  PROVE  /\ Before(t, p.step) \in Nat
         /\ t.cat = "struct" => /\ p.step \in 1 .. Len(t.elems)
                                /\ p.type = t.elems[p.step] /\ IsList(t.elems)
         /\ t.cat = "array" => /\ t.len \in Nat \ {0} /\ p.step \in 0 .. t.len - 1
                               /\ p.type = t.elem /\ p.type.cat # "struct" /\ Sized(t)
         /\ p.step \in Nat /\ p.type \in AllTypes /\ t.cat \in {"array", "struct"}
<1>1. t \in AllTypes
  BY TypesAreTypes
<1>2. /\ t.cat \in {"mapping", "array", "struct"}
      /\ p.type \in AllTypes /\ p.step \in Nat
      /\ t.cat = "array" => p.step \in 0 .. t.len - 1 /\ p.type = t.elem
                            /\ p.type.cat \notin {"string", "struct"}
      /\ t.cat = "struct" => p.step \in DOMAIN t.elems /\ p.type = t.elems[p.step]
  <2>1. d + 1 \in 0 .. MaxDepth /\ p.type \in Types[d + 1]
    BY ComponentProps
  <2>2. p.type \in AllTypes
    BY <2>1, TypesAreTypes
  <2>3. t.cat = "array" => p.step \in 0 .. t.len + 0 - 1 /\ t.len \in Nat
    BY ComponentProps, TypeProps
  <2>4. t.cat = "array" => p.step \in 0 .. t.len - 1
    BY <2>3
  <2>5. QED
    BY <2>2, <2>4, ComponentProps
<1>3. CASE t.cat = "struct"
  <2>1. IsList(t.elems)
    BY <1>1, <1>3, StructList
  <2>2. p.step \in 1 .. Len(t.elems)
    BY <1>2, <1>3, <2>1 DEF IsList
  <2>3. p.step - 1 \in Nat /\ \A k \in 1 .. p.step - 1 : Rooms(t.elems)[k] \in Nat
    <3>1. Len(t.elems) \in Nat
      BY <2>1 DEF IsList
    <3>2. ASSUME NEW k \in 1 .. p.step - 1 PROVE Rooms(t.elems)[k] \in Nat
      <4>1. k \in 1 .. Len(t.elems)
        BY <2>2, <3>1
      <4>2. QED
        BY <2>1, <4>1, ListProps
    <3>3. QED
      BY <2>2, <3>1, <3>2
  <2>4. p.step - 1 \in 0 .. p.step - 1
    BY <2>3
  <2>5. Up(Rooms(t.elems), p.step - 1) \in Nat
    BY <2>3, <2>4, UpProps
  <2>6. QED
    BY <1>2, <1>3, <2>1, <2>2, <2>5 DEF Before
<1>4. CASE t.cat = "array"
  <2>1. t.len \in Nat \ {0}
    BY <1>1, <1>2, <1>4, AllTypesProps
  <2>2. p.step \div PerSlot(t) \in Nat
    BY <1>1, <1>2, <1>4, PerSlotProps, Division
  <2>3. QED
    BY <1>2, <1>4, <2>1, <2>2 DEF Before, Sized, Unsized
<1>5. QED
  BY <1>2, <1>3, <1>4

LEMMA PartPlace ==
  ASSUME NEW d \in 0 .. MaxDepth, NEW t \in Types[d], NEW p \in Components(t, 0),
         NEW a, Denotes(a, t), a.at \in Addresses, NEW c, NEW words
  PROVE  LET b == Follow(c, words, a, p.step)
         IN  /\ t.cat = "mapping" => p.step \in Keys /\ b.at = Hash(a.at, p.step)
             /\ t.cat # "mapping" => b.at = Plus(a.at, Before(t, p.step))
             /\ b.at \in Addresses
             /\ Packs(t) => b.shift # NoShift
             /\ ~ Packs(t) => b.shift = NoShift
<1>. DEFINE b == Follow(c, words, a, p.step)
<1>1. a.type = t /\ a.shift = NoShift
  <2>1. t.cat \notin Scalars
    BY ComponentProps DEF Scalars
  <2>2. QED
    BY <2>1 DEF Denotes
<1>2. CASE t.cat = "mapping"
  <2>1. b = Entry(a, p.step)
    BY <1>1, <1>2 DEF Follow
  <2>2. b.at = Hash(a.at, p.step) /\ b.shift = NoShift
    BY <1>1, <2>1 DEF Entry
  <2>3. p.step \in Keys
    BY <1>2, ComponentProps
  <2>. HIDE DEF b
  <2>4. b.at \in Addresses
    BY <2>2, <2>3, AddressProps
  <2>5. QED
    BY <1>2, <2>2, <2>3, <2>4 DEF b, Packs
<1>3. CASE t.cat = "struct"
  <2>1. b = Member(a, p.step)
    BY <1>1, <1>3 DEF Follow
  <2>2. b.at = Plus(a.at, StoragePos(t, p.step)) /\ b.shift = NoShift
    BY <1>1, <2>1 DEF Member
  <2>3. Before(t, p.step) \in Nat /\ p.step \in 1 .. Len(t.elems) /\ IsList(t.elems)
    BY <1>3, PartBefore
  <2>4. StoragePos(t, p.step) = Before(t, p.step)
    <3>1. [j \in 1 .. p.step - 1 |-> StorageSize(t.elems[j]) \div 32]
            = [j \in 1 .. p.step - 1 |-> Rooms(t.elems)[j]]
      <4>1. \A j \in 1 .. p.step - 1 : j \in 1 .. Len(t.elems)
        BY <2>3 DEF IsList
      <4>2. QED
        BY <4>1 DEF Rooms, Room
    <3>2. QED
      BY <1>3, <3>1 DEF StoragePos, Before, Up
  <2>. HIDE DEF b
  <2>5. b.at \in Addresses
    BY <2>2, <2>3, <2>4, AddressProps
  <2>6. QED
    BY <1>3, <2>2, <2>4, <2>5 DEF b, Packs
<1>4. CASE t.cat = "array"
  <2>1. b = Element(c, words, a, p.step)
    BY <1>1, <1>4 DEF Follow
  <2>2. Before(t, p.step) \in Nat /\ t.len # Unsized /\ p.step \in Nat
    BY <1>4, PartBefore DEF Sized
  <2>3. b.at = Plus(a.at, Before(t, p.step))
    BY <1>1, <1>4, <2>1, <2>2 DEF Element, Before
  <2>4. b.shift = IF Packs(t) THEN p.step % PerSlot(t) ELSE NoShift
    BY <1>1, <1>4, <2>1 DEF Element, Packs
  <2>5. p.step % PerSlot(t) \in Nat
    <3>1. PerSlot(t) \in Nat \ {0}
      BY <1>4, TypesAreTypes, PerSlotProps
    <3>2. QED
      BY <2>2, <3>1, Division
  <2>. HIDE DEF b
  <2>6. (Packs(t) => b.shift # NoShift) /\ (~ Packs(t) => b.shift = NoShift)
    BY <2>4, <2>5 DEF NoShift
  <2>7. b.at \in Addresses
    BY <2>2, <2>3, AddressProps
  <2>8. QED
    BY <1>4, <2>3, <2>6, <2>7 DEF b
<1>5. t.cat \in {"mapping", "array", "struct"}
  BY ComponentProps
<1>6. QED
  BY <1>2, <1>3, <1>4, <1>5

LEMMA PartShift ==
  ASSUME NEW d \in 0 .. MaxDepth, NEW t \in Types[d], NEW p \in Components(t, 0),
         NEW a, Denotes(a, t), a.at \in Addresses, NEW c, NEW words, Packs(t)
  PROVE  Follow(c, words, a, p.step).shift # NoShift
<1>. DEFINE b == Follow(c, words, a, p.step)
<1>1. b.shift # NoShift
  BY PartPlace
<1>2. QED
  BY <1>1

LEMMA PartNoShift ==
  ASSUME NEW d \in 0 .. MaxDepth, NEW t \in Types[d], NEW p \in Components(t, 0),
         NEW a, Denotes(a, t), a.at \in Addresses, NEW c, NEW words, ~ Packs(t)
  PROVE  Follow(c, words, a, p.step).shift = NoShift
<1>. DEFINE b == Follow(c, words, a, p.step)
<1>1. b.shift = NoShift
  BY PartPlace
<1>2. QED
  BY <1>1

LEMMA PartAt ==
  ASSUME NEW d \in 0 .. MaxDepth, NEW t \in Types[d], NEW p \in Components(t, 0),
         NEW a, Denotes(a, t), a.at \in Addresses, NEW c, NEW words, t.cat # "mapping"
  PROVE  Follow(c, words, a, p.step).at = Plus(a.at, Before(t, p.step))
<1>. DEFINE b == Follow(c, words, a, p.step)
<1>1. b.at = Plus(a.at, Before(t, p.step))
  BY PartPlace
<1>2. QED
  BY <1>1

\* In a type without overlaps every part lies inside it.
LEMMA PartInside ==
  ASSUME NEW d \in 0 .. MaxDepth, NEW t \in Types[d], ~ Overlaps(t),
         NEW p \in Components(t, 0), t.cat # "mapping", Extent(p.type) > 0
  PROVE  Before(t, p.step) + Extent(p.type) <= Extent(t)
<1>1. t \in AllTypes
  BY TypesAreTypes
<1>2. CASE t.cat = "struct"
  <2>1. IsList(t.elems) /\ p.step \in 1 .. Len(t.elems) /\ p.type = t.elems[p.step]
    BY <1>2, PartBefore
  <2>2. ~ ShortBeforeOther(t.elems)
    BY <1>1, <1>2, OverlapsProps
  <2>3. Up(Rooms(t.elems), p.step - 1) + Extent(p.type) <= Up(Extents(t.elems), Len(t.elems))
    BY <2>1, <2>2, ListApart
  <2>4. QED
    BY <1>1, <1>2, <2>3, ExtentProps DEF Before
<1>3. CASE t.cat = "array"
  <2>1. /\ t.len \in Nat \ {0} /\ p.step \in 0 .. t.len - 1 /\ p.type = t.elem
        /\ p.type.cat # "struct" /\ Sized(t) /\ p.type \in AllTypes
    BY <1>3, PartBefore
  <2>2. CASE Packs(t)
    <3>1. PerSlot(t) # 1 /\ p.type.cat \in Scalars
      BY <1>1, <1>3, <2>1, <2>2, PerSlotProps DEF Packs
    <3>2. Extent(p.type) = 1
      BY <2>1, <3>1, ExtentProps DEF Scalars, Sized
    <3>3. Before(t, p.step) \in 0 .. ArraySlots(t) - 1 /\ ArraySlots(t) \in Nat
      BY <1>1, <1>3, <2>1, <3>1, ArraySlotsProps DEF Before
    <3>4. Extent(t) = ArraySlots(t)
      BY <1>1, <2>1, <3>1, ExtentProps
    <3>5. QED
      BY <3>2, <3>3, <3>4
  <2>3. CASE ~ Packs(t)
    <3>1. PerSlot(t) = 1 /\ Before(t, p.step) = p.step
      BY <1>3, <2>3 DEF Packs, Before
    <3>2. PICK l \in Nat \ {0}, e \in Nat \ {0}, i \in Nat :
            l = t.len /\ e = Extent(t.elem) /\ i = p.step /\ i < l
      BY <2>1, ExtentProps
    <3>3. Extent(t) = l * e
      BY <1>1, <2>1, <3>1, <3>2, ExtentProps
    <3>4. l > 1 => e = 1
      <4>1. ~ (t.len > 1 /\ Short(t))
        BY <1>1, <1>3, <2>1, OverlapsProps DEF Sized
      <4>2. Short(t) <=> e > 1
        BY <2>1, <1>3, <3>2 DEF Short, Sized
      <4>3. QED
        BY <3>2, <4>1, <4>2
    <3>5. i + e <= l * e
      <4>1. CASE l = 1
        BY <3>2, <4>1
      <4>2. CASE l > 1
        <5>1. e = 1 /\ l * e = l
          BY <3>4, <4>2
        <5>2. QED
          BY <3>2, <5>1
      <4>3. QED
        BY <4>1, <4>2
    <3>6. QED
      BY <2>1, <3>1, <3>2, <3>3, <3>5
  <2>4. QED
    BY <2>2, <2>3
<1>4. QED
  BY <1>2, <1>3, PartBefore

\* And two parts lie beside each other, but for elements that share a word.
LEMMA PartsApart ==
  ASSUME NEW d \in 0 .. MaxDepth, NEW t \in Types[d], ~ Overlaps(t), ~ Packs(t),
         NEW p \in Components(t, 0), NEW q \in Components(t, 0), t.cat # "mapping",
         p.step < q.step, Extent(p.type) > 0, Extent(q.type) > 0
  PROVE  Before(t, p.step) + Extent(p.type) <= Before(t, q.step)
<1>1. t \in AllTypes
  BY TypesAreTypes
<1>2. CASE t.cat = "struct"
  <2>1. /\ IsList(t.elems)
        /\ p.step \in 1 .. Len(t.elems) /\ p.type = t.elems[p.step]
        /\ q.step \in 1 .. Len(t.elems) /\ q.type = t.elems[q.step]
    BY <1>2, PartBefore
  <2>2. ~ ShortBeforeOther(t.elems)
    BY <1>1, <1>2, OverlapsProps
  <2>3. p.step \in 1 .. q.step - 1
    BY <2>1
  <2>4. Up(Rooms(t.elems), p.step - 1) + Extent(p.type) <= Up(Rooms(t.elems), q.step - 1)
    BY <2>1, <2>2, <2>3, ListApart
  <2>5. QED
    BY <1>2, <2>4 DEF Before
<1>3. CASE t.cat = "array"
  <2>1. /\ t.len \in Nat \ {0} /\ p.step \in 0 .. t.len - 1 /\ p.type = t.elem
        /\ q.step \in 0 .. t.len - 1 /\ Sized(t) /\ p.type \in AllTypes
    BY <1>3, PartBefore
  <2>2. /\ PerSlot(t) = 1
        /\ Before(t, p.step) = p.step /\ Before(t, q.step) = q.step
    BY <1>3 DEF Packs, Before
  <2>3. t.len > 1
    BY <2>1
  <2>4. ~ Short(t)
    BY <1>1, <1>3, <2>1, <2>3, OverlapsProps DEF Sized
  <2>5. Extent(p.type) = 1
    <3>1. Extent(t.elem) \in Nat /\ ~ (Extent(t.elem) > 1)
      BY <1>3, <2>1, <2>4, ExtentProps DEF Short, Sized
    <3>2. QED
      BY <2>1, <3>1
  <2>6. QED
    BY <2>1, <2>2, <2>5
<1>4. QED
  BY <1>2, <1>3, PartBefore

LEMMA PartOverlaps ==
  ASSUME NEW d \in 0 .. MaxDepth, NEW t \in Types[d], ~ Overlaps(t),
         NEW p \in Components(t, 0)
  PROVE  ~ Overlaps(p.type)
<1>1. t \in AllTypes
  BY TypesAreTypes
<1>2. CASE t.cat = "mapping"
  BY <1>1, <1>2, OverlapsProps, ComponentProps
<1>3. CASE t.cat = "array"
  BY <1>1, <1>3, OverlapsProps, PartBefore DEF Sized
<1>4. CASE t.cat = "struct"
  BY <1>1, <1>4, OverlapsProps, ComponentProps
<1>5. QED
  BY <1>2, <1>3, <1>4, ComponentProps

\* What lies in the region of a part lies in that of the whole.
LEMMA WithinWhole ==
  ASSUME NEW d \in 0 .. MaxDepth, NEW t \in Types[d], ~ Overlaps(t),
         NEW p \in Components(t, 0), NEW a, Denotes(a, t), a.at \in Addresses,
         NEW c, NEW words, NEW y \in Addresses,
         Within(Follow(c, words, a, p.step).at, Extent(p.type), y)
  PROVE  Within(a.at, Extent(t), y)
<1>. DEFINE b == Follow(c, words, a, p.step)
<1>1. t \in AllTypes /\ p.type \in AllTypes
  <2>1. d + 1 \in 0 .. MaxDepth /\ p.type \in Types[d + 1]
    BY ComponentProps
  <2>2. QED
    BY <2>1, TypesAreTypes
<1>2. Extent(t) \in Nat /\ Extent(p.type) \in Nat
  BY <1>1, ExtentProps
<1>3. CASE t.cat = "mapping"
  <2>1. p.step \in Keys /\ b.at = Hash(a.at, p.step)
    BY <1>3, PartPlace
  <2>2. Extent(t) > 0
    BY <1>1, <1>3, ExtentProps
  <2>. HIDE DEF b
  <2>3. QED
    BY <1>2, <2>1, <2>2, WithinHash DEF b
<1>4. CASE t.cat # "mapping"
  <2>0. Before(t, p.step) \in Nat
    BY <1>4, PartBefore
  <2>1. b.at = Plus(a.at, Before(t, p.step))
    BY <1>4, PartPlace
  <2>2. Extent(p.type) > 0
    <3>1. Extent(p.type) # 0
      <4>1. SUFFICES ASSUME Extent(p.type) = 0 PROVE FALSE
        OBVIOUS
      <4>2. \A x \in Nat : x .. x + 0 - 1 = {}
        OBVIOUS
      <4>3. b.at.off \in Nat
        BY PartPlace DEF Addresses
      <4>4. QED
        BY <4>1, <4>2, <4>3 DEF Within
    <3>2. QED
      BY <1>2, <3>1
  <2>3. Before(t, p.step) + Extent(p.type) <= Extent(t)
    BY <1>4, <2>2, PartInside
  <2>. HIDE DEF b
  <2>4. QED
    BY <1>2, <2>0, <2>1, <2>3, WithinPart DEF b
<1>5. QED
  BY <1>3, <1>4

-----------------------------------------------------------------------------
(* Where the locations of a contract lie.                                  *)

\* Each variable has the slots behind those before it.
Laid == /\ contract \in Contracts
        /\ \A v \in DOMAIN contract.vars : layout[v] = Up(Rooms(contract.vars), v - 1)

Here(n) == Level(contract, 0, n)
At(loc) == Access(loc).at

\* A part of y, and the step to it.
Part(x, y, p) == x = [loc |-> Append(y.loc, p.step), type |-> p.type]

LEMMA VarsList ==
  ASSUME contract \in Contracts
  PROVE  IsList(contract.vars)
<1>1. contract.vars \in Seq(Types[0])
  BY ContractsAssumption
<1>2. Len(contract.vars) \in Nat /\ DOMAIN contract.vars = 1 .. Len(contract.vars)
  BY <1>1
<1>3. \A i \in 1 .. Len(contract.vars) : contract.vars[i] \in Types[0]
  BY <1>1, <1>2
<1>4. 0 \in 0 .. MaxDepth
  BY TypesAssumption
<1>5. QED
  BY <1>2, <1>3, <1>4, TypesAreTypes DEF IsList

LEMMA HereType ==
  ASSUME contract \in Contracts, NEW n \in 0 .. MaxDepth, NEW x \in Here(n)
  PROVE  /\ LevelType(x, n) /\ x.type \in Types[n] /\ x.type \in AllTypes
         /\ x = [loc |-> x.loc, type |-> x.type]
         /\ x.loc \in Seq(Nat) /\ x.loc # <<>> /\ Len(x.loc) = n + 1
         /\ Denotes(Access(x.loc), x.type) /\ Access(x.loc).type = x.type
<1>1. LevelType(x, n)
  BY LevelProps DEF Here
<1>2. Denotes(Access(x.loc), x.type)
  BY PlaceDenotes DEF Here, Access
<1>3. Access(x.loc).type = x.type
  BY <1>2 DEF Denotes
<1>4. x.type \in AllTypes
  BY <1>1, TypesAreTypes DEF LevelType
<1>5. QED
  BY <1>1, <1>2, <1>3, <1>4 DEF LevelType

LEMMA HereRoot ==
  ASSUME Laid, NEW x \in Here(0)
  PROVE  \E v \in 1 .. Len(contract.vars) :
           /\ x = [loc |-> <<v>>, type |-> contract.vars[v]]
           /\ Up(Rooms(contract.vars), v - 1) \in Nat
           /\ At(x.loc) = Plus(Slot(0), Up(Rooms(contract.vars), v - 1))
           /\ Access(x.loc).shift = NoShift
<1>1. IsList(contract.vars) /\ contract \in Contracts
  BY VarsList DEF Laid
<1>2. PICK v \in DOMAIN contract.vars : x = [loc |-> <<v>>, type |-> contract.vars[v]]
  BY <1>1, LevelSteps, VariableProps DEF Here
<1>3. v \in 1 .. Len(contract.vars) /\ Len(contract.vars) \in Nat
  BY <1>1, <1>2 DEF IsList
<1>4. Access(x.loc) = Variable(contract, layout, v)
  BY <1>2, PlaceSteps DEF Access
<1>5. Up(Rooms(contract.vars), v - 1) \in Nat
  <2>1. ASSUME NEW k \in 1 .. v - 1 PROVE Rooms(contract.vars)[k] \in Nat
    <3>1. k \in 1 .. Len(contract.vars)
      BY <1>3
    <3>2. QED
      BY <1>1, <3>1, ListProps
  <2>2. v - 1 \in Nat /\ v - 1 \in 0 .. v - 1
    BY <1>3
  <2>3. QED
    BY <2>1, <2>2, UpProps
<1>6. layout[v] = Up(Rooms(contract.vars), v - 1)
  BY <1>2 DEF Laid
<1>7. \A n \in Nat : Slot(n) = Plus(Slot(0), n)
  BY DEF Slot, Plus
<1>8. QED
  BY <1>2, <1>3, <1>4, <1>5, <1>6, <1>7 DEF Variable, At

LEMMA HereInside ==
  ASSUME contract \in Contracts, NEW n \in Nat, n + 1 \in 0 .. MaxDepth,
         NEW x \in Here(n + 1)
  PROVE  \E y \in Here(n) : \E p \in Components(y.type, 0) :
           /\ Part(x, y, p) /\ x.type = p.type
           /\ Access(x.loc) = Follow(contract, storage, Access(y.loc), p.step)
<1>1. n \in 0 .. MaxDepth
  BY TypesAssumption
<1>2. PICK y \in Here(n) : Behind(x, y, 0)
  BY LevelIsInside DEF Here
<1>3. PICK p \in Components(y.type, 0) : Part(x, y, p)
  BY <1>2 DEF Behind, Part
<1>4. y.type \in Types[n] /\ y.loc \in Seq(Nat) /\ y.loc # <<>>
  BY <1>1, HereType
<1>5. p.step \in Nat
  BY <1>1, <1>4, ComponentProps
<1>6. x.loc = Append(y.loc, p.step) /\ x.type = p.type
  BY <1>3 DEF Part
<1>7. Access(x.loc) = Follow(contract, storage, Access(y.loc), p.step)
  BY <1>4, <1>5, <1>6, PlaceSteps DEF Access
<1>8. QED
  BY <1>3, <1>6, <1>7

\* The other way round.
LEMMA InsideIsHere ==
  ASSUME contract \in Contracts, NEW n \in 0 .. MaxDepth, NEW y \in Here(n),
         NEW p \in Components(y.type, 0), NEW x, Part(x, y, p)
  PROVE  /\ n + 1 \in 0 .. MaxDepth /\ x \in Here(n + 1)
         /\ x.type = p.type /\ x.loc = Append(y.loc, p.step) /\ p.step \in Nat
         /\ Access(x.loc) = Follow(contract, storage, Access(y.loc), p.step)
<1>1. y.type \in Types[n] /\ y.loc \in Seq(Nat) /\ y.loc # <<>>
  BY HereType
<1>2. p.step \in Nat /\ n + 1 \in 0 .. MaxDepth
  BY <1>1, ComponentProps
<1>3. x \in Here(n + 1)
  <2>. DEFINE parts(z) == {[loc |-> Append(z.loc, q.step), type |-> q.type] :
                              q \in Components(z.type, 0)}
  <2>1. x \in parts(y)
    BY DEF Part
  <2>2. Inside(Here(n), 0) = UNION {parts(z) : z \in Here(n)}
    BY DEF Inside
  <2>. HIDE DEF parts
  <2>3. x \in Inside(Here(n), 0)
    BY <2>1, <2>2
  <2>4. n \in Nat
    BY TypesAssumption
  <2>5. QED
    BY <2>3, <2>4, LevelSteps DEF Here
<1>4. x.loc = Append(y.loc, p.step) /\ x.type = p.type
  BY DEF Part
<1>5. Access(x.loc) = Follow(contract, storage, Access(y.loc), p.step)
  BY <1>1, <1>2, <1>4, PlaceSteps DEF Access
<1>6. QED
  BY <1>2, <1>3, <1>4, <1>5

LEMMA HereAddress ==
  ASSUME Laid, NEW n \in 0 .. MaxDepth, NEW x \in Here(n)
  PROVE  At(x.loc) \in Addresses
<1>. DEFINE S == {k \in Nat : k <= MaxDepth => \A z \in Here(k) : At(z.loc) \in Addresses}
<1>1. MaxDepth \in Nat /\ contract \in Contracts
  BY TypesAssumption DEF Laid
<1>2. 0 \in S
  <2>1. SUFFICES ASSUME NEW z \in Here(0) PROVE At(z.loc) \in Addresses
    OBVIOUS
  <2>2. Slot(0) \in Addresses
    BY DEF Slot, Addresses
  <2>3. QED
    BY <2>2, HereRoot, AddressProps
<1>3. ASSUME NEW k \in Nat, k \in S PROVE k + 1 \in S
  <2>1. SUFFICES ASSUME k + 1 <= MaxDepth, NEW z \in Here(k + 1)
                 PROVE  At(z.loc) \in Addresses
    OBVIOUS
  <2>2. k \in 0 .. MaxDepth /\ k + 1 \in 0 .. MaxDepth
    BY <1>1, <2>1
  <2>3. PICK y \in Here(k) : \E p \in Components(y.type, 0) :
          Access(z.loc) = Follow(contract, storage, Access(y.loc), p.step)
    BY <1>1, <2>2, HereInside
  <2>. PICK p \in Components(y.type, 0) :
          Access(z.loc) = Follow(contract, storage, Access(y.loc), p.step)
    BY <2>3
  <2>4. y.type \in Types[k] /\ Denotes(Access(y.loc), y.type)
    BY <1>1, <2>2, HereType
  <2>5. Access(y.loc).at \in Addresses
    BY <1>3, <2>2 DEF At
  <2>. HIDE DEF S
  <2>6. QED
    BY <2>2, <2>3, <2>4, <2>5, PartPlace DEF At
<1>. HIDE DEF S
<1>4. n \in S
  BY <1>1, <1>2, <1>3, NaturalInduction
<1>5. QED
  BY <1>1, <1>4 DEF S

\* One location leads through another.
Inner(z, x) == /\ Len(z.loc) <= Len(x.loc)
               /\ \A i \in 1 .. Len(z.loc) : x.loc[i] = z.loc[i]

LEMMA InnerItself ==
  ASSUME contract \in Contracts, NEW n \in 0 .. MaxDepth,
         NEW x \in Here(n), NEW z \in Here(n), Inner(z, x)
  PROVE  x = z
<1>1. /\ Len(x.loc) = n + 1 /\ Len(z.loc) = n + 1 /\ x.loc \in Seq(Nat) /\ z.loc \in Seq(Nat)
      /\ x = [loc |-> x.loc, type |-> x.type] /\ z = [loc |-> z.loc, type |-> z.type]
      /\ Access(x.loc).type = x.type /\ Access(z.loc).type = z.type
  BY HereType
<1>2. x.loc = z.loc
  <2>1. \A i \in 1 .. Len(x.loc) : x.loc[i] = z.loc[i]
    BY <1>1 DEF Inner
  <2>2. QED
    BY <1>1, <2>1, SeqEqual
<1>3. QED
  BY <1>1, <1>2

LEMMA InnerPart ==
  ASSUME NEW x, NEW y, NEW p, Part(x, y, p), y.loc \in Seq(Nat), p.step \in Nat
  PROVE  /\ Inner(y, x) /\ x.loc[Len(y.loc) + 1] = p.step
         /\ Len(x.loc) = Len(y.loc) + 1 /\ Len(y.loc) \in Nat
         /\ \A z : Len(z.loc) \in Nat /\ Len(z.loc) <= Len(y.loc)
                     => (Inner(z, x) <=> Inner(z, y))
<1>1. x.loc = Append(y.loc, p.step)
  BY DEF Part
<1>2. /\ Len(x.loc) = Len(y.loc) + 1 /\ Len(y.loc) \in Nat
      /\ \A i \in 1 .. Len(y.loc) : x.loc[i] = y.loc[i]
      /\ x.loc[Len(y.loc) + 1] = p.step
  BY <1>1, AppendElements, AppendProperties
<1>3. Inner(y, x)
  BY <1>2 DEF Inner
<1>4. ASSUME NEW z, Len(z.loc) \in Nat, Len(z.loc) <= Len(y.loc)
      PROVE  Inner(z, x) <=> Inner(z, y)
  BY <1>2, <1>4 DEF Inner
<1>5. QED
  BY <1>2, <1>3, <1>4

LEMMA Through ==
  ASSUME contract \in Contracts, NEW n \in 0 .. MaxDepth, NEW x \in Here(n),
         NEW k \in 0 .. n
  PROVE  \E z \in Here(k) : Inner(z, x)
<1>. DEFINE S == {m \in Nat : m <= MaxDepth =>
                    \A w \in Here(m) : \A j \in 0 .. m : \E z \in Here(j) : Inner(z, w)}
<1>1. MaxDepth \in Nat
  BY TypesAssumption
<1>2. ASSUME NEW m \in 0 .. MaxDepth, NEW w \in Here(m) PROVE Inner(w, w)
  <2>1. Len(w.loc) \in Nat
    BY HereType
  <2>2. QED
    BY <2>1 DEF Inner
<1>3. 0 \in S
  BY <1>1, <1>2
<1>4. ASSUME NEW m \in Nat, m \in S PROVE m + 1 \in S
  <2>1. SUFFICES ASSUME m + 1 <= MaxDepth, NEW w \in Here(m + 1), NEW j \in 0 .. m + 1
                 PROVE  \E z \in Here(j) : Inner(z, w)
    OBVIOUS
  <2>2. m \in 0 .. MaxDepth /\ m + 1 \in 0 .. MaxDepth
    BY <1>1, <2>1
  <2>3. CASE j = m + 1
    BY <1>2, <2>2, <2>3
  <2>4. CASE j # m + 1
    <3>1. PICK y \in Here(m) : \E p \in Components(y.type, 0) : Part(w, y, p)
      BY <2>2, HereInside
    <3>. PICK p \in Components(y.type, 0) : Part(w, y, p)
      BY <3>1
    <3>2. j \in 0 .. m
      BY <2>4
    <3>3. PICK z \in Here(j) : Inner(z, y)
      BY <1>1, <1>4, <2>2, <3>2
    <3>4. y.type \in Types[m] /\ y.loc \in Seq(Nat) /\ Len(y.loc) = m + 1
      BY <2>2, HereType
    <3>5. p.step \in Nat
      BY <2>2, <3>4, ComponentProps
    <3>6. j \in 0 .. MaxDepth
      BY <1>1, <2>2, <3>2
    <3>7. Len(z.loc) = j + 1
      BY <3>6, HereType
    <3>8. Inner(z, w)
      BY <3>2, <3>3, <3>4, <3>5, <3>7, InnerPart
    <3>. HIDE DEF S
    <3>9. QED
      BY <3>8
  <2>. HIDE DEF S
  <2>5. QED
    BY <2>3, <2>4
<1>. HIDE DEF S
<1>5. n \in S
  BY <1>1, <1>3, <1>4, NaturalInduction
<1>6. QED
  BY <1>1, <1>5 DEF S

\* Nothing in the contract takes less room than it needs.
Roomy == /\ ~ ShortBeforeOther(contract.vars)
         /\ \A v \in DOMAIN contract.vars : ~ Overlaps(contract.vars[v])

LEMMA RoomyInside ==
  ASSUME contract \in Contracts, Roomy, NEW n \in 0 .. MaxDepth, NEW x \in Here(n)
  PROVE  ~ Overlaps(x.type)
<1>. DEFINE S == {k \in Nat : k <= MaxDepth => \A z \in Here(k) : ~ Overlaps(z.type)}
<1>1. MaxDepth \in Nat
  BY TypesAssumption
<1>2. 0 \in S
  <2>1. SUFFICES ASSUME NEW z \in Here(0) PROVE ~ Overlaps(z.type)
    OBVIOUS
  <2>2. PICK v \in DOMAIN contract.vars : z = [loc |-> <<v>>, type |-> contract.vars[v]]
    BY LevelSteps, VariableProps DEF Here
  <2>3. QED
    BY <2>2 DEF Roomy
<1>3. ASSUME NEW k \in Nat, k \in S PROVE k + 1 \in S
  <2>1. SUFFICES ASSUME k + 1 <= MaxDepth, NEW z \in Here(k + 1) PROVE ~ Overlaps(z.type)
    OBVIOUS
  <2>2. k \in 0 .. MaxDepth /\ k + 1 \in 0 .. MaxDepth
    BY <1>1, <2>1
  <2>3. PICK y \in Here(k) : \E p \in Components(y.type, 0) : z.type = p.type
    BY <2>2, HereInside
  <2>4. y.type \in Types[k] /\ ~ Overlaps(y.type)
    BY <1>1, <1>3, <2>2, HereType
  <2>. HIDE DEF S
  <2>5. QED
    BY <2>2, <2>3, <2>4, PartOverlaps
<1>. HIDE DEF S
<1>4. n \in S
  BY <1>1, <1>2, <1>3, NaturalInduction
<1>5. QED
  BY <1>1, <1>4 DEF S

\* What lies in the region of a location lies in that of each it leads through.
LEMMA WithinOuter ==
  ASSUME Laid, Roomy, NEW n \in 0 .. MaxDepth, NEW x \in Here(n),
         NEW k \in 0 .. n, NEW z \in Here(k), Inner(z, x),
         NEW a \in Addresses, Within(At(x.loc), Extent(x.type), a)
  PROVE  Within(At(z.loc), Extent(z.type), a)
<1>. DEFINE W(y) == Within(At(y.loc), Extent(y.type), a)
            S == {m \in Nat : m <= MaxDepth =>
                    \A w \in Here(m) : W(w) =>
                      \A j \in 0 .. m : \A y \in Here(j) : Inner(y, w) => W(y)}
<1>1. MaxDepth \in Nat /\ contract \in Contracts
  BY TypesAssumption DEF Laid
<1>2. 0 \in S
  <2>1. SUFFICES ASSUME NEW w \in Here(0), W(w), NEW j \in 0 .. 0, NEW y \in Here(j), Inner(y, w)
                 PROVE  W(y)
    OBVIOUS
  <2>2. w = y
    BY <1>1, <2>1, InnerItself
  <2>3. QED
    BY <2>1, <2>2
<1>3. ASSUME NEW m \in Nat, m \in S PROVE m + 1 \in S
  <2>1. SUFFICES ASSUME m + 1 <= MaxDepth, NEW w \in Here(m + 1), W(w), NEW j \in 0 .. m + 1,
                        NEW y \in Here(j), Inner(y, w)
                 PROVE  W(y)
    OBVIOUS
  <2>2. m \in 0 .. MaxDepth /\ m + 1 \in 0 .. MaxDepth
    BY <1>1, <2>1
  <2>3. CASE j = m + 1
    <3>1. w = y
      BY <1>1, <2>1, <2>2, <2>3, InnerItself
    <3>2. QED
      BY <2>1, <3>1
  <2>4. CASE j # m + 1
    <3>1. PICK u \in Here(m) : \E p \in Components(u.type, 0) :
            /\ Part(w, u, p) /\ w.type = p.type
            /\ Access(w.loc) = Follow(contract, storage, Access(u.loc), p.step)
      BY <1>1, <2>2, HereInside
    <3>. PICK p \in Components(u.type, 0) :
            /\ Part(w, u, p) /\ w.type = p.type
            /\ Access(w.loc) = Follow(contract, storage, Access(u.loc), p.step)
      BY <3>1
    <3>2. /\ u.type \in Types[m] /\ u.loc \in Seq(Nat) /\ Len(u.loc) = m + 1
          /\ Denotes(Access(u.loc), u.type) /\ ~ Overlaps(u.type)
      BY <1>1, <2>2, HereType, RoomyInside
    <3>3. Access(u.loc).at \in Addresses
      BY <2>2, HereAddress DEF At
    <3>4. Within(Follow(contract, storage, Access(u.loc), p.step).at, Extent(p.type), a)
      BY <2>1 DEF At
    <3>. HIDE DEF S
    <3>5. W(u)
      BY <2>2, <3>2, <3>3, <3>4, WithinWhole DEF At
    <3>6. j \in 0 .. m /\ j \in 0 .. MaxDepth
      BY <1>1, <2>2, <2>4
    <3>7. Len(y.loc) = j + 1
      BY <1>1, <3>6, HereType
    <3>8. p.step \in Nat
      BY <2>2, <3>2, ComponentProps
    <3>9. Inner(y, u)
      BY <2>1, <3>2, <3>6, <3>7, <3>8, InnerPart
    <3>. HIDE DEF W
    <3>10. QED
      BY <1>1, <1>3, <2>2, <3>5, <3>6, <3>9 DEF S
  <2>. HIDE DEF S
  <2>5. QED
    BY <2>3, <2>4
<1>. HIDE DEF S, W
<1>4. n \in S
  BY <1>1, <1>2, <1>3, NaturalInduction
<1>5. QED
  BY <1>1, <1>4 DEF S, W

-----------------------------------------------------------------------------
(* Where nothing takes less room than it needs the slots are apart.        *)

\* What occupies storage on its own.
Occupies(t) == \/ t.cat \in Leaf \cup {"mapping"}
               \/ t.cat = "array" /\ t.len = Unsized

LEMMA OccupantHere ==
  ASSUME contract \in Contracts
  PROVE  /\ \A loc \in Occupants : \E n \in 0 .. MaxDepth : \E x \in Here(n) :
              x.loc = loc /\ Occupies(x.type)
         /\ \A n \in 0 .. MaxDepth : \A x \in Here(n) : Occupies(x.type) => x.loc \in Occupants
<1>1. ASSUME NEW loc \in Occupants
      PROVE  \E n \in 0 .. MaxDepth : \E x \in Here(n) : x.loc = loc /\ Occupies(x.type)
  <2>1. CASE loc \in Locations(0, Leaf \cup {"mapping"})
    BY <2>1, FoundAtLevel DEF Occupies, Here
  <2>2. CASE loc \in Locations(0, {"array"}) /\ Access(loc).type.len = Unsized
    <3>1. PICK n \in 0 .. MaxDepth : \E x \in Here(n) : x.loc = loc /\ x.type.cat \in {"array"}
      BY <2>2, FoundAtLevel DEF Here
    <3>. PICK x \in Here(n) : x.loc = loc /\ x.type.cat \in {"array"}
      BY <3>1
    <3>2. Access(loc).type = x.type
      BY HereType
    <3>3. QED
      BY <2>2, <3>2 DEF Occupies
  <2>3. QED
    BY <2>1, <2>2 DEF Occupants
<1>2. ASSUME NEW n \in 0 .. MaxDepth, NEW x \in Here(n), Occupies(x.type)
      PROVE  x.loc \in Occupants
  <2>1. CASE x.type.cat \in Leaf \cup {"mapping"}
    BY <2>1, FoundIsLocation DEF Here, Occupants
  <2>2. CASE x.type.cat = "array" /\ x.type.len = Unsized
    <3>1. x.loc \in Locations(0, {"array"})
      BY <2>2, FoundIsLocation DEF Here
    <3>2. Access(x.loc).type = x.type
      BY HereType
    <3>3. QED
      BY <2>2, <3>1, <3>2 DEF Occupants
  <2>3. QED
    BY <1>2, <2>1, <2>2 DEF Occupies
<1>3. QED
  BY <1>1, <1>2

LEMMA OccupiesProps ==
  ASSUME NEW d \in 0 .. MaxDepth, NEW t \in Types[d], Occupies(t)
  PROVE  /\ Extent(t) = 1
         /\ \A p \in Components(t, 0) : t.cat = "mapping"
<1>1. t \in AllTypes
  BY TypesAreTypes
<1>2. t.cat # "struct" /\ ~ Sized(t)
  BY DEF Occupies, Sized, Leaf, Scalars
<1>3. ASSUME NEW p \in Components(t, 0), t.cat # "mapping" PROVE FALSE
  BY <1>2, <1>3, PartBefore
<1>4. QED
  BY <1>1, <1>2, <1>3, ExtentProps

\* The next step from a location towards one that leads through it.
LEMMA NextStep ==
  ASSUME contract \in Contracts, NEW n \in 0 .. MaxDepth, NEW k \in 0 .. MaxDepth, n < k,
         NEW x \in Here(n), NEW y \in Here(k), Inner(x, y)
  PROVE  \E p \in Components(x.type, 0) : \E z \in Here(n + 1) :
           /\ Part(z, x, p) /\ z.type = p.type /\ Inner(z, y) /\ p.step = y.loc[n + 2]
           /\ Access(z.loc) = Follow(contract, storage, Access(x.loc), p.step)
<1>1. n \in Nat /\ n + 1 \in 0 .. k /\ n + 1 \in 0 .. MaxDepth
  BY TypesAssumption
<1>2. PICK z \in Here(n + 1) : Inner(z, y)
  BY <1>1, Through
<1>3. PICK u \in Here(n) : \E p \in Components(u.type, 0) :
        /\ Part(z, u, p) /\ z.type = p.type
        /\ Access(z.loc) = Follow(contract, storage, Access(u.loc), p.step)
  BY <1>1, HereInside
<1>. PICK p \in Components(u.type, 0) :
        /\ Part(z, u, p) /\ z.type = p.type
        /\ Access(z.loc) = Follow(contract, storage, Access(u.loc), p.step)
  BY <1>3
<1>4. /\ u.type \in Types[n] /\ u.loc \in Seq(Nat) /\ Len(u.loc) = n + 1
      /\ Len(x.loc) = n + 1 /\ Len(z.loc) = (n + 1) + 1 /\ Len(y.loc) = k + 1
  BY <1>1, HereType
<1>5. p.step \in Nat
  BY <1>4, ComponentProps
<1>6. Inner(u, z) /\ z.loc[n + 2] = p.step
  <2>1. Inner(u, z) /\ z.loc[(n + 1) + 1] = p.step
    BY <1>4, <1>5, InnerPart
  <2>2. (n + 1) + 1 = n + 2
    BY <1>1
  <2>3. QED
    BY <2>1, <2>2
<1>7. Inner(u, x)
  BY <1>1, <1>2, <1>4, <1>6 DEF Inner
<1>8. u = x
  BY <1>7, InnerItself
<1>9. z.loc[n + 2] = y.loc[n + 2]
  BY <1>1, <1>2, <1>4 DEF Inner
<1>10. QED
  BY <1>2, <1>6, <1>8, <1>9

\* The region of each location that leads to an occupant holds it.
LEMMA OccupantWithin ==
  ASSUME Laid, Roomy, NEW k \in 0 .. MaxDepth, NEW y \in Here(k), Occupies(y.type),
         NEW n \in 0 .. k, NEW x \in Here(n), Inner(x, y)
  PROVE  /\ Within(At(x.loc), Extent(x.type), At(y.loc))
         /\ Extent(x.type) \in Nat /\ Extent(x.type) > 0
<1>1. contract \in Contracts /\ n \in 0 .. MaxDepth
  BY TypesAssumption DEF Laid
<1>2. y.type \in Types[k] /\ x.type \in AllTypes
  BY <1>1, HereType
<1>3. At(y.loc) \in Addresses /\ At(x.loc) \in Addresses
  BY <1>1, HereAddress
<1>4. Within(At(y.loc), Extent(y.type), At(y.loc))
  <2>1. Extent(y.type) = 1
    BY <1>2, OccupiesProps
  <2>2. QED
    BY <1>3, <2>1, WithinItself
<1>5. Within(At(x.loc), Extent(x.type), At(y.loc))
  BY <1>3, <1>4, WithinOuter
<1>6. Extent(x.type) \in Nat
  BY <1>2, ExtentProps
<1>7. Extent(x.type) # 0
  <2>1. SUFFICES ASSUME Extent(x.type) = 0 PROVE FALSE
    OBVIOUS
  <2>2. \A i \in Nat : i .. i + 0 - 1 = {}
    OBVIOUS
  <2>3. At(x.loc).off \in Nat
    BY <1>3 DEF Addresses
  <2>4. QED
    BY <1>5, <2>1, <2>2, <2>3 DEF Within
<1>8. QED
  BY <1>5, <1>6, <1>7

\* A mapping and what is in it.
LEMMA ChainApart ==
  ASSUME Laid, Roomy, NEW n \in 0 .. MaxDepth, NEW k \in 0 .. MaxDepth, n < k,
         NEW x \in Here(n), NEW y \in Here(k), Inner(x, y), Occupies(x.type), Occupies(y.type)
  PROVE  At(x.loc) # At(y.loc)
<1>1. contract \in Contracts /\ n + 1 \in 0 .. k /\ n + 1 \in 0 .. MaxDepth
  BY TypesAssumption DEF Laid
<1>2. PICK p \in Components(x.type, 0) : \E z \in Here(n + 1) :
        /\ Part(z, x, p) /\ z.type = p.type /\ Inner(z, y) /\ p.step = y.loc[n + 2]
        /\ Access(z.loc) = Follow(contract, storage, Access(x.loc), p.step)
  BY <1>1, NextStep
<1>. PICK z \in Here(n + 1) :
        /\ Part(z, x, p) /\ z.type = p.type /\ Inner(z, y) /\ p.step = y.loc[n + 2]
        /\ Access(z.loc) = Follow(contract, storage, Access(x.loc), p.step)
  BY <1>2
<1>3. x.type \in Types[n] /\ Denotes(Access(x.loc), x.type)
  BY <1>1, HereType
<1>4. x.type.cat = "mapping"
  BY <1>3, OccupiesProps
<1>5. At(x.loc) \in Addresses /\ At(y.loc) \in Addresses
  BY HereAddress
<1>6. p.step \in Keys /\ At(z.loc) = Hash(At(x.loc), p.step)
  BY <1>3, <1>4, <1>5, PartPlace DEF At
<1>7. Within(At(z.loc), Extent(z.type), At(y.loc)) /\ Extent(z.type) \in Nat
  BY <1>1, OccupantWithin
<1>8. Len(At(y.loc).base) > Len(At(x.loc).base)
  <2>1. 1 \in Nat /\ 1 > 0
    OBVIOUS
  <2>2. QED
    BY <1>5, <1>6, <1>7, <2>1, WithinHash
<1>9. Len(At(x.loc).base) \in Nat
  BY <1>5, AddressProps
<1>10. QED
  BY <1>8, <1>9

\* Two elements of one word.
Sharing(l, m) == /\ Len(l) = Len(m) /\ Front(l) = Front(m)
                 /\ Access(l).shift # NoShift /\ Access(m).shift # NoShift

\* An occupant that is a number is the part itself that leads to it.
LEMMA PackedElement ==
  ASSUME contract \in Contracts, NEW n \in 0 .. MaxDepth, n + 1 \in 0 .. MaxDepth,
         NEW z \in Here(n), Packs(z.type), At(z.loc) \in Addresses,
         NEW p \in Components(z.type, 0), NEW w \in Here(n + 1), Part(w, z, p),
         Access(w.loc) = Follow(contract, storage, Access(z.loc), p.step),
         NEW k \in n + 1 .. MaxDepth, NEW x \in Here(k), Inner(w, x)
  PROVE  Len(x.loc) = n + 2 /\ Front(x.loc) = z.loc /\ Access(x.loc).shift # NoShift
<1>1. /\ z.type \in Types[n] /\ z.type \in AllTypes /\ Denotes(Access(z.loc), z.type)
      /\ z.loc \in Seq(Nat) /\ Len(z.loc) = n + 1 /\ w.type = p.type
      /\ n \in Nat /\ k \in 0 .. MaxDepth /\ w.type \in Types[n + 1]
  <2>1. MaxDepth \in Nat
    BY TypesAssumption
  <2>2. n \in Nat /\ k \in 0 .. MaxDepth
    BY <2>1
  <2>3. w.type = p.type
    BY DEF Part
  <2>4. w.type \in Types[n + 1]
    BY HereType
  <2>5. /\ z.type \in Types[n] /\ z.type \in AllTypes /\ Denotes(Access(z.loc), z.type)
        /\ z.loc \in Seq(Nat) /\ Len(z.loc) = n + 1
    BY HereType
  <2>6. QED
    BY <2>2, <2>3, <2>4, <2>5
<1>2. p.step \in Nat /\ p.type = z.type.elem
  BY <1>1, ComponentProps DEF Packs
<1>3. w.type.cat \in Scalars
  BY <1>1, <1>2, PerSlotProps DEF Packs
<1>4. k = n + 1
  <2>1. SUFFICES ASSUME n + 1 < k PROVE FALSE
    BY <1>1
  <2>2. \E q : q \in Components(w.type, 0)
    BY <1>1, <2>1, NextStep
  <2>3. w.type.cat \in {"mapping", "array", "struct"}
    BY <1>1, <2>2, ComponentProps
  <2>4. QED
    BY <1>3, <2>3 DEF Scalars
<1>5. x = w
  BY <1>4, InnerItself
<1>6. Access(w.loc).shift # NoShift
  <2>1. Access(z.loc).at \in Addresses
    BY DEF At
  <2>2. z.type \in Types[n] /\ Denotes(Access(z.loc), z.type)
    BY <1>1
  <2>3. Follow(contract, storage, Access(z.loc), p.step).shift # NoShift
    BY <2>1, <2>2, PartShift
  <2>4. QED
    BY <2>3
<1>7. w.loc = Append(z.loc, p.step)
  BY DEF Part
<1>8. Len(w.loc) = n + 2 /\ Front(w.loc) = z.loc
  <2>1. /\ w.loc \in Seq(Nat) /\ Len(w.loc) = (n + 1) + 1 /\ w.loc # <<>>
        /\ \A i \in 1 .. n + 1 : w.loc[i] = z.loc[i]
    BY <1>1, <1>2, <1>7, AppendElements
  <2>2. /\ Front(w.loc) \in Seq(Nat) /\ Len(Front(w.loc)) = Len(w.loc) - 1
        /\ \A i \in 1 .. (Len(w.loc) - 1) : Front(w.loc)[i] = w.loc[i]
    BY <2>1, FrontProps
  <2>3. Len(Front(w.loc)) = Len(z.loc) /\ (n + 1) + 1 = n + 2 /\ Len(w.loc) - 1 = n + 1
    BY <1>1, <2>1, <2>2
  <2>4. \A i \in 1 .. Len(Front(w.loc)) : Front(w.loc)[i] = z.loc[i]
    BY <1>1, <2>1, <2>2, <2>3
  <2>5. QED
    BY <1>1, <2>1, <2>2, <2>3, <2>4, SeqEqual
<1>9. QED
  BY <1>5, <1>6, <1>8

\* What lies behind different parts of a location.
LEMMA ForkApart ==
  ASSUME Laid, Roomy, NEW n \in 0 .. MaxDepth, NEW z \in Here(n),
         NEW k \in 0 .. MaxDepth, NEW l \in 0 .. MaxDepth, n < k, n < l,
         NEW x \in Here(k), NEW y \in Here(l), Inner(z, x), Inner(z, y),
         Occupies(x.type), Occupies(y.type), x.loc[n + 2] < y.loc[n + 2]
  PROVE  At(x.loc) # At(y.loc) \/ Sharing(x.loc, y.loc)
<1>1. /\ contract \in Contracts /\ n \in Nat /\ n + 1 \in 0 .. MaxDepth
      /\ n + 1 \in 0 .. k /\ n + 1 \in 0 .. l
      /\ k \in n + 1 .. MaxDepth /\ l \in n + 1 .. MaxDepth
  BY TypesAssumption DEF Laid
<1>2. PICK p \in Components(z.type, 0) : \E w \in Here(n + 1) :
        /\ Part(w, z, p) /\ w.type = p.type /\ Inner(w, x) /\ p.step = x.loc[n + 2]
        /\ Access(w.loc) = Follow(contract, storage, Access(z.loc), p.step)
  BY <1>1, NextStep
<1>3. PICK w \in Here(n + 1) :
        /\ Part(w, z, p) /\ w.type = p.type /\ Inner(w, x) /\ p.step = x.loc[n + 2]
        /\ Access(w.loc) = Follow(contract, storage, Access(z.loc), p.step)
  BY <1>2
<1>4. PICK q \in Components(z.type, 0) : \E v \in Here(n + 1) :
        /\ Part(v, z, q) /\ v.type = q.type /\ Inner(v, y) /\ q.step = y.loc[n + 2]
        /\ Access(v.loc) = Follow(contract, storage, Access(z.loc), q.step)
  BY <1>1, NextStep
<1>5. PICK v \in Here(n + 1) :
        /\ Part(v, z, q) /\ v.type = q.type /\ Inner(v, y) /\ q.step = y.loc[n + 2]
        /\ Access(v.loc) = Follow(contract, storage, Access(z.loc), q.step)
  BY <1>4
<1>6. z.type \in Types[n] /\ Denotes(Access(z.loc), z.type) /\ ~ Overlaps(z.type)
  BY <1>1, HereType, RoomyInside
<1>7. At(z.loc) \in Addresses /\ At(x.loc) \in Addresses /\ At(y.loc) \in Addresses
  BY HereAddress
<1>8. /\ Within(At(w.loc), Extent(w.type), At(x.loc))
      /\ Extent(w.type) \in Nat /\ Extent(w.type) > 0
  BY <1>1, <1>3, OccupantWithin
<1>9. /\ Within(At(v.loc), Extent(v.type), At(y.loc))
      /\ Extent(v.type) \in Nat /\ Extent(v.type) > 0
  BY <1>1, <1>5, OccupantWithin
<1>10. CASE z.type.cat = "mapping"
  <2>1. p.step \in Keys /\ At(w.loc) = Hash(At(z.loc), p.step)
    BY <1>3, <1>6, <1>7, <1>10, PartPlace DEF At
  <2>2. q.step \in Keys /\ At(v.loc) = Hash(At(z.loc), q.step)
    BY <1>5, <1>6, <1>7, <1>10, PartPlace DEF At
  <2>3. 1 \in Nat /\ 1 > 0
    OBVIOUS
  <2>4. At(x.loc).base[Len(At(z.loc).base) + 1] = <<At(z.loc).off, p.step>>
    BY <1>7, <1>8, <2>1, <2>3, WithinHash
  <2>5. At(y.loc).base[Len(At(z.loc).base) + 1] = <<At(z.loc).off, q.step>>
    BY <1>7, <1>9, <2>2, <2>3, WithinHash
  <2>6. p.step # q.step
    <3>1. p.step \in Nat /\ q.step \in Nat /\ p.step < q.step
      BY <1>3, <1>5, <2>1, <2>2, ValuesAssumption
    <3>2. QED
      BY <3>1
  <2>7. QED
    BY <2>4, <2>5, <2>6
<1>11. CASE Packs(z.type)
  <2>1. Len(x.loc) = n + 2 /\ Front(x.loc) = z.loc /\ Access(x.loc).shift # NoShift
    BY <1>1, <1>3, <1>7, <1>11, PackedElement
  <2>2. Len(y.loc) = n + 2 /\ Front(y.loc) = z.loc /\ Access(y.loc).shift # NoShift
    BY <1>1, <1>5, <1>7, <1>11, PackedElement
  <2>3. QED
    BY <2>1, <2>2 DEF Sharing
<1>12. CASE z.type.cat # "mapping" /\ ~ Packs(z.type)
  <2>1. At(w.loc) = Plus(At(z.loc), Before(z.type, p.step))
    BY <1>3, <1>6, <1>7, <1>12, PartPlace DEF At
  <2>2. At(v.loc) = Plus(At(z.loc), Before(z.type, q.step))
    BY <1>5, <1>6, <1>7, <1>12, PartPlace DEF At
  <2>3. Before(z.type, p.step) \in Nat
    BY <1>6, <1>12, PartBefore
  <2>4. Before(z.type, q.step) \in Nat
    BY <1>6, <1>12, PartBefore
  <2>5. Before(z.type, p.step) + Extent(p.type) <= Before(z.type, q.step)
    BY <1>3, <1>5, <1>6, <1>8, <1>9, <1>12, PartsApart
  <2>6. At(x.loc) # At(y.loc)
    BY <1>3, <1>7, <1>8, <1>9, <2>1, <2>2, <2>3, <2>4, <2>5, RegionsApart
  <2>7. QED
    BY <2>6
<1>13. QED
  BY <1>10, <1>11, <1>12

\* What lies behind different variables.
LEMMA RootsApart ==
  ASSUME Laid, Roomy, NEW k \in 0 .. MaxDepth, NEW l \in 0 .. MaxDepth,
         NEW x \in Here(k), NEW y \in Here(l),
         Occupies(x.type), Occupies(y.type), x.loc[1] < y.loc[1]
  PROVE  At(x.loc) # At(y.loc)
<1>. DEFINE ts == contract.vars
<1>1. /\ contract \in Contracts /\ IsList(ts) /\ ~ ShortBeforeOther(ts)
      /\ 0 \in 0 .. MaxDepth /\ 0 \in 0 .. k /\ 0 \in 0 .. l
  BY TypesAssumption, VarsList DEF Laid, Roomy
<1>2. PICK w \in Here(0) : Inner(w, x)
  BY <1>1, Through
<1>3. PICK v \in Here(0) : Inner(v, y)
  BY <1>1, Through
<1>4. PICK i \in 1 .. Len(ts) : /\ w = [loc |-> <<i>>, type |-> ts[i]]
                                /\ Up(Rooms(ts), i - 1) \in Nat
                                /\ At(w.loc) = Plus(Slot(0), Up(Rooms(ts), i - 1))
  BY HereRoot
<1>5. PICK j \in 1 .. Len(ts) : /\ v = [loc |-> <<j>>, type |-> ts[j]]
                                /\ Up(Rooms(ts), j - 1) \in Nat
                                /\ At(v.loc) = Plus(Slot(0), Up(Rooms(ts), j - 1))
  BY HereRoot
<1>. HIDE DEF ts
<1>6. x.loc[1] = i /\ y.loc[1] = j
  <2>1. ASSUME NEW a, NEW b, NEW c, a = [loc |-> <<b>>, type |-> c], NEW e, Inner(a, e)
        PROVE  e.loc[1] = b
    BY <2>1 DEF Inner
  <2>2. QED
    BY <1>2, <1>3, <1>4, <1>5, <2>1
<1>7. i \in 1 .. j - 1
  BY <1>1, <1>6 DEF IsList
<1>8. /\ Within(At(w.loc), Extent(w.type), At(x.loc))
      /\ Extent(w.type) \in Nat /\ Extent(w.type) > 0
  BY <1>1, <1>2, OccupantWithin
<1>9. /\ Within(At(v.loc), Extent(v.type), At(y.loc))
      /\ Extent(v.type) \in Nat /\ Extent(v.type) > 0
  BY <1>1, <1>3, OccupantWithin
<1>10. w.type = ts[i] /\ v.type = ts[j]
  BY <1>4, <1>5
<1>11. Up(Rooms(ts), i - 1) + Extent(w.type) <= Up(Rooms(ts), j - 1)
  BY <1>1, <1>7, <1>8, <1>9, <1>10, ListApart
<1>12. Slot(0) \in Addresses /\ At(x.loc) \in Addresses /\ At(y.loc) \in Addresses
  BY HereAddress DEF Slot, Addresses
<1>13. PICK b \in Nat, c \in Nat, m \in Nat, n \in Nat :
         /\ b = Up(Rooms(ts), i - 1) /\ m = Extent(w.type)
         /\ c = Up(Rooms(ts), j - 1) /\ n = Extent(v.type)
  BY <1>4, <1>5, <1>8, <1>9
<1>14. Within(Plus(Slot(0), b), m, At(x.loc)) /\ Within(Plus(Slot(0), c), n, At(y.loc))
  BY <1>4, <1>5, <1>8, <1>9, <1>13
<1>15. b + m <= c
  BY <1>11, <1>13
<1>16. QED
  BY <1>12, <1>14, <1>15, RegionsApart

LEMMA RoomyIsApart ==
  ASSUME Laid, Roomy
  PROVE  Apart
<1>1. contract \in Contracts /\ MaxDepth \in Nat
  BY TypesAssumption DEF Laid
<1>2. ASSUME NEW k \in 0 .. MaxDepth, NEW l \in 0 .. MaxDepth,
             NEW x \in Here(k), NEW y \in Here(l), Occupies(x.type), Occupies(y.type),
             x.loc # y.loc, k <= l
      PROVE  /\ At(x.loc) # At(y.loc) \/ Sharing(x.loc, y.loc)
             /\ At(y.loc) # At(x.loc) \/ Sharing(y.loc, x.loc)
  <2>0. SUFFICES At(x.loc) # At(y.loc) \/ Sharing(x.loc, y.loc)
    BY DEF Sharing
  <2>1. /\ x.loc \in Seq(Nat) /\ Len(x.loc) = k + 1 /\ y.loc \in Seq(Nat) /\ Len(y.loc) = l + 1
        /\ k \in Nat /\ l \in Nat
    BY <1>1, HereType
  <2>2. CASE Inner(x, y)
    <3>1. k # l
      BY <1>1, <1>2, <2>2, InnerItself
    <3>2. QED
      BY <1>2, <2>1, <2>2, <3>1, ChainApart
  <2>3. CASE ~ Inner(x, y)
    <3>. DEFINE T == {i \in 1 .. k + 1 : x.loc[i] # y.loc[i]}
    <3>1. \A j : j \in T <=> j \in 1 .. k + 1 /\ x.loc[j] # y.loc[j]
      OBVIOUS
    <3>. HIDE DEF T
    <3>2. PICK i \in T : \A j \in T : i <= j
      <4>1. Len(x.loc) <= Len(y.loc)
        BY <1>2, <2>1
      <4>2. PICK j \in 1 .. k + 1 : y.loc[j] # x.loc[j]
        BY <2>1, <2>3, <4>1 DEF Inner
      <4>3. j \in T
        BY <3>1, <4>2
      <4>4. T \subseteq Nat
        BY <2>1, <3>1
      <4>5. QED
        BY <4>3, <4>4, LeastNatural
    <3>3. \A j \in 1 .. i - 1 : x.loc[j] = y.loc[j]
      <4>1. ASSUME NEW j \in 1 .. i - 1, x.loc[j] # y.loc[j] PROVE FALSE
        <5>1. i \in 1 .. k + 1
          BY <3>1
        <5>2. j \in 1 .. k + 1
          BY <2>1, <5>1
        <5>3. j \in T
          BY <3>1, <4>1, <5>2
        <5>4. i <= j
          BY <3>2, <5>3
        <5>5. QED
          BY <2>1, <5>1, <5>4
      <4>2. QED
        BY <4>1
    <3>4. x.loc[i] \in Nat /\ y.loc[i] \in Nat /\ x.loc[i] # y.loc[i] /\ i \in 1 .. k + 1
      <4>1. i \in 1 .. k + 1 /\ x.loc[i] # y.loc[i]
        BY <3>1
      <4>2. x.loc \in Seq(Nat) /\ y.loc \in Seq(Nat)
        BY <2>1
      <4>3. i \in 1 .. Len(x.loc) /\ i \in 1 .. Len(y.loc)
        BY <1>2, <2>1, <4>1
      <4>4. \A s \in Seq(Nat) : \A j \in 1 .. Len(s) : s[j] \in Nat
        OBVIOUS
      <4>5. x.loc[i] \in Nat /\ y.loc[i] \in Nat
        BY <4>2, <4>3, <4>4
      <4>6. QED
        BY <4>1, <4>5
    <3>5. x.loc[i] < y.loc[i] \/ y.loc[i] < x.loc[i]
      BY <3>4
    <3>6. CASE i = 1
      <4>1. CASE x.loc[i] < y.loc[i]
        BY <1>2, <3>6, <4>1, RootsApart
      <4>2. CASE y.loc[i] < x.loc[i]
        <5>1. At(y.loc) # At(x.loc)
          BY <1>2, <3>6, <4>2, RootsApart
        <5>2. QED
          BY <5>1
      <4>3. QED
        BY <3>5, <4>1, <4>2
    <3>7. CASE i # 1
      <4>1. PICK n \in Nat : i = n + 2
        <5>1. \A j \in 1 .. k + 1 : j # 1 => j - 2 \in Nat /\ j = (j - 2) + 2
          BY <2>1
        <5>2. QED
          BY <3>4, <3>7, <5>1
      <4>2. n \in 0 .. MaxDepth /\ n \in 0 .. k /\ n < k /\ n < l
        BY <1>1, <1>2, <2>1, <3>4, <4>1
      <4>3. PICK z \in Here(n) : Inner(z, x)
        BY <1>1, <4>2, Through
      <4>4. Len(z.loc) = n + 1
        BY <1>1, <4>2, HereType
      <4>5. Inner(z, y)
        <5>1. Len(z.loc) <= Len(y.loc)
          BY <2>1, <4>1, <4>2, <4>4
        <5>2. ASSUME NEW j \in 1 .. Len(z.loc) PROVE y.loc[j] = z.loc[j]
          <6>1. j \in 1 .. i - 1
            BY <4>1, <4>4
          <6>2. QED
            BY <3>3, <4>3, <6>1 DEF Inner
        <5>3. QED
          BY <5>1, <5>2 DEF Inner
      <4>6. CASE x.loc[i] < y.loc[i]
        BY <1>2, <4>1, <4>2, <4>3, <4>5, <4>6, ForkApart
      <4>7. CASE y.loc[i] < x.loc[i]
        <5>1. At(y.loc) # At(x.loc) \/ Sharing(y.loc, x.loc)
          BY <1>2, <4>1, <4>2, <4>3, <4>5, <4>7, ForkApart
        <5>2. QED
          BY <5>1 DEF Sharing
      <4>8. QED
        BY <3>5, <4>6, <4>7
    <3>8. QED
      BY <3>6, <3>7
  <2>4. QED
    BY <2>2, <2>3
<1>3. ASSUME NEW l \in Occupants, NEW m \in Occupants, l # m
      PROVE  At(l) # At(m) \/ Sharing(l, m)
  <2>1. PICK i \in 0 .. MaxDepth : \E x \in Here(i) : x.loc = l /\ Occupies(x.type)
    BY <1>1, OccupantHere
  <2>2. PICK x \in Here(i) : x.loc = l /\ Occupies(x.type)
    BY <2>1
  <2>3. PICK j \in 0 .. MaxDepth : \E y \in Here(j) : y.loc = m /\ Occupies(y.type)
    BY <1>1, OccupantHere
  <2>4. PICK y \in Here(j) : y.loc = m /\ Occupies(y.type)
    BY <2>3
  <2>5. i <= j \/ j <= i
    BY <1>1
  <2>6. QED
    BY <1>2, <1>3, <2>2, <2>4, <2>5
<1>4. QED
  BY <1>3 DEF Apart, Neighbours, Sharing, At

-----------------------------------------------------------------------------
(* Where something does, two occupants share a slot.                       *)

\* Every slot of the region of x is taken by an occupant that x leads to.
Filled(n, x) ==
  \A o \in 0 .. Extent(x.type) - 1 : \E k \in n .. MaxDepth : \E y \in Here(k) :
    Inner(x, y) /\ Occupies(y.type) /\ At(y.loc) = Plus(At(x.loc), o)

LEMMA Clash ==
  ASSUME contract \in Contracts, NEW k \in 0 .. MaxDepth, NEW l \in 0 .. MaxDepth,
         NEW y \in Here(k), NEW z \in Here(l), Occupies(y.type), Occupies(z.type),
         At(y.loc) = At(z.loc),
         NEW j \in Nat \ {0}, j <= k + 1, j <= l + 1, y.loc[j] # z.loc[j],
         k + 1 = j => Access(y.loc).shift = NoShift
  PROVE  ~ Apart
<1>1. y.loc \in Occupants /\ z.loc \in Occupants
  BY OccupantHere
<1>2. /\ y.loc \in Seq(Nat) /\ y.loc # <<>> /\ Len(y.loc) = k + 1
      /\ z.loc \in Seq(Nat) /\ z.loc # <<>> /\ Len(z.loc) = l + 1 /\ k \in Nat /\ l \in Nat
  BY HereType, TypesAssumption
<1>3. ASSUME Len(y.loc) = Len(z.loc), Front(y.loc) = Front(z.loc) PROVE k + 1 = j
  <2>1. SUFFICES ASSUME j < k + 1 PROVE FALSE
    BY <1>2
  <2>2. j \in 1 .. (Len(y.loc) - 1) /\ j \in 1 .. (Len(z.loc) - 1)
    BY <1>2, <1>3, <2>1
  <2>3. Front(y.loc)[j] = y.loc[j] /\ Front(z.loc)[j] = z.loc[j]
    BY <1>2, <2>2, FrontProps
  <2>4. QED
    BY <1>3, <2>3
<1>4. ~ (Len(y.loc) = Len(z.loc) /\ Neighbours(y.loc, z.loc))
  BY <1>3 DEF Neighbours
<1>5. y.loc # z.loc /\ Access(y.loc).at = Access(z.loc).at
  BY DEF At
<1>6. QED
  BY <1>1, <1>4, <1>5 DEF Apart

LEMMA PlusPlus ==
  ASSUME NEW a \in Addresses, NEW i \in Nat, NEW j \in Nat
  PROVE  Plus(Plus(a, i), j) = Plus(a, i + j)
<1>1. a.off \in Nat /\ a = [base |-> a.base, off |-> a.off]
  BY AddressProps
<1>2. Plus(a, i) = [base |-> a.base, off |-> a.off + i]
  BY <1>1 DEF Plus
<1>3. Plus(a, i + j) = [base |-> a.base, off |-> a.off + (i + j)]
  BY <1>1 DEF Plus
<1>4. Plus(Plus(a, i), j) = [base |-> a.base, off |-> (a.off + i) + j]
  <2>. DEFINE b == [base |-> a.base, off |-> a.off + i]
  <2>1. Plus(b, j) = [base |-> b.base, off |-> b.off + j]
    BY DEF Plus
  <2>2. QED
    BY <1>2, <2>1
<1>5. QED
  BY <1>1, <1>3, <1>4

LEMMA FilledPart ==
  ASSUME Laid, NEW n \in 0 .. MaxDepth, NEW x \in Here(n),
         NEW p \in Components(x.type, 0), x.type.cat # "mapping",
         NEW w, Part(w, x, p), Filled(n + 1, w),
         NEW q \in Nat, q < Extent(p.type)
  PROVE  \E k \in n + 1 .. MaxDepth : \E y \in Here(k) :
           /\ k \in 0 .. MaxDepth /\ n + 2 <= k + 1
           /\ Inner(x, y) /\ Occupies(y.type) /\ y.loc[n + 2] = p.step
           /\ At(y.loc) = Plus(At(x.loc), Before(x.type, p.step) + q)
           /\ ~ Packs(x.type) /\ k + 1 = n + 2 => Access(y.loc).shift = NoShift
<1>1. contract \in Contracts /\ n \in Nat
  BY TypesAssumption DEF Laid
<1>2. /\ n + 1 \in 0 .. MaxDepth /\ w \in Here(n + 1)
      /\ w.type = p.type /\ w.loc = Append(x.loc, p.step) /\ p.step \in Nat
      /\ Access(w.loc) = Follow(contract, storage, Access(x.loc), p.step)
  BY <1>1, InsideIsHere
<1>3. /\ x.type \in Types[n] /\ Denotes(Access(x.loc), x.type)
      /\ x.loc \in Seq(Nat) /\ Len(x.loc) = n + 1
  BY <1>1, HereType
<1>4. Access(x.loc).at \in Addresses /\ At(x.loc) \in Addresses
  BY HereAddress DEF At
<1>5. Extent(w.type) \in Nat /\ q \in 0 .. Extent(w.type) - 1
  <2>1. w.type \in AllTypes
    BY <1>1, <1>2, HereType
  <2>2. QED
    BY <1>2, <2>1, ExtentProps
<1>6. PICK k \in n + 1 .. MaxDepth : \E y \in Here(k) :
        Inner(w, y) /\ Occupies(y.type) /\ At(y.loc) = Plus(At(w.loc), q)
  BY <1>5 DEF Filled
<1>7. PICK y \in Here(k) :
        Inner(w, y) /\ Occupies(y.type) /\ At(y.loc) = Plus(At(w.loc), q)
  BY <1>6
<1>8. k \in 0 .. MaxDepth /\ k \in Nat /\ n + 2 <= k + 1
  BY <1>1, TypesAssumption
<1>9. Len(y.loc) = k + 1 /\ Len(w.loc) = n + 2 /\ w.loc[n + 2] = p.step /\ Inner(x, w)
  <2>1. Len(w.loc) = Len(x.loc) + 1 /\ w.loc[Len(x.loc) + 1] = p.step /\ Inner(x, w)
    BY <1>2, <1>3, InnerPart
  <2>2. Len(x.loc) + 1 = n + 2
    BY <1>1, <1>3
  <2>3. QED
    BY <1>1, <1>8, <2>1, <2>2, HereType
<1>10. Inner(x, y) /\ y.loc[n + 2] = p.step
  <2>1. n + 2 \in 1 .. Len(w.loc)
    BY <1>1, <1>9
  <2>2. y.loc[n + 2] = p.step
    BY <1>7, <1>9, <2>1 DEF Inner
  <2>3. Inner(x, y)
    BY <1>1, <1>3, <1>7, <1>8, <1>9 DEF Inner
  <2>4. QED
    BY <2>2, <2>3
<1>11. At(y.loc) = Plus(At(x.loc), Before(x.type, p.step) + q)
  <2>1. At(w.loc) = Plus(At(x.loc), Before(x.type, p.step))
    <3>1. Follow(contract, storage, Access(x.loc), p.step).at
            = Plus(Access(x.loc).at, Before(x.type, p.step))
      <4>1. PICK a : a = Access(x.loc)
        OBVIOUS
      <4>2. Denotes(a, x.type) /\ a.at \in Addresses /\ x.type \in Types[n]
        BY <1>3, <1>4, <4>1
      <4>3. Follow(contract, storage, a, p.step).at = Plus(a.at, Before(x.type, p.step))
        BY <4>2, PartAt
      <4>4. QED
        BY <4>1, <4>3
    <3>2. QED
      BY <1>2, <3>1 DEF At
  <2>2. Before(x.type, p.step) \in Nat
    BY <1>3, PartBefore
  <2>3. Plus(Plus(At(x.loc), Before(x.type, p.step)), q)
          = Plus(At(x.loc), Before(x.type, p.step) + q)
    BY <1>4, <2>2, PlusPlus
  <2>4. QED
    BY <1>7, <2>1, <2>3
<1>12. ASSUME ~ Packs(x.type), k + 1 = n + 2 PROVE Access(y.loc).shift = NoShift
  <2>1. k = n + 1
    BY <1>1, <1>8, <1>12
  <2>2. y = w
    BY <1>1, <1>2, <1>7, <2>1, InnerItself
  <2>3. Follow(contract, storage, Access(x.loc), p.step).shift = NoShift
    BY <1>3, <1>4, <1>12, PartNoShift
  <2>4. QED
    BY <1>2, <2>2, <2>3
<1>13. QED
  BY <1>7, <1>8, <1>10, <1>11, <1>12

\* Two parts of a location, one of which starts inside the other.
LEMMA PartsClash ==
  ASSUME Laid, NEW n \in 0 .. MaxDepth, NEW x \in Here(n), x.type.cat # "mapping",
         ~ Packs(x.type),
         NEW p \in Components(x.type, 0), NEW u, Part(u, x, p), Filled(n + 1, u),
         NEW q \in Components(x.type, 0), NEW w, Part(w, x, q), Filled(n + 1, w),
         p.step # q.step, NEW o \in Nat, o < Extent(p.type), Extent(q.type) > 0,
         Before(x.type, p.step) + o = Before(x.type, q.step)
  PROVE  ~ Apart
<1>1. contract \in Contracts /\ n \in Nat
  BY TypesAssumption DEF Laid
<1>2. PICK k \in n + 1 .. MaxDepth : \E y \in Here(k) :
           /\ k \in 0 .. MaxDepth /\ n + 2 <= k + 1
           /\ Inner(x, y) /\ Occupies(y.type) /\ y.loc[n + 2] = p.step
           /\ At(y.loc) = Plus(At(x.loc), Before(x.type, p.step) + o)
           /\ ~ Packs(x.type) /\ k + 1 = n + 2 => Access(y.loc).shift = NoShift
  BY FilledPart
<1>3. PICK y \in Here(k) :
           /\ k \in 0 .. MaxDepth /\ n + 2 <= k + 1
           /\ Inner(x, y) /\ Occupies(y.type) /\ y.loc[n + 2] = p.step
           /\ At(y.loc) = Plus(At(x.loc), Before(x.type, p.step) + o)
           /\ ~ Packs(x.type) /\ k + 1 = n + 2 => Access(y.loc).shift = NoShift
  BY <1>2
<1>4. PICK l \in n + 1 .. MaxDepth : \E z \in Here(l) :
           /\ l \in 0 .. MaxDepth /\ n + 2 <= l + 1
           /\ Inner(x, z) /\ Occupies(z.type) /\ z.loc[n + 2] = q.step
           /\ At(z.loc) = Plus(At(x.loc), Before(x.type, q.step) + 0)
           /\ ~ Packs(x.type) /\ l + 1 = n + 2 => Access(z.loc).shift = NoShift
  BY FilledPart
<1>5. PICK z \in Here(l) :
           /\ l \in 0 .. MaxDepth /\ n + 2 <= l + 1
           /\ Inner(x, z) /\ Occupies(z.type) /\ z.loc[n + 2] = q.step
           /\ At(z.loc) = Plus(At(x.loc), Before(x.type, q.step) + 0)
           /\ ~ Packs(x.type) /\ l + 1 = n + 2 => Access(z.loc).shift = NoShift
  BY <1>4
<1>6. Before(x.type, q.step) + 0 = Before(x.type, q.step)
  <2>1. x.type \in Types[n]
    BY <1>1, HereType
  <2>2. Before(x.type, q.step) \in Nat
    BY <2>1, PartBefore
  <2>3. QED
    BY <2>2
<1>7. At(y.loc) = At(z.loc)
  BY <1>3, <1>5, <1>6
<1>8. n + 2 \in Nat \ {0}
  BY <1>1
<1>9. QED
  BY <1>1, <1>3, <1>5, <1>7, <1>8, Clash

-----------------------------------------------------------------------------
Fine(n, x) == ~ Overlaps(x.type) /\ Filled(n, x)

PartsFine(n, x) ==
  \A p \in Components(x.type, 0) :
    Fine(n + 1, [loc |-> Append(x.loc, p.step), type |-> p.type])

LEMMA SlotOfPart ==
  ASSUME Laid, NEW n \in 0 .. MaxDepth, NEW x \in Here(n), PartsFine(n, x),
         NEW p \in Components(x.type, 0), x.type.cat # "mapping",
         NEW q \in Nat, q < Extent(p.type)
  PROVE  \E k \in n .. MaxDepth : \E y \in Here(k) :
           /\ Inner(x, y) /\ Occupies(y.type)
           /\ At(y.loc) = Plus(At(x.loc), Before(x.type, p.step) + q)
<1>. DEFINE w == [loc |-> Append(x.loc, p.step), type |-> p.type]
<1>1. Part(w, x, p) /\ Filled(n + 1, w)
  BY DEF PartsFine, Fine, Part
<1>. HIDE DEF w
<1>2. PICK k \in n + 1 .. MaxDepth : \E y \in Here(k) :
           /\ k \in 0 .. MaxDepth /\ n + 2 <= k + 1
           /\ Inner(x, y) /\ Occupies(y.type) /\ y.loc[n + 2] = p.step
           /\ At(y.loc) = Plus(At(x.loc), Before(x.type, p.step) + q)
           /\ ~ Packs(x.type) /\ k + 1 = n + 2 => Access(y.loc).shift = NoShift
  BY <1>1, FilledPart
<1>3. k \in n .. MaxDepth
  BY TypesAssumption
<1>4. QED
  BY <1>2, <1>3

LEMMA PartsCannotMeet ==
  ASSUME Laid, Apart, NEW n \in 0 .. MaxDepth, NEW x \in Here(n), PartsFine(n, x),
         x.type.cat # "mapping", ~ Packs(x.type),
         NEW p \in Components(x.type, 0), NEW q \in Components(x.type, 0),
         p.step # q.step, NEW o \in Nat, o < Extent(p.type), Extent(q.type) > 0
  PROVE  Before(x.type, p.step) + o # Before(x.type, q.step)
<1>. DEFINE u == [loc |-> Append(x.loc, p.step), type |-> p.type]
            w == [loc |-> Append(x.loc, q.step), type |-> q.type]
<1>1. Part(u, x, p) /\ Filled(n + 1, u)
  BY DEF PartsFine, Fine, Part
<1>2. Part(w, x, q) /\ Filled(n + 1, w)
  BY DEF PartsFine, Fine, Part
<1>. HIDE DEF u, w
<1>3. QED
  BY <1>1, <1>2, PartsClash

LEMMA OccupantFine ==
  ASSUME Laid, NEW n \in 0 .. MaxDepth, NEW x \in Here(n), PartsFine(n, x),
         Occupies(x.type)
  PROVE  Fine(n, x)
<1>1. /\ contract \in Contracts /\ n \in Nat /\ n \in n .. MaxDepth
      /\ x.type \in Types[n] /\ x.type \in AllTypes /\ x.loc \in Seq(Nat)
  BY TypesAssumption, HereType DEF Laid
<1>2. Filled(n, x)
  <2>1. Extent(x.type) = 1
    BY <1>1, OccupiesProps
  <2>2. Inner(x, x)
    BY <1>1 DEF Inner
  <2>3. At(x.loc) = Plus(At(x.loc), 0)
    <3>1. PICK a \in Addresses : a = At(x.loc)
      BY HereAddress
    <3>2. a = [base |-> a.base, off |-> a.off] /\ a.off \in Nat
      BY AddressProps
    <3>3. Plus(a, 0) = [base |-> a.base, off |-> a.off + 0]
      BY <3>2 DEF Plus
    <3>4. QED
      BY <3>1, <3>2, <3>3
  <2>4. \A o \in 0 .. Extent(x.type) - 1 : o = 0
    BY <2>1
  <2>5. QED
    BY <1>1, <2>2, <2>3, <2>4 DEF Filled
<1>3. ~ Overlaps(x.type)
  <2>1. CASE x.type.cat = "mapping"
    <3>1. PICK k \in Keys : TRUE
      BY ValuesAssumption
    <3>. DEFINE p == [step |-> k, type |-> x.type.value]
    <3>2. p \in Components(x.type, 0)
      BY <2>1 DEF Components
    <3>3. Fine(n + 1, [loc |-> Append(x.loc, p.step), type |-> p.type])
      BY <3>2 DEF PartsFine
    <3>4. ~ Overlaps(x.type.value)
      BY <3>3 DEF Fine
    <3>5. QED
      BY <1>1, <2>1, <3>4, OverlapsProps
  <2>2. CASE x.type.cat = "array"
    <3>1. x.type.len = Unsized
      BY <2>2 DEF Occupies, Leaf, Scalars
    <3>2. QED
      BY <1>1, <2>2, <3>1, OverlapsProps
  <2>3. CASE x.type.cat \in Leaf
    <3>1. x.type.cat \notin {"array", "struct", "mapping"}
      BY <2>3 DEF Leaf, Scalars
    <3>2. QED
      BY <1>1, <3>1, OverlapsProps
  <2>4. QED
    BY <2>1, <2>2, <2>3 DEF Occupies
<1>4. QED
  BY <1>2, <1>3 DEF Fine

LEMMA StructFine ==
  ASSUME Laid, Apart, NEW n \in 0 .. MaxDepth, NEW x \in Here(n), PartsFine(n, x),
         x.type.cat = "struct"
  PROVE  Fine(n, x)
<1>. DEFINE ts == x.type.elems
            p(i) == [step |-> i, type |-> ts[i]]
<1>1. /\ contract \in Contracts /\ n \in Nat
      /\ x.type \in Types[n] /\ x.type \in AllTypes /\ ~ Packs(x.type)
  BY TypesAssumption, HereType DEF Laid, Packs
<1>2. IsList(ts)
  BY <1>1, StructList
<1>3. \A i \in 1 .. Len(ts) : p(i) \in Components(x.type, 0)
  BY <1>2 DEF Components, IsList
<1>4. \A i \in Nat : Before(x.type, i) = Up(Rooms(ts), i - 1)
  BY DEF Before
<1>5. ~ ShortBeforeOther(ts)
  <2>1. SUFFICES ASSUME ShortBeforeOther(ts) PROVE FALSE
    OBVIOUS
  <2>. HIDE DEF ts
  <2>2. PICK i \in 1 .. Len(ts), j \in 1 .. Len(ts), o \in Nat :
           /\ i < j /\ Extent(ts[j]) > 0 /\ o < Extent(ts[i])
           /\ Up(Rooms(ts), j - 1) = Up(Rooms(ts), i - 1) + o
    BY <1>2, <2>1, Collision
  <2>3. p(i) \in Components(x.type, 0) /\ p(j) \in Components(x.type, 0)
    BY <1>3
  <2>4. Len(ts) \in Nat /\ i \in Nat /\ j \in Nat
    BY <1>2 DEF IsList
  <2>5. p(i).step # p(j).step
    BY <2>2, <2>4
  <2>6. o < Extent(p(i).type) /\ Extent(p(j).type) > 0
    BY <2>2
  <2>7. Before(x.type, p(i).step) + o # Before(x.type, p(j).step)
    <3>. HIDE DEF p
    <3>1. QED
      BY <1>1, <2>3, <2>5, <2>6, PartsCannotMeet
  <2>8. QED
    BY <1>4, <2>2, <2>4, <2>7
<1>6. \A i \in 1 .. Len(ts) : ~ Overlaps(ts[i])
  <2>1. TAKE i \in 1 .. Len(ts)
  <2>2. p(i) \in Components(x.type, 0)
    BY <1>3
  <2>3. Fine(n + 1, [loc |-> Append(x.loc, p(i).step), type |-> p(i).type])
    BY <2>2 DEF PartsFine
  <2>4. QED
    BY <2>3 DEF Fine
<1>7. ~ Overlaps(x.type)
  BY <1>1, <1>2, <1>5, <1>6, OverlapsProps DEF IsList
<1>8. Filled(n, x)
  <2>1. Extent(x.type) = Up(Extents(ts), Len(ts)) /\ Extent(x.type) \in Nat
    BY <1>1, ExtentProps
  <2>. HIDE DEF ts
  <2>2. SUFFICES ASSUME NEW o \in 0 .. Extent(x.type) - 1
                 PROVE  \E k \in n .. MaxDepth : \E y \in Here(k) :
                          Inner(x, y) /\ Occupies(y.type) /\ At(y.loc) = Plus(At(x.loc), o)
    BY DEF Filled
  <2>3. o \in Nat /\ o < Up(Extents(ts), Len(ts)) /\ Len(ts) \in Nat
    BY <1>2, <2>1 DEF IsList
  <2>4. \A j \in 1 .. Len(ts) : Extents(ts)[j] = Extent(ts[j]) /\ Extents(ts)[j] \in Nat
    BY <1>2, ListProps
  <2>5. PICK i \in 1 .. Len(ts) :
          Up(Extents(ts), i - 1) <= o /\ o < Up(Extents(ts), i - 1) + Extents(ts)[i]
    BY <2>3, <2>4, UpFinds
  <2>6. PICK b \in Nat, e \in Nat : b = Up(Extents(ts), i - 1) /\ e = Extent(ts[i])
    <3>1. i - 1 \in 0 .. Len(ts)
      BY <2>3
    <3>2. QED
      BY <2>3, <2>4, <3>1, UpProps
  <2>7. b <= o /\ o < b + e
    BY <2>4, <2>5, <2>6
  <2>8. PICK q \in Nat : o = b + q /\ q < e
    <3>1. o - b \in Nat /\ o = b + (o - b) /\ o - b < e
      BY <2>3, <2>7
    <3>2. QED
      BY <3>1
  <2>9. Extent(ts[i]) > 0
    BY <2>6, <2>8
  <2>10. Up(Rooms(ts), i - 1) = b
    BY <1>2, <1>5, <2>6, <2>9, SideBySide
  <2>11. p(i) \in Components(x.type, 0) /\ q < Extent(p(i).type)
    BY <1>3, <2>6, <2>8
  <2>12. o = Before(x.type, p(i).step) + q
    BY <1>4, <2>3, <2>8, <2>10
  <2>13. x.type.cat # "mapping"
    OBVIOUS
  <2>14. PICK r \in Components(x.type, 0) : r = p(i)
    BY <2>11
  <2>15. q < Extent(r.type)
    BY <2>11, <2>14
  <2>16. o = Before(x.type, r.step) + q
    BY <2>12, <2>14
  <2>. HIDE DEF p
  <2>17. \E k \in n .. MaxDepth : \E y \in Here(k) :
           /\ Inner(x, y) /\ Occupies(y.type)
           /\ At(y.loc) = Plus(At(x.loc), Before(x.type, r.step) + q)
    BY <2>13, <2>15, SlotOfPart
  <2>18. QED
    BY <2>16, <2>17
<1>9. QED
  BY <1>7, <1>8 DEF Fine

LEMMA ArrayFine ==
  ASSUME Laid, Apart, NEW n \in 0 .. MaxDepth, NEW x \in Here(n), PartsFine(n, x),
         Sized(x.type)
  PROVE  Fine(n, x)
<1>. DEFINE t == x.type
            p(i) == [step |-> i, type |-> t.elem]
<1>1. contract \in Contracts /\ n \in Nat /\ t \in AllTypes /\ t.cat = "array" /\ t.len # Unsized
  BY TypesAssumption, HereType DEF Laid, Sized
<1>2. t.len \in Nat \ {0} /\ t.elem \in AllTypes /\ t.elem.cat # "struct"
  BY <1>1, AllTypesProps DEF Unsized
<1>3. PICK e \in Nat \ {0} : e = Extent(t.elem)
  BY <1>2, ExtentProps
<1>4. \A i \in 0 .. t.len - 1 : p(i) \in Components(t, 0)
  BY <1>1, <1>2 DEF Components
<1>5. ~ Overlaps(t.elem)
  <2>1. p(0) \in Components(t, 0)
    BY <1>2, <1>4
  <2>2. Fine(n + 1, [loc |-> Append(x.loc, p(0).step), type |-> p(0).type])
    BY <2>1 DEF PartsFine
  <2>3. QED
    BY <2>2 DEF Fine
<1>6. PerSlot(t) \in Nat \ {0} /\ (Packs(t) <=> PerSlot(t) # 1)
  BY <1>1, PerSlotProps DEF Packs
<1>7. \A i \in Nat : Before(t, i) = IF Packs(t) THEN i \div PerSlot(t) ELSE i
  BY <1>1, <1>6 DEF Before
<1>8. Packs(t) => e = 1
  BY <1>1, <1>2, <1>3, <1>6, PerSlotProps, ExtentProps DEF Scalars, Sized
<1>9. t.len > 1 => e = 1
  <2>1. SUFFICES ASSUME t.len > 1, e > 1 PROVE FALSE
    BY <1>3
  <2>2. ~ Packs(t)
    BY <1>8, <2>1
  <2>3. p(0) \in Components(t, 0) /\ p(1) \in Components(t, 0)
    BY <1>2, <1>4, <2>1
  <2>4. p(0).step # p(1).step /\ 1 < Extent(p(0).type) /\ Extent(p(1).type) > 0
    BY <1>3, <2>1
  <2>5. Before(t, p(0).step) + 1 # Before(t, p(1).step)
    <3>. HIDE DEF p
    <3>1. QED
      BY <1>1, <2>2, <2>3, <2>4, PartsCannotMeet
  <2>6. QED
    BY <1>7, <2>2, <2>5
<1>10. ~ Overlaps(t)
  <2>1. ~ (t.len > 1 /\ Short(t))
    BY <1>1, <1>3, <1>9 DEF Short
  <2>2. QED
    BY <1>1, <1>5, <2>1, OverlapsProps
<1>11. Filled(n, x)
  <2>1. SUFFICES ASSUME NEW o \in 0 .. Extent(t) - 1
                 PROVE  \E k \in n .. MaxDepth : \E y \in Here(k) :
                          Inner(x, y) /\ Occupies(y.type) /\ At(y.loc) = Plus(At(x.loc), o)
    BY DEF Filled
  <2>2. \E i \in 0 .. t.len - 1 : \E q \in Nat : q < e /\ o = Before(t, i) + q
    <3>1. CASE Packs(t)
      <4>1. Extent(t) = ArraySlots(t) /\ ArraySlots(t) \in Nat
        BY <1>1, <1>6, <3>1, ExtentProps, ArraySlotsProps DEF Sized
      <4>2. o * PerSlot(t) \in 0 .. t.len - 1 /\ (o * PerSlot(t)) \div PerSlot(t) = o
        BY <1>1, <4>1, ArraySlotsProps
      <4>3. Before(t, o * PerSlot(t)) = o
        <5>1. o * PerSlot(t) \in Nat
          BY <1>2, <4>2
        <5>2. QED
          BY <1>7, <3>1, <4>2, <5>1
      <4>4. o \in Nat /\ 0 < e
        BY <1>3, <4>1
      <4>5. QED
        BY <4>2, <4>3, <4>4
    <3>2. CASE ~ Packs(t)
      <4>1. Extent(t) = t.len * e
        BY <1>1, <1>3, <1>6, <3>2, ExtentProps DEF Sized
      <4>2. CASE t.len = 1
        <5>1. Extent(t) = e
          BY <1>3, <4>1, <4>2
        <5>2. 0 \in 0 .. t.len - 1 /\ Before(t, 0) = 0
          BY <1>7, <3>2, <4>2
        <5>3. o \in Nat /\ o < e /\ o = 0 + o
          BY <1>3, <5>1
        <5>4. QED
          BY <5>2, <5>3
      <4>3. CASE t.len > 1
        <5>1. e = 1 /\ Extent(t) = t.len
          BY <1>2, <1>9, <4>1, <4>3
        <5>2. o \in 0 .. t.len - 1 /\ o \in Nat
          BY <1>2, <5>1
        <5>3. Before(t, o) = o /\ o = o + 0
          BY <1>7, <3>2, <5>2
        <5>4. QED
          BY <5>1, <5>2, <5>3
      <4>4. QED
        BY <1>2, <4>2, <4>3
    <3>3. QED
      BY <3>1, <3>2
  <2>3. PICK i \in 0 .. t.len - 1, q \in Nat : q < e /\ o = Before(t, i) + q
    BY <2>2
  <2>4. p(i) \in Components(t, 0) /\ q < Extent(p(i).type) /\ o = Before(t, p(i).step) + q
    BY <1>3, <1>4, <2>3
  <2>. HIDE DEF p
  <2>5. \E k \in n .. MaxDepth : \E y \in Here(k) :
           /\ Inner(x, y) /\ Occupies(y.type)
           /\ At(y.loc) = Plus(At(x.loc), Before(t, p(i).step) + q)
    BY <1>1, <2>4, SlotOfPart
  <2>6. QED
    BY <2>4, <2>5
<1>12. QED
  BY <1>10, <1>11 DEF Fine

\* In a contract whose slots are apart nothing overlaps, and no slot is left
\* without an occupant.
LEMMA ApartIsFine ==
  ASSUME Laid, Apart, NEW n \in 0 .. MaxDepth, NEW x \in Here(n)
  PROVE  Fine(n, x)
<1>. DEFINE S == {t \in AllTypes : \A m \in 0 .. MaxDepth : \A y \in Here(m) :
                    y.type = t => Fine(m, y)}
<1>1. contract \in Contracts
  BY DEF Laid
<1>2. ASSUME NEW t \in AllTypes, Made(t) \subseteq S PROVE t \in S
  <2>1. SUFFICES ASSUME NEW m \in 0 .. MaxDepth, NEW y \in Here(m), y.type = t
                 PROVE  Fine(m, y)
    OBVIOUS
  <2>2. PartsFine(m, y)
    <3>1. SUFFICES ASSUME NEW p \in Components(y.type, 0)
                   PROVE  Fine(m + 1, [loc |-> Append(y.loc, p.step), type |-> p.type])
      BY DEF PartsFine
    <3>. DEFINE w == [loc |-> Append(y.loc, p.step), type |-> p.type]
    <3>2. Part(w, y, p)
      BY DEF Part
    <3>. HIDE DEF w
    <3>3. m + 1 \in 0 .. MaxDepth /\ w \in Here(m + 1) /\ w.type = p.type
      BY <1>1, <3>2, InsideIsHere
    <3>4. p.type \in Made(t)
      BY <2>1 DEF Components, Made
    <3>5. p.type \in S
      BY <1>2, <3>4
    <3>6. Fine(m + 1, w)
      BY <3>3, <3>5
    <3>7. QED
      BY <3>6 DEF w
  <2>. HIDE DEF S
  <2>3. CASE Occupies(t)
    BY <2>1, <2>2, <2>3, OccupantFine
  <2>4. CASE t.cat = "struct"
    BY <2>1, <2>2, <2>4, StructFine
  <2>5. CASE Sized(t)
    BY <2>1, <2>2, <2>5, ArrayFine
  <2>6. QED
    BY <2>3, <2>4, <2>5, AllTypesProps DEF Occupies, Sized, Leaf
<1>. HIDE DEF S
<1>3. AllTypes \subseteq S
  BY <1>2, TypeInduction
<1>4. x.type \in AllTypes
  BY <1>1, HereType
<1>5. QED
  BY <1>3, <1>4 DEF S

LEMMA ApartIsRoomy ==
  ASSUME Laid, Apart
  PROVE  Roomy
<1>. DEFINE ts == contract.vars
            x(v) == [loc |-> <<v>>, type |-> ts[v]]
<1>1. contract \in Contracts /\ 0 \in 0 .. MaxDepth
  BY TypesAssumption DEF Laid
<1>2. IsList(ts)
  BY <1>1, VarsList
<1>3. \A v \in 1 .. Len(ts) : x(v) \in Here(0)
  BY <1>1, <1>2, LevelSteps DEF Here, Variables, IsList
<1>4. \A v \in 1 .. Len(ts) : ~ Overlaps(ts[v]) /\ Filled(0, x(v))
  <2>1. TAKE v \in 1 .. Len(ts)
  <2>2. Fine(0, x(v))
    BY <1>1, <1>3, ApartIsFine
  <2>3. QED
    BY <2>2 DEF Fine
<1>5. ~ ShortBeforeOther(ts)
  <2>1. SUFFICES ASSUME ShortBeforeOther(ts) PROVE FALSE
    OBVIOUS
  <2>. HIDE DEF ts
  <2>2. PICK i \in 1 .. Len(ts), j \in 1 .. Len(ts), o \in Nat :
           /\ i < j /\ Extent(ts[j]) > 0 /\ o < Extent(ts[i])
           /\ Up(Rooms(ts), j - 1) = Up(Rooms(ts), i - 1) + o
    BY <1>2, <2>1, Collision
  <2>3. Len(ts) \in Nat /\ i \in Nat /\ j \in Nat /\ x(i) \in Here(0) /\ x(j) \in Here(0)
    BY <1>2, <1>3 DEF IsList
  <2>4. PICK b \in Nat, c \in Nat :
          /\ b = Up(Rooms(ts), i - 1) /\ c = Up(Rooms(ts), j - 1) /\ c = b + o
          /\ At(x(i).loc) = Plus(Slot(0), b) /\ At(x(j).loc) = Plus(Slot(0), c)
    <3>1. ASSUME NEW v \in 1 .. Len(ts)
          PROVE  /\ Up(Rooms(ts), v - 1) \in Nat
                 /\ At(x(v).loc) = Plus(Slot(0), Up(Rooms(ts), v - 1))
      <4>1. PICK u \in 1 .. Len(ts) :
              /\ x(v) = [loc |-> <<u>>, type |-> ts[u]]
              /\ Up(Rooms(ts), u - 1) \in Nat
              /\ At(x(v).loc) = Plus(Slot(0), Up(Rooms(ts), u - 1))
        <5>1. x(v) \in Here(0)
          BY <1>3
        <5>. HIDE DEF x
        <5>2. QED
          BY <5>1, HereRoot DEF ts
      <4>2. u = v
        <5>1. <<v>> = <<u>>
          BY <4>1
        <5>2. <<v>>[1] = <<u>>[1]
          BY <5>1
        <5>3. QED
          BY <5>2
      <4>3. QED
        BY <4>1, <4>2
    <3>2. QED
      BY <2>2, <3>1
  <2>5. PICK k \in 0 .. MaxDepth : \E y \in Here(k) :
          Inner(x(i), y) /\ Occupies(y.type) /\ At(y.loc) = Plus(At(x(i).loc), o)
    <3>1. o \in 0 .. Extent(x(i).type) - 1
      <4>1. Extent(ts[i]) \in Nat
        BY <1>2, ListProps
      <4>2. QED
        BY <2>2, <4>1
    <3>2. QED
      BY <1>4, <3>1 DEF Filled
  <2>6. PICK y \in Here(k) :
          Inner(x(i), y) /\ Occupies(y.type) /\ At(y.loc) = Plus(At(x(i).loc), o)
    BY <2>5
  <2>7. PICK l \in 0 .. MaxDepth : \E z \in Here(l) :
          Inner(x(j), z) /\ Occupies(z.type) /\ At(z.loc) = Plus(At(x(j).loc), 0)
    <3>1. 0 \in 0 .. Extent(x(j).type) - 1
      <4>1. Extent(ts[j]) \in Nat
        BY <1>2, ListProps
      <4>2. QED
        BY <2>2, <4>1
    <3>2. QED
      BY <1>4, <3>1 DEF Filled
  <2>8. PICK z \in Here(l) :
          Inner(x(j), z) /\ Occupies(z.type) /\ At(z.loc) = Plus(At(x(j).loc), 0)
    BY <2>7
  <2>9. At(y.loc) = At(z.loc)
    <3>1. Slot(0) \in Addresses
      BY DEF Slot, Addresses
    <3>2. Plus(Plus(Slot(0), b), o) = Plus(Slot(0), b + o)
      BY <3>1, PlusPlus
    <3>3. Plus(Plus(Slot(0), c), 0) = Plus(Slot(0), c + 0) /\ c + 0 = c
      BY <3>1, PlusPlus
    <3>4. QED
      BY <2>4, <2>6, <2>8, <3>2, <3>3
  <2>10. y.loc[1] = i /\ z.loc[1] = j /\ i # j
    <3>1. Len(<<i>>) = 1 /\ Len(<<j>>) = 1 /\ <<i>>[1] = i /\ <<j>>[1] = j
      OBVIOUS
    <3>2. 1 \in 1 .. Len(x(i).loc) /\ 1 \in 1 .. Len(x(j).loc)
      BY <3>1
    <3>3. y.loc[1] = x(i).loc[1] /\ z.loc[1] = x(j).loc[1]
      <4>. HIDE DEF x
      <4>1. QED
        BY <2>6, <2>8, <3>2 DEF Inner
    <3>4. x(i).loc[1] = i /\ x(j).loc[1] = j
      BY <3>1
    <3>5. QED
      BY <2>2, <2>3, <3>3, <3>4
  <2>11. k + 1 = 1 => Access(y.loc).shift = NoShift
    <3>1. SUFFICES ASSUME k = 0 PROVE Access(y.loc).shift = NoShift
      BY TypesAssumption
    <3>2. y \in Here(0)
      BY <3>1
    <3>3. QED
      BY <3>2, HereRoot
  <2>12. 1 \in Nat \ {0} /\ 1 <= k + 1 /\ 1 <= l + 1
    BY TypesAssumption
  <2>13. ~ Apart
    BY <1>1, <2>6, <2>8, <2>9, <2>10, <2>11, <2>12, Clash
  <2>14. QED
    BY <2>13
<1>6. QED
  BY <1>2, <1>4, <1>5 DEF Roomy, IsList

-----------------------------------------------------------------------------
(* Each variable declared so far has the slots behind those before it.     *)
Laying == /\ contract \in Contracts
          /\ Len(layout) \in 0 .. Len(contract.vars)
          /\ \A i \in 1 .. Len(layout) : layout[i] = Up(Rooms(contract.vars), i - 1)
          /\ layout \in Seq(Nat)
          /\ cursor = Up(Rooms(contract.vars), Len(layout))

LEMMA LayingStarts == StorageInit => Laying
<1>1. SUFFICES ASSUME StorageInit PROVE Laying
  OBVIOUS
<1>2. contract \in Contracts /\ layout = <<>> /\ cursor = 0
  BY <1>1 DEF StorageInit
<1>3. Len(contract.vars) \in Nat
  BY <1>2, VarsList DEF IsList
<1>4. layout \in Seq(Nat) /\ Len(layout) = 0
  BY <1>2
<1>5. cursor = Up(Rooms(contract.vars), Len(layout))
  BY <1>2, <1>4, UpSteps
<1>6. QED
  BY <1>2, <1>3, <1>4, <1>5 DEF Laying

LEMMA LayingStays == Laying /\ [StorageNext]_storageVars => Laying'
<1>1. SUFFICES ASSUME Laying, [StorageNext]_storageVars PROVE Laying'
  OBVIOUS
<1>2. CASE DeclareVar
  <2>. DEFINE ts == contract.vars
              n == Len(layout)
  <2>1. contract' = contract /\ layout' = Append(layout, cursor) /\ ~ Declared
    BY <1>2 DEF DeclareVar
  <2>2. cursor' = cursor + Room(ts[n + 1])
    BY <1>2 DEF DeclareVar, Room
  <2>3. IsList(ts) /\ layout \in Seq(Nat) /\ n \in 0 .. Len(ts) /\ contract \in Contracts
    BY <1>1, VarsList DEF Laying
  <2>4. n \in Nat /\ n + 1 \in 1 .. Len(ts) /\ Len(ts) \in Nat
    BY <2>1, <2>3 DEF Declared, IsList
  <2>5. \A j \in 1 .. Len(ts) : Rooms(ts)[j] = Room(ts[j]) /\ Rooms(ts)[j] \in Nat
    BY <2>3, ListProps
  <2>6. cursor = Up(Rooms(ts), n) /\ cursor \in Nat
    BY <1>1, <2>3, <2>4, <2>5, UpProps DEF Laying
  <2>7. cursor' = Up(Rooms(ts), n + 1)
    BY <2>2, <2>4, <2>5, <2>6, UpSteps
  <2>. HIDE DEF ts
  <2>8. /\ layout' \in Seq(Nat) /\ Len(layout') = n + 1
        /\ \A i \in 1 .. n : layout'[i] = layout[i]
        /\ layout'[n + 1] = cursor
    BY <2>1, <2>3, <2>6
  <2>9. ASSUME NEW i \in 1 .. Len(layout') PROVE layout'[i] = Up(Rooms(ts), i - 1)
    <3>1. CASE i = n + 1
      BY <2>4, <2>6, <2>8, <3>1
    <3>2. CASE i \in 1 .. n
      BY <1>1, <2>8, <3>2 DEF Laying, ts
    <3>3. QED
      BY <2>4, <2>8, <3>1, <3>2
  <2>10. Len(layout') \in 0 .. Len(ts) /\ cursor' = Up(Rooms(ts), Len(layout'))
    BY <2>4, <2>7, <2>8
  <2>11. contract' \in Contracts /\ contract'.vars = ts
    BY <2>1, <2>3 DEF ts
  <2>. HIDE DEF n
  <2>12. QED
    BY <2>8, <2>9, <2>10, <2>11 DEF Laying
<1>3. CASE UNCHANGED <<contract, layout, cursor>>
  BY <1>1, <1>3 DEF Laying
<1>4. QED
  BY <1>1, <1>2, <1>3 DEF StorageNext, storageVars, OutOfBoundRevert, Assign, Swap,
     CopyStruct, StoppedStorage

LEMMA LayingHolds == StorageSpec => []Laying
<1>1. StorageInit => Laying
  BY LayingStarts
<1>2. Laying /\ [StorageNext]_storageVars => Laying'
  BY LayingStays
<1>3. QED
  BY <1>1, <1>2, PTL DEF StorageSpec

(* No two variables, members, elements or entries share a slot if and only *)
(* if none is behind a struct, or behind an array of fixed arrays, and no  *)
(* such array has several elements: the two ways in which the code leaves  *)
(* less room than a type needs (CodeGenModule::emitVarDecl,                *)
(* Type::getStorageSize), at any depth and in any order.                   *)
THEOREM SlotsApartExactly == StorageSpec => []SlotsAreApart
<1>1. Laying => SlotsAreApart
  <2>1. SUFFICES ASSUME Laying, Declared PROVE Apart <=> Roomy
    BY DEF SlotsAreApart, Roomy
  <2>2. Laid
    <3>1. IsList(contract.vars)
      BY <2>1, VarsList DEF Laying
    <3>2. QED
      BY <2>1, <3>1 DEF Laid, Laying, Declared, IsList
  <2>3. QED
    BY <2>2, RoomyIsApart, ApartIsRoomy
<1>2. QED
  BY <1>1, LayingHolds, PTL
=============================================================================
