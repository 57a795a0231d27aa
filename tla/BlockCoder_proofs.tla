------------------------- MODULE BlockCoder_proofs --------------------------
(***************************************************************************)
(* BlockCoder for all coefficients that dct can give and any number of     *)
(* MCUs: the decoder follows, and gets what was coded.  Of the tables only *)
(* TablesFit is used.                                                      *)
(***************************************************************************)
EXTENDS BlockCoder, SequenceTheorems, WellFoundedInduction, TLAPS

-----------------------------------------------------------------------------
(* Induction *)

Less == {p \in Nat \X Nat : p[1] < p[2]}

\* A set of numbers has a least one.
LEMMA Least ==
  ASSUME NEW S \in SUBSET Nat, S # {}
  PROVE  \E k \in S : \A m \in S : k <= m
<1>1. IsWellFoundedOn(Less, Nat)
  <2>1. IsWellFoundedOn(OpToRel(<, Nat), Nat)
    BY NatLessThanWellFounded
  <2> QED
    BY <2>1 DEF OpToRel, Less
<1>2. PICK k \in S : \A m \in S : ~(<<m, k>> \in Less)
  BY <1>1, WFMin
<1>3. ASSUME NEW m \in S PROVE k <= m
  <2>1. <<m, k>> \in Nat \X Nat /\ ~(m < k)
    BY <1>2 DEF Less
  <2> QED
    BY <2>1
<1> QED
  BY <1>3

\* Induction over the numbers, for a set.
LEMMA Induction ==
  ASSUME NEW S, 0 \in S, \A k \in Nat : k \in S => k + 1 \in S
  PROVE  \A k \in Nat : k \in S
<1> DEFINE T == {k \in Nat : k \notin S}
<1> SUFFICES ASSUME T # {} PROVE FALSE
  OBVIOUS
<1>1. PICK k \in T : \A m \in T : k <= m
  BY Least
<1>2. k # 0 /\ k - 1 \in Nat /\ k - 1 \notin T
  BY <1>1
<1> QED
  BY <1>2

-----------------------------------------------------------------------------
(* Numbers and their bits *)

\* Quotient and remainder, also of negative numbers.
LEMMA DivMod ==
  ASSUME NEW x \in Int, NEW d \in Nat \ {0}
  PROVE  x \div d \in Int /\ x % d \in 0..d-1 /\ x = d * (x \div d) + (x % d)
OBVIOUS

\* Products, for the prover's arithmetic.
LEMMA Products ==
  ASSUME NEW x \in Int, NEW y \in Int, NEW z \in Int
  PROVE  /\ x * y \in Int /\ x * y = y * x
         /\ (x * y) * z = x * (y * z)
         /\ x * (y + z) = x * y + x * z
         /\ x * (y - z) = x * y - x * z
         /\ (x > 0 /\ y >= 1 => x * y >= x)
         /\ (x > 0 /\ y <= -1 => x * y <= -x)
OBVIOUS

\* There is only one quotient and only one remainder.
LEMMA Quotient ==
  ASSUME NEW d \in Nat \ {0}, NEW q \in Int, NEW r \in 0..d-1, NEW x, x = d * q + r
  PROVE  x \in Int /\ x \div d = q /\ x % d = r
<1>1. d * q \in Int /\ x \in Int
  OBVIOUS
<1> DEFINE p == x \div d
           s == x % d
<1>2. p \in Int /\ s \in 0..d-1 /\ x = d * p + s
  BY <1>1, DivMod
<1> HIDE DEF p, s
<1>3. /\ d * (p - q) = d * p - d * q /\ p - q \in Int /\ d * p \in Int
      /\ d * (p - q) \in Int
      /\ p - q >= 1 => d * (p - q) >= d
      /\ p - q <= -1 => d * (p - q) <= -d
  <2>1. p \in Int /\ q \in Int /\ p - q \in Int /\ d \in Int /\ d > 0
    BY <1>2
  <2> QED
    BY <2>1, Products
<1>4. d * (p - q) = r - s
  BY <1>1, <1>2, <1>3
<1>5. p - q = 0
  BY <1>2, <1>3, <1>4
<1>6. p = q /\ s = r
  <2>1. d * (p - q) = 0
    BY <1>5
  <2> QED
    BY <1>2, <1>4, <1>5, <2>1
<1> QED
  BY <1>1, <1>6 DEF p, s

\* One bit more: the next lower one.
LEMMA NextBit ==
  ASSUME NEW y \in Int, NEW e \in Nat \ {0}
  PROVE  y \div 2 \in Int /\ y % (2 * e) = 2 * ((y \div 2) % e) + (y % 2)
<1> DEFINE q == y \div 2
           b == y % 2
           a == q \div e
           r == q % e
<1>1. q \in Int /\ b \in 0..1 /\ y = 2 * q + b
  OBVIOUS
<1> HIDE DEF q, b
<1>2. a \in Int /\ r \in 0..e-1 /\ q = e * a + r
  BY <1>1, DivMod
<1> HIDE DEF a, r
<1>3. y = (2 * e) * a + (2 * r + b)
  <2>1. 2 * q = 2 * (e * a) + 2 * r /\ 2 * (e * a) = (2 * e) * a /\ (2 * e) * a \in Int
    BY <1>2
  <2> QED
    BY <1>1, <1>2, <2>1
<1> DEFINE d == 2 * e
           s == 2 * r + b
<1>4. s \in 0..d-1 /\ d \in Nat \ {0}
  BY <1>1, <1>2
<1>5. y = d * a + s
  BY <1>3
<1> HIDE DEF d, s
<1>6. y % d = s
  BY <1>2, <1>4, <1>5, Quotient
<1> QED
  BY <1>1, <1>6 DEF q, b, r, d, s

\* Half of a quotient.
LEMMA HalfQuotient ==
  ASSUME NEW x \in Int, NEW d \in Nat \ {0}
  PROVE  x \div d \in Int /\ x \div (2 * d) = (x \div d) \div 2
<1> DEFINE y == x \div d
           s == x % d
           q == y \div 2
           b == y % 2
<1>1. y \in Int /\ s \in 0..d-1 /\ x = d * y + s
  BY DivMod
<1> HIDE DEF y, s
<1>2. q \in Int /\ b \in 0..1 /\ y = 2 * q + b
  BY <1>1
<1> HIDE DEF q, b
<1>3. d * y = (2 * d) * q + d * b
  <2>1. d * y = d * (2 * q) + d * b
    BY <1>2, Products
  <2>2. d * (2 * q) = (2 * d) * q
    BY <1>2
  <2> QED
    BY <2>1, <2>2
<1> DEFINE e == 2 * d
           t == d * b + s
<1>4. t \in 0..e-1 /\ e \in Nat \ {0} /\ (2 * d) * q \in Int /\ d * b \in Int
  BY <1>1, <1>2
<1>5. x = e * q + t
  BY <1>1, <1>3, <1>4
<1> HIDE DEF e, t
<1>6. x \div e = q
  BY <1>2, <1>4, <1>5, Quotient
<1> QED
  BY <1>1, <1>6 DEF e, y, q

\* The powers of two grow.
LEMMA Powers ==
  /\ \A n \in 0..16 : Pow2[n] \in Nat \ {0}
  /\ \A n \in 1..16 : Pow2[n] = 2 * Pow2[n - 1]
  /\ \A m, n \in 0..16 : m <= n => Pow2[m] <= Pow2[n]
<1>1. \A n \in 0..16 : Pow2[n] \in Nat \ {0}
  BY Pow2Assumption
<1>2. ASSUME NEW n \in 1..16 PROVE Pow2[n] = 2 * Pow2[n - 1]
  <2>1. n - 1 \in 0..15 /\ (n - 1) + 1 = n
    OBVIOUS
  <2> QED
    BY <2>1, Pow2Assumption
<1> DEFINE S == {k \in Nat : \A m \in 0..16 : m + k <= 16 => Pow2[m] <= Pow2[m + k]}
<1>3. 0 \in S
  <2>1. \A m \in 0..16 : m + 0 = m /\ Pow2[m] <= Pow2[m]
    BY <1>1
  <2> QED
    BY <2>1
<1>4. ASSUME NEW k \in Nat, k \in S PROVE k + 1 \in S
  <2> SUFFICES ASSUME NEW m \in 0..16, m + (k + 1) <= 16 PROVE Pow2[m] <= Pow2[m + (k + 1)]
    OBVIOUS
  <2>1. m + (k + 1) \in 1..16 /\ (m + (k + 1)) - 1 = m + k /\ m + k \in 0..16
    OBVIOUS
  <2>2. Pow2[m + (k + 1)] = 2 * Pow2[m + k] /\ Pow2[m] <= Pow2[m + k]
    BY <1>2, <1>4, <2>1
  <2> QED
    BY <1>1, <2>1, <2>2
<1> HIDE DEF S
<1>5. \A k \in Nat : k \in S
  BY <1>3, <1>4, Induction
<1>6. ASSUME NEW m \in 0..16, NEW n \in 0..16, m <= n PROVE Pow2[m] <= Pow2[n]
  <2>1. n - m \in Nat /\ m + (n - m) = n
    BY <1>6
  <2>2. n - m \in S
    BY <1>5, <2>1
  <2> QED
    BY <2>1, <2>2 DEF S
<1> QED
  BY <1>1, <1>2, <1>6

-----------------------------------------------------------------------------
(* What Number reads of writebits *)

IsNumbers(s, m, g) == g = [n \in 0..m |-> IF n = 0 THEN 0 ELSE 2 * g[n - 1] + s[n]]

\* The recursion of Number has a solution.
LEMMA NumbersExist == ASSUME NEW s PROVE \A m \in Nat : \E g : IsNumbers(s, m, g)
<1> DEFINE S == {m \in Nat : \E g : IsNumbers(s, m, g)}
<1>1. 0 \in S
  <2> DEFINE g == [n \in 0..0 |-> 0]
             f == [n \in 0..0 |-> IF n = 0 THEN 0 ELSE 2 * g[n - 1] + s[n]]
  <2>1. g = f
    OBVIOUS
  <2>2. IsNumbers(s, 0, g)
    BY <2>1 DEF IsNumbers
  <2> QED
    BY <2>2
<1>2. ASSUME NEW m \in Nat, m \in S PROVE m + 1 \in S
  <2>1. PICK g : IsNumbers(s, m, g)
    BY <1>2
  <2> DEFINE Item(n) == IF n = 0 THEN 0 ELSE 2 * g[n - 1] + s[n]
             h == [n \in 0..m+1 |-> Item(n)]
             f == [n \in 0..m+1 |-> IF n = 0 THEN 0 ELSE 2 * h[n - 1] + s[n]]
  <2>2. ASSUME NEW n \in 0..m+1, n # 0 PROVE h[n - 1] = g[n - 1]
    <3>1. n - 1 \in 0..m /\ n - 1 \in 0..m+1
      BY <2>2
    <3>2. h[n - 1] = Item(n - 1)
      BY <3>1
    <3>3. g[n - 1] = Item(n - 1)
      BY <2>1, <3>1 DEF IsNumbers
    <3> QED
      BY <3>2, <3>3
  <2>3. ASSUME NEW n \in 0..m+1 PROVE h[n] = f[n]
    <3>1. h[n] = Item(n) /\ f[n] = IF n = 0 THEN 0 ELSE 2 * h[n - 1] + s[n]
      OBVIOUS
    <3> HIDE DEF h, f
    <3>2. CASE n = 0
      BY <3>1, <3>2
    <3>3. CASE n # 0
      BY <2>2, <3>1, <3>3
    <3> QED
      BY <3>2, <3>3
  <2>4. h = f
    BY <2>3
  <2>5. IsNumbers(s, m + 1, h)
    BY <2>4 DEF IsNumbers
  <2> QED
    BY <2>5
<1> HIDE DEF S
<1>3. \A m \in Nat : m \in S
  BY <1>1, <1>2, Induction
<1> QED
  BY <1>3 DEF S

\* Number is the last member of a solution.
LEMMA NumberIs ==
  ASSUME NEW s, Len(s) \in Nat
  PROVE  \E g : IsNumbers(s, Len(s), g) /\ Number(s) = g[Len(s)]
<1> DEFINE g == CHOOSE g : IsNumbers(s, Len(s), g)
<1>1. IsNumbers(s, Len(s), g)
  BY NumbersExist
<1>2. Number(s) = g[Len(s)]
  BY DEF Number, IsNumbers
<1> QED
  BY <1>1, <1>2

\* The bits are bits, as many as asked for.
LEMMA BitsType ==
  ASSUME NEW x \in Int, NEW m \in 0..16
  PROVE  writebits(x, m) \in Seq({0, 1}) /\ Len(writebits(x, m)) = m
<1>1. ASSUME NEW n \in 1..m PROVE (x \div Pow2[m - n]) % 2 \in {0, 1}
  <2>1. m - n \in 0..16
    OBVIOUS
  <2>2. Pow2[m - n] \in Nat \ {0}
    BY <2>1, Powers
  <2> DEFINE d == Pow2[m - n]
  <2> HIDE DEF d
  <2>3. x \div d \in Int
    BY <2>2, DivMod DEF d
  <2>4. \A y \in Int : y % 2 \in {0, 1}
    OBVIOUS
  <2> QED
    BY <2>3, <2>4 DEF d
<1>2. writebits(x, m) \in [1..m -> {0, 1}]
  BY <1>1 DEF writebits
<1>3. m \in Nat
  OBVIOUS
<1> QED
  BY <1>2, <1>3

\* writebits writes the lowest bits.
LEMMA NumberOfBits ==
  ASSUME NEW x \in Int, NEW m \in 0..16
  PROVE  Number(writebits(x, m)) = x % Pow2[m]
<1> DEFINE s == writebits(x, m)
<1>1. Len(s) = m /\ m \in Nat
  <2>1. Len(writebits(x, m)) = m
    BY BitsType
  <2> QED
    BY <2>1
<1>2. PICK g : IsNumbers(s, m, g) /\ Number(s) = g[m]
  BY <1>1, NumberIs
<1> DEFINE S == {n \in Nat : n <= m => g[n] = (x \div Pow2[m - n]) % Pow2[n]}
<1>3. 0 \in S
  <2>1. g[0] = 0
    BY <1>1, <1>2 DEF IsNumbers
  <2>2. Pow2[0] = 1 /\ Pow2[m] \in Nat \ {0} /\ m - 0 = m
    BY Powers, Pow2Assumption
  <2> DEFINE y == x \div Pow2[m]
  <2>3. y \in Int
    BY <2>2, DivMod
  <2> HIDE DEF y
  <2>4. y % 1 = 0
    BY <2>3
  <2> QED
    BY <2>1, <2>2, <2>4 DEF y
<1>4. ASSUME NEW n \in Nat, n \in S PROVE n + 1 \in S
  <2> SUFFICES ASSUME n + 1 <= m
               PROVE  g[n + 1] = (x \div Pow2[m - (n + 1)]) % Pow2[n + 1]
    OBVIOUS
  <2>1. /\ n + 1 \in 1..m /\ n + 1 # 0 /\ (n + 1) - 1 = n /\ n \in 0..16 /\ n + 1 \in 1..16
        /\ m - (n + 1) \in 0..16 /\ m - n \in 1..16 /\ (m - n) - 1 = m - (n + 1)
        /\ n + 1 \in 0..m
    OBVIOUS
  <2> DEFINE d == Pow2[m - (n + 1)]
             e == Pow2[n]
             y == x \div d
  <2>2. d \in Nat \ {0} /\ e \in Nat \ {0} /\ Pow2[m - n] = 2 * d /\ Pow2[n + 1] = 2 * e
    BY <2>1, Powers
  <2>3. g[n + 1] = 2 * g[n] + s[n + 1]
    BY <1>2, <2>1 DEF IsNumbers
  <2>4. s[n + 1] = y % 2
    BY <2>1 DEF writebits
  <2>5. g[n] = (x \div (2 * d)) % e
    BY <1>4, <2>1, <2>2
  <2> HIDE DEF d, e
  <2>6. y \in Int /\ x \div (2 * d) = y \div 2
    BY <2>2, HalfQuotient
  <2> HIDE DEF y
  <2>7. y % (2 * e) = 2 * ((y \div 2) % e) + (y % 2)
    BY <2>2, <2>6, NextBit
  <2>8. g[n + 1] = y % (2 * e)
    BY <2>3, <2>4, <2>5, <2>6, <2>7
  <2> QED
    BY <2>2, <2>8 DEF y, d, e
<1> HIDE DEF S
<1>5. \A n \in Nat : n \in S
  BY <1>3, <1>4, Induction
<1>6. g[m] = (x \div Pow2[m - m]) % Pow2[m]
  BY <1>1, <1>5 DEF S
<1>7. m - m = 0 /\ Pow2[0] = 1 /\ x \div 1 = x
  BY Pow2Assumption
<1> QED
  BY <1>2, <1>6, <1>7

-----------------------------------------------------------------------------
(* Magnitudes, and the bits of a value *)

\* The size of a number.
Size(v) == IF v < 0 THEN -v ELSE v

\* The magnitude is the number of bits, no larger than that of a larger number.
LEMMA Magnitude ==
  ASSUME NEW v \in Int, NEW top \in 0..16, Size(v) < Pow2[top]
  PROVE  LET m == huffman_magnitude(v)
         IN  /\ m \in 0..top /\ Size(v) < Pow2[m]
             /\ m > 0 => Pow2[m - 1] <= Size(v)
<1> DEFINE x == Size(v)
           Fit(m) == x \div Pow2[m] = 0 /\ (m > 0 => x \div Pow2[m - 1] > 0)
           S == {m \in Nat : m <= 16 /\ x < Pow2[m]}
           q == CHOOSE m \in 0..16 : Fit(m)
<1>1. x \in Nat
  BY DEF Size
<1>2. ASSUME NEW d \in Nat \ {0} PROVE (x \div d = 0 <=> x < d) /\ (x \div d > 0 <=> d <= x)
  <2> DEFINE y == x
  <2>1. y \in Nat
    BY <1>1
  <2> HIDE DEF y, x
  <2>2. (y \div d = 0 <=> y < d) /\ (y \div d > 0 <=> d <= y)
    BY <2>1
  <2> QED
    BY <2>2 DEF y
<1> HIDE DEF x
<1>3. ASSUME NEW m \in 0..16
      PROVE  Fit(m) <=> x < Pow2[m] /\ (m > 0 => Pow2[m - 1] <= x)
  <2>1. Pow2[m] \in Nat \ {0}
    BY Powers
  <2>2. m > 0 => Pow2[m - 1] \in Nat \ {0}
    <3>1. m > 0 => m - 1 \in 0..16
      OBVIOUS
    <3> QED
      BY <3>1, Powers
  <2> QED
    BY <1>2, <2>1, <2>2
<1>4. \E m \in 0..16 : Fit(m)
  <2>1. top \in S /\ S \subseteq Nat
    BY DEF x
  <2>2. PICK m \in S : \A k \in S : m <= k
    BY <2>1, Least
  <2>3. m \in 0..16 /\ x < Pow2[m]
    BY <2>2
  <2>4. m > 0 => Pow2[m - 1] <= x
    <3> SUFFICES ASSUME m > 0, ~(Pow2[m - 1] <= x) PROVE FALSE
      OBVIOUS
    <3>1. m - 1 \in 0..16 /\ m - 1 < m
      BY <2>3
    <3>2. Pow2[m - 1] \in Nat
      BY <3>1, Powers
    <3>3. m - 1 \in S
      BY <1>1, <3>1, <3>2
    <3> QED
      BY <2>2, <2>3, <3>1, <3>3
  <2> QED
    BY <1>3, <2>3, <2>4
<1>5. q \in 0..16 /\ Fit(q)
  BY <1>4
<1>6. huffman_magnitude(v) = q
  BY DEF huffman_magnitude, Size, x
<1> HIDE DEF q
<1>7. x < Pow2[q] /\ (q > 0 => Pow2[q - 1] <= x)
  BY <1>3, <1>5
<1>8. q <= top
  <2> SUFFICES ASSUME q > top PROVE FALSE
    BY <1>5
  <2>1. q - 1 \in 0..16 /\ top <= q - 1 /\ q > 0
    BY <1>5
  <2>2. Pow2[top] <= Pow2[q - 1] /\ Pow2[top] \in Nat /\ Pow2[q - 1] \in Nat
    BY <2>1, Powers
  <2>3. x < Pow2[top]
    BY DEF x
  <2> QED
    BY <1>1, <1>7, <2>1, <2>2, <2>3
<1> QED
  BY <1>5, <1>6, <1>7, <1>8 DEF x

\* EXTEND undoes huffman_bits: a value is read back from its own bits.
LEMMA ValueRead ==
  ASSUME NEW v \in Int, NEW top \in 0..16, Size(v) < Pow2[top]
  PROVE  LET m == huffman_magnitude(v)
         IN  /\ m \in 0..top /\ (m = 0 <=> v = 0)
             /\ Value(v) \in Seq({0, 1}) /\ Len(Value(v)) = m
             /\ Extend(Number(Value(v)), m) = v
<1> DEFINE m == huffman_magnitude(v)
           d == Pow2[m]
           b == huffman_bits(v)
<1>1. /\ m \in 0..top /\ Size(v) < d
      /\ m > 0 => Pow2[m - 1] <= Size(v)
  BY Magnitude
<1> HIDE DEF m
<1>2. m \in 0..16 /\ d \in Nat \ {0} /\ b \in Int
  BY <1>1, Powers DEF huffman_bits
<1>3. m = 0 => d = 1
  BY Pow2Assumption
<1>4. m > 0 => d = 2 * Pow2[m - 1] /\ Pow2[m - 1] \in Nat \ {0}
  <2>1. m > 0 => m \in 1..16 /\ m - 1 \in 0..16
    BY <1>2
  <2> QED
    BY <2>1, Powers
<1>5. m = 0 <=> v = 0
  BY <1>1, <1>2, <1>3, <1>4 DEF Size
<1>6. Value(v) = writebits(b, m)
  BY DEF Value, m
<1>7. Number(Value(v)) = b % d
  BY <1>2, <1>6, NumberOfBits
<1>8. Value(v) \in Seq({0, 1}) /\ Len(Value(v)) = m
  BY <1>2, <1>6, BitsType
<1> HIDE DEF d
<1>9. b % d = IF v < 0 THEN v - 1 + d ELSE v
  <2>1. CASE v < 0
    <3> DEFINE r == v - 1 + d
               q == -1
    <3>1. b = d * q + r /\ r \in 0..d-1 /\ q \in Int
      BY <1>1, <1>2, <2>1 DEF Size, huffman_bits
    <3> HIDE DEF b, r, q
    <3>2. b % d = r
      BY <1>2, <3>1, Quotient
    <3> QED
      BY <2>1, <3>2 DEF r
  <2>2. CASE ~(v < 0)
    <3> DEFINE q == 0
    <3>1. b = d * q + v /\ v \in 0..d-1 /\ q \in Int
      BY <1>1, <1>2, <2>2 DEF Size, huffman_bits
    <3> HIDE DEF b, q
    <3>2. b % d = v
      BY <1>2, <3>1, Quotient
    <3> QED
      BY <2>2, <3>2
  <2> QED
    BY <2>1, <2>2
<1>10. Extend(Number(Value(v)), m) = v
  <2>1. CASE m = 0
    BY <1>5, <1>7, <1>9, <2>1 DEF Extend
  <2>2. CASE m # 0 /\ v < 0
    <3>1. m > 0 /\ v - 1 + d < Pow2[m - 1]
      BY <1>1, <1>2, <1>4, <2>2 DEF Size
    <3> QED
      BY <1>2, <1>7, <1>9, <2>2, <3>1 DEF Extend, d
  <2>3. CASE m # 0 /\ ~(v < 0)
    <3>1. m > 0 /\ ~(v < Pow2[m - 1])
      BY <1>1, <1>2, <1>4, <2>3 DEF Size
    <3> QED
      BY <1>7, <1>9, <2>3, <3>1 DEF Extend
  <2> QED
    BY <2>1, <2>2, <2>3
<1> QED
  BY <1>1, <1>5, <1>8, <1>10 DEF m

-----------------------------------------------------------------------------
(* One symbol *)

Bits == Seq({0, 1})
Join(s, t) == s \o t

Decoders == [block : 1..4, k : 0..63, rest : Bits, pred : [Components -> Int], coef : Int]

\* Two parts of the bits, and how to take them apart.
LEMMA Parts ==
  ASSUME NEW word \in Bits, NEW more \in Bits, NEW s, s = Join(word, more)
  PROVE  /\ s \in Bits /\ Len(word) \in Nat /\ Len(more) \in Nat
         /\ Len(s) = Len(word) + Len(more)
         /\ SubSeq(s, Len(word) + 1, Len(word) + Len(more)) = more
<1>1. /\ s \in Bits /\ Len(word) \in Nat /\ Len(more) \in Nat
      /\ Len(s) = Len(word) + Len(more)
      /\ \A n \in 1..Len(word) : s[n] = word[n]
      /\ \A n \in 1..Len(more) : s[Len(word) + n] = more[n]
  BY DEF Join, Bits
<1>2. SubSeq(s, Len(word) + 1, Len(word) + Len(more)) = more
  <2> DEFINE r == SubSeq(s, Len(word) + 1, Len(word) + Len(more))
  <2>1. r \in Bits /\ Len(r) = Len(more) /\ \A n \in 1..Len(more) : r[n] = s[Len(word) + n]
    BY <1>1 DEF Bits
  <2> HIDE DEF r
  <2>2. \A n \in 1..Len(more) : r[n] = more[n]
    BY <1>1, <2>1
  <2>3. r = more
    BY <2>1, <2>2, SeqEqual DEF Bits
  <2> QED
    BY <2>3 DEF r
<1> QED
  BY <1>1, <1>2

LEMMA Beginning ==
  ASSUME NEW word \in Bits, NEW more \in Bits, NEW s, s = Join(word, more),
         NEW n \in 1..Len(word)
  PROVE  SubSeq(s, 1, n) = SubSeq(word, 1, n)
<1>1. /\ s \in Bits /\ Len(word) \in Nat /\ Len(s) \in Nat /\ Len(s) >= Len(word)
      /\ \A k \in 1..Len(word) : s[k] = word[k]
  BY DEF Join, Bits
<1>2. SubSeq(s, 1, n) = [j \in 1..n |-> s[j]]
  BY <1>1 DEF Bits
<1>3. SubSeq(word, 1, n) = [j \in 1..n |-> word[j]]
  BY <1>1 DEF Bits
<1> QED
  BY <1>1, <1>2, <1>3

\* Min of two numbers and of one.
LEMMA Mins ==
  /\ \A a, b \in Nat : Min({a, b}) = IF a <= b THEN a ELSE b
  /\ \A a \in Nat : Min({a}) = a
<1>1. ASSUME NEW a \in Nat, NEW b \in Nat PROVE Min({a, b}) = IF a <= b THEN a ELSE b
  BY DEF Min
<1>2. ASSUME NEW a \in Nat PROVE Min({a}) = a
  BY DEF Min
<1> QED
  BY <1>1, <1>2

\* A word that fits is the shortest code with which the bits begin.
LEMMA Matched ==
  ASSUME NEW t, NEW word, NEW symbol, Fits(t, word, symbol),
         NEW more \in Bits, NEW s, s = Join(word, more)
  PROVE  /\ CodeLengths(t, s) # {} /\ Min(CodeLengths(t, s)) = Len(word)
         /\ Symbol(t, s, Len(word)) = symbol
         /\ word \in Bits /\ Len(word) \in 1..16
<1> DEFINE n == Len(word)
<1>1. /\ word \in Bits /\ n \in Nat /\ Len(s) \in Nat /\ n <= Len(s)
      /\ CodeLengths(t, word) = {n} /\ Symbol(t, word, n) = symbol
  <2>1. word \in Bits /\ CodeLengths(t, word) = {n} /\ Symbol(t, word, n) = symbol
    BY DEF Fits, Bits
  <2>2. n \in Nat /\ Len(more) \in Nat /\ Len(s) = n + Len(more)
    BY <2>1, Parts
  <2> QED
    BY <2>1, <2>2
<1>2. \A j \in 1..n : SubSeq(s, 1, j) = SubSeq(word, 1, j)
  <2>1. \A j \in 1..Len(word) : SubSeq(s, 1, j) = SubSeq(word, 1, j)
    BY <1>1, Beginning
  <2> QED
    BY <2>1
<1> HIDE DEF n
<1>10. \A b \in Nat : Min({16, b}) = IF 16 <= b THEN 16 ELSE b
  BY Mins
<1>3. n \in 1..16
  <2>1. n \in CodeLengths(t, word)
    BY <1>1
  <2>2. n \in 1..Min({16, n})
    BY <2>1 DEF CodeLengths, n
  <2> QED
    BY <1>1, <1>10, <2>2
<1>4. ASSUME NEW j \in 1..n PROVE j \in CodeLengths(t, s) <=> j = n
  <2>1. j \in 1..Min({16, n}) /\ j \in 1..Min({16, Len(s)})
    BY <1>1, <1>3, <1>10
  <2>2. j \in CodeLengths(t, s) <=> j \in CodeLengths(t, word)
    BY <1>2, <2>1 DEF CodeLengths, n
  <2> QED
    BY <1>1, <2>2
<1> DEFINE L == CodeLengths(t, s)
<1>5. L \subseteq Nat /\ \A j \in L : j >= 1
  <2>1. Min({16, Len(s)}) \in Nat
    BY <1>1, <1>10
  <2> QED
    BY <2>1 DEF CodeLengths
<1>6. n \in L
  <2>1. n \in 1..n
    BY <1>3
  <2> QED
    BY <1>4, <2>1
<1> HIDE DEF L
<1>7. \A j \in L : n <= j
  <2> TAKE j \in L
  <2>1. j \in Nat /\ j >= 1 /\ (j \in 1..n => j = n)
    BY <1>4, <1>5 DEF L
  <2> QED
    BY <1>1, <2>1
<1>8. Min(L) = n
  <2>1. \A x \in L : (\A y \in L : x <= y) => x = n
    BY <1>5, <1>6, <1>7
  <2> QED
    BY <1>6, <1>7, <2>1 DEF Min
<1>9. Symbol(t, s, n) = symbol
  <2>1. n \in 1..n
    BY <1>3
  <2>2. SubSeq(s, 1, n) = SubSeq(word, 1, n)
    BY <1>2, <2>1
  <2> QED
    BY <1>1, <2>2 DEF Symbol
<1> QED
  BY <1>1, <1>3, <1>6, <1>8, <1>9 DEF L, n

\* Nothing is read of no bits.
LEMMA ReadNothing ==
  ASSUME NEW d, d.rest = << >>
  PROVE  ReadSymbol(d) = d
<1>1. Len(d.rest) = 0
  OBVIOUS
<1>2. Min({16, 0}) = 0
  BY Mins
<1>3. \A t : CodeLengths(t, d.rest) = {}
  BY <1>1, <1>2 DEF CodeLengths
<1> QED
  BY <1>3 DEF ReadSymbol

\* What the word of a symbol, and the bits that follow it, do to the decoder.
LEMMA SymbolRead ==
  ASSUME NEW d \in Decoders, NEW word, NEW symbol, NEW more \in Bits,
         d.rest = Join(word, more),
         Fits(IF d.k = 0 THEN DcCodes(Mcu[d.block]) ELSE AcCodes(Mcu[d.block]), word, symbol)
  PROVE  ReadSymbol(d) = After(d, Len(word), symbol)
<1> DEFINE t == IF d.k = 0 THEN DcCodes(Mcu[d.block]) ELSE AcCodes(Mcu[d.block])
           L == CodeLengths(t, d.rest)
<1>1. Fits(t, word, symbol)
  OBVIOUS
<1> HIDE DEF t
<1>2. L # {} /\ Min(L) = Len(word) /\ Symbol(t, d.rest, Len(word)) = symbol
  BY <1>1, Matched
<1>3. ReadSymbol(d) = IF L = {} THEN d ELSE After(d, Min(L), Symbol(t, d.rest, Min(L)))
  BY DEF ReadSymbol, t
<1> HIDE DEF L
<1> QED
  BY <1>2, <1>3

\* The place of a coefficient's successor.
NextK(k) == IF k = 63 THEN 0 ELSE k + 1
NextBlock(k, b) == IF k = 63 THEN (b % 4) + 1 ELSE b

\* What the decoder has of a first coefficient with the level x; the level from its bits.
DcDone(d, c1, x) ==
  [block |-> d.block, k |-> 1, rest |-> << >>, pred |-> [d.pred EXCEPT ![c1] = x],
   coef |-> x * Quantiser(c1, 0)]

DcLevel(d, c1, value, m) == d.pred[c1] + Extend(Number(value), m)

\* A difference: the decoder has the first coefficient and its predictor.
LEMMA ReadDc ==
  ASSUME NEW d \in Decoders, d.k = 0, NEW c1, c1 = Mcu[d.block],
         NEW m \in 0..15, NEW word, NEW value \in Bits, Len(value) = m,
         Fits(DcCodes(c1), word, m), d.rest = Join(word, value)
  PROVE  ReadSymbol(d) = DcDone(d, c1, DcLevel(d, c1, value, m))
<1> DEFINE n == Len(word)
<1>1. ReadSymbol(d) = After(d, n, m)
  BY SymbolRead
<1>2. word \in Bits /\ n \in 1..16
  BY Matched
<1>3. d.rest \in Bits /\ Len(d.rest) = n + m /\ SubSeq(d.rest, n + 1, n + m) = value
  BY <1>2, Parts
<1>4. m % 16 = m
  OBVIOUS
<1>5. SubSeq(d.rest, n + m + 1, Len(d.rest)) = << >>
  BY <1>2, <1>3 DEF Bits
<1> HIDE DEF n
<1>6. ~(Len(d.rest) < n + m)
  BY <1>2, <1>3
<1> DEFINE lev == Extend(Number(SubSeq(d.rest, n + 1, n + m)), m)
           y == d.pred[c1] + lev
<1>7. After(d, n, m) = Behind(d, 0, y, n + m, [d.pred EXCEPT ![c1] = y])
  BY <1>4, <1>6 DEF After
<1>8. y = DcLevel(d, c1, value, m)
  BY <1>3 DEF DcLevel
<1> HIDE DEF y
<1>9. Behind(d, 0, y, n + m, [d.pred EXCEPT ![c1] = y]) =
         [block |-> d.block, k |-> 1, rest |-> SubSeq(d.rest, n + m + 1, Len(d.rest)),
          pred |-> [d.pred EXCEPT ![c1] = y], coef |-> y * Quantiser(c1, 0)]
  BY DEF Behind
<1> QED
  BY <1>1, <1>5, <1>7, <1>8, <1>9 DEF DcDone

\* A level behind a run of zeros, not too long.
LEMMA ReadLevel ==
  ASSUME NEW d \in Decoders, NEW run \in 0..15, d.k > 0, d.k + run <= 63,
         NEW c1, c1 = Mcu[d.block],
         NEW m \in 1..15, NEW word, NEW value \in Bits, Len(value) = m,
         Fits(AcCodes(c1), word, 16 * run + m), d.rest = Join(word, value),
         NEW x, x = Extend(Number(value), m)
  PROVE  ReadSymbol(d) =
           [block |-> NextBlock(d.k + run, d.block), k |-> NextK(d.k + run),
            rest |-> << >>, pred |-> d.pred, coef |-> x * Quantiser(c1, d.k + run)]
<1> DEFINE n == Len(word)
           y == 16 * run + m
<1>0. d.k # 0 /\ d.k \in 0..63
  BY DEF Decoders
<1>1. ReadSymbol(d) = After(d, n, y)
  BY <1>0, SymbolRead
<1>2. word \in Bits /\ n \in 1..16
  BY Matched
<1>3. d.rest \in Bits /\ Len(d.rest) = n + m /\ SubSeq(d.rest, n + 1, n + m) = value
  BY <1>2, Parts
<1>4. y % 16 = m /\ y \div 16 = run /\ y # 240 /\ y # 0
  <2>1. y % 16 = m
    OBVIOUS
  <2>2. y \div 16 = run
    OBVIOUS
  <2>3. 240 % 16 = 0 /\ 0 % 16 = 0 /\ m # 0
    OBVIOUS
  <2> QED
    BY <2>1, <2>2, <2>3
<1>5. SubSeq(d.rest, n + m + 1, Len(d.rest)) = << >>
  BY <1>2, <1>3 DEF Bits
<1> HIDE DEF n, y
<1>6. ~(Len(d.rest) < n + m)
  BY <1>2, <1>3
<1> DEFINE lev == Extend(Number(SubSeq(d.rest, n + 1, n + m)), m)
<1>7. After(d, n, y) = Behind(d, d.k + run, lev, n + m, d.pred)
  BY <1>0, <1>4, <1>6 DEF After
<1>8. lev = x
  BY <1>3
<1> QED
  BY <1>1, <1>5, <1>7, <1>8 DEF Behind, NextK, NextBlock

\* The word for sixteen zeros.
LEMMA ReadZeros ==
  ASSUME NEW d \in Decoders, d.k > 0, d.k + 16 <= 63,
         NEW word, NEW more \in Bits,
         Fits(AcCodes(Mcu[d.block]), word, 240), d.rest = Join(word, more)
  PROVE  ReadSymbol(d) = [block |-> d.block, k |-> d.k + 16, rest |-> more,
                          pred |-> d.pred, coef |-> d.coef]
<1> DEFINE n == Len(word)
<1>0. d.k # 0 /\ d.k \in 0..63
  BY DEF Decoders
<1>1. ReadSymbol(d) = After(d, n, 240)
  BY <1>0, SymbolRead
<1>2. word \in Bits /\ n \in 1..16
  BY Matched
<1>3. /\ d.rest \in Bits /\ Len(more) \in Nat /\ Len(d.rest) = n + Len(more)
      /\ SubSeq(d.rest, n + 1, Len(d.rest)) = more
  <2>1. d.rest \in Bits /\ Len(more) \in Nat /\ Len(d.rest) = n + Len(more)
    BY <1>2, Parts
  <2>2. SubSeq(d.rest, n + 1, n + Len(more)) = more
    BY <1>2, Parts
  <2> QED
    BY <2>1, <2>2
<1>4. 240 % 16 = 0 /\ 240 \div 16 = 15
  OBVIOUS
<1> HIDE DEF n
<1>5. ~(Len(d.rest) < n + 0)
  BY <1>2, <1>3
<1>6. After(d, n, 240) = Skipped(d, d.k + 16, n)
  BY <1>0, <1>4, <1>5 DEF After
<1> QED
  BY <1>1, <1>3, <1>6 DEF Skipped

\* The end of a block.
LEMMA ReadEnd ==
  ASSUME NEW d \in Decoders, d.k > 0, NEW word,
         Fits(AcCodes(Mcu[d.block]), word, 0), d.rest = word
  PROVE  ReadSymbol(d) =
           [block |-> (d.block % 4) + 1, k |-> 0, rest |-> << >>, pred |-> d.pred, coef |-> d.coef]
<1> DEFINE n == Len(word)
<1>0. d.k # 0 /\ d.k \in 0..63
  BY DEF Decoders
<1>1. << >> \in Bits /\ Join(word, << >>) = word
  BY DEF Join, Bits, Fits
<1>2. ReadSymbol(d) = After(d, n, 0)
  BY <1>0, <1>1, SymbolRead
<1>3. word \in Bits /\ n \in 1..16
  BY <1>1, Matched
<1>4. 0 % 16 = 0 /\ 0 \div 16 = 0
  OBVIOUS
<1>5. SubSeq(d.rest, n + 1, Len(d.rest)) = << >>
  BY <1>3 DEF Bits
<1>6. ~(Len(d.rest) < n + 0)
  BY <1>3
<1> HIDE DEF n
<1>7. After(d, n, 0) = [Behind(d, 63, 0, n, d.pred) EXCEPT !.coef = d.coef]
  BY <1>0, <1>4, <1>6 DEF After
<1> QED
  BY <1>2, <1>5, <1>7 DEF Behind

-----------------------------------------------------------------------------
(* What a step of the encoder writes *)

LEMMA Joins ==
  ASSUME NEW a \in Bits, NEW b \in Bits, NEW e \in Bits
  PROVE  /\ Join(a, b) \in Bits
         /\ Join(Join(a, b), e) = Join(a, Join(b, e))
         /\ Join(<< >>, a) = a
<1>1. Join(a, b) \in Bits /\ Join(<< >>, a) = a
  BY DEF Join, Bits
<1> DEFINE p == Join(Join(a, b), e)
           q == Join(a, Join(b, e))
<1>2. p \in Bits /\ q \in Bits /\ Len(p) = Len(q) /\ Len(p) \in Nat
  BY DEF Join, Bits
<1>3. \A n \in 1..Len(p) : p[n] = q[n]
  BY DEF Join, Bits
<1> HIDE DEF p, q
<1>4. p = q
  BY <1>2, <1>3, SeqEqual DEF Bits
<1> QED
  BY <1>1, <1>4 DEF p, q

LEMMA FedIs ==
  ASSUME NEW d \in Decoders, d.rest = << >>, NEW s \in Bits
  PROVE  Fed(d, s) = [block |-> d.block, k |-> d.k, rest |-> s, pred |-> d.pred, coef |-> 0]
<1>1. d.rest \o s = s
  BY DEF Bits
<1> QED
  BY <1>1 DEF Fed

LEMMA FedDecoder ==
  ASSUME NEW d \in Decoders, d.rest = << >>, NEW s \in Bits
  PROVE  /\ Fed(d, s) \in Decoders /\ Fed(d, s).k = d.k /\ Fed(d, s).block = d.block
         /\ Fed(d, s).pred = d.pred /\ Fed(d, s).rest = s /\ Fed(d, s).coef = 0
<1>1. d.block \in 1..4 /\ d.k \in 0..63 /\ d.pred \in [Components -> Int]
  BY DEF Decoders
<1>2. [block |-> d.block, k |-> d.k, rest |-> s, pred |-> d.pred, coef |-> 0] \in Decoders
  BY <1>1 DEF Decoders
<1> QED
  BY <1>2, FedIs

\* Read reads five times.
LEMMA ReadIs ==
  ASSUME NEW d \in Decoders, d.rest = << >>, NEW s \in Bits,
         NEW r1, r1 = ReadSymbol(Fed(d, s)), NEW r2, r2 = ReadSymbol(r1),
         NEW r3, r3 = ReadSymbol(r2), NEW r4, r4 = ReadSymbol(r3), NEW r5, r5 = ReadSymbol(r4)
  PROVE  Read(d, s) = r5
<1> DEFINE fed == Fed(d, s)
           Is(g) == g = [n \in 0..5 |-> IF n = 0 THEN fed ELSE ReadSymbol(g[n - 1])]
           h == [n \in 0..5 |-> CASE n = 0 -> Fed(d, s) [] n = 1 -> r1 [] n = 2 -> r2
                                  [] n = 3 -> r3 [] n = 4 -> r4 [] n = 5 -> r5]
           g == CHOOSE x : Is(x)
<1>1. fed = Fed(d, s)
  OBVIOUS
<1> HIDE DEF fed
<1>2. /\ h[0] = Fed(d, s) /\ h[1] = r1 /\ h[2] = r2 /\ h[3] = r3 /\ h[4] = r4 /\ h[5] = r5
      /\ h = [n \in 0..5 |-> h[n]]
  OBVIOUS
<1> HIDE DEF h
<1>3. ASSUME NEW n \in 0..5 PROVE h[n] = IF n = 0 THEN fed ELSE ReadSymbol(h[n - 1])
  <2>1. n \in {0, 1, 2, 3, 4, 5}
    OBVIOUS
  <2> QED
    BY <1>1, <1>2, <2>1
<1>4. Is(h)
  <2> DEFINE f == [n \in 0..5 |-> IF n = 0 THEN fed ELSE ReadSymbol(h[n - 1])]
  <2>1. [n \in 0..5 |-> h[n]] = f
    BY <1>3
  <2> QED
    BY <1>2, <2>1
<1>5. Is(g)
  BY <1>4
<1>6. Read(d, s) = g[5]
  BY DEF Read, fed
<1> HIDE DEF g
<1>7. g[0] = Fed(d, s) /\ \A n \in 1..5 : g[n] = ReadSymbol(g[n - 1])
  BY <1>1, <1>5
<1>8. /\ g[1] = ReadSymbol(g[0]) /\ g[2] = ReadSymbol(g[1]) /\ g[3] = ReadSymbol(g[2])
      /\ g[4] = ReadSymbol(g[3]) /\ g[5] = ReadSymbol(g[4])
  <2>1. ASSUME NEW n \in 1..5, NEW k, k = n - 1 PROVE g[n] = ReadSymbol(g[k])
    BY <1>7, <2>1
  <2> QED
    BY <2>1
<1> QED
  BY <1>6, <1>7, <1>8

LEMMA ReadOnce ==
  ASSUME NEW d \in Decoders, d.rest = << >>, NEW s \in Bits,
         NEW r, r = ReadSymbol(Fed(d, s)), r.rest = << >>
  PROVE  Read(d, s) = r
BY ReadIs, ReadNothing

\* What the decoder is to be behind the level x of coefficient k.
Has(d, k, x) ==
  [block |-> NextBlock(k, d.block), k |-> NextK(k), rest |-> << >>, pred |-> d.pred,
   coef |-> x * Quantiser(Mcu[d.block], k)]

\* s are n words for sixteen zeros, that of a level x behind run zeros more, and its bits.
Coded(d, j, x, s, n, run, zrl, word, value, m) ==
  /\ d.rest = << >> /\ d.k > 0 /\ run \in 0..15 /\ n \in 0..3
  /\ j = d.k + 16 * n + run /\ j <= 63
  /\ Fits(AcCodes(Mcu[d.block]), zrl, 240)
  /\ Fits(AcCodes(Mcu[d.block]), word, 16 * run + m) /\ m \in 1..15
  /\ value \in Bits /\ Len(value) = m /\ x = Extend(Number(value), m)
  /\ n = 0 => s = Join(word, value)
  /\ n = 1 => s = Join(zrl, Join(word, value))
  /\ n = 2 => s = Join(zrl, Join(zrl, Join(word, value)))
  /\ n = 3 => s = Join(zrl, Join(zrl, Join(zrl, Join(word, value))))

\* A level behind some words for sixteen zeros.
LEMMA ZerosLevel ==
  ASSUME NEW d \in Decoders, NEW j, NEW x, NEW s, NEW n, NEW run, NEW zrl, NEW word,
         NEW value, NEW m, Coded(d, j, x, s, n, run, zrl, word, value, m)
  PROVE  Read(d, s) = Has(d, j, x)
<1> DEFINE c1 == Mcu[d.block]
           t == Join(word, value)
<1>0. /\ d.rest = << >> /\ d.k > 0 /\ run \in 0..15 /\ n \in 0..3
      /\ j = d.k + 16 * n + run /\ j <= 63
      /\ Fits(AcCodes(c1), zrl, 240)
      /\ Fits(AcCodes(c1), word, 16 * run + m) /\ m \in 1..15
      /\ value \in Bits /\ Len(value) = m /\ x = Extend(Number(value), m)
      /\ n = 0 => s = t
      /\ n = 1 => s = Join(zrl, t)
      /\ n = 2 => s = Join(zrl, Join(zrl, t))
      /\ n = 3 => s = Join(zrl, Join(zrl, Join(zrl, t)))
  BY DEF Coded
<1>16. t = Join(word, value) /\ c1 = Mcu[d.block]
  OBVIOUS
<1> HIDE DEF t, c1
<1>1. word \in Bits /\ zrl \in Bits
  BY <1>0 DEF Fits, Bits
<1> DEFINE t1 == Join(zrl, t)
           t2 == Join(zrl, t1)
           t3 == Join(zrl, t2)
<1>2. t \in Bits /\ t1 \in Bits /\ t2 \in Bits /\ t3 \in Bits
  BY <1>0, <1>1, <1>16, Joins
<1> HIDE DEF t1, t2, t3
<1> DEFINE At(k, u) == [block |-> d.block, k |-> k, rest |-> u, pred |-> d.pred, coef |-> 0]
           k0 == d.k
           k1 == k0 + 16
           k2 == k1 + 16
           k3 == k2 + 16
           r == Has(d, j, x)
<1>3. k0 \in 1..63 /\ j = k0 + 16 * n + run
  BY <1>0 DEF Decoders
<1>4. ASSUME NEW k \in 1..63, NEW u \in Bits
      PROVE  /\ At(k, u) \in Decoders /\ At(k, u).k = k /\ At(k, u).rest = u
             /\ At(k, u).block = d.block /\ At(k, u).pred = d.pred /\ At(k, u).coef = 0
  BY DEF Decoders
<1>5. /\ s \in Bits
      /\ n = 0 => s = t
      /\ n = 1 => s = Join(zrl, t)
      /\ n = 2 => s = Join(zrl, t1) /\ t1 = Join(zrl, t)
      /\ n = 3 => s = Join(zrl, t2) /\ t2 = Join(zrl, t1) /\ t1 = Join(zrl, t)
  <2>1. n \in {0, 1, 2, 3}
    BY <1>0
  <2> QED
    BY <1>0, <1>2, <2>1 DEF t1, t2, t3
<1>6. Fed(d, s) = At(k0, s)
  BY <1>0, <1>5, FedIs
<1> HIDE DEF At, k0
<1>7. ASSUME NEW k \in 1..63, k + run = j
      PROVE  ReadSymbol(At(k, t)) = r
  <2> DEFINE e == At(k, t)
  <2>1. /\ e \in Decoders /\ e.k = k /\ e.rest = Join(word, value)
        /\ e.block = d.block /\ e.pred = d.pred
    BY <1>2, <1>4, <1>16
  <2> HIDE DEF e
  <2>2. e.k > 0 /\ e.k + run <= 63
    <3>1. k > 0 /\ k + run <= 63
      BY <1>0, <1>7
    <3> QED
      BY <2>1, <3>1
  <2>4. c1 = Mcu[e.block]
    BY <1>16, <2>1
  <2>3. ReadSymbol(e) =
          [block |-> NextBlock(e.k + run, e.block), k |-> NextK(e.k + run),
           rest |-> << >>, pred |-> e.pred, coef |-> x * Quantiser(c1, e.k + run)]
    BY <1>0, <2>1, <2>2, <2>4, ReadLevel
  <2> QED
    BY <1>7, <1>16, <2>1, <2>3 DEF e, Has
<1>8. ASSUME NEW k \in 1..63, NEW k9 \in 1..63, k9 = k + 16, NEW u \in Bits
      PROVE  ReadSymbol(At(k, Join(zrl, u))) = At(k9, u)
  <2>1. Join(zrl, u) \in Bits
    BY <1>1, Joins
  <2> DEFINE e == At(k, Join(zrl, u))
  <2>2. /\ e \in Decoders /\ e.k = k /\ e.rest = Join(zrl, u)
        /\ e.block = d.block /\ e.pred = d.pred /\ e.coef = 0
    BY <1>4, <2>1
  <2> HIDE DEF e
  <2>3. e.k > 0 /\ e.k + 16 <= 63
    <3>1. k > 0 /\ k + 16 <= 63
      BY <1>8
    <3> QED
      BY <2>2, <3>1
  <2>6. Fits(AcCodes(Mcu[e.block]), zrl, 240)
    BY <1>0, <1>16, <2>2
  <2>4. ReadSymbol(e) = [block |-> e.block, k |-> e.k + 16, rest |-> u,
                         pred |-> e.pred, coef |-> e.coef]
    BY <2>2, <2>3, <2>6, ReadZeros
  <2>5. ReadSymbol(e) = At(k9, u)
    BY <1>8, <2>2, <2>4 DEF At
  <2> QED
    BY <2>5 DEF e
<1>9. ReadSymbol(r) = r
  <2>1. r.rest = << >>
    BY DEF Has
  <2> HIDE DEF r
  <2> QED
    BY <2>1, ReadNothing
<1> HIDE DEF r
<1>10. /\ n \in {0, 1, 2, 3}
       /\ n = 0 => k0 + run = j
       /\ n = 1 => k1 \in 1..63 /\ k1 + run = j
       /\ n = 2 => k1 \in 1..63 /\ k2 \in 1..63 /\ k2 + run = j
       /\ n = 3 => k1 \in 1..63 /\ k2 \in 1..63 /\ k3 \in 1..63 /\ k3 + run = j
  BY <1>0, <1>3
<1>11. k1 = k0 + 16 /\ k2 = k1 + 16 /\ k3 = k2 + 16
  OBVIOUS
<1>12. ASSUME NEW u \in Bits
       PROVE  /\ k1 \in 1..63 => ReadSymbol(At(k0, Join(zrl, u))) = At(k1, u)
              /\ k1 \in 1..63 /\ k2 \in 1..63 => ReadSymbol(At(k1, Join(zrl, u))) = At(k2, u)
              /\ k2 \in 1..63 /\ k3 \in 1..63 => ReadSymbol(At(k2, Join(zrl, u))) = At(k3, u)
  <2> HIDE DEF k1, k2, k3
  <2>1. k1 \in 1..63 => ReadSymbol(At(k0, Join(zrl, u))) = At(k1, u)
    BY <1>3, <1>8, <1>11
  <2>2. k1 \in 1..63 /\ k2 \in 1..63 => ReadSymbol(At(k1, Join(zrl, u))) = At(k2, u)
    BY <1>8, <1>11
  <2>3. k2 \in 1..63 /\ k3 \in 1..63 => ReadSymbol(At(k2, Join(zrl, u))) = At(k3, u)
    BY <1>8, <1>11
  <2> QED
    BY <2>1, <2>2, <2>3
<1> HIDE DEF k1, k2, k3
<1>13. Read(d, s) = r
  <2>1. CASE n = 0
    <3>1. ReadSymbol(At(k0, s)) = r
      BY <1>3, <1>5, <1>7, <1>10, <2>1
    <3> QED
      BY <1>5, <1>6, <1>9, <3>1, <1>0, ReadIs
  <2>2. CASE n = 1
    <3>1. ReadSymbol(At(k0, s)) = At(k1, t)
      BY <1>2, <1>5, <1>10, <1>12, <2>2
    <3>2. ReadSymbol(At(k1, t)) = r
      BY <1>7, <1>10, <2>2
    <3> QED
      BY <1>5, <1>6, <1>9, <3>1, <3>2, <1>0, ReadIs
  <2>3. CASE n = 2
    <3>1. ReadSymbol(At(k0, s)) = At(k1, t1)
      BY <1>2, <1>5, <1>10, <1>12, <2>3
    <3>2. ReadSymbol(At(k1, t1)) = At(k2, t)
      BY <1>2, <1>5, <1>10, <1>12, <2>3
    <3>3. ReadSymbol(At(k2, t)) = r
      BY <1>7, <1>10, <2>3
    <3> QED
      BY <1>5, <1>6, <1>9, <3>1, <3>2, <3>3, <1>0, ReadIs
  <2>4. CASE n = 3
    <3>1. ReadSymbol(At(k0, s)) = At(k1, t2)
      BY <1>2, <1>5, <1>10, <1>12, <2>4
    <3>2. ReadSymbol(At(k1, t2)) = At(k2, t1)
      BY <1>2, <1>5, <1>10, <1>12, <2>4
    <3>3. ReadSymbol(At(k2, t1)) = At(k3, t)
      BY <1>2, <1>5, <1>10, <1>12, <2>4
    <3>4. ReadSymbol(At(k3, t)) = r
      BY <1>7, <1>10, <2>4
    <3> QED
      BY <1>5, <1>6, <1>9, <3>1, <3>2, <3>3, <3>4, <1>0, ReadIs
  <2> QED
    BY <1>10, <2>1, <2>2, <2>3, <2>4
<1> QED
  BY <1>13 DEF r

-----------------------------------------------------------------------------
(* The reciprocals *)

\* A product with a number between bounds is between the products.
LEMMA Scaled ==
  ASSUME NEW x \in Nat, NEW y \in Int, NEW b \in Nat
  PROVE  /\ x * y \in Int /\ x * b \in Nat
         /\ y <= b => x * y <= x * b
         /\ -b <= y => -(x * b) <= x * y
<1>1. x * y \in Int /\ x * b \in Nat
  OBVIOUS
<1>2. x * (b - y) = x * b - x * y /\ x * (y + b) = x * y + x * b
  OBVIOUS
<1>3. ASSUME NEW z \in Nat PROVE x * z >= 0
  OBVIOUS
<1>4. y <= b => b - y \in Nat
  OBVIOUS
<1>5. -b <= y => y + b \in Nat
  OBVIOUS
<1> DEFINE xb == x * b
           xy == x * y
<1> HIDE DEF xb, xy
<1>6. y <= b => xb - xy >= 0
  BY <1>2, <1>3, <1>4 DEF xb, xy
<1>7. -b <= y => xy + xb >= 0
  BY <1>2, <1>3, <1>5 DEF xb, xy
<1>8. xy \in Int /\ xb \in Nat
  BY <1>1 DEF xb, xy
<1>9. /\ y <= b => xy <= xb
      /\ -b <= y => -xb <= xy
  BY <1>6, <1>7, <1>8
<1> QED
  BY <1>8, <1>9 DEF xb, xy

\* Multiplying by a rounded reciprocal r of q rounds to a near level.
LEMMA QuantizeNear ==
  ASSUME NEW data \in Coefficients, NEW q \in Nat \ {0}, NEW r \in Nat,
         2 * (q * r - 1024) \in -q..q,
         NEW x, x = quantize(data, r)
  PROVE  x \in Int /\ Size(x) <= r /\ x * q - data \in -q+1..q-1
<1> DEFINE e == (IF data < 0 THEN 1 ELSE 0) + 511
           p == data * r
           f == (p + e) % 1024
           g == e - f
<1>1. e \in 511..512 /\ (e = 512 <=> data < 0) /\ data \in -1024..1023
  BY DEF Coefficients
<1>2. x = (p + e) \div 1024
  BY <1>1 DEF quantize
<1>3. p \in Int /\ p = r * data
  BY <1>1
<1>4. r * data <= r * 1023 /\ -(r * 1024) <= r * data
  BY <1>1, Scaled
<1>5. data < 0 => r * data <= 0
  BY <1>1, Scaled
<1>6. data >= 0 => r * data >= 0
  BY <1>1, Scaled
<1> HIDE DEF e, p
<1>7. x \in Int /\ f \in 0..1023 /\ 1024 * x = p + e - f
  <2> DEFINE s == p + e
  <2>1. s \in Int
    BY <1>1, <1>3
  <2> HIDE DEF s
  <2>2. s \div 1024 \in Int /\ s % 1024 \in 0..1023 /\ s = 1024 * (s \div 1024) + (s % 1024)
    BY <2>1, DivMod
  <2> QED
    BY <1>1, <1>2, <1>3, <2>2 DEF s
<1> HIDE DEF f
<1>8. -r <= x /\ x <= r
  <2> DEFINE a == r * data
  <2> HIDE DEF a
  <2>1. /\ a = p /\ a <= r * 1023 /\ -(r * 1024) <= a
        /\ data < 0 => a <= 0
        /\ data >= 0 => a >= 0
    BY <1>3, <1>4, <1>5, <1>6 DEF a
  <2>2. x <= r
    BY <1>1, <1>3, <1>7, <2>1
  <2>3. -r <= x
    BY <1>1, <1>3, <1>7, <2>1
  <2> QED
    BY <2>2, <2>3
<1>9. Size(x) <= r
  BY <1>7, <1>8 DEF Size
<1> DEFINE u == q * r - 1024
           w == x * q - data
<1>10. u \in Int /\ w \in Int /\ g \in -512..512 /\ 2 * u <= q /\ -q <= 2 * u
  BY <1>1, <1>7
<1>11. 1024 * w = data * u + q * g
  <2>1. 1024 * (x * q) = (1024 * x) * q
    BY <1>7
  <2>2. 1024 * x = p + g
    BY <1>7, <1>1, <1>3
  <2>3. (p + g) * q = p * q + q * g /\ p * q \in Int /\ q * g \in Int
    BY <1>3, <1>10
  <2>4. p * q = data * (q * r)
    BY <1>1 DEF p
  <2>5. data * u = data * (q * r) - 1024 * data
    BY <1>1
  <2> DEFINE a == data * (q * r)
             b == q * g
             xq == x * q
             du == data * u
  <2>6. 1024 * xq = a + b /\ du = a - 1024 * data /\ a \in Int /\ b \in Int /\ xq \in Int
    BY <1>1, <1>7, <1>10, <2>1, <2>2, <2>3, <2>4, <2>5
  <2>7. w = xq - data
    OBVIOUS
  <2> HIDE DEF a, b, xq, du, w, u, g
  <2> QED
    BY <1>1, <2>6, <2>7 DEF du, b
<1>12. q * g <= q * 512 /\ -(q * 512) <= q * g /\ q * g \in Int
  BY <1>10, Scaled
<1>13. w < q /\ -q < w
  <2>1. CASE data = -1024
    <3>1. p = -1024 * r /\ e = 512
      BY <1>1, <2>1 DEF p
    <3>2. f = 512
      <4> DEFINE z == -r
      <4>1. z \in Int /\ p + e = 1024 * z + 512 /\ 512 \in 0..1023
        BY <3>1
      <4> HIDE DEF z
      <4>2. (p + e) % 1024 = 512
        BY <4>1, Quotient
      <4> QED
        BY <4>2 DEF f
    <3>3. g = 0 /\ q * g = 0
      BY <3>1, <3>2
    <3>4. data * u = -1024 * u
      BY <2>1
    <3> HIDE DEF w, u, g
    <3>5. w = -u
      BY <1>10, <1>11, <3>3, <3>4
    <3> QED
      BY <1>10, <3>5
  <2>2. CASE data # -1024
    <3>1. data \in -1023..1023
      BY <1>1, <2>2
    <3> DEFINE v == 2 * u
               du == data * u
    <3> HIDE DEF u, w, g
    <3>2. v \in Int /\ v <= q /\ -q <= v
      BY <1>10
    <3>3. 2 * du = data * v /\ du \in Int
      BY <1>10, <3>1
    <3> HIDE DEF v, du
    <3>4. data * v <= 1023 * q /\ -(1023 * q) <= data * v
      <4>1. CASE data >= 0
        <5>1. data \in Nat /\ q \in Nat
          BY <3>1, <4>1
        <5>2. data * v <= data * q /\ -(data * q) <= data * v /\ data * v \in Int
          BY <3>2, <5>1, Scaled
        <5>3. q * data <= q * 1023 /\ data * q = q * data /\ data * q \in Int
          BY <3>1, <5>1, Scaled
        <5> QED
          BY <5>2, <5>3
      <4>2. CASE data < 0
        <5> DEFINE n == -data
        <5>1. n \in Nat /\ q \in Nat /\ n <= 1023 /\ data * v = -(n * v)
          BY <3>1, <3>2, <4>2
        <5> HIDE DEF n
        <5>2. n * v <= n * q /\ -(n * q) <= n * v /\ n * v \in Int
          BY <3>2, <5>1, Scaled
        <5>3. q * n <= q * 1023 /\ n * q = q * n /\ n * q \in Int
          BY <5>1, Scaled
        <5> QED
          BY <5>1, <5>2, <5>3
      <4> QED
        BY <3>1, <4>1, <4>2
    <3>5. 2 * (1024 * w) = data * v + 2 * (q * g) /\ data * v \in Int
      BY <1>11, <1>12, <3>3 DEF du
    <3> QED
      BY <1>10, <1>12, <3>4, <3>5
  <2> QED
    BY <2>1, <2>2
<1> QED
  BY <1>7, <1>9, <1>10, <1>13

-----------------------------------------------------------------------------
(* What the tables give *)

LEMMA DcFits ==
  ASSUME NEW x \in Components, NEW m \in 0..DcTop(x)
  PROVE  Fits(DcCodes(x), DcWord(x, m), m)
BY TablesFit

LEMMA AcFits ==
  ASSUME NEW x \in Components, NEW run \in 0..15, NEW m \in 1..AcTop(x)
  PROVE  Fits(AcCodes(x), AcWord(x, run, m), 16 * run + m)
BY TablesFit

LEMMA OtherFits ==
  ASSUME NEW x \in Components
  PROVE  Fits(AcCodes(x), AcWord(x, 15, 0), 240) /\ Fits(AcCodes(x), AcWord(x, 0, 0), 0)
BY TablesFit

LEMMA Quantisers ==
  ASSUME NEW x \in Components, NEW k \in 0..63, NEW q, q = Quantiser(x, k),
         NEW r, r = Reciprocal(x, zig[k + 1])
  PROVE  /\ q \in Nat \ {0} /\ r \in Nat
         /\ 2 * (q * r - 1024) \in -q..q
         /\ k = 0 => 2 * r < Pow2[DcTop(x)]
         /\ k # 0 => r < Pow2[AcTop(x)]
BY TablesFit

LEMMA FirstZig == zig[1] = 0
<1>1. "Y" \in Components
  BY DEF Components
<1> QED
  BY <1>1, TablesFit

LEMMA FirstQuantiser ==
  ASSUME NEW x \in Components, NEW q, q = Quantiser(x, 0), NEW r, r = Reciprocal(x, 0),
         NEW top, top = DcTop(x)
  PROVE  /\ q \in Nat \ {0} /\ r \in Nat
         /\ 2 * (q * r - 1024) \in -q..q
         /\ 2 * r < Pow2[top]
<1> DEFINE k == 0
<1>1. k \in 0..63 /\ k = 0
  OBVIOUS
<1>2. q = Quantiser(x, k) /\ r = Reciprocal(x, zig[k + 1])
  BY FirstZig
<1> HIDE DEF k
<1>3. /\ q \in Nat \ {0} /\ r \in Nat
      /\ 2 * (q * r - 1024) \in -q..q
      /\ k = 0 => 2 * r < Pow2[DcTop(x)]
  BY <1>1, <1>2, Quantisers
<1> QED
  BY <1>1, <1>3

LEMMA Differences ==
  ASSUME NEW x \in Int, NEW y \in Int, NEW r \in Nat, Size(x) <= r, Size(y) <= r,
         NEW z \in Nat, 2 * r < z, NEW v, v = x - y
  PROVE  v \in Int /\ Size(v) < z
BY DEF Size

\* The blocks of an MCU are of the components.
LEMMA McuComponents == \A b \in 1..4 : Mcu[b] \in Components
BY DEF Mcu, Components

-----------------------------------------------------------------------------
(* One coefficient *)

\* A level that gives a coefficient near data.
Near(c1, k, data, x) ==
  /\ x \in Int /\ x * Quantiser(c1, k) \in Int
  /\ x * Quantiser(c1, k) - data \in -Quantiser(c1, k)+1 .. Quantiser(c1, k)-1

\* s are the words of the difference of the level x from the one before, and its bits.
DcCoded(d, c1, data, x, s) ==
  /\ d.rest = << >> /\ d.k = 0 /\ c1 = Mcu[d.block] /\ data \in Coefficients
  /\ x = quantize(data, Reciprocal(c1, 0))
  /\ Size(d.pred[c1]) <= Reciprocal(c1, 0)
  /\ s = DcWord(c1, huffman_magnitude(x - d.pred[c1])) \o Value(x - d.pred[c1])

\* The first coefficient of a block, coded as the difference from the last one.
LEMMA StepDC ==
  ASSUME NEW d \in Decoders, NEW c1, NEW data, NEW x, NEW s, DcCoded(d, c1, data, x, s)
  PROVE  Near(c1, 0, data, x) /\ Size(x) <= Reciprocal(c1, 0) /\ Read(d, s) = DcDone(d, c1, x)
<1> DEFINE old == d.pred[c1]
           diff == x - old
<1>0. /\ d.rest = << >> /\ d.k = 0 /\ c1 = Mcu[d.block] /\ data \in Coefficients
      /\ x = quantize(data, Reciprocal(c1, 0))
      /\ Size(old) <= Reciprocal(c1, 0)
      /\ s = DcWord(c1, huffman_magnitude(diff)) \o Value(diff)
  BY DEF DcCoded
<1>20. diff = x - old /\ old = d.pred[c1]
  OBVIOUS
<1> HIDE DEF old, diff
<1> DEFINE q == Quantiser(c1, 0)
           r == Reciprocal(c1, 0)
           top == DcTop(c1)
           m == huffman_magnitude(diff)
           word == DcWord(c1, m)
           value == Value(diff)
           e == Fed(d, s)
<1>1. c1 \in Components
  BY <1>0, McuComponents DEF Decoders
<1>21. old \in Int
  BY <1>1, <1>20 DEF Decoders
<1>2. x = quantize(data, r) /\ Size(old) <= r
  BY <1>0
<1>3. top \in 0..15
  BY DEF DcTop
<1> HIDE DEF q, r, top
<1>4. /\ q \in Nat \ {0} /\ r \in Nat /\ 2 * (q * r - 1024) \in -q..q /\ 2 * r < Pow2[top]
      /\ Pow2[top] \in Nat
  <2>1. top \in 0..16
    BY <1>3
  <2>2. Pow2[top] \in Nat
    BY <2>1, Powers
  <2>3. q = Quantiser(c1, 0) /\ r = Reciprocal(c1, 0) /\ top = DcTop(c1)
    BY DEF q, r, top
  <2> QED
    BY <1>1, <2>2, <2>3, FirstQuantiser
<1>5. x \in Int /\ Size(x) <= r /\ x * q - data \in -q+1..q-1
  BY <1>0, <1>2, <1>4, QuantizeNear
<1>6. diff \in Int /\ Size(diff) < Pow2[top]
  BY <1>2, <1>4, <1>5, <1>20, <1>21, Differences
<1> HIDE DEF m, value
<1>7. m \in 0..top /\ value \in Bits /\ Len(value) = m /\ Extend(Number(value), m) = diff
  <2>1. top \in 0..16
    BY <1>3
  <2> QED
    BY <1>6, <2>1, ValueRead DEF m, value, Bits
<1>8. Fits(DcCodes(c1), word, m)
  BY <1>1, <1>7, DcFits DEF top
<1>9. word \in Bits /\ s = Join(word, value)
  BY <1>0, <1>8 DEF Fits, Bits, Join, m, value
<1> HIDE DEF word
<1>10. s \in Bits
  BY <1>7, <1>9, Joins
<1>11. /\ e \in Decoders /\ e.k = 0 /\ e.block = d.block /\ e.pred = d.pred
       /\ e.rest = s
  <2>1. d.k = 0 /\ d.rest = << >>
    BY <1>0
  <2>2. /\ Fed(d, s) \in Decoders /\ Fed(d, s).k = d.k /\ Fed(d, s).block = d.block
        /\ Fed(d, s).pred = d.pred /\ Fed(d, s).rest = s
    BY <1>10, <2>1, FedDecoder
  <2> QED
    BY <2>1, <2>2
<1>12. c1 = Mcu[e.block] /\ e.rest = Join(word, value)
  BY <1>0, <1>9, <1>11
<1> HIDE DEF e
<1>13. DcLevel(e, c1, value, m) = x
  <2>1. x = old + diff
    BY <1>5, <1>6, <1>20, <1>21
  <2> QED
    BY <1>7, <1>11, <1>20, <2>1 DEF DcLevel
<1>14. m \in 0..15
  BY <1>3, <1>7
<1>15. ReadSymbol(e) = DcDone(e, c1, x)
  BY <1>7, <1>8, <1>11, <1>12, <1>13, <1>14, ReadDc
<1>16. DcDone(e, c1, x) = DcDone(d, c1, x) /\ DcDone(e, c1, x).rest = << >>
  BY <1>11 DEF DcDone
<1>17. Read(d, s) = ReadSymbol(e)
  <2> DEFINE a == ReadSymbol(e)
  <2>1. a = ReadSymbol(Fed(d, s)) /\ a.rest = << >>
    BY <1>15, <1>16 DEF e
  <2> HIDE DEF a
  <2>2. Read(d, s) = a
    BY <1>0, <1>10, <2>1, ReadOnce
  <2> QED
    BY <2>2 DEF a
<1> QED
  <2>1. x * q \in Int
    BY <1>4, <1>5
  <2>2. Near(c1, 0, data, x)
    BY <1>5, <2>1 DEF Near, q
  <2> QED
    BY <1>5, <1>15, <1>16, <1>17, <2>2 DEF r

\* The words of a level, taken as those for sixteen zeros, that of the level and its bits.
LEMMA WordsAre ==
  ASSUME NEW run \in Nat, NEW n \in 0..3, n = run \div 16, NEW x,
         NEW zrl \in Bits, zrl = AcWord(c, 15, 0),
         NEW word \in Bits, word = AcWord(c, run % 16, huffman_magnitude(x)),
         NEW value \in Bits, value = Value(x)
  PROVE  /\ n = 0 => LevelWords(run, x) = Join(word, value)
         /\ n = 1 => LevelWords(run, x) = Join(zrl, Join(word, value))
         /\ n = 2 => LevelWords(run, x) = Join(zrl, Join(zrl, Join(word, value)))
         /\ n = 3 => LevelWords(run, x) = Join(zrl, Join(zrl, Join(zrl, Join(word, value))))
<1> DEFINE t == Join(word, value)
           s == LevelWords(run, x)
           z == << << >>, zrl, Join(zrl, zrl), Join(Join(zrl, zrl), zrl) >>[n + 1]
<1>1. s = Join(Join(z, word), value)
  BY DEF LevelWords, Join
<1>2. /\ n = 0 => z = << >>
      /\ n = 1 => z = zrl
      /\ n = 2 => z = Join(zrl, zrl)
      /\ n = 3 => z = Join(Join(zrl, zrl), zrl)
  OBVIOUS
<1> HIDE DEF z
<1>0. t \in Bits /\ t = Join(word, value)
  BY Joins
<1> HIDE DEF t, s
<1> DEFINE z2 == Join(zrl, zrl)
           z3 == Join(z2, zrl)
<1>3. z2 \in Bits /\ z3 \in Bits /\ t \in Bits /\ Join(zrl, t) \in Bits
  BY <1>0, Joins
<1>4. Join(Join(<< >>, word), value) = t
  BY <1>0, Joins
<1>5. \A a \in Bits : Join(Join(a, word), value) = Join(a, t)
  BY <1>0, Joins
<1>6. Join(z2, t) = Join(zrl, Join(zrl, t))
  BY <1>3, Joins
<1>7. Join(z3, t) = Join(z2, Join(zrl, t))
  <2> HIDE DEF z2
  <2> QED
    BY <1>3, Joins
<1>8. Join(z2, Join(zrl, t)) = Join(zrl, Join(zrl, Join(zrl, t)))
  BY <1>3, Joins
<1> HIDE DEF z2, z3
<1>9. /\ n = 2 => z = z2
      /\ n = 3 => z = z3
  BY <1>2 DEF z2, z3
<1> QED
  BY <1>1, <1>2, <1>3, <1>4, <1>5, <1>6, <1>7, <1>8, <1>9 DEF t, s

\* A number of zeros, in sixteens and the rest.
LEMMA Runs ==
  ASSUME NEW j \in 1..63, NEW z \in Nat, z < j
  PROVE  /\ z \div 16 \in 0..3 /\ z % 16 \in 0..15 /\ z = 16 * (z \div 16) + (z % 16)
         /\ j - z \in 1..63 /\ j = (j - z) + 16 * (z \div 16) + (z % 16) /\ j <= 63
<1>1. z \in 0..62
  OBVIOUS
<1>2. z \div 16 \in 0..3 /\ z % 16 \in 0..15 /\ z = 16 * (z \div 16) + (z % 16)
  BY <1>1
<1> QED
  BY <1>1, <1>2

\* A level behind z zeros.
LEMMA StepLevel ==
  ASSUME NEW d \in Decoders, d.rest = << >>, c = Mcu[d.block], c \in Components,
         NEW j \in 1..63, NEW z \in Nat, z < j, d.k = j - z,
         NEW x \in Int, x # 0, Size(x) < Pow2[AcTop(c)],
         NEW s, s = LevelWords(z, x)
  PROVE  Read(d, s) = Has(d, j, x)
<1> DEFINE c1 == c
           n == z \div 16
           run == z % 16
           m == huffman_magnitude(x)
           word == AcWord(c1, run, m)
           zrl == AcWord(c1, 15, 0)
           value == Value(x)
           top == AcTop(c1)
<1>1. n \in 0..3 /\ run \in 0..15 /\ d.k > 0 /\ j = d.k + 16 * n + run /\ j <= 63
  <2> DEFINE k == j - z
  <2>1. n \in 0..3 /\ run \in 0..15 /\ k \in 1..63 /\ j = k + 16 * n + run /\ j <= 63
    BY Runs
  <2>2. d.k = k
    OBVIOUS
  <2> HIDE DEF k, n, run
  <2>3. k > 0
    BY <2>1
  <2> QED
    BY <2>1, <2>2, <2>3
<1>2. top \in 1..15 /\ top \in 0..16
  BY DEF AcTop
<1> HIDE DEF n, run, m, value, c1, top
<1>3. /\ m \in 1..top /\ value \in Bits /\ Len(value) = m /\ x = Extend(Number(value), m)
  <2>1. Size(x) < Pow2[top]
    BY DEF top, c1
  <2>2. m \in 0..top /\ (m = 0 <=> x = 0) /\ value \in Bits /\ Len(value) = m
        /\ Extend(Number(value), m) = x
    BY <1>2, <2>1, ValueRead DEF m, value, Bits
  <2> QED
    BY <1>2, <2>2
<1>4. m \in 1..15
  BY <1>2, <1>3
<1>5. c1 \in Components /\ c1 = Mcu[d.block]
  BY DEF c1
<1>6. Fits(AcCodes(c1), word, 16 * run + m)
  BY <1>1, <1>3, <1>5, AcFits DEF top
<1>7. Fits(AcCodes(c1), zrl, 240)
  BY <1>5, OtherFits
<1> HIDE DEF word, zrl
<1>8. word \in Bits /\ zrl \in Bits
  BY <1>6, <1>7 DEF Fits, Bits
<1>9. /\ n = 0 => s = Join(word, value)
      /\ n = 1 => s = Join(zrl, Join(word, value))
      /\ n = 2 => s = Join(zrl, Join(zrl, Join(word, value)))
      /\ n = 3 => s = Join(zrl, Join(zrl, Join(zrl, Join(word, value))))
  <2>1. n = z \div 16
    BY DEF n
  <2>2. zrl = AcWord(c, 15, 0) /\ word = AcWord(c, z % 16, huffman_magnitude(x)) /\ value = Value(x)
    BY DEF zrl, word, value, c1, run, m
  <2> QED
    BY <1>1, <1>3, <1>8, <2>1, <2>2, WordsAre
<1>10. Coded(d, j, x, s, n, run, zrl, word, value, m)
  BY <1>1, <1>3, <1>4, <1>5, <1>6, <1>7, <1>9 DEF Coded
<1> QED
  BY <1>10, ZerosLevel

\* No words, for a zero.
LEMMA StepZero ==
  ASSUME NEW d \in Decoders, d.rest = << >>
  PROVE  Read(d, << >>) = Fed(d, << >>)
<1> DEFINE e == Fed(d, << >>)
<1>1. << >> \in Bits
  BY DEF Bits
<1>2. e.rest = << >>
  BY <1>1, FedDecoder
<1>3. e = ReadSymbol(Fed(d, << >>))
  BY <1>2, ReadNothing
<1> HIDE DEF e
<1>4. Read(d, << >>) = e
  BY <1>1, <1>2, <1>3, ReadOnce
<1> QED
  BY <1>4 DEF e

\* The end of a block, for zeros up to the last coefficient.
LEMMA StepEnd ==
  ASSUME NEW d \in Decoders, d.rest = << >>, d.k > 0, NEW c1, c1 = Mcu[d.block],
         c1 \in Components, NEW s, s = << >> \o AcWord(c1, 0, 0)
  PROVE  Read(d, s) =
           [block |-> (d.block % 4) + 1, k |-> 0, rest |-> << >>, pred |-> d.pred, coef |-> 0]
<1>1. Fits(AcCodes(c1), AcWord(c1, 0, 0), 0)
  BY OtherFits
<1>2. s \in Bits /\ s = AcWord(c1, 0, 0)
  BY <1>1 DEF Fits, Bits
<1> DEFINE e == Fed(d, s)
           a == ReadSymbol(e)
<1>3. /\ e \in Decoders /\ e.k = d.k /\ e.block = d.block /\ e.pred = d.pred
      /\ e.rest = s /\ e.coef = 0
  BY <1>2, FedDecoder
<1> HIDE DEF e
<1>4. a = [block |-> (e.block % 4) + 1, k |-> 0, rest |-> << >>, pred |-> e.pred, coef |-> e.coef]
  <2>1. e.k > 0
    BY <1>3
  <2>2. Fits(AcCodes(Mcu[e.block]), s, 0)
    BY <1>1, <1>2, <1>3
  <2> QED
    BY <1>3, <2>1, <2>2, ReadEnd
<1>5. a.rest = << >> /\ a = ReadSymbol(Fed(d, s))
  BY <1>4 DEF e
<1> HIDE DEF a
<1>6. Read(d, s) = a
  BY <1>2, <1>5, ReadOnce
<1> QED
  BY <1>3, <1>4, <1>6

-----------------------------------------------------------------------------
(* The invariant *)

\* Besides the two properties: what the counters are between, and that the predictors
\* are levels that one reciprocal gives, so that no difference is larger than the codes
\* of its table.
IInv ==
  /\ block \in 1..4 /\ i \in 0..63 /\ zerorun \in Nat
  /\ IF i = 0 THEN zerorun = 0 ELSE zerorun < i
  /\ dc \in [Components -> Int]
  /\ \A x \in Components : Size(dc[x]) <= Reciprocal(x, 0)
  /\ decoder \in Decoders
  /\ DecoderFollows
  /\ CoefficientsNear

LEMMA InitInv == Init => IInv
<1> SUFFICES ASSUME Init PROVE IInv
  OBVIOUS
<1>1. block \in 1..4 /\ i \in 0..63 /\ zerorun \in Nat /\ i = 0 /\ zerorun = 0
  BY DEF Init
<1>2. "Y" \in Components /\ 0 \in 0..63
  BY DEF Components
<1>3. dc \in [Components -> Int] /\ \A x \in Components : dc[x] = 0
  BY DEF Init
<1>4. \A x \in Components : Reciprocal(x, 0) \in Nat
  BY FirstQuantiser
<1>5. \A x \in Components : Size(dc[x]) <= Reciprocal(x, 0)
  BY <1>3, <1>4 DEF Size
<1>6. decoder \in Decoders /\ DecoderFollows /\ decoder.coef = 0
  <2>1. << >> \in Bits
    BY DEF Bits
  <2> QED
    BY <2>1 DEF Init, Start, Decoders, DecoderFollows
<1>7. CoefficientsNear
  <2> DEFINE q == Quantiser("Y", 0)
  <2>1. q \in Nat \ {0}
    BY <1>2, FirstQuantiser
  <2> HIDE DEF q
  <2>2. 0 - 0 \in -q+1..q-1
    BY <2>1
  <2>3. last.c = "Y" /\ last.i = 0 /\ last.data = 0
    BY DEF Init
  <2> QED
    BY <1>6, <2>2, <2>3 DEF CoefficientsNear, q
<1> QED
  BY <1>1, <1>3, <1>5, <1>6, <1>7 DEF IInv

\* The coefficients that the code is given are those of dct.
LEMMA DataGiven ==
  ASSUME NEW x \in Components
  PROVE  DcData[x] \subseteq Coefficients /\ AcData[x] \subseteq Coefficients
BY CoderAssumption

LEMMA EncodeDCInv == IInv /\ EncodeDC => IInv'
<1> SUFFICES ASSUME IInv, EncodeDC PROVE IInv'
  OBVIOUS
<1>1. /\ block \in 1..4 /\ i = 0 /\ zerorun = 0 /\ dc \in [Components -> Int]
      /\ decoder \in Decoders /\ decoder.rest = << >> /\ decoder.block = block
      /\ decoder.pred = dc
      /\ \A x \in Components : Size(dc[x]) <= Reciprocal(x, 0)
  BY DEF IInv, EncodeDC, DecoderFollows
<1>2. decoder.k = 0
  BY <1>1 DEF IInv, DecoderFollows
<1>3. c \in Components /\ c = Mcu[decoder.block]
  BY <1>1, McuComponents DEF c
<1> DEFINE level(data) == quantize(data, Reciprocal(c, 0))
           diff(data) == level(data) - dc[c]
           s(data) == DcWord(c, huffman_magnitude(diff(data))) \o Value(diff(data))
<1>4. PICK data \in DcData[c] :
        /\ dc' = [dc EXCEPT ![c] = level(data)]
        /\ decoder' = Read(decoder, s(data))
        /\ last' = [c |-> c, i |-> 0, data |-> data]
  BY DEF EncodeDC
<1>5. i' = 1 /\ zerorun' = 0 /\ block' = block
  BY DEF EncodeDC
<1> DEFINE x == level(data)
           t == s(data)
<1>6. data \in Coefficients
  BY <1>3, DataGiven
<1>7. DcCoded(decoder, c, data, x, t)
  BY <1>1, <1>2, <1>3, <1>6 DEF DcCoded
<1>8. dc' = [dc EXCEPT ![c] = x] /\ decoder' = Read(decoder, t)
  BY <1>4
<1> HIDE DEF x, t
<1>10. Near(c, 0, data, x) /\ Size(x) <= Reciprocal(c, 0) /\ decoder' = DcDone(decoder, c, x)
  BY <1>1, <1>7, <1>8, StepDC
<1>11. dc' \in [Components -> Int] /\ \A z \in Components : Size(dc'[z]) <= Reciprocal(z, 0)
  BY <1>1, <1>3, <1>8, <1>10 DEF Near
<1>13. /\ decoder'.block = block /\ decoder'.k = 1 /\ decoder'.rest = << >>
       /\ decoder'.pred = dc' /\ decoder'.coef = x * Quantiser(c, 0)
  BY <1>1, <1>8, <1>10 DEF DcDone
<1>14. decoder' \in Decoders
  <2>1. << >> \in Bits /\ 1 \in 0..63
    BY DEF Bits
  <2>2. x * Quantiser(c, 0) \in Int
    BY <1>10 DEF Near
  <2> QED
    BY <1>1, <1>8, <1>10, <1>11, <2>1, <2>2 DEF DcDone, Decoders
<1>15. DecoderFollows'
  BY <1>5, <1>13 DEF DecoderFollows
<1>16. CoefficientsNear'
  <2>1. last'.c = c /\ last'.i = 0 /\ last'.data = data
    BY <1>4
  <2> QED
    BY <1>10, <1>13, <2>1 DEF CoefficientsNear, Near
<1> QED
  BY <1>1, <1>5, <1>11, <1>14, <1>15, <1>16 DEF IInv

LEMMA RestartInv == IInv /\ write_RSI => IInv'
<1> SUFFICES ASSUME IInv, write_RSI PROVE IInv'
  OBVIOUS
<1>1. /\ dc' \in [Components -> Int] /\ \A x \in Components : dc'[x] = 0
      /\ dc' = Start.pred
  BY DEF write_RSI, Start
<1>2. \A x \in Components : Size(dc'[x]) <= Reciprocal(x, 0)
  <2>1. \A x \in Components : Reciprocal(x, 0) \in Nat
    BY FirstQuantiser
  <2> QED
    BY <1>1, <2>1 DEF Size
<1>3. /\ decoder' \in Decoders /\ decoder'.pred = dc' /\ decoder'.rest = decoder.rest
      /\ decoder'.block = decoder.block /\ decoder'.k = decoder.k /\ decoder'.coef = decoder.coef
  <2>1. decoder' = [decoder EXCEPT !.pred = dc'] /\ decoder \in Decoders
    BY <1>1 DEF write_RSI, Restart, IInv
  <2> QED
    BY <1>1, <2>1 DEF Decoders
<1>4. block' = block /\ i' = i /\ zerorun' = zerorun /\ last' = last
  BY DEF write_RSI
<1>5. DecoderFollows' /\ CoefficientsNear'
  BY <1>3, <1>4 DEF IInv, DecoderFollows, CoefficientsNear
<1> QED
  BY <1>1, <1>2, <1>3, <1>4, <1>5 DEF IInv

\* The level of another coefficient is near it, and has a code.
LEMMA NearAC ==
  ASSUME NEW c1 \in Components, NEW k \in 1..63, NEW data \in Coefficients
  PROVE  /\ Near(c1, k, data, quantize(data, Reciprocal(c1, zig[k + 1])))
         /\ Size(quantize(data, Reciprocal(c1, zig[k + 1]))) < Pow2[AcTop(c1)]
<1> DEFINE q == Quantiser(c1, k)
           r == Reciprocal(c1, zig[k + 1])
           x == quantize(data, r)
           top == AcTop(c1)
           z == Pow2[top]
<1>1. k \in 0..63 /\ k # 0
  OBVIOUS
<1>2. q \in Nat \ {0} /\ r \in Nat /\ 2 * (q * r - 1024) \in -q..q /\ r < z
  BY <1>1, Quantisers
<1>3. z \in Nat
  <2>1. top \in 0..16
    BY DEF AcTop
  <2> HIDE DEF top
  <2> QED
    BY <2>1, Powers
<1>4. x = quantize(data, r)
  OBVIOUS
<1> HIDE DEF q, r, x, z
<1>5. x \in Int /\ Size(x) <= r /\ x * q - data \in -q+1..q-1
  BY <1>2, <1>4, QuantizeNear
<1>6. Size(x) < z
  BY <1>2, <1>3, <1>5 DEF Size
<1>7. x * q \in Int
  BY <1>2, <1>5
<1>8. Near(c1, k, data, x)
  BY <1>5, <1>7 DEF Near, q
<1> QED
  BY <1>6, <1>8 DEF x, r, z

\* What the decoder has of another coefficient, if it is not 0, if it is, and at the end.
LEMMA StepAC ==
  ASSUME IInv, i > 0, NEW x \in Int, Size(x) < Pow2[AcTop(c)], NEW d, d = Read(decoder, Words(x))
  PROVE  /\ d.rest = << >> /\ d.pred = dc /\ d.coef = x * Quantiser(c, i)
         /\ d.block = IF i = 63 THEN (block % 4) + 1 ELSE block
         /\ d.k = ((i + 1) % 64) - (IF x = 0 /\ i < 63 THEN zerorun + 1 ELSE 0)
         /\ d \in Decoders
<1>1. /\ i \in 1..63 /\ zerorun \in Nat /\ zerorun < i
      /\ decoder \in Decoders /\ decoder.rest = << >> /\ decoder.block = block
      /\ decoder.pred = dc /\ decoder.k = i - zerorun /\ block \in 1..4
  BY DEF IInv, DecoderFollows
<1>2. c = Mcu[decoder.block] /\ c \in Components
  BY <1>1, McuComponents DEF c
<1>3. /\ i = 63 => (i + 1) % 64 = 0
      /\ i # 63 => (i + 1) % 64 = i + 1 /\ i < 63 /\ i + 1 \in 0..63
  BY <1>1
<1>4. decoder.k > 0
  <2>1. i - zerorun > 0
    BY <1>1
  <2> QED
    BY <1>1, <2>1
<1>5. Quantiser(c, i) \in Nat /\ x * Quantiser(c, i) \in Int
  <2>1. i \in 0..63
    BY <1>1
  <2> DEFINE q == Quantiser(c, i)
  <2>2. q \in Nat
    BY <1>2, <2>1, Quantisers
  <2> HIDE DEF q
  <2>3. x * q \in Int
    BY <2>2
  <2> QED
    BY <2>2, <2>3 DEF q
<1>6. CASE x # 0
  <2>1. d = Read(decoder, LevelWords(zerorun, x))
    BY <1>6 DEF Words
  <2>2. Read(decoder, LevelWords(zerorun, x)) = Has(decoder, i, x)
    BY <1>1, <1>2, <1>6, StepLevel
  <2>3. /\ d.rest = << >> /\ d.pred = dc /\ d.coef = x * Quantiser(c, i)
        /\ d.block = NextBlock(i, block) /\ d.k = NextK(i)
    BY <1>1, <1>2, <2>1, <2>2 DEF Has
  <2>4. NextK(i) = ((i + 1) % 64) - 0 /\ NextK(i) \in 0..63
    <3>1. CASE i = 63
      BY <1>3, <3>1 DEF NextK
    <3>2. CASE i # 63
      <4>1. NextK(i) = i + 1 /\ (i + 1) % 64 = i + 1 /\ i + 1 \in 0..63
        BY <1>3, <3>2 DEF NextK
      <4> QED
        BY <4>1
    <3> QED
      BY <3>1, <3>2
  <2>5. NextBlock(i, block) \in 1..4 /\ << >> \in Bits /\ dc \in [Components -> Int]
    BY <1>1 DEF NextBlock, Bits, IInv
  <2>6. d \in Decoders
    BY <1>1, <1>2, <1>5, <2>1, <2>2, <2>4, <2>5 DEF Has, Decoders
  <2> QED
    BY <1>6, <2>3, <2>4, <2>6 DEF NextBlock
<1>7. CASE x = 0 /\ i < 63
  <2>1. d = Fed(decoder, << >>)
    <3>1. Words(x) = << >>
      BY <1>7 DEF Words
    <3> QED
      BY <1>1, <3>1, StepZero
  <2>2. /\ d.rest = << >> /\ d.pred = dc /\ d.coef = 0 /\ d.block = block /\ d.k = i - zerorun
        /\ d \in Decoders
    <3>1. << >> \in Bits
      BY DEF Bits
    <3> QED
      BY <1>1, <2>1, <3>1, FedDecoder
  <2>3. i - zerorun = ((i + 1) % 64) - (zerorun + 1) /\ i - zerorun \in 0..63
    BY <1>1, <1>3, <1>7
  <2>4. 0 * Quantiser(c, i) = 0
    BY <1>5
  <2> QED
    BY <1>3, <1>7, <2>2, <2>3, <2>4
<1>8. CASE x = 0 /\ ~(i < 63)
  <2>1. i = 63
    BY <1>1, <1>8
  <2>2. Words(x) = << >> \o AcWord(c, 0, 0)
    BY <1>8, <2>1 DEF Words
  <2>3. d = [block |-> (decoder.block % 4) + 1, k |-> 0, rest |-> << >>,
             pred |-> decoder.pred, coef |-> 0]
    BY <1>1, <1>2, <1>4, <2>2, StepEnd
  <2>4. 0 * Quantiser(c, i) = 0
    BY <1>5
  <2>5. /\ d.rest = << >> /\ d.pred = dc /\ d.coef = 0 /\ d.block = (block % 4) + 1 /\ d.k = 0
        /\ d \in Decoders
    <3>1. (block % 4) + 1 \in 1..4 /\ << >> \in Bits /\ 0 \in 0..63 /\ dc \in [Components -> Int]
      BY <1>1 DEF Bits, IInv
    <3> QED
      BY <1>1, <2>3, <3>1 DEF Decoders
  <2>6. ((i + 1) % 64) - 0 = 0 /\ 0 \in 0..63
    BY <1>3, <2>1
  <2> QED
    BY <1>8, <2>1, <2>4, <2>5, <2>6
<1> QED
  BY <1>6, <1>7, <1>8

LEMMA EncodeACInv == IInv /\ EncodeAC => IInv'
<1> SUFFICES ASSUME IInv, EncodeAC PROVE IInv'
  OBVIOUS
<1>1. /\ block \in 1..4 /\ i \in 1..63 /\ i > 0 /\ zerorun \in Nat /\ zerorun < i
      /\ dc \in [Components -> Int]
      /\ \A x \in Components : Size(dc[x]) <= Reciprocal(x, 0)
  BY DEF IInv, EncodeAC
<1>2. c \in Components
  BY <1>1, McuComponents DEF c
<1> DEFINE level(data) == quantize(data, Reciprocal(c, zig[i + 1]))
<1>3. PICK data \in AcData[c] :
        /\ decoder' = Read(decoder, Words(level(data)))
        /\ zerorun' = IF level(data) = 0 /\ i < 63 THEN zerorun + 1 ELSE 0
        /\ last' = [c |-> c, i |-> i, data |-> data]
  BY DEF EncodeAC
<1>4. /\ i' = (i + 1) % 64 /\ dc' = dc
      /\ block' = IF i = 63 THEN (block % 4) + 1 ELSE block
  BY DEF EncodeAC
<1> DEFINE x == level(data)
<1>5. Near(c, i, data, x) /\ Size(x) < Pow2[AcTop(c)]
  <2>1. data \in Coefficients
    BY <1>2, DataGiven
  <2> QED
    BY <1>1, <1>2, <2>1, NearAC
<1>6. decoder' = Read(decoder, Words(x)) /\ zerorun' = IF x = 0 /\ i < 63 THEN zerorun + 1 ELSE 0
  BY <1>3
<1> HIDE DEF x
<1>7. x \in Int /\ x * Quantiser(c, i) \in Int
  BY <1>5 DEF Near
<1>8. /\ decoder'.rest = << >> /\ decoder'.pred = dc /\ decoder'.coef = x * Quantiser(c, i)
      /\ decoder'.block = block'
      /\ decoder'.k = i' - zerorun' /\ decoder' \in Decoders
  BY <1>1, <1>4, <1>5, <1>6, <1>7, StepAC
<1>9. block' \in 1..4 /\ i' \in 0..63 /\ zerorun' \in Nat
  BY <1>1, <1>4, <1>6
<1>10. IF i' = 0 THEN zerorun' = 0 ELSE zerorun' < i'
  <2>1. i = 63 => i' = 0 /\ zerorun' = 0
    BY <1>4, <1>6
  <2>2. i # 63 => i' = i + 1 /\ zerorun' \in {0, zerorun + 1}
    BY <1>1, <1>4, <1>6
  <2> QED
    BY <1>1, <2>1, <2>2
<1>11. DecoderFollows'
  BY <1>4, <1>8 DEF DecoderFollows
<1>12. CoefficientsNear'
  <2>1. last'.c = c /\ last'.i = i /\ last'.data = data
    BY <1>3
  <2> QED
    BY <1>5, <1>8, <2>1 DEF CoefficientsNear, Near
<1> QED
  BY <1>1, <1>4, <1>8, <1>9, <1>10, <1>11, <1>12 DEF IInv

LEMMA NextInv == IInv /\ [Next]_vars => IInv'
<1> SUFFICES ASSUME IInv, [Next]_vars PROVE IInv'
  OBVIOUS
<1>1. CASE UNCHANGED vars
  BY <1>1 DEF IInv, DecoderFollows, CoefficientsNear, vars
<1> QED
  BY <1>1, EncodeDCInv, EncodeACInv, RestartInv DEF Next

LEMMA Invariance == Spec => []IInv
BY InitInv, NextInv, PTL DEF Spec

-----------------------------------------------------------------------------
(* The theorems *)

\* huffman_encode and a decoder with the header's tables stay in step: whatever the
\* coefficients are, runs of zeros, ends of blocks and restart markers between, each
\* word is read as what it stands for and no bit is left over.
THEOREM DecoderKeepsStep == Spec => []DecoderFollows
<1>1. IInv => DecoderFollows
  BY DEF IInv
<1> QED
  BY <1>1, Invariance, PTL

\* And each coefficient that the decoder gets is less than a step of its quantiser
\* from the one coded: the products with rounded reciprocals are near enough to
\* quotients, and no level is too large for the codes.
THEOREM CoefficientsClose == Spec => []CoefficientsNear
<1>1. IInv => CoefficientsNear
  BY DEF IInv
<1> QED
  BY <1>1, Invariance, PTL

=============================================================================
