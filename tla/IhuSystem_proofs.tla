-------------------------- MODULE IhuSystem_proofs --------------------------
(***************************************************************************)
(* IhuSystem for every size of a byte, number of lines and set of lengths: *)
(* as long as nothing upsets the simulator, what it writes, prints and     *)
(* sends.                                                                  *)
(***************************************************************************)
EXTENDS IhuSystem, SequenceTheorems, WellFoundedInduction, TLAPS

-----------------------------------------------------------------------------
(* Induction *)

Less == {p \in Nat \X Nat : p[1] < p[2]}

\* A set of numbers has a least one.
LEMMA Least ==
  ASSUME NEW S \in SUBSET Nat, S # {}
  PROVE  \E n \in S : \A m \in S : n <= m
<1>1. IsWellFoundedOn(Less, Nat)
  <2>1. IsWellFoundedOn(OpToRel(<, Nat), Nat)
    BY NatLessThanWellFounded
  <2> QED
    BY <2>1 DEF OpToRel, Less
<1>2. \E n \in S : \A m \in S : ~(<<m, n>> \in Less)
  BY <1>1, WFMin
<1>3. PICK n \in S : \A m \in S : ~(<<m, n>> \in Less)
  BY <1>2
<1>4. ASSUME NEW m \in S PROVE n <= m
  <2>1. <<m, n>> \in Nat \X Nat /\ ~(m < n)
    BY <1>3 DEF Less
  <2> QED
    BY <2>1
<1> QED
  BY <1>4

\* Induction over the numbers, for a set.
LEMMA Induction ==
  ASSUME NEW S, 0 \in S, \A n \in Nat : n \in S => n + 1 \in S
  PROVE  \A n \in Nat : n \in S
<1> DEFINE T == {n \in Nat : n \notin S}
<1> SUFFICES ASSUME T # {} PROVE FALSE
  OBVIOUS
<1>1. PICK n \in T : \A m \in T : n <= m
  BY Least
<1>2. n # 0 /\ n - 1 \in Nat /\ n - 1 \notin T
  BY <1>1
<1> QED
  BY <1>2

-----------------------------------------------------------------------------
(* Sequences *)

LEMMA FunSeq ==
  ASSUME NEW V, NEW n \in Nat, NEW f \in [1..n -> V]
  PROVE  f \in Seq(V) /\ Len(f) = n
<1>1. f \in Seq(V)
  <2>1. f \in UNION {[1..k -> V] : k \in Nat}
    OBVIOUS
  <2> QED
    BY <2>1, SeqDef
<1>2. DOMAIN f = 1..n /\ DOMAIN f = 1..Len(f) /\ Len(f) \in Nat
  BY <1>1, LenProperties
<1> QED
  BY <1>1, <1>2

\* The function that FlattenSeq is defined by, for the first n members.
IsFlat(s, n, g) == \A k \in 1..n : g[k] = IF k = 1 THEN s[k] ELSE g[k-1] \o s[k]

LEMMA FlatExists ==
  ASSUME NEW V, NEW s \in Seq(Seq(V))
  PROVE  \A n \in Nat : n <= Len(s) => \E g \in [1..n -> Seq(V)] : IsFlat(s, n, g)
<1> DEFINE S == {n \in Nat : n <= Len(s) => \E g \in [1..n -> Seq(V)] : IsFlat(s, n, g)}
<1>1. 0 \in S
  <2>1. [k \in 1..0 |-> << >>] \in [1..0 -> Seq(V)]
    OBVIOUS
  <2>2. \A g : IsFlat(s, 0, g)
    BY DEF IsFlat
  <2> QED
    BY <2>1, <2>2
<1>2. ASSUME NEW n \in Nat, n \in S PROVE n + 1 \in S
  <2> SUFFICES ASSUME n + 1 <= Len(s)
               PROVE  \E h \in [1..n+1 -> Seq(V)] : IsFlat(s, n + 1, h)
    OBVIOUS
  <2>1. n <= Len(s) /\ Len(s) \in Nat /\ n + 1 \in 1..Len(s)
    BY LenProperties
  <2>2. PICK g \in [1..n -> Seq(V)] : IsFlat(s, n, g)
    BY <1>2, <2>1
  <2>3. s[n + 1] \in Seq(V)
    BY <2>1, ElementOfSeq
  <2> DEFINE top == IF n = 0 THEN s[n + 1] ELSE g[n] \o s[n + 1]
             h == [k \in 1..n+1 |-> IF k = n + 1 THEN top ELSE g[k]]
  <2>4. top \in Seq(V)
    <3>1. n # 0 => g[n] \in Seq(V)
      OBVIOUS
    <3> QED
      BY <2>3, <3>1, ConcatProperties
  <2> HIDE DEF top
  <2>5. h \in [1..n+1 -> Seq(V)]
    BY <2>4
  <2>6. IsFlat(s, n + 1, h)
    <3> SUFFICES ASSUME NEW k \in 1..n+1
                 PROVE  h[k] = IF k = 1 THEN s[k] ELSE h[k-1] \o s[k]
      BY DEF IsFlat
    <3>1. CASE k = n + 1
      <4>1. h[k] = top /\ (k # 1 => h[k-1] = g[n])
        BY <3>1
      <4>2. k = 1 <=> n = 0
        BY <3>1
      <4> QED
        BY <3>1, <4>1, <4>2 DEF top
    <3>2. CASE k # n + 1
      <4>1. k \in 1..n /\ h[k] = g[k] /\ (k # 1 => h[k-1] = g[k-1])
        BY <3>2
      <4> QED
        BY <2>2, <4>1 DEF IsFlat
    <3> QED
      BY <3>1, <3>2
  <2> QED
    BY <2>5, <2>6
<1>3. \A n \in Nat : n \in S
  <2> HIDE DEF S
  <2> QED
    BY <1>1, <1>2, Induction
<1> QED
  BY <1>3

LEMMA FlatUnique ==
  ASSUME NEW s, NEW n \in Nat, NEW g, NEW h, IsFlat(s, n, g), IsFlat(s, n, h)
  PROVE  \A k \in 1..n : g[k] = h[k]
<1> DEFINE S == {k \in Nat : k \in 1..n => g[k] = h[k]}
<1>1. 0 \in S
  OBVIOUS
<1>2. ASSUME NEW k \in Nat, k \in S PROVE k + 1 \in S
  <2> SUFFICES ASSUME k + 1 \in 1..n PROVE g[k + 1] = h[k + 1]
    OBVIOUS
  <2>1. CASE k = 0
    BY <2>1 DEF IsFlat
  <2>2. CASE k # 0
    <3>1. k \in 1..n /\ (k + 1) - 1 = k /\ k + 1 # 1
      BY <2>2
    <3>2. g[k] = h[k]
      BY <1>2, <3>1
    <3> QED
      BY <3>1, <3>2 DEF IsFlat
  <2> QED
    BY <2>1, <2>2
<1>3. \A k \in Nat : k \in S
  <2> HIDE DEF S
  <2> QED
    BY <1>1, <1>2, Induction
<1> QED
  BY <1>3

\* FlattenSeq is what its definition says.
LEMMA FlattenIs ==
  ASSUME NEW V, NEW s \in Seq(Seq(V)), s # << >>, NEW g, IsFlat(s, Len(s), g)
  PROVE  FlattenSeq(s) = g[Len(s)] /\ FlattenSeq(s) \in Seq(V)
<1> DEFINE n == Len(s)
           Body(f) == [k \in 1..n |-> IF k = 1 THEN s[k] ELSE f[k-1] \o s[k]]
<1>1. n \in Nat /\ n # 0 /\ n \in 1..n
  BY LenProperties, EmptySeq
<1>2. PICK f \in [1..n -> Seq(V)] : IsFlat(s, n, f)
  <2>1. n <= n
    BY <1>1
  <2> QED
    BY <1>1, <2>1, FlatExists, Zenon
<1>3. f = Body(f)
  BY <1>2 DEF IsFlat
<1> DEFINE c == CHOOSE h : h = Body(h)
<1>4. c = Body(c)
  BY <1>3
<1>5. IsFlat(s, n, c)
  <2> SUFFICES ASSUME NEW k \in 1..n PROVE c[k] = IF k = 1 THEN s[k] ELSE c[k-1] \o s[k]
    BY DEF IsFlat
  <2> HIDE DEF c
  <2> QED
    BY <1>4
<1>6. FlattenSeq(s) = c[n]
  BY <1>1 DEF FlattenSeq
<1> HIDE DEF c
<1>7. c[n] = g[n] /\ c[n] = f[n]
  BY <1>1, <1>2, <1>5, FlatUnique
<1> QED
  BY <1>1, <1>2, <1>6, <1>7

\* One more member.
LEMMA FlattenAppend ==
  ASSUME NEW V, NEW s \in Seq(Seq(V)), NEW x \in Seq(V)
  PROVE  FlattenSeq(s) \in Seq(V) /\ FlattenSeq(Append(s, x)) = FlattenSeq(s) \o x
<1> DEFINE n == Len(s)
           t == Append(s, x)
<1>1. /\ n \in Nat /\ t \in Seq(Seq(V)) /\ t # << >> /\ Len(t) = n + 1
      /\ t[n + 1] = x /\ \A k \in 1..n : t[k] = s[k]
  BY AppendProperties, LenProperties
<1>2. PICK h \in [1..n+1 -> Seq(V)] : IsFlat(t, n + 1, h)
  <2>1. n + 1 \in Nat /\ n + 1 <= Len(t)
    BY <1>1
  <2> QED
    BY <1>1, <2>1, FlatExists, Zenon
<1>3. FlattenSeq(t) = h[n + 1]
  BY <1>1, <1>2, FlattenIs
<1>4. CASE n = 0
  <2>1. s = << >>
    BY <1>4, EmptySeq
  <2>2. FlattenSeq(s) = << >>
    BY <2>1 DEF FlattenSeq
  <2>3. h[n + 1] = x
    BY <1>1, <1>2, <1>4 DEF IsFlat
  <2> QED
    BY <1>3, <2>2, <2>3, ConcatEmptySeq, EmptySeq
<1>5. CASE n # 0
  <2>1. IsFlat(s, n, h)
    <3> SUFFICES ASSUME NEW k \in 1..n PROVE h[k] = IF k = 1 THEN s[k] ELSE h[k-1] \o s[k]
      BY DEF IsFlat
    <3>1. k \in 1..n+1
      BY <1>1
    <3> QED
      BY <1>1, <1>2, <3>1 DEF IsFlat
  <2>2. s # << >>
    BY <1>5, EmptySeq
  <2>3. FlattenSeq(s) = h[n] /\ FlattenSeq(s) \in Seq(V)
    BY <2>1, <2>2, FlattenIs
  <2>4. h[n + 1] = h[n] \o x
    <3>1. n + 1 \in 1..n+1 /\ n + 1 # 1 /\ (n + 1) - 1 = n
      BY <1>1, <1>5
    <3> QED
      BY <1>1, <1>2, <3>1 DEF IsFlat
  <2> QED
    BY <1>3, <2>3, <2>4
<1> QED
  BY <1>4, <1>5

-----------------------------------------------------------------------------
(* Lengths and line numbers in a header *)

LEMMA DivMod ==
  ASSUME NEW x \in Nat, NEW d \in Nat \ {0}
  PROVE  x % d \in 0..d-1 /\ x \div d \in Nat /\ x = d * (x \div d) + (x % d)
OBVIOUS

\* Quotient and remainder are the only ones.
LEMMA DivModIs ==
  ASSUME NEW d \in Nat \ {0}, NEW q \in Nat, NEW r \in 0..d-1
  PROVE  (d * q + r) % d = r /\ (d * q + r) \div d = q
OBVIOUS

\* A header holds a length of seven bits as it is.
LEMMA SizeOfShort ==
  ASSUME NEW n \in 0..Half-1, NEW b \in Nat, b % 4 = 0
  PROVE  Size(n, b) = n
<1>1. Half \in Nat
  BY IhuAssumption DEF Half
<1>2. n \in Nat /\ n < Half
  BY <1>1
<1>3. ShiftOr(0, n) = n
  <2>1. (0 \div 2) % 2 = 0 /\ (0 \div 1) % 2 = 0
    OBVIOUS
  <2>2. n = 16 * (n \div 16) + (IF (n \div 8) % 2 = 1 THEN 8 ELSE 0)
              + (IF (n \div 4) % 2 = 1 THEN 4 ELSE 0) + (n % 4)
    BY <1>2
  <2> QED
    BY <2>1, <2>2 DEF ShiftOr
<1> QED
  BY <1>2, <1>3 DEF Size

\* The fifth byte of the header of line l: no bits of the length, the number above.
LEMMA NumberIn ==
  ASSUME NEW l \in Nat
  PROVE  LET b == (4 * l) % Base
         IN  b \in Nat /\ b % 4 = 0 /\ LineOf(b) = l % (Base \div 4)
<1> DEFINE Q == Base \div 4
<1>1. Q \in Nat \ {0} /\ Base = 4 * Q /\ Base \in Nat \ {0}
  BY IhuAssumption
<1> HIDE DEF Q
<1>2. /\ l \div Q \in Nat /\ l % Q \in 0..Q-1 /\ l = Q * (l \div Q) + (l % Q)
  BY <1>1, DivMod
<1> DEFINE k == l \div Q
           r == l % Q
<1> HIDE DEF k, r
<1>3. k \in Nat /\ r \in 0..Q-1 /\ l = Q * k + r
  BY <1>2 DEF k, r
<1>4. 4 * l = Base * k + 4 * r
  BY <1>1, <1>3
<1>5. 4 * r \in 0..Base-1
  BY <1>1, <1>3
<1>6. (4 * l) % Base = 4 * r
  <2>1. (Base * k + 4 * r) % Base = 4 * r
    BY <1>1, <1>3, <1>5, DivModIs, Zenon
  <2> QED
    BY <1>4, <2>1
<1>7. (4 * r) % 4 = 0 /\ (4 * r) \div 4 = r
  BY <1>3, <1>1
<1>8. r % Q = r
  BY <1>1, <1>3
<1> QED
  BY <1>1, <1>3, <1>6, <1>7, <1>8 DEF LineOf, Q, r

-----------------------------------------------------------------------------
(* The bytes of a line *)

Bytes == [v : Int, line : Int, pos : Int]
Chksum == <<Byte(Filler), Byte(Filler)>>

LEMMA ByteType == \A v \in Int : Byte(v) \in Bytes
  BY DEF Byte, Bytes

LEMMA ChksumType == Chksum \in Seq(Bytes) /\ Len(Chksum) = 2
<1>1. Byte(Filler) \in Bytes
  BY ByteType, IhuAssumption
<1> QED
  BY <1>1 DEF Chksum

LEMMA HeaderType ==
  ASSUME NEW a \in Int, NEW b \in Int
  PROVE  /\ Header(a, b) \in Seq(Bytes) /\ Len(Header(a, b)) = 6
         /\ Header(a, b)[5].v = a /\ Header(a, b)[6].v = b
<1>1. Byte(0) \in Bytes /\ Byte(a) \in Bytes /\ Byte(b) \in Bytes
  BY ByteType
<1>2. Byte(a).v = a /\ Byte(b).v = b
  BY DEF Byte
<1> HIDE DEF Byte
<1> QED
  BY <1>1, <1>2 DEF Header

LEMMA PayloadType ==
  ASSUME NEW l \in Int, NEW n \in Nat
  PROVE  Payload(l, n) \in Seq(Bytes) /\ Len(Payload(l, n)) = n
<1>1. Payload(l, n) \in [1..n -> Bytes]
  BY IhuAssumption DEF Payload, Bytes
<1> QED
  BY <1>1, FunSeq

\* The front and the rest of a sequence put together of two.
LEMMA FrontRest ==
  ASSUME NEW V, NEW s \in Seq(V), NEW t \in Seq(V)
  PROVE  /\ SubSeq(s \o t, 1, Len(s)) = s
         /\ SubSeq(s \o t, Len(s) + 1, Len(s \o t)) = t
<1> DEFINE u == s \o t
<1>1. /\ u \in Seq(V) /\ Len(u) = Len(s) + Len(t) /\ Len(s) \in Nat /\ Len(t) \in Nat
      /\ \A k \in 1..Len(s) : u[k] = s[k]
      /\ \A k \in 1..Len(t) : u[Len(s) + k] = t[k]
  BY ConcatProperties, LenProperties
<1> HIDE DEF u
<1>2. \A k \in 1..Len(u) : u[k] \in V
  BY <1>1, ElementOfSeq
<1>3. SubSeq(u, 1, Len(s)) = s
  <2>1. /\ SubSeq(u, 1, Len(s)) \in Seq(V) /\ Len(SubSeq(u, 1, Len(s))) = Len(s)
        /\ \A k \in 1..Len(s) : SubSeq(u, 1, Len(s))[k] = u[k]
    <3>1. \A k \in 1..Len(s) : u[k] \in V
      BY <1>1, <1>2
    <3> QED
      BY <1>1, <3>1, SubSeqProperties
  <2> QED
    BY <1>1, <2>1, SeqEqual
<1>4. SubSeq(u, Len(s) + 1, Len(u)) = t
  <2> DEFINE m == Len(s) + 1
             e == Len(u)
  <2>1. m \in Int /\ e \in Int /\ e - m + 1 = Len(t) /\ (m <= e <=> Len(t) > 0)
    BY <1>1
  <2>2. \A k \in m..e : u[k] \in V
    BY <1>1, <1>2
  <2> HIDE DEF m, e
  <2>3. /\ SubSeq(u, m, e) \in Seq(V)
        /\ Len(SubSeq(u, m, e)) = IF m <= e THEN e - m + 1 ELSE 0
        /\ \A k \in 1..e-m+1 : SubSeq(u, m, e)[k] = u[m + k - 1]
    BY <2>1, <2>2, SubSeqProperties
  <2>4. Len(SubSeq(u, m, e)) = Len(t)
    BY <1>1, <2>1, <2>3
  <2>5. \A k \in 1..Len(t) : SubSeq(u, m, e)[k] = t[k]
    <3> TAKE k \in 1..Len(t)
    <3>1. SubSeq(u, m, e)[k] = u[m + k - 1] /\ m + k - 1 = Len(s) + k
      BY <1>1, <2>1, <2>3 DEF m
    <3> QED
      BY <1>1, <3>1
  <2>6. SubSeq(u, m, e) = t
    BY <2>3, <2>4, <2>5, SeqEqual
  <2> QED
    BY <2>6 DEF m, e
<1> QED
  BY <1>3, <1>4 DEF u

\* A failed call upsets the simulator.
LEMMA NoFailure == upset' = {} => ~Fails
  BY DEF Fails

\* A read that is not cut short takes the first n bytes.
LEMMA ReadFull ==
  ASSUME NEW n \in Nat, NEW got \in Arrived(n), tty \in Seq(Bytes), read(n, got), upset' = {}
  PROVE  /\ upset = {} /\ n <= Len(tty) /\ Len(got) = n
         /\ got = SubSeq(tty, 1, n) /\ tty' = SubSeq(tty, n + 1, Len(tty))
<1>1. Len(got) = n
  <2>1. {u \in {"short"} : Len(got) < n} = {}
    BY DEF read
  <2>2. ~(Len(got) < n)
    BY <2>1
  <2> QED
    BY <2>2 DEF read
<1>2. PICK k \in 0..(IF n < Len(tty) THEN n ELSE Len(tty)) : got = SubSeq(tty, 1, k)
  BY DEF Arrived
<1>3. Len(tty) \in Nat /\ k <= Len(tty) /\ k <= n /\ k \in Nat
  BY <1>2, LenProperties
<1>4. Len(got) = k
  <2>1. \A j \in 1..k : tty[j] \in Bytes
    BY <1>3, ElementOfSeq
  <2>2. Len(SubSeq(tty, 1, k)) = IF 1 <= k THEN k - 1 + 1 ELSE 0
    BY <1>3, <2>1, SubSeqProperties
  <2> QED
    BY <1>2, <1>3, <2>2
<1> QED
  BY <1>1, <1>2, <1>3, <1>4 DEF read, Take

\* The lines up to k, and one more.
LinesUpTo(f, k) == [l \in 1..k |-> Payload(l - 1, f[l])]

LEMMA FirstNext ==
  ASSUME NEW f \in Seq(Nat), NEW k \in Nat, k < Len(f)
  PROVE  /\ FlattenSeq(LinesUpTo(f, k)) \in Seq(Bytes)
         /\ FlattenSeq(LinesUpTo(f, k + 1)) = FlattenSeq(LinesUpTo(f, k)) \o Payload(k, f[k + 1])
<1> DEFINE s == LinesUpTo(f, k)
           x == Payload(k, f[k + 1])
<1>1. Len(f) \in Nat /\ \A l \in 1..k+1 : f[l] \in Nat
  BY LenProperties, ElementOfSeq
<1>2. \A l \in 1..k+1 : Payload(l - 1, f[l]) \in Seq(Bytes)
  <2> TAKE l \in 1..k+1
  <2>1. l - 1 \in Int /\ f[l] \in Nat
    BY <1>1
  <2> QED
    BY <2>1, PayloadType
<1>3. s \in Seq(Seq(Bytes)) /\ Len(s) = k
  <2>1. s \in [1..k -> Seq(Bytes)]
    BY <1>2 DEF LinesUpTo
  <2> QED
    BY <2>1, FunSeq
<1>4. x \in Seq(Bytes)
  <2>1. k + 1 \in 1..k+1 /\ (k + 1) - 1 = k
    OBVIOUS
  <2> QED
    BY <1>2, <2>1
<1>5. LinesUpTo(f, k + 1) \in Seq(Seq(Bytes)) /\ Len(LinesUpTo(f, k + 1)) = k + 1
  <2>1. LinesUpTo(f, k + 1) \in [1..k+1 -> Seq(Bytes)]
    BY <1>2 DEF LinesUpTo
  <2> QED
    BY <2>1, FunSeq
<1>6. LinesUpTo(f, k + 1) = Append(s, x)
  <2> DEFINE t == LinesUpTo(f, k + 1)
             a == Append(s, x)
  <2>1. a \in Seq(Seq(Bytes)) /\ Len(a) = k + 1 /\ a[k + 1] = x /\ \A l \in 1..k : a[l] = s[l]
    BY <1>3, <1>4, AppendProperties
  <2>2. t[k + 1] = x /\ \A l \in 1..k : t[l] = s[l]
    BY DEF LinesUpTo
  <2>3. \A l \in 1..k+1 : t[l] = a[l]
    BY <2>1, <2>2
  <2> HIDE DEF t, a
  <2>4. t = a
    BY <1>5, <2>1, <2>3, SeqEqual DEF t
  <2> QED
    BY <2>4 DEF t, a
<1> QED
  BY <1>3, <1>4, <1>6, FlattenAppend

-----------------------------------------------------------------------------
(* The invariant: where the exchange is, as long as nothing has upset the
   simulator *)

\* What the board has sent.
History ==
  /\ line \in Nat /\ lens \in Seq(Nat) /\ Len(lens) = line
  /\ \A l \in 1..line : lens[l] \in 1..Half-1

\* The first k lines let the loop of get_IMG go on.
GoesOn(k) == \A l \in 1..k : lens[l] < Lines - 1

\* R is on its way, or the answer to it.
Asked ==
  /\ pc = "reply" /\ line = 0 /\ output = << >>
  /\ \/ cmds = <<"R">> /\ tty = << >>
     \/ cmds = << >> /\ \E x \in Int : tty = Status(x)

\* T is on its way.
LineAsked ==
  /\ pc = "header" /\ cmds = <<"T">> /\ tty = << >>
  /\ output = FirstLines(line) /\ GoesOn(line)

\* The last line sent is on its way, from its header, its payload, its checksum.
LineComes ==
  /\ pc = "header" /\ cmds = << >> /\ line > 0
  /\ tty = UART_Reply_Data(line - 1, lens[line])
  /\ output = FirstLines(line - 1) /\ GoesOn(line - 1)

Numbered == size = lens[line] /\ linenum = (line - 1) % (Base \div 4)

PayloadComes ==
  /\ pc = "payload" /\ cmds = << >> /\ line > 0 /\ Numbered
  /\ tty = Payload(line - 1, lens[line]) \o Chksum
  /\ output = FirstLines(line - 1) /\ GoesOn(line - 1)

ChksumComes ==
  /\ pc = "chksum" /\ cmds = << >> /\ line > 0 /\ Numbered
  /\ tty = Chksum
  /\ output = FirstLines(line) /\ GoesOn(line - 1)

\* get_IMG is left at a long line, and nobody sends.
Silent ==
  /\ pc = "reply" /\ cmds = << >> /\ tty = << >> /\ line > 0
  /\ output = FirstLines(line) /\ GoesOn(line - 1)
  /\ lens[line] >= Lines - 1

Exchange ==
  Asked \/ LineAsked \/ LineComes \/ PayloadComes \/ ChksumComes \/ Silent

IInv == upset = {} => History /\ Exchange

\* What does not change when the board has sent nothing.
LEMMA SameLines ==
  ASSUME line' = line, lens' = lens
  PROVE  /\ History' <=> History
         /\ \A k : FirstLines(k)' = FirstLines(k)
         /\ \A k : GoesOn(k)' <=> GoesOn(k)
  BY DEF History, FirstLines, GoesOn, Payload, Half

LEMMA NoneYet == FirstLines(0) = << >>
<1>1. [l \in 1..0 |-> Payload(l - 1, lens[l])] = << >>
  OBVIOUS
<1> QED
  BY <1>1 DEF FirstLines, FlattenSeq

LEMMA InitInv == Init => IInv
<1> SUFFICES ASSUME Init PROVE History /\ Asked
  BY DEF IInv, Exchange
<1> QED
  BY DEF Init, History, Asked

LEMMA ReadyQueryStep ==
  ASSUME IInv, ReadyQuery, upset' = {}
  PROVE  History' /\ Exchange'
<1> USE DEF ReadyQuery
<1>1. line' = line /\ lens' = lens /\ pc' = pc /\ output' = output /\ upset = {}
  BY DEF boardVars, ihuVars
<1>2. Asked /\ cmds = <<"R">> /\ tty = << >>
  BY <1>1 DEF IInv, Exchange, Asked, LineAsked, LineComes, PayloadComes, ChksumComes, Silent
<1>3. cmds' = << >>
  BY <1>2
<1>4. \E x \in Int : tty' = Status(x)
  <2>1. PICK x \in {Letters.F, Letters.N, Letters.Y} : tty' = tty \o Status(x)
    OBVIOUS
  <2>2. x \in Int
    BY IhuAssumption
  <2>3. Status(x) \in Seq(Bytes)
    BY <2>2, HeaderType DEF Status
  <2> QED
    BY <1>2, <2>1, <2>2, <2>3, ConcatEmptySeq
<1> QED
  BY <1>1, <1>2, <1>3, <1>4, SameLines DEF IInv, Exchange, Asked

\* The first lines are those they were when one more is sent.
LEMMA OneMoreLine ==
  ASSUME History, NEW n \in 1..Half-1, lens' = Append(lens, n), line' = line + 1
  PROVE  /\ History' /\ lens'[line'] = n
         /\ LinesUpTo(lens', line) = LinesUpTo(lens, line)
         /\ GoesOn(line) => \A l \in 1..line : lens'[l] < Lines - 1
<1>1. n \in Nat
  BY IhuAssumption DEF Half
<1>2. /\ lens' \in Seq(Nat) /\ Len(lens') = line + 1 /\ lens'[line + 1] = n
      /\ \A l \in 1..line : lens'[l] = lens[l]
  BY <1>1, AppendProperties DEF History
<1>3. LinesUpTo(lens', line) = LinesUpTo(lens, line)
  BY <1>2 DEF LinesUpTo
<1>4. History'
  <2>1. \A l \in 1..line+1 : lens'[l] \in 1..Half-1
    BY <1>2 DEF History
  <2> QED
    BY <1>2, <2>1 DEF History, Half
<1> QED
  BY <1>2, <1>3, <1>4 DEF GoesOn

LEMMA TransmitLineStep ==
  ASSUME IInv, TransmitLine, upset' = {}
  PROVE  History' /\ Exchange'
<1> USE DEF TransmitLine
<1>1. upset = {} /\ pc' = pc /\ output' = output
  BY DEF boardVars
<1>2. LineAsked /\ History
  BY <1>1 DEF IInv, Exchange, Asked, LineAsked, LineComes, PayloadComes, ChksumComes, Silent
<1>3. cmds' = << >>
  BY <1>2 DEF LineAsked
<1>4. PICK n \in Lengths :
           /\ tty' = tty \o IF n = 0 THEN Status(Letters.F) ELSE UART_Reply_Data(line, n)
           /\ upset' = upset \cup {u \in {"failed"} : n = 0} \cup {u \in {"long"} : n >= Half}
           /\ lens' = Append(lens, n) /\ line' = line + 1
  <2>1. "failed" \notin upset'
    OBVIOUS
  <2> QED
    BY <2>1
<1>5. n \in 1..Half-1
  <2>1. n # 0 /\ ~(n >= Half)
    <3>1. {u \in {"failed"} : n = 0} = {} /\ {u \in {"long"} : n >= Half} = {}
      BY <1>4
    <3> QED
      BY <3>1
  <2>2. n \in Nat /\ Half \in Nat
    BY <1>4, IhuAssumption DEF Half
  <2> QED
    BY <2>1, <2>2
<1>6. /\ History' /\ lens'[line'] = n /\ LinesUpTo(lens', line) = LinesUpTo(lens, line)
      /\ \A l \in 1..line : lens'[l] < Lines - 1
  BY <1>2, <1>4, <1>5, OneMoreLine DEF LineAsked
<1>7. line \in Nat /\ line' = line + 1 /\ line' - 1 = line /\ line' > 0
  BY <1>2, <1>4 DEF History
<1>8. tty' = UART_Reply_Data(line, n)
  <2>1. UART_Reply_Data(line, n) \in Seq(Bytes)
    <3>1. n % Base \in Int /\ (4 * line + ((n \div Base) % 4)) % Base \in Int /\ n % (4 * Base) \in Nat
      BY <1>5, <1>7, IhuAssumption DEF Half
    <3>2. /\ Header(n % Base, (4 * line + ((n \div Base) % 4)) % Base) \in Seq(Bytes)
          /\ Payload(line, n % (4 * Base)) \in Seq(Bytes)
      BY <1>7, <3>1, HeaderType, PayloadType
    <3> QED
      BY <3>2, ChksumType, ConcatProperties DEF UART_Reply_Data, Chksum
  <2>2. tty = << >> /\ n # 0
    BY <1>2, <1>5 DEF LineAsked
  <2>3. tty' = << >> \o UART_Reply_Data(line, n)
    BY <1>4, <2>2
  <2> QED
    BY <2>1, <2>3, ConcatEmptySeq
<1> HIDE DEF TransmitLine
<1>9. output' = FirstLines(line - 1)'
  <2>1. output = FlattenSeq(LinesUpTo(lens, line))
    BY <1>2 DEF LineAsked, FirstLines, LinesUpTo
  <2>2. output' = FlattenSeq(LinesUpTo(lens', line' - 1))
    BY <1>1, <1>6, <1>7, <2>1
  <2>3. FirstLines(line - 1)' = FlattenSeq(LinesUpTo(lens', line' - 1))
    BY DEF FirstLines, LinesUpTo
  <2> QED
    BY <2>2, <2>3
<1>10. LineComes'
  <2>1. pc' = "header"
    BY <1>1, <1>2 DEF LineAsked
  <2>2. tty' = UART_Reply_Data(line - 1, lens[line])'
    BY <1>6, <1>7, <1>8 DEF UART_Reply_Data, Header, Payload
  <2>3. GoesOn(line - 1)'
    BY <1>6, <1>7 DEF GoesOn
  <2>4. output' = FirstLines(line - 1)'
    BY <1>9
  <2> QED
    BY <1>3, <1>7, <2>1, <2>2, <2>3, <2>4 DEF LineComes
<1> QED
  BY <1>6, <1>10 DEF Exchange

\* main reads the answer and asks for the first line, or asks again.
LEMMA get_REPLYStep ==
  ASSUME IInv, get_REPLY, upset' = {}
  PROVE  History' /\ Exchange'
<1> USE DEF get_REPLY
<1>1. PICK got \in Arrived(6), answer \in {Letters.Y, Letters.N} :
        /\ read(6, got)
        /\ IF answer = Letters.Y
             THEN send_CMD("T") /\ pc' = "header" /\ i' = 0 /\ output' = << >>
             ELSE send_CMD("R") /\ UNCHANGED <<pc, i, output>>
  BY NoFailure DEF Exit
<1>2. upset = {} /\ line' = line /\ lens' = lens
  BY <1>1 DEF read, boardVars
<1>3. Asked \/ Silent
  BY <1>2 DEF IInv, Exchange, Asked, LineAsked, LineComes, PayloadComes, ChksumComes, Silent
<1> HIDE DEF get_REPLY
<1>4. tty \in Seq(Bytes) /\ (tty = << >> \/ \E x \in Int : tty = Status(x)) /\ History
  <2>1. tty = << >> \/ \E x \in Int : tty = Status(x)
    BY <1>3 DEF Asked, Silent
  <2>2. << >> \in Seq(Bytes) /\ \A x \in Int : Status(x) \in Seq(Bytes)
    BY HeaderType, EmptySeq DEF Status
  <2> QED
    BY <1>2, <2>1, <2>2 DEF IInv
<1>5. 6 <= Len(tty) /\ tty' = SubSeq(tty, 7, Len(tty))
  <2>1. tty \in Seq(Bytes) /\ got \in Arrived(6) /\ read(6, got) /\ upset' = {} /\ 6 \in Nat
    BY <1>1, <1>4
  <2>2. 6 <= Len(tty) /\ tty' = SubSeq(tty, 6 + 1, Len(tty))
    BY <2>1, ReadFull
  <2> QED
    BY <2>2
<1>6. PICK x \in Int : tty = Status(x)
  BY <1>4, <1>5, EmptySeq
<1>7. Len(tty) = 6 /\ tty' = << >>
  <2>1. Len(tty) = 6
    BY <1>6, HeaderType DEF Status
  <2>2. SubSeq(tty, 7, 6) = << >>
    BY SubSeqEmpty
  <2> QED
    BY <1>5, <2>1, <2>2
<1>8. Asked /\ line = 0 /\ cmds = << >> /\ output = << >>
  <2>1. tty # << >>
    BY <1>5, EmptySeq
  <2> QED
    BY <1>3, <2>1 DEF Asked, Silent
<1>9. CASE answer = Letters.Y
  <2>1. cmds' = <<"T">> /\ pc' = "header" /\ output' = << >>
    BY <1>1, <1>8, <1>9 DEF send_CMD
  <2>2. output' = FirstLines(line)'
    <3>1. FirstLines(line)' = FirstLines(0)
      BY <1>2, <1>8 DEF FirstLines, Payload
    <3> QED
      BY <2>1, <3>1, NoneYet
  <2>3. GoesOn(line)'
    BY <1>2, <1>8 DEF GoesOn
  <2> QED
    BY <1>2, <1>4, <1>7, <2>1, <2>2, <2>3, SameLines DEF Exchange, LineAsked
<1>10. CASE answer # Letters.Y
  <2>1. cmds' = <<"R">> /\ pc' = pc /\ output' = output
    BY <1>1, <1>8, <1>10 DEF send_CMD
  <2> QED
    BY <1>2, <1>4, <1>7, <1>8, <2>1, SameLines DEF Exchange, Asked
<1> QED
  BY <1>9, <1>10

\* The line under way is whole: its length, and its parts.
LEMMA LineParts ==
  ASSUME History, line > 0
  PROVE  LET l == line - 1
             n == lens[line]
             b == (4 * l) % Base
         IN  /\ l \in Nat /\ n \in 1..Half-1 /\ Half \in Nat
             /\ UART_Reply_Data(l, n) = Header(n, b) \o (Payload(l, n) \o Chksum)
             /\ Header(n, b) \in Seq(Bytes) /\ Len(Header(n, b)) = 6
             /\ Header(n, b)[5].v = n /\ Header(n, b)[6].v = b
             /\ Payload(l, n) \in Seq(Bytes) /\ Len(Payload(l, n)) = n
             /\ Payload(l, n) \o Chksum \in Seq(Bytes)
             /\ Size(n, b) = n /\ LineOf(b) = l % (Base \div 4)
<1> DEFINE l == line - 1
           n == lens[line]
           b == (4 * l) % Base
<1>1. l \in Nat /\ n \in 1..Half-1
  BY DEF History
<1> HIDE DEF l, n
<1>2. Half \in Nat /\ n \in Nat /\ n \in 0..Half-1
  BY <1>1, IhuAssumption DEF Half
<1>3. b \in Nat /\ b % 4 = 0 /\ LineOf(b) = l % (Base \div 4)
  BY <1>1, NumberIn
<1>4. Size(n, b) = n
  BY <1>2, <1>3, SizeOfShort
<1>5. /\ Header(n, b) \in Seq(Bytes) /\ Len(Header(n, b)) = 6
      /\ Header(n, b)[5].v = n /\ Header(n, b)[6].v = b
  BY <1>2, <1>3, HeaderType
<1>6. Payload(l, n) \in Seq(Bytes) /\ Len(Payload(l, n)) = n
  BY <1>1, <1>2, PayloadType
<1>7. Chksum \in Seq(Bytes) /\ Payload(l, n) \o Chksum \in Seq(Bytes)
  BY <1>6, ChksumType, ConcatProperties
<1>8. UART_Reply_Data(l, n) = Header(n, b) \o (Payload(l, n) \o Chksum)
  <2>1. Base \in Nat \ {0} /\ n < Base /\ n < 4 * Base
    BY <1>1, <1>2, IhuAssumption DEF Half
  <2>2. n % Base = n /\ n \div Base = 0 /\ n % (4 * Base) = n
    BY <1>2, <2>1
  <2>3. (4 * l + ((n \div Base) % 4)) % Base = b
    <3>1. 0 % 4 = 0 /\ 4 * l + 0 = 4 * l
      BY <1>1
    <3> QED
      BY <2>2, <3>1
  <2>4. UART_Reply_Data(l, n) = (Header(n, b) \o Payload(l, n)) \o Chksum
    BY <2>2, <2>3 DEF UART_Reply_Data, Chksum
  <2>5. (Header(n, b) \o Payload(l, n)) \o Chksum = Header(n, b) \o (Payload(l, n) \o Chksum)
    <3>1. \A s, t, u \in Seq(Bytes) : (s \o t) \o u = s \o (t \o u)
      BY ConcatAssociative
    <3> QED
      BY <1>5, <1>6, <1>7, <3>1
  <2> QED
    BY <2>4, <2>5
<1> QED
  BY <1>1, <1>2, <1>3, <1>4, <1>5, <1>6, <1>7, <1>8 DEF l, n

LEMMA ReadHeaderStep ==
  ASSUME IInv, ReadHeader, upset' = {}
  PROVE  History' /\ Exchange'
<1> DEFINE l == line - 1
           n == lens[line]
           b == (4 * l) % Base
           rest == Payload(l, n) \o Chksum
<1>1. PICK got \in Arrived(6) :
        /\ read(6, got)
        /\ IF Len(got) < 6 \/ Size(got[5].v, got[6].v) < 0
             THEN pc' = "exited" /\ UNCHANGED <<size, linenum>>
             ELSE /\ pc' = "payload"
                  /\ size' = Size(got[5].v, got[6].v)
                  /\ linenum' = LineOf(got[6].v)
  BY NoFailure DEF ReadHeader, Exit
<1>2. /\ pc = "header" /\ line' = line /\ lens' = lens /\ cmds' = cmds /\ output' = output
      /\ upset = {}
  BY <1>1 DEF ReadHeader, boardVars, read
<1>3. (LineAsked \/ LineComes) /\ History
  BY <1>2 DEF IInv, Exchange, Asked, LineAsked, LineComes, PayloadComes, ChksumComes, Silent
<1>4. LineComes
  <2> SUFFICES ASSUME LineAsked PROVE FALSE
    BY <1>3
  <2>1. tty \in Seq(Bytes) /\ Len(tty) = 0
    BY EmptySeq DEF LineAsked
  <2>2. 6 <= Len(tty)
    BY <1>1, <2>1, ReadFull
  <2> QED
    BY <2>1, <2>2
<1>5. /\ l \in Nat /\ n \in 1..Half-1 /\ Half \in Nat
      /\ tty = Header(n, b) \o rest
      /\ Header(n, b) \in Seq(Bytes) /\ Len(Header(n, b)) = 6
      /\ Header(n, b)[5].v = n /\ Header(n, b)[6].v = b
      /\ rest \in Seq(Bytes)
      /\ Size(n, b) = n /\ LineOf(b) = l % (Base \div 4)
  BY <1>3, <1>4, LineParts DEF LineComes
<1> HIDE DEF l, n, b, rest
<1>6. /\ SubSeq(tty, 1, 6) = Header(n, b) /\ SubSeq(tty, 6 + 1, Len(tty)) = rest
  BY <1>5, FrontRest
<1>7. Len(got) = 6 /\ got = Header(n, b) /\ tty' = rest
  <2>1. tty \in Seq(Bytes)
    BY <1>5, ConcatProperties
  <2>2. Len(got) = 6 /\ got = SubSeq(tty, 1, 6) /\ tty' = SubSeq(tty, 6 + 1, Len(tty))
    BY <1>1, <2>1, ReadFull
  <2> QED
    BY <1>6, <2>2
<1>8. pc' = "payload" /\ size' = n /\ linenum' = l % (Base \div 4)
  <2>1. ~(Len(got) < 6 \/ Size(got[5].v, got[6].v) < 0)
    BY <1>5, <1>7
  <2> QED
    BY <1>1, <1>5, <1>7, <2>1
<1>9. PayloadComes'
  <2>1. Numbered'
    BY <1>2, <1>8 DEF Numbered, n, l
  <2>2. tty' = (Payload(line - 1, lens[line]) \o Chksum)'
    BY <1>2, <1>7 DEF rest, n, l
  <2> QED
    BY <1>2, <1>4, <1>8, <2>1, <2>2, SameLines DEF PayloadComes, LineComes
<1> QED
  BY <1>2, <1>3, <1>9, SameLines DEF Exchange

LEMMA ReadPayloadStep ==
  ASSUME IInv, ReadPayload, upset' = {}
  PROVE  History' /\ Exchange'
<1> DEFINE l == line - 1
           n == lens[line]
<1>1. PICK got \in Arrived(size) :
        /\ read(size, got)
        /\ output' = output \o got \o [k \in 1..(size - Len(got)) |-> Byte(0)]
        /\ pc' = "chksum"
  BY NoFailure DEF ReadPayload, Exit
<1>2. /\ pc = "payload" /\ pc' = "chksum" /\ line' = line /\ lens' = lens /\ cmds' = cmds
      /\ size' = size /\ linenum' = linenum /\ upset = {}
  BY <1>1 DEF ReadPayload, boardVars, read
<1>3. PayloadComes /\ History
  BY <1>2 DEF IInv, Exchange, Asked, LineAsked, LineComes, PayloadComes, ChksumComes, Silent
<1>4. /\ l \in Nat /\ n \in 1..Half-1 /\ Half \in Nat /\ size = n
      /\ Payload(l, n) \in Seq(Bytes) /\ Len(Payload(l, n)) = n
      /\ tty = Payload(l, n) \o Chksum /\ tty \in Seq(Bytes)
  BY <1>3, LineParts DEF PayloadComes, Numbered
<1>5. line \in Nat /\ lens \in Seq(Nat) /\ Len(lens) = line /\ line = l + 1 /\ l < Len(lens)
  BY <1>3, <1>4 DEF History
<1>6. output = FlattenSeq(LinesUpTo(lens, l))
  BY <1>3 DEF PayloadComes, FirstLines, LinesUpTo
<1>7. /\ output \in Seq(Bytes)
      /\ FlattenSeq(LinesUpTo(lens, line)) = output \o Payload(l, n)
  <2>1. /\ FlattenSeq(LinesUpTo(lens, l)) \in Seq(Bytes)
        /\ FlattenSeq(LinesUpTo(lens, l + 1)) = FlattenSeq(LinesUpTo(lens, l)) \o Payload(l, lens[l + 1])
    BY <1>4, <1>5, FirstNext
  <2> QED
    BY <1>5, <1>6, <2>1
<1> HIDE DEF l, n
<1>8. SubSeq(tty, 1, n) = Payload(l, n) /\ SubSeq(tty, n + 1, Len(tty)) = Chksum
  BY <1>4, ChksumType, FrontRest
<1>9. Len(got) = n /\ got = Payload(l, n) /\ tty' = Chksum
  <2>1. n \in Nat
    BY <1>4
  <2>2. Len(got) = n /\ got = SubSeq(tty, 1, n) /\ tty' = SubSeq(tty, n + 1, Len(tty))
    BY <1>1, <1>4, <2>1, ReadFull
  <2> QED
    BY <1>8, <2>2
<1>10. output' = FlattenSeq(LinesUpTo(lens, line))
  <2>1. size - Len(got) = 0
    BY <1>4, <1>9
  <2>2. [k \in 1..(size - Len(got)) |-> Byte(0)] = << >>
    BY <2>1
  <2>3. output' = (output \o Payload(l, n)) \o << >>
    BY <1>1, <1>9, <2>2
  <2>4. output \o Payload(l, n) \in Seq(Bytes)
    BY <1>4, <1>7, ConcatProperties
  <2> QED
    BY <1>7, <2>3, <2>4, ConcatEmptySeq
<1>11. ChksumComes'
  <2>1. output' = FirstLines(line)'
    BY <1>2, <1>10 DEF FirstLines, LinesUpTo
  <2> QED
    BY <1>2, <1>3, <1>9, <2>1, SameLines DEF PayloadComes, ChksumComes, Numbered, Chksum
<1> QED
  BY <1>2, <1>3, <1>11, SameLines DEF Exchange

\* After the checksum the simulator asks for the next line, or falls silent.
LEMMA ReadChksumStep ==
  ASSUME IInv, ReadChksum, upset' = {}
  PROVE  History' /\ Exchange'
<1>1. PICK got \in Arrived(2) : read(2, got)
  BY NoFailure DEF ReadChksum
<1>2. /\ pc = "chksum" /\ line' = line /\ lens' = lens /\ output' = output /\ upset = {}
      /\ i' = size + 1
      /\ IF i' < Lines THEN send_CMD("T") /\ pc' = "header" ELSE pc' = "reply" /\ UNCHANGED cmds
  BY <1>1 DEF ReadChksum, AskNext, boardVars, read
<1>3. ChksumComes /\ History
  BY <1>2 DEF IInv, Exchange, Asked, LineAsked, LineComes, PayloadComes, ChksumComes, Silent
<1>4. tty \in Seq(Bytes) /\ Len(tty) = 2
  BY <1>3, ChksumType DEF ChksumComes
<1>5. tty' = << >>
  <2>1. tty' = SubSeq(tty, 2 + 1, Len(tty))
    BY <1>1, <1>2, <1>4, ReadFull
  <2>2. SubSeq(tty, 3, 2) = << >>
    BY SubSeqEmpty
  <2> QED
    BY <1>4, <2>1, <2>2
<1>6. /\ line \in Nat /\ line > 0 /\ lens[line] \in Int /\ Lines \in Nat /\ i' = lens[line] + 1
      /\ \A k \in 1..line : lens[k] \in Int
  <2>1. line \in Nat /\ line > 0 /\ size = lens[line]
    BY <1>3 DEF History, ChksumComes, Numbered
  <2>2. \A k \in 1..line : lens[k] \in Int
    BY <1>3, ElementOfSeq DEF History
  <2> QED
    BY <1>2, <2>1, <2>2, IhuAssumption
<1>7. cmds = << >> /\ output = FirstLines(line) /\ GoesOn(line - 1)
  BY <1>3 DEF ChksumComes
<1>8. CASE i' < Lines
  <2>1. cmds' = <<"T">> /\ pc' = "header"
    BY <1>2, <1>7, <1>8 DEF send_CMD
  <2>2. GoesOn(line)
    <3> SUFFICES ASSUME NEW k \in 1..line PROVE lens[k] < Lines - 1
      BY DEF GoesOn
    <3>1. CASE k = line
      BY <1>6, <1>8, <3>1
    <3>2. CASE k # line
      BY <1>6, <1>7, <3>2 DEF GoesOn
    <3> QED
      BY <3>1, <3>2
  <2> QED
    BY <1>2, <1>3, <1>5, <1>7, <2>1, <2>2, SameLines DEF Exchange, LineAsked
<1>9. CASE ~(i' < Lines)
  <2>1. cmds' = << >> /\ pc' = "reply"
    BY <1>2, <1>7, <1>9
  <2>2. lens[line] >= Lines - 1
    BY <1>6, <1>9
  <2> QED
    BY <1>2, <1>3, <1>5, <1>6, <1>7, <2>1, <2>2, SameLines DEF Exchange, Silent
<1> QED
  BY <1>8, <1>9

LEMMA NextInv == IInv /\ [Next]_vars => IInv'
<1> SUFFICES ASSUME IInv, [Next]_vars, upset' = {} PROVE History' /\ Exchange'
  BY DEF IInv
<1>1. CASE ReadyQuery
  BY <1>1, ReadyQueryStep
<1>2. CASE TransmitLine
  BY <1>2, TransmitLineStep
<1>3. CASE get_REPLY
  BY <1>3, get_REPLYStep
<1>4. CASE ReadHeader
  BY <1>4, ReadHeaderStep
<1>5. CASE ReadPayload
  BY <1>5, ReadPayloadStep
<1>6. CASE ReadChksum
  BY <1>6, ReadChksumStep
<1>7. CASE Camera \/ UNCHANGED vars
  <2>1. UNCHANGED <<line, lens, cmds, tty, pc, i, size, linenum, output, upset>>
    BY <1>7 DEF Camera, vars, boardVars, ihuVars
  <2> QED
    BY <2>1, SameLines DEF IInv, Exchange, Asked, LineAsked, LineComes, PayloadComes,
       ChksumComes, Silent, Numbered, UART_Reply_Data, Header, Payload, Chksum
<1> QED
  BY <1>1, <1>2, <1>3, <1>4, <1>5, <1>6, <1>7 DEF Next, Board, Ihu

LEMMA Invariance == Spec => []IInv
  BY InitInv, NextInv, PTL DEF Spec

-----------------------------------------------------------------------------
\* As long as nothing upsets the simulator, output.dat is the lines sent, whole, once
\* each and in order, whatever their number and lengths.
THEOREM OutputWhole == Spec => []OutputIsLines
<1>1. IInv => OutputIsLines
  <2> SUFFICES ASSUME Exchange, History
               PROVE  output = FirstLines(IF pc = "payload" \/ (pc = "header" /\ tty # << >>)
                                            THEN line - 1 ELSE line)
    BY DEF IInv, OutputIsLines
  <2>1. CASE Asked
    <3>1. pc = "reply" /\ line = 0 /\ output = << >>
      BY <2>1 DEF Asked
    <3> QED
      BY <3>1, NoneYet
  <2>2. CASE LineAsked
    BY <2>2 DEF LineAsked
  <2>3. CASE LineComes
    <3>1. tty # << >>
      <4>1. tty = Header(lens[line], (4 * (line - 1)) % Base) \o (Payload(line - 1, lens[line]) \o Chksum)
        BY <2>3, LineParts DEF LineComes
      <4>2. Len(tty) >= 6
        <5> DEFINE h == Header(lens[line], (4 * (line - 1)) % Base)
                   r == Payload(line - 1, lens[line]) \o Chksum
        <5>1. h \in Seq(Bytes) /\ r \in Seq(Bytes) /\ Len(h) = 6
          BY <2>3, LineParts DEF LineComes
        <5>2. \A s, t \in Seq(Bytes) : Len(s \o t) = Len(s) + Len(t) /\ Len(t) \in Nat
          BY ConcatProperties, LenProperties
        <5> HIDE DEF h, r
        <5>3. Len(h \o r) = 6 + Len(r) /\ Len(r) \in Nat
          BY <5>1, <5>2
        <5> QED
          BY <4>1, <5>3 DEF h, r
      <4> QED
        BY <4>2, EmptySeq
    <3> QED
      BY <2>3, <3>1 DEF LineComes
  <2>4. CASE PayloadComes
    BY <2>4 DEF PayloadComes
  <2>5. CASE ChksumComes
    BY <2>5 DEF ChksumComes
  <2>6. CASE Silent
    BY <2>6 DEF Silent
  <2> QED
    BY <2>1, <2>2, <2>3, <2>4, <2>5, <2>6 DEF Exchange
<1> QED
  BY <1>1, Invariance, PTL

\* The line number that get_IMG takes from the header is that of the line, modulo the
\* 64 that its bits in the header can tell apart.
THEOREM NumbersRight == Spec => []LineNumberRight
<1>1. IInv => LineNumberRight
  BY DEF IInv, Exchange, LineNumberRight, Asked, LineAsked, LineComes, PayloadComes,
     ChksumComes, Silent, Numbered
<1> QED
  BY <1>1, Invariance, PTL

\* The simulator sends a command only when it has read all of the reply to the last.
THEOREM OneAtATime == Spec => []WaitsForReply
<1>1. IInv => WaitsForReply
  <2> SUFFICES ASSUME Exchange, cmds # << >> PROVE Len(cmds) = 1 /\ tty = << >>
    BY DEF IInv, WaitsForReply
  <2>1. (cmds = <<"R">> \/ cmds = <<"T">>) /\ tty = << >>
    BY DEF Exchange, Asked, LineAsked, LineComes, PayloadComes, ChksumComes, Silent
  <2> QED
    BY <2>1
<1> QED
  BY <1>1, Invariance, PTL

\* get_IMG is left at the first line of Lines - 1 bytes or more, and only there.
THEOREM LeftAtLongLine == Spec => []EndsAtLongLine
<1>1. IInv => EndsAtLongLine
  <2> SUFFICES ASSUME upset = {}, Exchange, History
               PROVE  /\ pc # "exited"
                      /\ line > 0 =>
                           /\ \A l \in 1..line-1 : lens[l] < Lines - 1
                           /\ pc = "reply" => lens[line] >= Lines - 1 /\ cmds = << >> /\ tty = << >>
    BY DEF IInv, EndsAtLongLine
  <2>1. CASE Asked
    BY <2>1 DEF Asked
  <2>2. CASE LineAsked
    <3>1. line \in Nat /\ 1..line-1 \subseteq 1..line
      BY DEF History
    <3> QED
      BY <2>2, <3>1 DEF LineAsked, GoesOn
  <2>3. CASE LineComes \/ PayloadComes \/ ChksumComes
    BY <2>3 DEF LineComes, PayloadComes, ChksumComes, GoesOn
  <2>4. CASE Silent
    BY <2>4 DEF Silent, GoesOn
  <2> QED
    BY <2>1, <2>2, <2>3, <2>4 DEF Exchange
<1> QED
  BY <1>1, Invariance, PTL

=============================================================================
