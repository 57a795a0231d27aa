------------------------- MODULE JpegWriter_proofs -------------------------
(***************************************************************************)
(* JpegWriter for every byte width, buffer size, memory size, set of code  *)
(* words and number of lines: types and buffer bounds, unambiguous byte    *)
(* stuffing, independent restart intervals, what the MRAM holds, the bits  *)
(* that a decoder gets, and that LineIndex can scan the image.             *)
(***************************************************************************)
EXTENDS JpegWriter, SequenceTheorems, WellFoundedInduction, TLAPS

\* Bits pending at each control point: less than a byte between calls, and none
\* once flushbits has run; while it runs, one byte or none.
BitsInv ==
  /\ pc = "idle" => n < W
  /\ pc \in {"flush", "stuff"} /\ ret = "mark1" => n \in {0, W}
  /\ pc \in {"mark1", "mark2", "send", "closed"} => n = 0

\* A line that has words is not beyond the last; a marker without words is the
\* end marker; writebits called by huffman_encode has added its word.
LineInv ==
  /\ words # << >> => line < MaxLines
  /\ pc \notin {"idle", "closed"} /\ words = << >> => marker = Eoi
  /\ pc \in {"flush", "stuff"} /\ ret = "idle" => words # << >>
  /\ LineIndependent

\* An 0xFF at the end of the stream is about to be followed by its second byte.
MarkInv ==
  /\ marks \subseteq 1..Len(stream)
  /\ Len(stream) > 0 /\ stream[Len(stream)] = FF => pc \in {"stuff", "mark2"}
  /\ pc = "send" => Len(stream) \in marks
  /\ Unambiguous

\* jpgbuff is the end of the stream, and the rest has been handed to write_jpeg.
BufInv ==
  /\ Len(jpgbuff) <= Len(stream)
  /\ file_addr_ptr = Start + Len(stream) - Len(jpgbuff)
  /\ \A i \in 1..Len(jpgbuff) : jpgbuff[i] = stream[Len(stream) - Len(jpgbuff) + i]

\* The part handed over is in the MRAM, apart from the holes.
HeldInv ==
  Fits => /\ holes \subseteq marks
          /\ \A i \in 1..(Len(stream) - Len(jpgbuff)) :
               i \in holes \/ flash[Start + i - 1] = stream[i]

IInv == TypeOK /\ BitsInv /\ LineInv /\ MarkInv /\ BufInv /\ HeldInv

-----------------------------------------------------------------------------
(* Induction *)

Less == {p \in Nat \X Nat : p[1] < p[2]}

\* A set of numbers has a least one.
LEMMA Least ==
  ASSUME NEW S \in SUBSET Nat, S # {}
  PROVE  \E k \in S : \A m \in S : k <= m
<1>1. IsWellFoundedOn(Less, Nat)
  <2>1. IsWellFoundedOn(OpToRel(<, Nat), Nat)
    BY NatLessThanWellFounded
  <2> QED
    BY <2>1 DEF OpToRel, Less
<1>2. \E k \in S : \A m \in S : ~(<<m, k>> \in Less)
  BY <1>1, WFMin
<1>3. PICK k \in S : \A m \in S : ~(<<m, k>> \in Less)
  BY <1>2
<1>4. ASSUME NEW m \in S PROVE k <= m
  <2>1. <<m, k>> \in Nat \X Nat /\ ~(m < k)
    BY <1>3 DEF Less
  <2> QED
    BY <2>1
<1> QED
  BY <1>4

\* Induction over the numbers, for a set.
LEMMA Induction ==
  ASSUME NEW S, 0 \in S, \A k \in Nat : k \in S => k + 1 \in S
  PROVE  \A k \in Nat : k \in S
<1> DEFINE T == {k \in Nat : k \notin S}
<1> SUFFICES ASSUME T # {} PROVE FALSE
  OBVIOUS
<1>1. PICK k \in T : \A m \in T : k <= m
  BY Least
<1>2. k # 0 /\ k - 1 \in Nat /\ k - 1 \notin T
  BY <1>1
<1> QED
  BY <1>2

-----------------------------------------------------------------------------
(* Powers of two *)

\* The powers are what their recurrence says: sums of exponents are products.
LEMMA Powers ==
  ASSUME NEW a \in Nat, NEW b \in Nat, a + b <= 4*W
  PROVE  /\ Pow2[a] \in Nat \ {0} /\ Pow2[b] \in Nat \ {0} /\ Pow2[a + b] \in Nat \ {0}
         /\ Pow2[a + b] = Pow2[a] * Pow2[b]
<1>1. W \in Nat /\ 4*W \in Nat
  BY WriterAssumption
<1>2. \A k \in 0..4*W : Pow2[k] \in Nat \ {0}
  BY WriterAssumption
<1> DEFINE S == {k \in Nat : a + k <= 4*W => Pow2[a + k] = Pow2[a] * Pow2[k]}
<1>3. 0 \in S
  <2>1. Pow2[0] = 1
    BY WriterAssumption
  <2>2. a \in 0..4*W
    BY <1>1
  <2>3. a + 0 = a /\ Pow2[a] \in Nat /\ Pow2[a] * 1 = Pow2[a]
    BY <1>2, <2>2
  <2> QED
    BY <2>1, <2>3
<1>4. ASSUME NEW k \in Nat, k \in S PROVE k + 1 \in S
  <2> SUFFICES ASSUME a + (k + 1) <= 4*W
               PROVE  Pow2[a + (k + 1)] = Pow2[a] * Pow2[k + 1]
    OBVIOUS
  <2>1. k \in 0..4*W-1 /\ a + k \in 0..4*W-1 /\ a + (k + 1) = (a + k) + 1 /\ a \in 0..4*W
    BY <1>1
  <2>2. Pow2[(a + k) + 1] = 2 * Pow2[a + k] /\ Pow2[k + 1] = 2 * Pow2[k]
    BY <2>1, WriterAssumption
  <2>3. Pow2[a + k] = Pow2[a] * Pow2[k]
    BY <1>1, <1>4, <2>1
  <2>4. \A x, y \in Nat : 2 * (x * y) = x * (2 * y)
    OBVIOUS
  <2>5. Pow2[a] \in Nat /\ Pow2[k] \in Nat
    BY <1>1, <1>2, <2>1
  <2> QED
    BY <2>1, <2>2, <2>3, <2>4, <2>5
<1> HIDE DEF S
<1>5. \A k \in Nat : k \in S
  BY <1>3, <1>4, Induction
<1>6. Pow2[a + b] = Pow2[a] * Pow2[b]
  BY <1>5 DEF S
<1>7. a \in 0..4*W /\ b \in 0..4*W /\ a + b \in 0..4*W
  BY <1>1
<1> QED
  BY <1>2, <1>6, <1>7

-----------------------------------------------------------------------------
(* Arithmetic and constants *)

\* Remainders of numbers one step around the divisor.
LEMMA ModFacts ==
  ASSUME NEW x \in Int, NEW d \in Nat \ {0}
  PROVE  /\ x % d \in 0..d-1
         /\ 0 <= x /\ x < d => x % d = x
         /\ -d <= x /\ x < 0 => x % d = x + d
OBVIOUS

\* The byte values and the constants the steps below use.
LEMMA Constants ==
  /\ W \in Nat /\ W > 1 /\ FF \in Nat /\ FF >= 3 /\ Pow2[W] \in Nat \ {0} /\ FF = Pow2[W] - 1
  /\ BUFFSIZE \in Nat /\ BUFFSIZE > 1
  /\ Eoi \in 1..FF-1
  /\ Start \in Nat /\ DevSize \in Nat \ {0} /\ HighAddr \in Nat
  /\ DevSize <= HighAddr /\ MaxWords \in Nat /\ MaxLines \in Nat
<1>1. W \in 0..4*W
  BY WriterAssumption
<1>2. W - 2 \in Nat /\ 2 + (W - 2) <= 4*W /\ 2 + (W - 2) = W /\ 0 \in 0..4*W-1 /\ 1 \in 0..4*W-1
  BY WriterAssumption
<1>3. Pow2[W - 2] \in Nat \ {0} /\ Pow2[W] \in Nat \ {0} /\ Pow2[W] = Pow2[2] * Pow2[W - 2]
  BY <1>2, Powers
<1>4. Pow2[2] = 4
  BY <1>2, WriterAssumption
<1>5. Pow2[W] >= 4
  <2>1. \A x \in Nat \ {0} : 4 * x >= 4
    OBVIOUS
  <2> QED
    BY <1>3, <1>4, <2>1
<1>6. FF \in Nat /\ FF >= 3 /\ FF = Pow2[W] - 1
  BY <1>3, <1>5 DEF FF
<1>7. W > 1 /\ BUFFSIZE > 1 /\ DevSize <= HighAddr
  BY WriterAssumption
<1> QED
  BY <1>3, <1>6, <1>7, WriterAssumption

\* flashWriteBytes changes exactly the cells the data goes to when it ends within
\* the device.
LEMMA FlashWrite ==
  ASSUME TypeOK, NEW addr \in Nat, NEW data \in Seq(ByteVals), Len(data) >= 2,
         addr + Len(data) <= DevSize
  PROVE  \A a \in 0..DevSize-1 :
           flashWriteBytes(addr, data)[a] =
             IF a >= addr /\ a < addr + Len(data) THEN data[a - addr + 1] ELSE flash[a]
<1> SUFFICES ASSUME NEW a \in 0..DevSize-1
             PROVE  flashWriteBytes(addr, data)[a] =
                      IF a >= addr /\ a < addr + Len(data) THEN data[a - addr + 1]
                      ELSE flash[a]
  OBVIOUS
<1> DEFINE i == ((a - addr) % DevSize) + 1
<1>1. DOMAIN flash = 0..DevSize-1 /\ DevSize \in Nat \ {0} /\ DevSize <= HighAddr /\ HighAddr \in Nat
  BY Constants DEF TypeOK
<1>2. Len(data) \in Nat
  OBVIOUS
<1>3. ~Ignored(addr, Len(data))
  BY <1>1, <1>2 DEF Ignored
<1>4. flashWriteBytes(addr, data)[a] = IF i \in 1..Len(data) THEN data[i] ELSE flash[a]
  BY <1>1, <1>3 DEF flashWriteBytes
<1>5. CASE a >= addr
  <2>1. i = a - addr + 1
    <3>1. a - addr \in Int /\ 0 <= a - addr /\ a - addr < DevSize
      BY <1>1, <1>5
    <3>2. (a - addr) % DevSize = a - addr
      BY <1>1, <3>1, ModFacts
    <3> QED
      BY <3>2
  <2> QED
    BY <1>1, <1>2, <1>4, <1>5, <2>1
<1>6. CASE a < addr
  <2>1. i = a - addr + DevSize + 1
    <3>1. a - addr \in Int /\ -DevSize <= a - addr /\ a - addr < 0
      BY <1>1, <1>2, <1>6
    <3>2. (a - addr) % DevSize = a - addr + DevSize
      BY <1>1, <3>1, ModFacts
    <3> QED
      BY <3>2
  <2>2. i \notin 1..Len(data)
    BY <1>1, <1>2, <1>6, <2>1
  <2> QED
    BY <1>1, <1>2, <1>4, <1>6, <2>2
<1> QED
  BY <1>1, <1>5, <1>6

\* Whatever is written, the MRAM keeps its type.
LEMMA FlashType ==
  ASSUME TypeOK, NEW addr \in Nat, NEW data \in Seq(ByteVals)
  PROVE  flashWriteBytes(addr, data) \in [0..DevSize-1 -> ByteVals \cup {Old}]
<1>1. flash \in [0..DevSize-1 -> ByteVals \cup {Old}]
  BY DEF TypeOK
<1>2. \A k \in 1..Len(data) : data[k] \in ByteVals
  OBVIOUS
<1> QED
  BY <1>1, <1>2 DEF flashWriteBytes

-----------------------------------------------------------------------------
(* The byte buffer *)

\* What a call of writebyte does to the stream, the buffer and the MRAM.
LEMMA ByteWritten ==
  ASSUME TypeOK, BufInv, HeldInv, NEW b \in ByteVals, writebyte(b), marks \subseteq marks'
  PROVE  /\ stream' = Append(stream, b) /\ stream' \in Seq(ByteVals)
         /\ jpgbuff' \in Seq(ByteVals) /\ Len(jpgbuff') < BUFFSIZE
         /\ file_addr_ptr' \in Nat
         /\ flash' \in [0..DevSize-1 -> ByteVals \cup {Old}]
         /\ holes' \in SUBSET Nat
         /\ BufInv' /\ HeldInv'
<1> DEFINE data == Append(jpgbuff, b)
           L == Len(stream)
           k == Len(jpgbuff)
<1>1. /\ stream \in Seq(ByteVals) /\ jpgbuff \in Seq(ByteVals) /\ L \in Nat /\ k \in Nat
      /\ k < BUFFSIZE /\ k <= L /\ file_addr_ptr \in Nat /\ file_addr_ptr = Start + L - k
      /\ holes \in SUBSET Nat
  BY DEF TypeOK, BufInv
<1>2. /\ stream' = Append(stream, b) /\ stream' \in Seq(ByteVals) /\ Len(stream') = L + 1
      /\ \A i \in 1..L : stream'[i] = stream[i]
      /\ stream'[L + 1] = b
  BY <1>1 DEF writebyte
<1>3. /\ data \in Seq(ByteVals) /\ Len(data) = k + 1 /\ data[k + 1] = b
      /\ \A i \in 1..k : data[i] = jpgbuff[i]
  BY <1>1
<1>4. \A i \in 1..k+1 : data[i] = stream'[L - k + i]
  <2>1. \A i \in 1..k : jpgbuff[i] = stream[L - k + i] /\ L - k + i \in 1..L
    BY <1>1 DEF BufInv
  <2>2. L - k + (k + 1) = L + 1
    BY <1>1
  <2>3. \A i \in 1..k : data[i] = stream'[L - k + i]
    BY <1>2, <1>3, <2>1
  <2>4. data[k + 1] = stream'[L - k + (k + 1)]
    BY <1>2, <1>3, <2>2
  <2>5. \A i \in 1..k+1 : i \in 1..k \/ i = k + 1
    BY <1>1
  <2> QED
    BY <2>3, <2>4, <2>5
<1>5. Fits' => Fits
  BY <1>1, <1>2, Constants DEF Fits
<1>6. CASE Len(data) # BUFFSIZE
  <2>1. jpgbuff' = data /\ UNCHANGED <<file_addr_ptr, flash, holes>>
    BY <1>6 DEF writebyte
  <2>2. Len(jpgbuff') < BUFFSIZE
    BY <1>1, <1>3, <1>6, <2>1, Constants
  <2>3. BufInv'
    <3>1. Len(stream') = L + 1 /\ Len(jpgbuff') = k + 1 /\ Len(stream') - Len(jpgbuff') = L - k
      BY <1>1, <1>2, <1>3, <2>1
    <3>2. \A i \in 1..Len(jpgbuff') :
            jpgbuff'[i] = stream'[Len(stream') - Len(jpgbuff') + i]
      BY <1>4, <2>1, <3>1
    <3>3. file_addr_ptr' = Start + Len(stream') - Len(jpgbuff')
      BY <1>1, <2>1, <3>1, Constants
    <3>4. Len(jpgbuff') <= Len(stream')
      BY <1>1, <3>1
    <3> QED
      BY <3>2, <3>3, <3>4, Zenon DEF BufInv
  <2>4. HeldInv'
    <3> SUFFICES ASSUME Fits'
                 PROVE  /\ holes' \subseteq marks'
                        /\ \A i \in 1..(L - k) : i \in holes' \/ flash'[Start + i - 1] = stream'[i]
      <4>1. Len(stream') - Len(jpgbuff') = L - k
        BY <1>1, <1>2, <1>3, <2>1
      <4> QED
        BY <4>1 DEF HeldInv
    <3> QED
      BY <1>1, <1>2, <1>5, <2>1 DEF HeldInv
  <2> QED
    BY <1>1, <1>2, <1>3, <2>1, <2>2, <2>3, <2>4 DEF TypeOK
<1>7. CASE Len(data) = BUFFSIZE
  <2>1. /\ jpgbuff' = << >> /\ flash' = flashWriteBytes(file_addr_ptr, data)
        /\ file_addr_ptr' = file_addr_ptr + Len(data)
        /\ holes' = IF Ignored(file_addr_ptr, Len(data))
                     THEN holes \cup (Len(stream') - Len(data) + 1 .. Len(stream'))
                     ELSE holes
    BY <1>2, <1>7 DEF writebyte, write_jpeg
  <2>2. Len(jpgbuff') = 0 /\ jpgbuff' \in Seq(ByteVals) /\ 0 < BUFFSIZE
    BY <2>1, Constants
  <2>3. file_addr_ptr' = Start + L + 1 /\ file_addr_ptr' \in Nat
    BY <1>1, <1>3, <2>1, Constants
  <2>4. flash' \in [0..DevSize-1 -> ByteVals \cup {Old}]
    BY <1>1, <1>3, <2>1, FlashType
  <2>5. holes' \in SUBSET Nat
    <3>1. Len(stream') - Len(data) + 1 .. Len(stream') \in SUBSET Nat
      BY <1>1, <1>2, <1>3
    <3> QED
      BY <1>1, <2>1, <3>1
  <2>6. BufInv'
    BY <1>1, <1>2, <2>2, <2>3, Constants DEF BufInv
  <2>7. HeldInv'
    <3> SUFFICES ASSUME Fits'
                 PROVE  /\ holes' \subseteq marks'
                        /\ \A i \in 1..(L + 1) : i \in holes' \/ flash'[Start + i - 1] = stream'[i]
      BY <1>1, <1>2, <2>2 DEF HeldInv
    <3>1. Start + L + 1 <= DevSize
      BY <1>1, <1>2, Constants DEF Fits
    <3>2. Len(data) >= 2 /\ file_addr_ptr + Len(data) <= DevSize
      BY <1>1, <1>3, <1>7, <3>1, Constants
    <3>3. ~Ignored(file_addr_ptr, Len(data))
      BY <1>1, <1>3, <3>2, Constants DEF Ignored
    <3>4. holes' = holes /\ holes' \subseteq marks'
      BY <1>5, <2>1, <3>3 DEF HeldInv
    <3>5. ASSUME NEW i \in 1..(L + 1) PROVE i \in holes' \/ flash'[Start + i - 1] = stream'[i]
      <4>1. /\ Start + i - 1 \in 0..DevSize-1
            /\ flash'[Start + i - 1] =
                 IF Start + i - 1 >= file_addr_ptr /\ Start + i - 1 < file_addr_ptr + Len(data)
                 THEN data[(Start + i - 1) - file_addr_ptr + 1] ELSE flash[Start + i - 1]
        <5>1. Start + i - 1 \in 0..DevSize-1
          BY <1>1, <3>1, Constants
        <5> QED
          BY <1>1, <1>3, <2>1, <3>2, <5>1, FlashWrite
      <4>2. CASE i <= L - k
        <5>1. Start + i - 1 < file_addr_ptr /\ i \in 1..L /\ i \in 1..(L - k)
          BY <1>1, <4>2, Constants
        <5>2. flash'[Start + i - 1] = flash[Start + i - 1]
          BY <1>1, <4>1, <5>1, Constants
        <5>3. i \in holes \/ flash[Start + i - 1] = stream[i]
          BY <1>5, <5>1 DEF HeldInv
        <5> QED
          BY <1>2, <3>4, <5>1, <5>2, <5>3
      <4>3. CASE i > L - k
        <5> DEFINE j == i - (L - k)
        <5>1. j \in 1..k+1 /\ L - k + j = i /\ (Start + i - 1) - file_addr_ptr + 1 = j
          BY <1>1, <4>3, Constants
        <5>2. Start + i - 1 >= file_addr_ptr /\ Start + i - 1 < file_addr_ptr + Len(data)
          BY <1>1, <1>3, <4>3, Constants
        <5>3. flash'[Start + i - 1] = data[j]
          BY <4>1, <5>1, <5>2
        <5> QED
          BY <1>4, <5>1, <5>3
      <4> QED
        BY <1>1, <4>2, <4>3
    <3> QED
      BY <3>4, <3>5
  <2> QED
    BY <1>2, <2>2, <2>3, <2>4, <2>5, <2>6, <2>7
<1> QED
  BY <1>6, <1>7

\* What Send's write_jpeg does: at most one byte is ignored while the image fits,
\* and it is the last one.
LEMMA BufferSent ==
  ASSUME TypeOK, BufInv, HeldInv, Len(stream) \in marks,
         write_jpeg(jpgbuff, stream), jpgbuff' = << >>, UNCHANGED <<stream, marks>>
  PROVE  /\ file_addr_ptr' \in Nat
         /\ flash' \in [0..DevSize-1 -> ByteVals \cup {Old}]
         /\ holes' \in SUBSET Nat
         /\ BufInv' /\ HeldInv'
<1> DEFINE L == Len(stream)
           k == Len(jpgbuff)
<1>1. /\ stream \in Seq(ByteVals) /\ jpgbuff \in Seq(ByteVals) /\ L \in Nat /\ k \in Nat
      /\ k <= L /\ file_addr_ptr \in Nat /\ file_addr_ptr = Start + L - k
      /\ holes \in SUBSET Nat
  BY DEF TypeOK, BufInv
<1>2. /\ flash' = flashWriteBytes(file_addr_ptr, jpgbuff)
      /\ file_addr_ptr' = file_addr_ptr + k
      /\ holes' = IF Ignored(file_addr_ptr, k) THEN holes \cup (L - k + 1 .. L) ELSE holes
  BY DEF write_jpeg
<1>3. Len(jpgbuff') = 0 /\ Len(stream') = L
  BY <1>1
<1>4. file_addr_ptr' = Start + L /\ file_addr_ptr' \in Nat
  BY <1>1, <1>2, Constants
<1>5. flash' \in [0..DevSize-1 -> ByteVals \cup {Old}]
  BY <1>1, <1>2, FlashType
<1>6. holes' \in SUBSET Nat
  <2>1. L - k + 1 .. L \in SUBSET Nat
    BY <1>1
  <2> QED
    BY <1>1, <1>2, <2>1
<1>7. BufInv'
  BY <1>1, <1>3, <1>4, Constants DEF BufInv
<1>8. HeldInv'
  <2> SUFFICES ASSUME Fits
               PROVE  /\ holes' \subseteq marks
                      /\ \A i \in 1..L : i \in holes' \/ flash'[Start + i - 1] = stream[i]
    <3>1. Len(stream') - Len(jpgbuff') = L
      BY <1>1, <1>3
    <3> QED
      BY <3>1 DEF HeldInv, Fits
  <2>1. Start + L <= DevSize /\ holes \subseteq marks
    BY DEF Fits, HeldInv
  <2>2. \A i \in 1..(L - k) : i \in holes \/ flash[Start + i - 1] = stream[i]
    BY DEF HeldInv
  <2>3. CASE k < 2
    <3>1. Ignored(file_addr_ptr, k)
      BY <2>3 DEF Ignored
    <3>2. flash' = flash /\ holes' = holes \cup (L - k + 1 .. L)
      BY <1>2, <3>1 DEF flashWriteBytes
    <3>3. L - k + 1 .. L \subseteq {L}
      BY <1>1, <2>3
    <3>4. holes' \subseteq marks
      BY <2>1, <3>2, <3>3
    <3>5. \A i \in 1..L : i \in 1..(L - k) \/ i \in L - k + 1 .. L
      BY <1>1
    <3> QED
      BY <2>2, <3>2, <3>4, <3>5
  <2>4. CASE k >= 2
    <3>1. file_addr_ptr + k <= DevSize
      BY <1>1, <2>1, Constants
    <3>2. ~Ignored(file_addr_ptr, k)
      BY <1>1, <2>4, <3>1, Constants DEF Ignored
    <3>3. holes' = holes
      BY <1>2, <3>2
    <3>4. ASSUME NEW i \in 1..L PROVE i \in holes' \/ flash'[Start + i - 1] = stream[i]
      <4>1. Start + i - 1 \in 0..DevSize-1
        BY <1>1, <2>1, Constants
      <4>2. flash'[Start + i - 1] =
              IF Start + i - 1 >= file_addr_ptr /\ Start + i - 1 < file_addr_ptr + k
              THEN jpgbuff[(Start + i - 1) - file_addr_ptr + 1] ELSE flash[Start + i - 1]
        BY <1>1, <1>2, <2>4, <3>1, <4>1, FlashWrite
      <4>3. CASE i <= L - k
        <5>1. ~(Start + i - 1 >= file_addr_ptr) /\ i \in 1..(L - k)
          BY <1>1, <4>3, Constants
        <5> QED
          BY <2>2, <3>3, <4>2, <5>1
      <4>4. CASE i > L - k
        <5> DEFINE j == i - (L - k)
        <5>1. /\ j \in 1..k /\ L - k + j = i /\ (Start + i - 1) - file_addr_ptr + 1 = j
              /\ Start + i - 1 >= file_addr_ptr /\ Start + i - 1 < file_addr_ptr + k
          BY <1>1, <4>4, Constants
        <5>2. jpgbuff[j] = stream[L - k + j]
          BY <5>1 DEF BufInv
        <5> QED
          BY <4>2, <5>1, <5>2
      <4> QED
        BY <1>1, <4>3, <4>4
    <3> QED
      BY <2>1, <3>3, <3>4
  <2> QED
    BY <1>1, <2>3, <2>4
<1> QED
  BY <1>4, <1>5, <1>6, <1>7, <1>8

-----------------------------------------------------------------------------
(* The stream *)

\* A byte written at the end of the stream keeps it unambiguous if an 0xFF before
\* it is followed by what it promised.
LEMMA StreamExtended ==
  ASSUME TypeOK, MarkInv, NEW b \in ByteVals, stream' = Append(stream, b),
         marks' \in {marks, marks \cup {Len(stream) + 1}},
         Len(stream) > 0 /\ stream[Len(stream)] = FF =>
           IF marks' = marks THEN b = 0 ELSE b # 0
  PROVE  Unambiguous' /\ marks' \subseteq 1..Len(stream') /\ Len(stream') = Len(stream) + 1
         /\ stream'[Len(stream')] = b
<1> DEFINE L == Len(stream)
<1>1. /\ stream \in Seq(ByteVals) /\ L \in Nat /\ Len(stream') = L + 1
      /\ \A i \in 1..L : stream'[i] = stream[i]
      /\ stream'[L + 1] = b
  BY DEF TypeOK
<1>2. marks \subseteq 1..L /\ Unambiguous
  BY DEF MarkInv
<1>3. marks' \subseteq 1..Len(stream')
  BY <1>1, <1>2
<1>4. ASSUME NEW i \in 1..L, stream'[i] = FF
      PROVE  IF i + 1 \in marks' THEN stream'[i + 1] # 0 ELSE stream'[i + 1] = 0
  <2>1. CASE i < L
    <3>1. i \in 1..L-1 /\ i + 1 \in 1..L /\ i + 1 # L + 1
      BY <1>1, <2>1
    <3>2. i + 1 \in marks' <=> i + 1 \in marks
      BY <3>1
    <3>3. stream[i] = FF => IF i + 1 \in marks THEN stream[i + 1] # 0 ELSE stream[i + 1] = 0
      BY <1>2, <3>1 DEF Unambiguous
    <3> QED
      BY <1>1, <1>4, <3>1, <3>2, <3>3
  <2>2. CASE i = L
    <3>1. Len(stream) > 0 /\ stream[Len(stream)] = FF
      BY <1>1, <1>4, <2>2
    <3>2. L + 1 \notin marks
      BY <1>1, <1>2
    <3> QED
      BY <1>1, <2>2, <3>1, <3>2
  <2> QED
    BY <1>1, <2>1, <2>2
<1>5. Unambiguous'
  BY <1>1, <1>4 DEF Unambiguous
<1> QED
  BY <1>1, <1>3, <1>5

-----------------------------------------------------------------------------
(* The inductive invariant *)

\* The state jpeg_init leaves satisfies the invariant.
LEMMA InitIInv == Init => IInv
<1> SUFFICES ASSUME Init PROVE IInv
  OBVIOUS
<1>1. TypeOK
  BY Constants DEF Init, TypeOK, ByteVals
<1>2. BitsInv /\ LineInv /\ MarkInv /\ BufInv /\ HeldInv
  BY Constants DEF Init, BitsInv, LineInv, LineIndependent, MarkInv, Unambiguous, BufInv,
                   HeldInv
<1> QED
  BY <1>1, <1>2 DEF IInv

\* shifting bits in keeps the types of the bit buffer.
LEMMA ShiftType ==
  ASSUME TypeOK, NEW bits \in Nat, NEW len \in 0..2*W, n < W, ShiftIn(bits, len)
  PROVE  buf' \in Nat /\ n' = n + len /\ n' \in 0..3*W
<1>1. W \in Nat /\ len \in 0..4*W /\ 4*W \in 0..4*W /\ n \in Nat /\ buf \in Nat
  BY Constants DEF TypeOK
<1>2. Pow2[len] \in Nat \ {0} /\ Pow2[4*W] \in Nat \ {0}
  BY <1>1, WriterAssumption
<1>3. buf * Pow2[len] \in Int /\ bits % Pow2[len] \in Int
  BY <1>1, <1>2
<1>4. (buf * Pow2[len]) + (bits % Pow2[len]) \in Int
  BY <1>3
<1>5. ((buf * Pow2[len]) + (bits % Pow2[len])) % Pow2[4*W] \in Nat
  <2> DEFINE x == (buf * Pow2[len]) + (bits % Pow2[len])
             d == Pow2[4*W]
  <2>1. x \in Int /\ d \in Nat \ {0}
    BY <1>2, <1>4
  <2> HIDE DEF x, d
  <2>2. x % d \in Nat
    BY <2>1, ModFacts
  <2> QED
    BY <2>2 DEF x, d
<1> QED
  BY <1>1, <1>5 DEF ShiftIn

\* Steps that do not write a byte: the start of writebits and of a marker.
LEMMA BeginIInv ==
  ASSUME IInv, (\E w \in Words : WriteWord(w)) \/ EndLine \/ Close
  PROVE  IInv'
<1> USE DEF IInv
<1>1. /\ UNCHANGED <<bufferVars, line, marks>> /\ pc = "idle" /\ n < W /\ n \in Nat
      /\ W \in Nat /\ W > 1
  BY Constants DEF WriteWord, EndLine, Close, BitsInv, TypeOK
<1>2. CASE \E w \in Words : WriteWord(w)
  <2>1. PICK w \in Words : WriteWord(w)
    BY <1>2
  <2>2. w.bits \in Nat /\ w.len \in 0..2*W
    BY WriterAssumption
  <2>3. buf' \in Nat /\ n' \in 0..3*W
    BY <1>1, <2>1, <2>2, ShiftType DEF WriteWord
  <2>4. /\ pc' = "flush" /\ ret' = "idle" /\ dc' = "used" /\ words' = Append(words, w)
        /\ marker' = marker /\ line < MaxLines /\ Len(words) < MaxWords
    BY <2>1 DEF WriteWord
  <2>5. words' \in Seq(Words) /\ Len(words') <= MaxWords /\ words' # << >>
    <3>1. words \in Seq(Words) /\ MaxWords \in Nat
      BY Constants DEF TypeOK
    <3> QED
      BY <2>4, <3>1
  <2>6. TypeOK'
    BY <1>1, <2>3, <2>4, <2>5 DEF TypeOK, bufferVars
  <2>7. BitsInv' /\ LineInv'
    BY <1>1, <2>4, <2>5 DEF BitsInv, LineInv, LineIndependent
  <2>8. MarkInv' /\ BufInv' /\ HeldInv'
    BY <1>1, <2>4 DEF MarkInv, Unambiguous, BufInv, HeldInv, Fits, bufferVars
  <2> QED
    BY <2>6, <2>7, <2>8
<1>3. CASE EndLine \/ Close
  <2>1. flushbits /\ UNCHANGED <<dc, words>> /\ marker' \in 1..FF-1
        /\ (words = << >> => marker' = Eoi)
    <3>1. CASE EndLine
      <4>1. line % RstCount \in 0..RstCount-1
        <5>1. line \in Int
          BY Constants DEF TypeOK
        <5>2. RstCount \in Nat \ {0}
          BY WriterAssumption
        <5> QED
          BY <5>1, <5>2, ModFacts
      <4>2. Rst[line % RstCount] \in 1..FF-1
        BY <4>1, WriterAssumption
      <4> QED
        BY <3>1, <4>2 DEF EndLine
    <3>2. CASE Close
      BY <3>2, Constants DEF Close
    <3> QED
      BY <1>3, <3>1, <3>2
  <2>2. /\ buf' \in Nat /\ n' \in 0..3*W /\ pc' \in {"flush", "mark1"}
        /\ ret' \in {"idle", "mark1"}
        /\ pc' = "flush" => ret' = "mark1" /\ n' = W
        /\ pc' = "mark1" => n' = 0
    <3>1. CASE n > 0
      <4>1. FF \in Nat /\ W - n \in 0..2*W
        BY <1>1, <3>1, Constants
      <4>2. ShiftIn(FF, W - n) /\ pc' = "flush" /\ ret' = "mark1"
        BY <2>1, <3>1 DEF flushbits
      <4>3. buf' \in Nat /\ n' = n + (W - n) /\ n' \in 0..3*W
        BY <1>1, <4>1, <4>2, ShiftType
      <4> QED
        BY <1>1, <4>2, <4>3
    <3>2. CASE ~(n > 0)
      BY <1>1, <2>1, <3>2 DEF flushbits, TypeOK
    <3> QED
      BY <3>1, <3>2
  <2>3. TypeOK'
    BY <1>1, <2>1, <2>2 DEF TypeOK, bufferVars
  <2>4. BitsInv' /\ LineInv'
    BY <1>1, <2>1, <2>2 DEF BitsInv, LineInv, LineIndependent
  <2>5. MarkInv' /\ BufInv' /\ HeldInv'
    BY <1>1, <2>2 DEF MarkInv, Unambiguous, BufInv, HeldInv, Fits, bufferVars
  <2> QED
    BY <2>3, <2>4, <2>5
<1> QED
  BY <1>2, <1>3

\* Steps that write one byte.
LEMMA ByteIInv ==
  ASSUME IInv, FlushByte \/ StuffByte \/ MarkFirst \/ MarkSecond
  PROVE  IInv'
<1> USE DEF IInv
<1>0. /\ W \in Nat /\ W > 1 /\ n \in Nat /\ n <= 3*W /\ FF \in Nat /\ FF >= 3
      /\ 0 \in ByteVals /\ FF \in ByteVals /\ marker \in ByteVals /\ marker \in 1..FF-1
      /\ Len(stream) \in Nat
  <2>1. W \in Nat /\ W > 1 /\ FF \in Nat /\ FF >= 3
    BY Constants
  <2>2. n \in 0..3*W /\ marker \in 1..FF-1 /\ Len(stream) \in Nat
    BY DEF TypeOK
  <2> QED
    BY <2>1, <2>2 DEF ByteVals
<1>1. UNCHANGED <<ret, marker, buf, dc, line, words>>
  BY DEF FlushByte, StuffByte, MarkFirst, MarkSecond
<1>2. CASE FlushByte /\ n < W
  <2>1. pc = "flush" /\ pc' = ret /\ UNCHANGED <<n, bufferVars, marks>>
    BY <1>0, <1>2 DEF FlushByte
  <2>2. TypeOK'
    BY <1>1, <2>1 DEF TypeOK, bufferVars
  <2>3. BitsInv' /\ LineInv'
    BY <1>0, <1>1, <1>2, <2>1 DEF BitsInv, LineInv, LineIndependent, bufferVars, TypeOK
  <2>4. MarkInv' /\ BufInv' /\ HeldInv'
    BY <2>1 DEF MarkInv, Unambiguous, BufInv, HeldInv, Fits, bufferVars, TypeOK
  <2> QED
    BY <2>2, <2>3, <2>4
<1>3. CASE ~(FlushByte /\ n < W)
  <2>1. PICK b \in ByteVals :
          /\ writebyte(b)
          /\ pc' \in {"flush", "stuff", "mark2", "send"}
          /\ marks' = (IF pc' = "send" THEN marks \cup {Len(stream) + 1} ELSE marks)
          /\ b = FF => pc' \in {"stuff", "mark2"}
          /\ pc = "stuff" => b = 0 /\ pc' = "flush"
          /\ pc = "mark2" => b # 0 /\ pc' = "send"
          /\ pc' = "send" => pc = "mark2"
          /\ pc' \in {"flush", "stuff"} => pc \in {"flush", "stuff"}
          /\ pc' = "mark2" => pc = "mark1"
          /\ n' = IF pc = "flush" THEN n - W ELSE n
          /\ pc = "flush" => n >= W
          /\ pc \in {"flush", "stuff", "mark1", "mark2"}
    <3>1. CASE FlushByte
      <4> DEFINE b == (buf \div Pow2[n - W]) % Pow2[W]
      <4>1. n >= W
        BY <1>0, <1>3, <3>1
      <4>2. b \in ByteVals
        <5>1. n - W \in 0..4*W
          BY <1>0, <4>1
        <5>2. Pow2[n - W] \in Nat \ {0} /\ Pow2[W] \in Nat \ {0}
          BY <5>1, WriterAssumption, Constants
        <5>3. buf \div Pow2[n - W] \in Int
          BY <5>2 DEF TypeOK
        <5> QED
          BY <5>2, <5>3, ModFacts, Constants DEF ByteVals
      <4>3. /\ writebyte(b) /\ n' = n - W /\ pc = "flush" /\ marks' = marks
            /\ pc' = IF b = FF THEN "stuff" ELSE "flush"
        BY <3>1, <4>1 DEF FlushByte
      <4> HIDE DEF b
      <4> QED
        BY <4>1, <4>2, <4>3
    <3>2. CASE StuffByte
      BY <1>0, <3>2 DEF StuffByte
    <3>3. CASE MarkFirst
      BY <1>0, <3>3 DEF MarkFirst
    <3>4. CASE MarkSecond
      BY <1>0, <3>4 DEF MarkSecond
    <3> QED
      BY <3>1, <3>2, <3>3, <3>4
  <2>2. marks \subseteq marks'
    BY <2>1
  <2>3. /\ stream' = Append(stream, b) /\ stream' \in Seq(ByteVals)
        /\ jpgbuff' \in Seq(ByteVals) /\ Len(jpgbuff') < BUFFSIZE
        /\ file_addr_ptr' \in Nat
        /\ flash' \in [0..DevSize-1 -> ByteVals \cup {Old}]
        /\ holes' \in SUBSET Nat
        /\ BufInv' /\ HeldInv'
    BY <2>1, <2>2, ByteWritten
  <2>4. n' \in 0..3*W
    BY <1>0, <2>1
  <2>5. marks' \in SUBSET Nat
    <3>1. marks \in SUBSET Nat /\ Len(stream) + 1 \in Nat
      BY <1>0 DEF TypeOK
    <3> QED
      BY <2>1, <3>1
  <2>6. TypeOK'
    BY <1>1, <2>1, <2>3, <2>4, <2>5 DEF TypeOK
  <2>7. BitsInv'
    BY <1>0, <1>1, <2>1 DEF BitsInv, TypeOK
  <2>8. LineInv'
    BY <1>1, <2>1 DEF LineInv, LineIndependent
  <2>9. MarkInv'
    <3>1. Len(stream) > 0 /\ stream[Len(stream)] = FF => pc \in {"stuff", "mark2"}
      BY DEF MarkInv
    <3>2. pc = "mark2" => marks' # marks
      <4>1. Len(stream) + 1 \notin marks
        BY <1>0 DEF MarkInv
      <4> QED
        BY <2>1, <4>1
    <3>3. pc = "stuff" => marks' = marks
      BY <2>1
    <3>4. marks' \in {marks, marks \cup {Len(stream) + 1}}
      BY <2>1
    <3>5. Len(stream) > 0 /\ stream[Len(stream)] = FF => IF marks' = marks THEN b = 0 ELSE b # 0
      BY <2>1, <3>1, <3>2, <3>3
    <3>6. /\ Unambiguous' /\ marks' \subseteq 1..Len(stream')
          /\ Len(stream') = Len(stream) + 1 /\ stream'[Len(stream')] = b
      BY <2>3, <3>4, <3>5, StreamExtended
    <3> QED
      BY <2>1, <3>6 DEF MarkInv
  <2> QED
    BY <2>3, <2>6, <2>7, <2>8, <2>9
<1> QED
  BY <1>2, <1>3

\* The end of write_RSI and huffman_stop.
LEMMA SendIInv ==
  ASSUME IInv, Send
  PROVE  IInv'
<1> USE DEF IInv
<1>1. /\ pc = "send" /\ Len(stream) \in marks /\ write_jpeg(jpgbuff, stream)
      /\ jpgbuff' = << >> /\ UNCHANGED <<ret, marker, buf, n, stream, marks>> /\ n = 0
  BY DEF Send, MarkInv, BitsInv
<1>2. /\ file_addr_ptr' \in Nat
      /\ flash' \in [0..DevSize-1 -> ByteVals \cup {Old}]
      /\ holes' \in SUBSET Nat
      /\ BufInv' /\ HeldInv'
  BY <1>1, BufferSent
<1>3. \/ marker = Eoi /\ pc' = "closed" /\ UNCHANGED <<dc, line, words>>
      \/ /\ words # << >> /\ pc' = "idle" /\ line' = line + 1 /\ dc' = "zero"
         /\ words' = << >>
  BY <1>1 DEF Send, LineInv
<1>4. jpgbuff' \in Seq(ByteVals) /\ Len(jpgbuff') < BUFFSIZE
  BY <1>1, Constants
<1>5. line' \in 0..MaxLines /\ words' \in Seq(Words) /\ Len(words') <= MaxWords
  <2>1. /\ line \in 0..MaxLines /\ words \in Seq(Words) /\ Len(words) <= MaxWords
        /\ words # << >> => line < MaxLines
        /\ MaxLines \in Nat /\ MaxWords \in Nat
    BY Constants DEF TypeOK, LineInv
  <2>2. CASE UNCHANGED <<line, words>>
    BY <2>1, <2>2
  <2>3. CASE words # << >> /\ line' = line + 1 /\ words' = << >>
    <3>1. words' \in Seq(Words) /\ Len(words') = 0
      BY <2>3
    <3> QED
      BY <2>1, <2>3, <3>1
  <2> QED
    BY <1>3, <2>2, <2>3
<1>6. TypeOK'
  BY <1>1, <1>2, <1>3, <1>4, <1>5 DEF TypeOK
<1>7. BitsInv' /\ LineInv'
  BY <1>1, <1>3, Constants DEF BitsInv, LineInv, LineIndependent
<1>8. MarkInv'
  BY <1>1, <1>3 DEF MarkInv, Unambiguous
<1> QED
  BY <1>2, <1>6, <1>7, <1>8

\* The inductive invariant holds in every reachable state of the encoder's output.
LEMMA Inductive == Spec => []IInv
<1>1. Init => IInv
  BY InitIInv
<1>2. IInv /\ UNCHANGED vars => IInv'
  BY DEF IInv, TypeOK, BitsInv, LineInv, LineIndependent, MarkInv, Unambiguous, BufInv, HeldInv,
         Fits, vars, bufferVars
<1>3. IInv /\ [Next]_vars => IInv'
  BY <1>2, BeginIInv, ByteIInv, SendIInv DEF Next
<1> QED
  BY <1>1, <1>3, PTL DEF Spec

\* jpgbuff is never written at or past BUFFSIZE, the bit buffer never holds more
\* than three bytes of bits, and all other variables keep their types.
THEOREM TypeCorrect == Spec => []TypeOK
<1>1. IInv => TypeOK
  BY DEF IInv
<1> QED
  BY <1>1, Inductive, PTL

\* While the image fits the MRAM, everything handed to write_jpeg is in the MRAM
\* where the stream has it, except second bytes of markers that came alone.
THEOREM StreamStored == Spec => []FlashHoldsStream
<1>1. IInv => FlashHoldsStream
  <2> SUFFICES ASSUME IInv, Fits, NEW i \in 1..(file_addr_ptr - Start)
               PROVE  IF i \in holes THEN i \in marks ELSE flash[Start + i - 1] = stream[i]
    BY DEF FlashHoldsStream
  <2>1. file_addr_ptr - Start = Len(stream) - Len(jpgbuff)
    BY Constants DEF IInv, BufInv, TypeOK
  <2> QED
    BY <2>1 DEF IInv, HeldInv
<1> QED
  BY <1>1, Inductive, PTL

\* writebits' stuffing and the markers never mix: after 0xFF comes 0x00 or the
\* second byte of a marker that write_RSI or huffman_stop wrote.
THEOREM StreamUnambiguous == Spec => []Unambiguous
<1>1. IInv => Unambiguous
  BY DEF IInv, MarkInv
<1> QED
  BY <1>1, Inductive, PTL

\* A new line starts byte-aligned, with an empty buffer and reset predictors.
THEOREM LinesIndependent == Spec => []LineIndependent
<1>1. IInv => LineIndependent
  BY DEF IInv, LineInv
<1> QED
  BY <1>1, Inductive, PTL

-----------------------------------------------------------------------------
(* The end marker *)

\* The end marker follows an empty buffer, so it is in one write of two bytes.
EndInv ==
  /\ holes \subseteq 1..(Len(stream) - Len(jpgbuff))
  /\ pc \in {"flush", "stuff"} /\ ret = "mark1" => marker # Eoi
  /\ pc = "mark1" /\ marker = Eoi => Len(jpgbuff) = 0
  /\ pc = "mark2" /\ marker = Eoi => Len(jpgbuff) = 1
  /\ pc = "send" /\ marker = Eoi => Len(jpgbuff) \in {0, 2}
  /\ pc = "closed" => marker = Eoi /\ Len(jpgbuff) = 0
  /\ pc \in {"send", "closed"} => Len(stream) > 0 /\ stream[Len(stream)] = marker
  /\ pc \in {"send", "closed"} /\ marker = Eoi /\ Fits => Len(stream) \notin holes

\* How a call of writebyte changes the lengths and the holes.
LEMMA ByteHoles ==
  ASSUME IInv, EndInv, NEW b \in ByteVals, writebyte(b)
  PROVE  /\ holes' \subseteq 1..(Len(stream') - Len(jpgbuff'))
         /\ Len(stream') = Len(stream) + 1 /\ stream'[Len(stream')] = b
         /\ Len(jpgbuff') \in {0, Len(jpgbuff) + 1}
         /\ Len(jpgbuff) = 0 => Len(jpgbuff') = 1
         /\ Fits' => Len(stream') \notin holes'
<1> DEFINE data == Append(jpgbuff, b)
           L == Len(stream)
           k == Len(jpgbuff)
<1>1. /\ stream \in Seq(ByteVals) /\ jpgbuff \in Seq(ByteVals) /\ L \in Nat /\ k \in Nat
      /\ k <= L /\ k < BUFFSIZE /\ file_addr_ptr = Start + L - k
      /\ BUFFSIZE \in Nat /\ BUFFSIZE > 1 /\ Start \in Nat
      /\ DevSize \in Nat /\ HighAddr \in Nat /\ DevSize <= HighAddr
  BY Constants DEF IInv, TypeOK, BufInv
<1>2. Len(stream') = L + 1 /\ stream'[L + 1] = b /\ stream' = Append(stream, b)
  BY <1>1 DEF writebyte
<1>3. Len(data) = k + 1
  BY <1>1
<1>4. holes \subseteq 1..(L - k) /\ L + 1 \notin holes
  BY <1>1 DEF EndInv
<1>5. CASE k + 1 # BUFFSIZE
  <2>1. jpgbuff' = data /\ holes' = holes
    BY <1>3, <1>5 DEF writebyte
  <2> QED
    BY <1>1, <1>2, <1>3, <1>4, <2>1
<1>6. CASE k + 1 = BUFFSIZE
  <2>1. /\ jpgbuff' = << >>
        /\ holes' = IF Ignored(file_addr_ptr, k + 1)
                    THEN holes \cup (L - k + 1 .. L + 1) ELSE holes
    <3>1. /\ jpgbuff' = << >>
          /\ holes' = IF Ignored(file_addr_ptr, Len(data))
                      THEN holes \cup (Len(stream') - Len(data) + 1 .. Len(stream')) ELSE holes
      BY <1>2, <1>3, <1>6 DEF writebyte, write_jpeg
    <3>2. Len(stream') - Len(data) + 1 = L - k + 1
      BY <1>1, <1>2, <1>3
    <3> QED
      BY <1>2, <1>3, <3>1, <3>2
  <2>2. Len(jpgbuff') = 0 /\ k # 0
    BY <1>1, <1>6, <2>1
  <2>3. holes' \subseteq 1..(L + 1)
    <3>1. 1..(L - k) \subseteq 1..(L + 1) /\ L - k + 1 .. L + 1 \subseteq 1..(L + 1)
      BY <1>1
    <3> QED
      BY <1>4, <2>1, <3>1
  <2>4. Fits' => ~Ignored(file_addr_ptr, k + 1)
    BY <1>1, <1>2, <1>6 DEF Fits, Ignored
  <2> QED
    BY <1>1, <1>2, <1>4, <2>1, <2>2, <2>3, <2>4
<1> QED
  BY <1>5, <1>6

\* Every step keeps EndInv.
LEMMA EndStep ==
  ASSUME IInv, EndInv, Next
  PROVE  EndInv'
<1>1. /\ TypeOK /\ LineIndependent /\ marker \in 1..FF-1 /\ Eoi \in 1..FF-1 /\ FF \in Nat /\ FF >= 3
      /\ Len(stream) \in Nat /\ Len(jpgbuff) \in Nat /\ Len(jpgbuff) <= Len(stream)
  <2>1. TypeOK /\ LineIndependent /\ Len(jpgbuff) <= Len(stream)
    BY DEF IInv, LineInv, BufInv
  <2>2. marker \in 1..FF-1 /\ stream \in Seq(ByteVals) /\ jpgbuff \in Seq(ByteVals)
    BY <2>1 DEF TypeOK
  <2> QED
    BY <2>1, <2>2, Constants
<1>2. CASE \E w \in Words : WriteWord(w)
  BY <1>2 DEF WriteWord, EndInv, Fits, bufferVars
<1>3. CASE EndLine
  <2>1. line % RstCount \in 0..RstCount-1
    <3>1. line \in Int /\ RstCount \in Nat \ {0}
      BY <1>1, WriterAssumption DEF TypeOK
    <3> QED
      BY <3>1, ModFacts
  <2>2. marker' # Eoi /\ pc' \in {"flush", "mark1"} /\ UNCHANGED bufferVars
    BY <1>3, <2>1, WriterAssumption DEF EndLine, flushbits
  <2> QED
    BY <2>2 DEF EndInv, Fits, bufferVars
<1>4. CASE Close
  <2>1. n = 0 /\ jpgbuff = << >>
    BY <1>1, <1>4 DEF Close, LineIndependent
  <2>2. pc' = "mark1" /\ UNCHANGED bufferVars
    BY <1>4, <2>1 DEF Close, flushbits
  <2> QED
    BY <2>1, <2>2 DEF EndInv, Fits, bufferVars
<1>5. CASE FlushByte /\ n < W
  <2>1. W \in Nat /\ n \in Nat
    BY <1>1, Constants DEF TypeOK
  <2>2. pc = "flush" /\ pc' = ret /\ UNCHANGED <<n, bufferVars, marker, ret>>
    BY <1>5, <2>1 DEF FlushByte
  <2>3. ret \in {"idle", "mark1"}
    BY <1>1 DEF TypeOK
  <2> QED
    BY <2>2, <2>3 DEF EndInv, Fits, bufferVars
<1>6. CASE (FlushByte /\ ~(n < W)) \/ StuffByte
  <2>1. PICK b \in ByteVals : /\ writebyte(b) /\ pc' \in {"flush", "stuff"}
                              /\ pc \in {"flush", "stuff"} /\ UNCHANGED <<ret, marker>>
    <3>1. CASE FlushByte /\ ~(n < W)
      <4> DEFINE b == (buf \div Pow2[n - W]) % Pow2[W]
      <4>1. n \in 0..3*W /\ W \in Nat /\ W > 1 /\ n >= W /\ buf \in Nat
        BY <1>1, <3>1, Constants DEF TypeOK
      <4>2. b \in ByteVals
        <5>1. n - W \in 0..4*W
          BY <4>1
        <5>2. Pow2[n - W] \in Nat \ {0} /\ Pow2[W] \in Nat \ {0}
          BY <5>1, WriterAssumption, Constants
        <5>3. buf \div Pow2[n - W] \in Int
          BY <4>1, <5>2
        <5> QED
          BY <5>2, <5>3, ModFacts, Constants DEF ByteVals
      <4>3. /\ writebyte(b) /\ pc = "flush" /\ pc' = IF b = FF THEN "stuff" ELSE "flush"
            /\ UNCHANGED <<ret, marker>>
        BY <3>1, <4>1 DEF FlushByte
      <4> HIDE DEF b
      <4> QED
        BY <4>2, <4>3
    <3>2. CASE StuffByte
      BY <1>1, <3>2 DEF StuffByte, ByteVals
    <3> QED
      BY <1>6, <3>1, <3>2
  <2>2. holes' \subseteq 1..(Len(stream') - Len(jpgbuff'))
    BY <2>1, ByteHoles
  <2> QED
    BY <2>1, <2>2 DEF EndInv
<1>7. CASE MarkFirst
  <2>1. FF \in ByteVals /\ writebyte(FF) /\ pc = "mark1" /\ pc' = "mark2" /\ marker' = marker
    BY <1>1, <1>7 DEF MarkFirst, ByteVals
  <2>2. /\ holes' \subseteq 1..(Len(stream') - Len(jpgbuff'))
        /\ Len(jpgbuff) = 0 => Len(jpgbuff') = 1
    BY <2>1, ByteHoles
  <2> QED
    BY <2>1, <2>2 DEF EndInv
<1>8. CASE MarkSecond
  <2>1. /\ marker \in ByteVals /\ writebyte(marker) /\ pc = "mark2" /\ pc' = "send"
        /\ marker' = marker
    BY <1>1, <1>8 DEF MarkSecond, ByteVals
  <2>2. /\ holes' \subseteq 1..(Len(stream') - Len(jpgbuff'))
        /\ Len(stream') = Len(stream) + 1 /\ stream'[Len(stream')] = marker
        /\ Len(jpgbuff') \in {0, Len(jpgbuff) + 1}
        /\ Fits' => Len(stream') \notin holes'
    BY <2>1, ByteHoles
  <2>3. marker = Eoi => Len(jpgbuff') \in {0, 2}
    <3> SUFFICES ASSUME marker = Eoi PROVE Len(jpgbuff') \in {0, 2}
      OBVIOUS
    <3>1. Len(jpgbuff) = 1
      BY <2>1 DEF EndInv
    <3>2. 1 + 1 = 2
      OBVIOUS
    <3> QED
      BY <2>2, <3>1, <3>2, Zenon
  <2>4. Len(stream') > 0
    BY <1>1, <2>2
  <2> QED
    BY <2>1, <2>2, <2>3, <2>4 DEF EndInv
<1>9. CASE Send
  <2> DEFINE L == Len(stream)
             k == Len(jpgbuff)
  <2>1. /\ pc = "send" /\ jpgbuff' = << >> /\ UNCHANGED <<marker, stream>>
        /\ holes' = IF Ignored(file_addr_ptr, k) THEN holes \cup (L - k + 1 .. L) ELSE holes
        /\ pc' = IF marker = Eoi THEN "closed" ELSE "idle"
    BY <1>9 DEF Send, write_jpeg
  <2>2. Len(jpgbuff') = 0 /\ Len(stream') = L
    BY <2>1
  <2>3. /\ file_addr_ptr = Start + L - k /\ Start \in Nat /\ DevSize \in Nat
        /\ HighAddr \in Nat /\ DevSize <= HighAddr
    BY Constants DEF IInv, BufInv
  <2>4. holes' \subseteq 1..L
    <3>1. 1..(L - k) \subseteq 1..L /\ L - k + 1 .. L \subseteq 1..L
      BY <1>1
    <3> QED
      BY <2>1, <3>1 DEF EndInv
  <2>5. marker = Eoi /\ Fits => L \notin holes'
    <3> SUFFICES ASSUME marker = Eoi, Fits PROVE L \notin holes'
      OBVIOUS
    <3>1. L \notin holes /\ k \in {0, 2}
      BY <2>1 DEF EndInv
    <3>2. CASE k = 0
      BY <1>1, <2>1, <3>1, <3>2
    <3>3. CASE k = 2
      <4>1. ~Ignored(file_addr_ptr, k)
        BY <1>1, <2>3, <3>3 DEF Fits, Ignored
      <4> QED
        BY <2>1, <3>1, <4>1
    <3> QED
      BY <3>1, <3>2, <3>3
  <2> QED
    BY <1>1, <2>1, <2>2, <2>4, <2>5 DEF EndInv, Fits
<1> QED
  BY <1>2, <1>3, <1>4, <1>5, <1>6, <1>7, <1>8, <1>9 DEF Next

\* It holds in every reachable state.
LEMMA EndInductive == Spec => []EndInv
<1>1. Init => EndInv
  BY DEF Init, EndInv
<1>2. IInv /\ EndInv /\ [Next]_vars => EndInv'
  <2>1. IInv /\ EndInv /\ UNCHANGED vars => EndInv'
    BY DEF EndInv, Fits, vars, bufferVars
  <2> QED
    BY <2>1, EndStep
<1> QED
  BY <1>1, <1>2, Inductive, PTL DEF Spec

\* huffman_stop's marker reaches the MRAM whole: when the image is closed and fits,
\* its last byte in the MRAM is the second byte of the end marker, which is what
\* ends the scan of generateLineIndex.
THEOREM EndMarkerStored == Spec => []EndMarkerWritten
<1>1. IInv /\ EndInv => EndMarkerWritten
  <2> SUFFICES ASSUME IInv, EndInv, Fits, pc = "closed"
               PROVE  flash[Start + Len(stream) - 1] = Eoi
    BY DEF EndMarkerWritten
  <2>1. /\ Len(stream) \in Nat /\ Len(stream) > 0 /\ Len(jpgbuff) = 0
        /\ stream[Len(stream)] = Eoi /\ Len(stream) \notin holes
    BY DEF EndInv, IInv, TypeOK
  <2>2. Len(stream) \in 1..(Len(stream) - Len(jpgbuff))
    BY <2>1
  <2> QED
    BY <2>1, <2>2 DEF IInv, HeldInv
<1> QED
  BY <1>1, Inductive, EndInductive, PTL

-----------------------------------------------------------------------------
(* Bits of a number *)

\* Quotient and remainder.
LEMMA DivMod ==
  ASSUME NEW x \in Nat, NEW d \in Nat \ {0}
  PROVE  x \div d \in Nat /\ x % d \in 0..d-1 /\ x = d * (x \div d) + (x % d)
OBVIOUS

\* Products, for the prover's arithmetic.
LEMMA Products ==
  ASSUME NEW x \in Int, NEW y \in Int, NEW z \in Int
  PROVE  /\ x * y \in Int /\ x * y = y * x
         /\ (x * y) * z = x * (y * z)
         /\ x * (y + z) = x * y + x * z
         /\ x * (y - z) = x * y - x * z
         /\ (x > 0 /\ y >= 1 => x * y >= x)
         /\ (x > 0 /\ y <= -1 => x * y <= -x)
OBVIOUS

\* There is only one quotient.
LEMMA Quotient ==
  ASSUME NEW d \in Nat \ {0}, NEW q \in Nat, NEW r \in 0..d-1, NEW x, x = d * q + r
  PROVE  x \in Nat /\ x \div d = q
<1>1. d * q \in Nat
  OBVIOUS
<1>2. x \in Nat
  BY <1>1
<1> DEFINE p == x \div d
           s == x % d
<1>3. p \in Nat /\ s \in 0..d-1 /\ x = d * p + s
  BY <1>2, DivMod
<1> HIDE DEF p, s
<1>4. /\ d * (p - q) = d * p - d * q /\ p - q \in Int /\ d * p \in Int
      /\ d * (p - q) \in Int
      /\ p - q >= 1 => d * (p - q) >= d
      /\ p - q <= -1 => d * (p - q) <= -d
  <2>1. p \in Int /\ q \in Int /\ p - q \in Int /\ d \in Int /\ d > 0
    BY <1>3
  <2> QED
    BY <2>1, Products
<1>5. d * (p - q) = r - s
  BY <1>1, <1>3, <1>4
<1>6. p - q = 0
  BY <1>3, <1>4, <1>5
<1> QED
  BY <1>2, <1>3, <1>6 DEF p

\* Dividing twice is dividing by the product.
LEMMA QuotientTwice ==
  ASSUME NEW x \in Nat, NEW d \in Nat \ {0}, NEW e \in Nat \ {0}
  PROVE  (x \div d) \div e = x \div (d * e)
<1> DEFINE q == x \div d
           r == x % d
           p == q \div e
           s == q % e
<1>1. q \in Nat /\ r \in 0..d-1 /\ x = d * q + r
  BY DivMod
<1>2. p \in Nat /\ s \in 0..e-1 /\ q = e * p + s
  BY <1>1, DivMod
<1> HIDE DEF q, r, p, s
<1>3. /\ d * (e * p + s) = d * (e * p) + d * s
      /\ d * (e * p) = (d * e) * p
      /\ d * s \in Int /\ d * e \in Int /\ d * s >= 0 /\ d * e > 0
      /\ d * s <= d * e - d
  <2>1. d \in Int /\ e \in Int /\ p \in Int /\ s \in Int /\ e * p \in Int /\ d > 0
    BY <1>2
  <2>2. d * (e * p + s) = d * (e * p) + d * s /\ d * (e * p) = (d * e) * p
    BY <2>1, Products
  <2>3. d * s \in Nat /\ d * e \in Nat \ {0}
    BY <1>2, Products
  <2>4. d * (e - s) = d * e - d * s /\ d * (e - s) >= d
    <3>1. e - s \in Int /\ e - s >= 1
      BY <1>2
    <3> QED
      BY <2>1, <3>1, Products
  <2> QED
    BY <2>2, <2>3, <2>4
<1>4. x = (d * e) * p + (d * s + r)
  <2>1. (d * e) * p \in Int
    BY <1>2, <1>3
  <2> QED
    BY <1>1, <1>2, <1>3, <2>1
<1>5. d * e \in Nat \ {0} /\ d * s + r \in 0..(d * e) - 1
  BY <1>1, <1>3
<1>6. x \div (d * e) = p
  BY <1>2, <1>4, <1>5, Quotient
<1> QED
  BY <1>6 DEF p, q

\* The bit k of x.
Bit(x, k) == (x \div Pow2[k]) % 2

\* What is above a bit does not change it.
LEMMA BitBelow ==
  ASSUME NEW x \in Nat, NEW y \in Nat, NEW k \in Nat, NEW m \in Nat, k < m, m <= 4*W
  PROVE  Bit(Pow2[m] * y + x, k) = Bit(x, k)
<1> DEFINE d == Pow2[k]
           e == Pow2[m - (k + 1)]
           q == x \div d
           r == x % d
<1>1. W \in Nat
  BY WriterAssumption
<1>2. Pow2[k + 1] \in Nat \ {0} /\ d \in Nat \ {0} /\ Pow2[k + 1] = d * Pow2[1]
  <2>1. k + 1 <= 4*W
    BY <1>1
  <2> QED
    BY <2>1, Powers
<1>3. Pow2[m] = Pow2[k + 1] * e /\ e \in Nat \ {0}
  <2>1. m - (k + 1) \in Nat /\ (k + 1) + (m - (k + 1)) = m /\ k + 1 \in Nat
    BY <1>1
  <2> QED
    BY <2>1, Powers
<1>4. Pow2[1] = 2
  <2>1. 0 \in 0..4*W-1 /\ 0 + 1 = 1
    BY <1>1
  <2> QED
    BY <2>1, WriterAssumption
<1>5. q \in Nat /\ r \in 0..d-1 /\ x = d * q + r
  BY <1>2, DivMod
<1> HIDE DEF d, e, q, r
<1>6. Pow2[m] * y = d * (2 * (e * y)) /\ e * y \in Nat
  <2>1. d \in Int /\ e \in Int /\ y \in Int /\ e * y \in Nat
    BY <1>2, <1>3
  <2>2. Pow2[m] = (d * 2) * e
    BY <1>2, <1>3, <1>4
  <2>3. ((d * 2) * e) * y = (d * 2) * (e * y) /\ (d * 2) * (e * y) = d * (2 * (e * y))
    <3>1. d * 2 \in Int /\ e * y \in Int
      BY <2>1
    <3> QED
      BY <2>1, <3>1, Products
  <2> QED
    BY <2>1, <2>2, <2>3
<1> DEFINE z == e * y
<1>7. z \in Nat /\ Pow2[m] * y = d * (2 * z)
  BY <1>6
<1> HIDE DEF z
<1>8. Pow2[m] * y + x = d * (2 * z + q) + r
  <2>1. 2 * z \in Int /\ q \in Int /\ d \in Int /\ d * (2 * z) \in Int /\ d * q \in Int
    BY <1>2, <1>5, <1>7
  <2>2. d * (2 * z + q) = d * (2 * z) + d * q
    BY <2>1, Products
  <2> QED
    BY <1>5, <1>7, <2>1, <2>2
<1>9. (Pow2[m] * y + x) \div d = 2 * z + q
  <2>1. 2 * z + q \in Nat
    BY <1>5, <1>7
  <2> QED
    BY <1>2, <1>5, <1>8, <2>1, Quotient
<1>10. (2 * z + q) % 2 = q % 2
  BY <1>5, <1>7
<1> QED
  BY <1>9, <1>10 DEF Bit, d, q

\* A bit of a number shifted down.
LEMMA BitAbove ==
  ASSUME NEW x \in Nat, NEW k \in Nat, NEW m \in Nat, k + m <= 4*W
  PROVE  Bit(x \div Pow2[m], k) = Bit(x, m + k)
<1>1. Pow2[m] \in Nat \ {0} /\ Pow2[k] \in Nat \ {0} /\ Pow2[m + k] = Pow2[m] * Pow2[k]
  <2>1. m + k <= 4*W
    BY WriterAssumption
  <2> QED
    BY <2>1, Powers
<1>2. (x \div Pow2[m]) \div Pow2[k] = x \div (Pow2[m] * Pow2[k])
  BY <1>1, QuotientTwice
<1> QED
  BY <1>1, <1>2 DEF Bit

\* A bit of the low bits.
LEMMA BitOfLow ==
  ASSUME NEW x \in Nat, NEW k \in Nat, NEW m \in Nat, k < m, m <= 4*W
  PROVE  Bit(x % Pow2[m], k) = Bit(x, k)
<1>1. Pow2[m] \in Nat \ {0}
  <2>1. m \in 0..4*W
    BY WriterAssumption
  <2> QED
    BY <2>1, WriterAssumption
<1> DEFINE d == Pow2[m]
           q == x \div d
           r == x % d
<1>2. d \in Nat \ {0}
  BY <1>1
<1> HIDE DEF d
<1>3. q \in Nat /\ r \in Nat /\ x = d * q + r
  <2>1. q \in Nat /\ r \in 0..d-1 /\ x = d * q + r
    BY <1>2, DivMod
  <2> QED
    BY <1>2, <2>1
<1> HIDE DEF q, r
<1>4. Bit(d * q + r, k) = Bit(r, k)
  BY <1>3, BitBelow DEF d
<1> QED
  BY <1>3, <1>4 DEF d, r

-----------------------------------------------------------------------------
(* Sequences of bits *)

\* A number gives a sequence of as many bits as asked for.
LEMMA BitsSeq ==
  ASSUME NEW x \in Nat, NEW len \in 0..4*W
  PROVE  /\ BitsOf(x, len) \in Seq({0, 1}) /\ Len(BitsOf(x, len)) = len
         /\ \A i \in 1..len : BitsOf(x, len)[i] = Bit(x, len - i)
<1>1. ASSUME NEW i \in 1..len PROVE (x \div Pow2[len - i]) % 2 \in {0, 1}
  <2>1. len - i \in 0..4*W
    BY WriterAssumption
  <2>2. Pow2[len - i] \in Nat \ {0}
    BY <2>1, WriterAssumption
  <2>3. x \div Pow2[len - i] \in Nat
    BY <2>2
  <2>4. \A y \in Nat : y % 2 \in {0, 1}
    OBVIOUS
  <2> QED
    BY <2>3, <2>4
<1>2. len \in Nat
  BY WriterAssumption
<1>3. BitsOf(x, len) \in [1..len -> {0, 1}]
  BY <1>1 DEF BitsOf
<1>4. Len(BitsOf(x, len)) = len
  BY <1>2 DEF BitsOf
<1>5. \A i \in 1..len : BitsOf(x, len)[i] = Bit(x, len - i)
  BY DEF BitsOf, Bit
<1> HIDE DEF BitsOf
<1> QED
  BY <1>2, <1>3, <1>4, <1>5

Join(s, t) == s \o t

\* The low bits of x are those of z; the bits of x above the first b are those of y.
SameLow(x, z, b) == \A k \in Nat : k < b => Bit(x, k) = Bit(z, k)
SameHigh(x, b, y, a) == \A k \in Nat : k < a => Bit(x, b + k) = Bit(y, k)

\* Bits that agree one by one are the same bits.
LEMMA BitsJoin ==
  ASSUME NEW x \in Nat, NEW y \in Nat, NEW z \in Nat, NEW a \in Nat, NEW b \in Nat,
         NEW c \in 0..4*W, c = a + b, SameLow(x, z, b), SameHigh(x, b, y, a)
  PROVE  BitsOf(x, c) = Join(BitsOf(y, a), BitsOf(z, b))
<1> DEFINE s == BitsOf(x, c)
           t == BitsOf(y, a)
           u == BitsOf(z, b)
<1>0. W \in Nat
  BY WriterAssumption
<1>1. a \in 0..4*W /\ b \in 0..4*W /\ a + b \in 0..4*W
  BY <1>0
<1>2. /\ s \in Seq({0, 1}) /\ Len(s) = a + b /\ \A i \in 1..a+b : s[i] = Bit(x, (a + b) - i)
      /\ t \in Seq({0, 1}) /\ Len(t) = a /\ \A i \in 1..a : t[i] = Bit(y, a - i)
      /\ u \in Seq({0, 1}) /\ Len(u) = b /\ \A i \in 1..b : u[i] = Bit(z, b - i)
  BY <1>1, BitsSeq
<1> HIDE DEF s, t, u
<1>3. /\ t \o u \in Seq({0, 1}) /\ Len(t \o u) = a + b
      /\ \A i \in 1..a+b : (t \o u)[i] = IF i <= a THEN t[i] ELSE u[i - a]
  <2>1. t \in Seq({0, 1}) /\ Len(t) = a /\ u \in Seq({0, 1}) /\ Len(u) = b
    BY <1>2
  <2> QED
    BY <2>1, ConcatProperties
<1>4. ASSUME NEW i \in 1..a+b PROVE s[i] = (t \o u)[i]
  <2>1. CASE i <= a
    <3>1. i \in 1..a /\ (a + b) - i = b + (a - i) /\ a - i \in Nat /\ a - i < a
      BY <2>1
    <3>2. Bit(x, b + (a - i)) = Bit(y, a - i)
      BY <3>1 DEF SameHigh
    <3>3. s[i] = Bit(x, b + (a - i))
      BY <1>2, <3>1
    <3>4. (t \o u)[i] = t[i]
      BY <1>3, <2>1
    <3>5. t[i] = Bit(y, a - i)
      BY <1>2, <3>1
    <3> QED
      BY <3>2, <3>3, <3>4, <3>5, Zenon
  <2>2. CASE i > a
    <3>1. i - a \in 1..b /\ (a + b) - i = b - (i - a) /\ b - (i - a) \in Nat /\ b - (i - a) < b
      BY <2>2
    <3>2. Bit(x, b - (i - a)) = Bit(z, b - (i - a))
      BY <3>1 DEF SameLow
    <3>3. s[i] = Bit(x, b - (i - a))
      BY <1>2, <3>1
    <3>4. ~(i <= a) /\ (t \o u)[i] = u[i - a]
      BY <1>3, <2>2
    <3>5. u[i - a] = Bit(z, b - (i - a))
      BY <1>2, <3>1
    <3> QED
      BY <3>2, <3>3, <3>4, <3>5, Zenon
  <2>3. i <= a \/ i > a
    OBVIOUS
  <2> QED
    BY <2>1, <2>2, <2>3, Zenon
<1>5. s = t \o u
  BY <1>2, <1>3, <1>4, SeqEqual
<1> QED
  BY <1>5 DEF s, t, u, Join

\* writebits: the bits shifted in are behind those that were there, whatever is cut off.
LEMMA BitsShifted ==
  ASSUME NEW x \in Nat, NEW bits \in Nat, NEW a \in Nat, NEW b \in Nat, a + b <= 4*W
  PROVE  LET y == ((x * Pow2[b]) + (bits % Pow2[b])) % Pow2[4*W]
         IN  y \in Nat /\ BitsOf(y, a + b) = Join(BitsOf(x, a), BitsOf(bits, b))
<1> DEFINE d == Pow2[b]
           r == bits % d
           z == d * x + r
           e == Pow2[4*W]
           y == z % e
<1>1. d \in Nat \ {0} /\ e \in Nat \ {0} /\ 4*W \in Nat
  <2>1. W \in Nat
    BY WriterAssumption
  <2>2. b \in 0..4*W /\ 4*W \in 0..4*W /\ 4*W \in Nat
    BY <2>1
  <2>3. \A k \in 0..4*W : Pow2[k] \in Nat \ {0}
    BY WriterAssumption
  <2> QED
    BY <2>2, <2>3
<1>2. r \in 0..d-1 /\ r \in Nat
  <2> HIDE DEF d
  <2>1. r \in 0..d-1
    BY <1>1, DivMod
  <2> HIDE DEF r
  <2> QED
    BY <1>1, <2>1
<1>3. z \in Nat /\ z \div d = x
  <2> HIDE DEF d, r
  <2> QED
    BY <1>1, <1>2, Quotient
<1>4. y \in Nat /\ y = ((x * Pow2[b]) + (bits % Pow2[b])) % Pow2[4*W]
  <2>1. y \in 0..e-1
    <3> HIDE DEF z, e
    <3> QED
      BY <1>1, <1>3, DivMod
  <2>2. x * d = d * x
    <3> HIDE DEF d
    <3> QED
      BY <1>1
  <2>3. y \in Nat
    <3> HIDE DEF y, e
    <3> QED
      BY <1>1, <2>1
  <2> QED
    BY <2>2, <2>3
<1>5. ASSUME NEW k \in Nat, k < a + b PROVE Bit(y, k) = Bit(z, k)
  <2>1. k < 4*W
    BY WriterAssumption, <1>5
  <2> HIDE DEF z
  <2> QED
    BY <1>1, <1>3, <2>1, BitOfLow
<1>6. ASSUME NEW k \in Nat, k < b PROVE Bit(y, k) = Bit(bits, k)
  <2>1. Bit(z, k) = Bit(r, k)
    <3>1. b <= 4*W
      BY WriterAssumption
    <3> HIDE DEF r
    <3> QED
      BY <1>2, <1>6, <3>1, BitBelow
  <2>2. Bit(r, k) = Bit(bits, k)
    <3>1. b <= 4*W
      BY WriterAssumption
    <3> QED
      BY <1>6, <3>1, BitOfLow
  <2>3. k < a + b
    BY <1>6
  <2> QED
    BY <1>5, <2>1, <2>2, <2>3
<1>7. ASSUME NEW k \in Nat, k < a PROVE Bit(y, b + k) = Bit(x, k)
  <2>1. b + k \in Nat /\ b + k < a + b /\ k + b <= 4*W
    BY <1>7, WriterAssumption
  <2>2. Bit(y, b + k) = Bit(z, b + k)
    BY <1>5, <2>1
  <2>3. Bit(z \div d, k) = Bit(z, b + k)
    <3> HIDE DEF z
    <3> QED
      BY <1>3, <2>1, BitAbove
  <2> QED
    BY <1>3, <2>2, <2>3
<1>8. BitsOf(y, a + b) = Join(BitsOf(x, a), BitsOf(bits, b))
  <2>1. y \in Nat
    BY <1>4
  <2>2. SameLow(y, bits, b)
    BY <1>6 DEF SameLow
  <2>3. SameHigh(y, b, x, a)
    BY <1>7 DEF SameHigh
  <2> DEFINE c == a + b
  <2>4. c \in 0..4*W /\ c = a + b
    BY WriterAssumption
  <2> HIDE DEF y, c
  <2>5. BitsOf(y, c) = Join(BitsOf(x, a), BitsOf(bits, b))
    BY <2>1, <2>2, <2>3, <2>4, BitsJoin
  <2> QED
    BY <2>5 DEF c
<1> QED
  BY <1>4, <1>8

\* The loop of writebits: the byte taken out and what is left are the bits there were.
LEMMA BitsTaken ==
  ASSUME NEW x \in Nat, NEW a \in Nat, a + W <= 4*W
  PROVE  LET b == (x \div Pow2[a]) % Pow2[W]
         IN  b \in ByteVals /\ BitsOf(x, a + W) = Join(BitsOf(b, W), BitsOf(x, a))
<1> DEFINE q == x \div Pow2[a]
           b == q % Pow2[W]
<1>1. W \in Nat /\ W <= 4*W /\ W + a <= 4*W /\ W + a = a + W
  BY WriterAssumption
<1>2. q \in Nat
  <2>1. a \in 0..4*W
    BY WriterAssumption
  <2>2. Pow2[a] \in Nat \ {0}
    BY <2>1, WriterAssumption
  <2> QED
    BY <2>2
<1>3. b \in ByteVals /\ b \in Nat
  <2>1. Pow2[W] \in Nat \ {0} /\ FF = Pow2[W] - 1
    BY Constants
  <2> HIDE DEF q
  <2>2. b \in 0..Pow2[W]-1
    BY <1>2, <2>1, DivMod
  <2> QED
    BY <2>1, <2>2 DEF ByteVals
<1>4. ASSUME NEW k \in Nat, k < W PROVE Bit(x, a + k) = Bit(b, k)
  <2>1. Bit(b, k) = Bit(q, k)
    <3> HIDE DEF q
    <3> QED
      BY <1>1, <1>2, <1>4, BitOfLow
  <2>2. Bit(q, k) = Bit(x, a + k)
    <3>1. k + a <= 4*W
      BY <1>1, <1>4
    <3> QED
      BY <3>1, BitAbove
  <2> QED
    BY <2>1, <2>2
<1> HIDE DEF b
<1>5. BitsOf(x, W + a) = Join(BitsOf(b, W), BitsOf(x, a))
  <2>1. b \in Nat
    BY <1>3
  <2>2. SameLow(x, x, a)
    BY DEF SameLow
  <2>3. SameHigh(x, a, b, W)
    BY <1>4 DEF SameHigh
  <2> DEFINE c == W + a
  <2>4. c \in 0..4*W /\ c = W + a
    BY <1>1
  <2> HIDE DEF c
  <2>5. BitsOf(x, c) = Join(BitsOf(b, W), BitsOf(x, a))
    BY <1>1, <2>1, <2>2, <2>3, <2>4, BitsJoin
  <2> QED
    BY <2>5 DEF c
<1> QED
  BY <1>1, <1>3, <1>5 DEF b

\* flushbits: the low bits of 0xFF are ones.
LEMMA BitsOfFF ==
  ASSUME NEW len \in 0..W
  PROVE  BitsOf(FF, len) = [i \in 1..len |-> 1]
<1> SUFFICES ASSUME NEW i \in 1..len PROVE Bit(FF, len - i) = 1
  BY DEF BitsOf, Bit
<1> DEFINE k == len - i
           d == Pow2[k]
           e == Pow2[W - (k + 1)]
<1>1. W \in Nat /\ k \in Nat /\ k + 1 <= W /\ W <= 4*W /\ W - (k + 1) \in Nat /\ W = (k + 1) + (W - (k + 1))
  BY WriterAssumption
<1> HIDE DEF k
<1>2. d \in Nat \ {0} /\ Pow2[k + 1] = d * Pow2[1]
  <2>1. k + 1 <= 4*W
    BY <1>1
  <2> QED
    BY <1>1, <2>1, Powers
<1>3. e \in Nat \ {0} /\ Pow2[W] = Pow2[k + 1] * e
  BY <1>1, Powers
<1>4. Pow2[1] = 2
  <2>1. 0 \in 0..4*W-1 /\ 0 + 1 = 1
    BY <1>1
  <2> QED
    BY <2>1, WriterAssumption
<1>5. FF = Pow2[W] - 1
  BY DEF FF
<1> HIDE DEF d, e
<1>6. FF = d * (2 * e - 1) + (d - 1)
  <2>1. (d * 2) * e = d * (2 * e) /\ d * (2 * e - 1) = d * (2 * e) - d * 1 /\ d * (2 * e) \in Int
    <3>1. d \in Int /\ e \in Int /\ 2 * e \in Int
      BY <1>2, <1>3
    <3> QED
      BY <3>1, Products
  <2>2. Pow2[W] = (d * 2) * e
    BY <1>2, <1>3, <1>4
  <2> QED
    BY <1>2, <1>5, <2>1, <2>2
<1>7. FF \div d = 2 * e - 1
  <2>1. 2 * e - 1 \in Nat /\ d - 1 \in 0..d-1
    BY <1>2, <1>3
  <2> DEFINE q == 2 * e - 1
             r == d - 1
  <2>2. FF = d * q + r /\ q \in Nat /\ r \in 0..d-1
    BY <1>6, <2>1
  <2> HIDE DEF q, r
  <2>3. FF \div d = q
    BY <1>2, <2>2, Quotient
  <2> QED
    BY <2>3 DEF q
<1>8. (2 * e - 1) % 2 = 1
  BY <1>3
<1> QED
  BY <1>7, <1>8 DEF Bit, d, k

-----------------------------------------------------------------------------
(* Sequences of sequences *)

IsFlat(s, k, g) == g = [i \in 1..k |-> IF i = 1 THEN s[i] ELSE g[i - 1] \o s[i]]

LEMMA FlatExists == ASSUME NEW s PROVE \A k \in Nat : \E g : IsFlat(s, k, g)
<1> DEFINE S == {k \in Nat : \E g : IsFlat(s, k, g)}
<1>1. 0 \in S
  <2> DEFINE g == [i \in 1..0 |-> s[i]]
             f == [i \in 1..0 |-> IF i = 1 THEN s[i] ELSE g[i - 1] \o s[i]]
  <2>1. g = f
    OBVIOUS
  <2>2. IsFlat(s, 0, g)
    BY <2>1 DEF IsFlat
  <2> QED
    BY <2>2
<1>2. ASSUME NEW k \in Nat, k \in S PROVE k + 1 \in S
  <2>1. PICK g : IsFlat(s, k, g)
    BY <1>2
  <2> DEFINE Item(i) == IF i = 1 THEN s[i] ELSE g[i - 1] \o s[i]
             h == [i \in 1..k+1 |-> Item(i)]
             f == [i \in 1..k+1 |-> IF i = 1 THEN s[i] ELSE h[i - 1] \o s[i]]
  <2>2. ASSUME NEW i \in 1..k+1, i # 1 PROVE h[i - 1] = g[i - 1]
    <3>1. i - 1 \in 1..k /\ i - 1 \in 1..k+1
      BY <2>2
    <3>2. h[i - 1] = Item(i - 1)
      BY <3>1
    <3>3. g[i - 1] = Item(i - 1)
      BY <2>1, <3>1 DEF IsFlat
    <3> QED
      BY <3>2, <3>3
  <2>3. ASSUME NEW i \in 1..k+1 PROVE h[i] = f[i]
    <3>1. h[i] = Item(i) /\ f[i] = IF i = 1 THEN s[i] ELSE h[i - 1] \o s[i]
      OBVIOUS
    <3> HIDE DEF h, f
    <3>2. CASE i = 1
      BY <3>1, <3>2
    <3>3. CASE i # 1
      BY <2>2, <3>1, <3>3
    <3> QED
      BY <3>2, <3>3
  <2>4. h = f
    BY <2>3
  <2>5. IsFlat(s, k + 1, h)
    BY <2>4 DEF IsFlat
  <2> QED
    BY <2>5
<1> HIDE DEF S
<1>3. \A k \in Nat : k \in S
  BY <1>1, <1>2, Induction
<1> QED
  BY <1>3 DEF S

\* FlattenSeq from the right: the sequences before, then the last one.
LEMMA FlatRight ==
  ASSUME NEW T, NEW s \in Seq(Seq(T)), NEW x \in Seq(T), NEW r,
         Len(r) = Len(s) + 1, \A i \in 1..Len(s) : r[i] = s[i], r[Len(s) + 1] = x
  PROVE  FlattenSeq(s) \in Seq(T) /\ FlattenSeq(r) = Join(FlattenSeq(s), x)
<1> DEFINE m == Len(s)
           g == CHOOSE g : IsFlat(s, m, g)
           h == CHOOSE h : IsFlat(r, m + 1, h)
<1>1. m \in Nat /\ \A i \in 1..m : s[i] \in Seq(T)
  BY LenProperties, ElementOfSeq
<1>2. IsFlat(s, m, g) /\ IsFlat(r, m + 1, h)
  <2>1. m + 1 \in Nat
    BY <1>1
  <2> HIDE DEF m
  <2>2. \E f : IsFlat(s, m, f)
    BY <1>1, FlatExists
  <2>3. \E f : IsFlat(r, m + 1, f)
    BY <2>1, FlatExists
  <2> QED
    BY <2>2, <2>3
<1>3. FlattenSeq(s) = IF m = 0 THEN s ELSE g[m]
  BY DEF FlattenSeq, IsFlat
<1>4. FlattenSeq(r) = h[m + 1]
  BY <1>1 DEF FlattenSeq, IsFlat
<1> HIDE DEF g, h
<1>5. (\A i \in 1..m : r[i] = s[i]) /\ r[m + 1] = x
  OBVIOUS
<1> HIDE DEF m
<1>6. /\ \A i \in 1..m : g[i] = IF i = 1 THEN s[i] ELSE g[i - 1] \o s[i]
      /\ \A i \in 1..m+1 : h[i] = IF i = 1 THEN r[i] ELSE h[i - 1] \o r[i]
  BY <1>2 DEF IsFlat
<1> DEFINE S == {i \in Nat : i \in 1..m => g[i] \in Seq(T) /\ h[i] = g[i]}
<1>7. 0 \in S
  OBVIOUS
<1>8. ASSUME NEW i \in Nat, i \in S PROVE i + 1 \in S
  <2> SUFFICES ASSUME i + 1 \in 1..m
               PROVE  g[i + 1] \in Seq(T) /\ h[i + 1] = g[i + 1]
    OBVIOUS
  <2>1. i + 1 \in 1..m /\ i + 1 \in 1..m+1 /\ (i + 1) - 1 = i
    BY <1>1
  <2>2. s[i + 1] \in Seq(T) /\ r[i + 1] = s[i + 1]
    BY <1>1, <1>5, <2>1
  <2>3. CASE i = 0
    BY <1>6, <2>1, <2>2, <2>3
  <2>4. CASE i # 0
    <3>1. i \in 1..m /\ i + 1 # 1
      BY <1>1, <2>1, <2>4
    <3>2. g[i] \in Seq(T) /\ h[i] = g[i]
      BY <1>8, <3>1
    <3>3. g[i + 1] = g[i] \o s[i + 1] /\ h[i + 1] = h[i] \o r[i + 1]
      BY <1>6, <2>1, <3>1
    <3>4. g[i] \o s[i + 1] \in Seq(T)
      BY <2>2, <3>2, ConcatProperties
    <3> QED
      BY <2>2, <3>2, <3>3, <3>4
  <2> QED
    BY <2>3, <2>4
<1> HIDE DEF S
<1>9. \A i \in Nat : i \in S
  BY <1>7, <1>8, Induction
<1>10. CASE m = 0
  <2>1. s = << >>
    BY <1>10, EmptySeq DEF m
  <2>2. h[1] = x
    BY <1>5, <1>6, <1>10
  <2>3. << >> \o x = x
    BY ConcatEmptySeq
  <2> QED
    BY <1>3, <1>4, <1>10, <2>1, <2>2, <2>3 DEF Join
<1>11. CASE m # 0
  <2>1. m \in S /\ m \in 1..m
    BY <1>1, <1>9, <1>11
  <2>2. g[m] \in Seq(T) /\ h[m] = g[m]
    BY <2>1 DEF S
  <2>3. m + 1 \in 1..m+1 /\ m + 1 # 1 /\ (m + 1) - 1 = m
    BY <1>1, <1>11
  <2>4. h[m + 1] = h[m] \o x
    BY <1>5, <1>6, <2>3
  <2> QED
    BY <1>3, <1>4, <1>11, <2>2, <2>4 DEF Join
<1> QED
  BY <1>10, <1>11

\* Nothing but empty sequences, nothing in them.
LEMMA FlatEmpty ==
  ASSUME NEW s \in Seq(Seq({}))
  PROVE  FlattenSeq(s) = << >>
<1> DEFINE r == Append(s, << >>)
<1>1. << >> \in Seq({})
  OBVIOUS
<1>2. Len(r) = Len(s) + 1 /\ (\A i \in 1..Len(s) : r[i] = s[i]) /\ r[Len(s) + 1] = << >>
  BY <1>1, AppendProperties
<1> HIDE DEF r
<1> DEFINE T == {}
           x == << >>
<1>3. FlattenSeq(s) \in Seq(T)
  <2>1. s \in Seq(Seq(T)) /\ x \in Seq(T) /\ r[Len(s) + 1] = x
    BY <1>1, <1>2
  <2> HIDE DEF T, x
  <2> QED
    BY <1>2, <2>1, FlatRight
<1> DEFINE t == FlattenSeq(s)
<1> HIDE DEF t
<1>4. t \in Seq({})
  BY <1>3 DEF t
<1>5. Len(t) \in Nat /\ \A i \in 1..Len(t) : t[i] \in {}
  BY <1>4, LenProperties, ElementOfSeq
<1>6. Len(t) = 0
  BY <1>5
<1>7. t = << >>
  BY <1>4, <1>6, EmptySeq
<1> QED
  BY <1>7 DEF t

\* Joining, without its definition.
LEMMA Joins ==
  ASSUME NEW T, NEW s \in Seq(T), NEW t \in Seq(T), NEW u \in Seq(T)
  PROVE  /\ Join(s, t) \in Seq(T)
         /\ Join(Join(s, t), u) = Join(s, Join(t, u))
         /\ Join(s, << >>) = s
BY ConcatProperties, ConcatAssociative, ConcatEmptySeq DEF Join

-----------------------------------------------------------------------------
(* The bits of a line *)

Bits == Seq({0, 1})

Ones(k) == [i \in 1..k |-> 1]

\* What position i of the stream gives a decoder of the current line.
Piece(i) == IF InLine(i) /\ ~Stuffed(i) THEN BitsOf(stream[i], W) ELSE << >>

\* What a decoder has, with what is left in bitbuf.
Got == Join(LineBits, BitsOf(buf, n))

\* The bits got are the bits wanted, with ones at the end once flushbits has been
\* called; 0x00 is stuffed behind an 0xFF of the same line.
RecInv ==
  /\ pc = "idle" \/ (pc \in {"flush", "stuff"} /\ ret = "idle") => Got = WantedBits
  /\ (pc \in {"flush", "stuff"} /\ ret = "mark1") \/ pc = "mark1" =>
       \E fill \in 0..W-1 : Got = Join(WantedBits, Ones(fill))
  /\ pc = "stuff" => InLine(Len(stream)) /\ stream[Len(stream)] = FF

\* A byte of the stream, and a code word, give bits.
LEMMA PiecesAre ==
  ASSUME TypeOK
  PROVE  /\ \A i \in 1..Len(stream) : Piece(i) \in Bits
         /\ \A k \in 1..Len(words) : BitsOf(words[k].bits, words[k].len) \in Bits
         /\ [i \in 1..Len(stream) |-> Piece(i)] \in Seq(Bits)
         /\ [k \in 1..Len(words) |-> BitsOf(words[k].bits, words[k].len)] \in Seq(Bits)
<1>1. W \in Nat /\ W \in 0..4*W /\ 2*W <= 4*W
  BY Constants
<1>2. \A i \in 1..Len(stream) : Piece(i) \in Bits
  <2> TAKE i \in 1..Len(stream)
  <2>1. stream[i] \in Nat
    <3>1. stream \in Seq(ByteVals) /\ \A v \in ByteVals : v \in Nat
      BY Constants DEF TypeOK, ByteVals
    <3> QED
      BY <3>1, ElementOfSeq
  <2>2. BitsOf(stream[i], W) \in Bits
    BY <1>1, <2>1, BitsSeq DEF Bits
  <2>3. << >> \in Bits
    BY DEF Bits
  <2> QED
    BY <2>2, <2>3 DEF Piece
<1>3. \A k \in 1..Len(words) : BitsOf(words[k].bits, words[k].len) \in Bits
  <2> TAKE k \in 1..Len(words)
  <2>1. words[k] \in Words
    BY ElementOfSeq DEF TypeOK
  <2>2. words[k].bits \in Nat /\ words[k].len \in 0..2*W
    BY <2>1, WriterAssumption
  <2>3. words[k].len \in 0..4*W
    BY <1>1, <2>2
  <2> QED
    BY <2>2, <2>3, BitsSeq DEF Bits
<1>4. Len(stream) \in Nat /\ Len(words) \in Nat
  BY LenProperties DEF TypeOK
<1> QED
  BY <1>2, <1>3, <1>4

\* A byte at the end of the stream adds its bits to the line, unless it is the 0x00
\* behind an 0xFF of the line.
LEMMA LineGrows ==
  ASSUME TypeOK, marks \subseteq 1..Len(stream), NEW b \in ByteVals,
         stream' = Append(stream, b), marks' = marks
  PROVE  /\ LineBits \in Bits
         /\ InLine(Len(stream))'
         /\ LineBits' = IF InLine(Len(stream)) /\ stream[Len(stream)] = FF /\ b = 0
                        THEN LineBits ELSE Join(LineBits, BitsOf(b, W))
<1> DEFINE L == Len(stream)
           s == [i \in 1..L |-> Piece(i)]
           r == [i \in 1..L+1 |-> Piece(i)']
           x == IF InLine(L) /\ stream[L] = FF /\ b = 0 THEN << >> ELSE BitsOf(b, W)
<1>1. /\ stream \in Seq(ByteVals) /\ L \in Nat /\ Len(stream') = L + 1
      /\ \A i \in 1..L : stream'[i] = stream[i]
      /\ stream'[L + 1] = b
  <2>1. stream \in Seq(ByteVals)
    BY DEF TypeOK
  <2> QED
    BY <2>1, AppendProperties, LenProperties
<1>2. ASSUME NEW i \in 1..L PROVE InLine(i)' = InLine(i)
  BY <1>1, <1>2 DEF InLine
<1>3. ASSUME NEW i, i = L + 1 PROVE InLine(i)'
  BY <1>1, <1>3 DEF InLine
<1>4. ~InLine(0) /\ ~InLine(0)'
  BY <1>1 DEF InLine
<1>5. ASSUME NEW i \in 1..L PROVE Piece(i)' = Piece(i)
  <2>1. InLine(i)' = InLine(i) /\ stream'[i] = stream[i]
    BY <1>1, <1>2
  <2>2. Stuffed(i)' = Stuffed(i)
    <3>1. CASE i = 1
      <4>1. i - 1 = 0
        BY <3>1
      <4> QED
        BY <1>4, <4>1 DEF Stuffed
    <3>2. CASE i # 1
      <4>1. i - 1 \in 1..L
        BY <1>1, <3>2
      <4> QED
        BY <1>1, <1>2, <2>1, <4>1 DEF Stuffed
    <3> QED
      BY <3>1, <3>2
  <2> QED
    BY <2>1, <2>2 DEF Piece
<1>6. ASSUME NEW i, i = L + 1 PROVE Piece(i)' = x
  <2>1. i - 1 = L /\ stream'[i] = b
    BY <1>1, <1>6
  <2>2. Stuffed(i)' <=> InLine(L) /\ stream[L] = FF /\ b = 0
    <3>1. CASE L = 0
      BY <1>4, <2>1, <3>1 DEF Stuffed
    <3>2. CASE L # 0
      <4>1. i - 1 \in 1..L
        BY <1>1, <2>1, <3>2
      <4>2. InLine(i - 1)' = InLine(L) /\ stream'[i - 1] = stream[L]
        BY <1>1, <1>2, <2>1, <4>1
      <4> QED
        BY <2>1, <4>2 DEF Stuffed
    <3> QED
      BY <3>1, <3>2
  <2>3. InLine(i)'
    BY <1>3, <1>6
  <2> QED
    BY <2>1, <2>2, <2>3 DEF Piece
<1>7. x \in Bits
  <2>1. W \in 0..4*W /\ b \in Nat /\ << >> \in Bits
    BY Constants DEF ByteVals, Bits
  <2> QED
    BY <2>1, BitsSeq DEF Bits
<1>8. s \in Seq(Bits)
  BY PiecesAre
<1>9. Len(s) = L /\ Len(r) = L + 1 /\ (\A i \in 1..L : r[i] = s[i]) /\ r[L + 1] = x
  <2>1. L + 1 \in Nat /\ L + 1 \in 1..L+1 /\ \A i \in 1..L : i \in 1..L+1
    BY <1>1
  <2>2. Len(s) = L /\ Len(r) = L + 1
    BY <1>1, <2>1
  <2>3. r[L + 1] = x
    BY <1>6, <2>1
  <2>4. \A i \in 1..L : r[i] = s[i]
    BY <1>5, <2>1
  <2> QED
    BY <2>2, <2>3, <2>4
<1>10. LineBits = FlattenSeq(s) /\ LineBits' = FlattenSeq(r)
  BY <1>1 DEF LineBits, Piece
<1> HIDE DEF s, r, x
<1>11. FlattenSeq(s) \in Bits /\ FlattenSeq(r) = Join(FlattenSeq(s), x)
  BY <1>7, <1>8, <1>9, FlatRight DEF Bits
<1>12. Join(LineBits, << >>) = LineBits
  <2>1. LineBits \in Seq({0, 1})
    BY <1>10, <1>11 DEF Bits
  <2> QED
    BY <2>1, ConcatEmptySeq DEF Join
<1>13. InLine(Len(stream))'
  <2>1. Len(stream') \in 1..Len(stream')
    BY <1>1
  <2>2. \A m \in marks : m \in 1..L
    OBVIOUS
  <2>3. \A m \in marks' : m < Len(stream')
    BY <1>1, <2>2
  <2> QED
    BY <2>1, <2>3 DEF InLine
<1> QED
  BY <1>10, <1>11, <1>12, <1>13 DEF x

\* A code word adds its bits to those wanted.
LEMMA WantedGrows ==
  ASSUME TypeOK, NEW w \in Words, words' = Append(words, w)
  PROVE  /\ WantedBits \in Bits /\ BitsOf(w.bits, w.len) \in Bits
         /\ WantedBits' = Join(WantedBits, BitsOf(w.bits, w.len))
<1> DEFINE m == Len(words)
           Of(v) == BitsOf(v.bits, v.len)
           s == [k \in 1..m |-> Of(words[k])]
           r == [k \in 1..m+1 |-> Of(words'[k])]
<1>1. /\ words \in Seq(Words) /\ m \in Nat /\ Len(words') = m + 1
      /\ \A k \in 1..m : words'[k] = words[k]
      /\ words'[m + 1] = w
  <2>1. words \in Seq(Words)
    BY DEF TypeOK
  <2> QED
    BY <2>1, AppendProperties, LenProperties
<1>2. Of(w) \in Bits
  <2>1. w.bits \in Nat /\ w.len \in 0..2*W
    BY WriterAssumption
  <2>2. w.len \in 0..4*W
    BY <2>1, Constants
  <2> QED
    BY <2>1, <2>2, BitsSeq DEF Bits
<1>3. s \in Seq(Bits)
  BY PiecesAre
<1>4. Len(s) = m /\ Len(r) = m + 1 /\ (\A k \in 1..m : r[k] = s[k]) /\ r[m + 1] = Of(w)
  <2>1. m + 1 \in Nat /\ m + 1 \in 1..m+1 /\ \A i \in 1..m : i \in 1..m+1
    BY <1>1
  <2> HIDE DEF Of
  <2>2. Len(s) = m /\ Len(r) = m + 1
    BY <1>1, <2>1
  <2>3. r[m + 1] = Of(w)
    BY <1>1, <2>1
  <2>4. \A i \in 1..m : r[i] = s[i]
    BY <1>1, <2>1
  <2> QED
    BY <2>2, <2>3, <2>4
<1>5. WantedBits = FlattenSeq(s) /\ WantedBits' = FlattenSeq(r)
  BY <1>1 DEF WantedBits
<1> DEFINE x == Of(w)
<1> HIDE DEF s, r, x
<1>6. FlattenSeq(s) \in Bits /\ FlattenSeq(r) = Join(FlattenSeq(s), x)
  <2>1. x \in Seq({0, 1}) /\ r[m + 1] = x
    BY <1>2, <1>4 DEF x, Bits
  <2> QED
    BY <1>3, <1>4, <2>1, FlatRight DEF Bits
<1> QED
  BY <1>2, <1>5, <1>6 DEF x

\* Types of the bits got and wanted.
LEMMA GotBits ==
  ASSUME TypeOK
  PROVE  /\ LineBits \in Bits /\ WantedBits \in Bits /\ BitsOf(buf, n) \in Bits
         /\ Got \in Bits /\ \A k \in Nat : Ones(k) \in Bits
<1>1. /\ LineBits = FlattenSeq([i \in 1..Len(stream) |-> Piece(i)])
      /\ WantedBits = FlattenSeq([k \in 1..Len(words) |-> BitsOf(words[k].bits, words[k].len)])
  BY DEF LineBits, WantedBits, Piece
<1>2. \A s \in Seq(Bits) : FlattenSeq(s) \in Bits
  <2> TAKE s \in Seq(Bits)
  <2> DEFINE r == Append(s, << >>)
  <2>1. << >> \in Bits
    BY DEF Bits
  <2>2. Len(r) = Len(s) + 1 /\ (\A i \in 1..Len(s) : r[i] = s[i]) /\ r[Len(s) + 1] = << >>
    BY <2>1, AppendProperties
  <2> HIDE DEF r
  <2> QED
    BY <2>1, <2>2, FlatRight DEF Bits
<1>3. LineBits \in Bits /\ WantedBits \in Bits
  BY <1>1, <1>2, PiecesAre
<1>4. BitsOf(buf, n) \in Bits
  <2>1. buf \in Nat /\ n \in 0..4*W
    BY Constants DEF TypeOK
  <2> QED
    BY <2>1, BitsSeq DEF Bits
<1>5. Got \in Bits
  BY <1>3, <1>4, Joins DEF Got, Bits
<1>6. \A k \in Nat : Ones(k) \in Bits
  BY DEF Ones, Bits
<1> QED
  BY <1>3, <1>4, <1>5, <1>6

\* No bits.
LEMMA NoBits ==
  /\ \A x : BitsOf(x, 0) = << >>
  /\ Ones(0) = << >> /\ Join(<< >>, << >>) = << >>
  /\ words = << >> => WantedBits = << >>
  /\ TypeOK /\ (Len(stream) = 0 \/ Len(stream) \in marks) => LineBits = << >>
<1>1. (\A x : BitsOf(x, 0) = << >>) /\ Ones(0) = << >>
  BY DEF BitsOf, Ones
<1>0. Join(<< >>, << >>) = << >>
  <2>1. << >> \in Seq({0, 1})
    OBVIOUS
  <2> QED
    BY <2>1, ConcatEmptySeq DEF Join
<1>2. << >> \in Seq(Seq({})) /\ << >> \in Seq({})
  OBVIOUS
<1>3. ASSUME words = << >> PROVE WantedBits = << >>
  <2>1. [k \in 1..Len(words) |-> BitsOf(words[k].bits, words[k].len)] = << >>
    BY <1>3
  <2> QED
    BY <1>2, <2>1, FlatEmpty DEF WantedBits
<1>4. ASSUME TypeOK, Len(stream) = 0 \/ Len(stream) \in marks PROVE LineBits = << >>
  <2> DEFINE s == [i \in 1..Len(stream) |-> Piece(i)]
  <2>1. Len(stream) \in Nat
    BY <1>4, LenProperties DEF TypeOK
  <2>2. \A i \in 1..Len(stream) : Piece(i) = << >>
    BY <1>4, <2>1 DEF Piece, InLine
  <2>3. s \in Seq(Seq({}))
    <3>1. \A i \in 1..Len(stream) : Piece(i) \in Seq({})
      BY <1>2, <2>2
    <3> QED
      BY <2>1, <3>1
  <2>4. LineBits = FlattenSeq(s)
    BY DEF LineBits, Piece
  <2> HIDE DEF s
  <2> QED
    BY <2>3, <2>4, FlatEmpty
<1> QED
  BY <1>0, <1>1, <1>3, <1>4

\* Shifting bits in joins them to the bits got.
LEMMA GotShifted ==
  ASSUME TypeOK, NEW bits \in Nat, NEW len \in 0..2*W, n < W, ShiftIn(bits, len), LineBits' = LineBits
  PROVE  BitsOf(bits, len) \in Bits /\ Got' = Join(Got, BitsOf(bits, len))
<1>1. W \in Nat /\ n \in Nat /\ buf \in Nat /\ len \in Nat /\ n + len <= 4*W /\ len \in 0..4*W
  BY Constants DEF TypeOK
<1>2. n' = n + len /\ buf' = ((buf * Pow2[len]) + (bits % Pow2[len])) % Pow2[4*W]
  BY DEF ShiftIn
<1>3. BitsOf(buf', n') = Join(BitsOf(buf, n), BitsOf(bits, len))
  BY <1>1, <1>2, BitsShifted
<1>4. BitsOf(bits, len) \in Bits /\ BitsOf(buf, n) \in Bits /\ LineBits \in Bits
  BY <1>1, BitsSeq, GotBits DEF Bits
<1>5. Join(LineBits, Join(BitsOf(buf, n), BitsOf(bits, len)))
        = Join(Join(LineBits, BitsOf(buf, n)), BitsOf(bits, len))
  BY <1>4, Joins DEF Bits
<1> QED
  BY <1>3, <1>4, <1>5 DEF Got

\* Every step keeps RecInv.
LEMMA RecStep ==
  ASSUME IInv, RecInv, Next
  PROVE  RecInv'
<1>1. /\ TypeOK /\ marks \subseteq 1..Len(stream) /\ W \in Nat /\ W > 1 /\ n \in Nat
      /\ buf \in Nat /\ Len(stream) \in Nat
      /\ ret \in {"idle", "mark1"} /\ 0 \in ByteVals /\ FF \in Nat /\ n <= 3*W
  <2>1. TypeOK /\ marks \subseteq 1..Len(stream)
    BY DEF IInv, MarkInv
  <2>2. n \in 0..3*W /\ buf \in Nat /\ stream \in Seq(ByteVals) /\ ret \in {"idle", "mark1"}
    BY <2>1 DEF TypeOK
  <2>3. Len(stream) \in Nat
    BY <2>2, LenProperties
  <2> QED
    BY <2>1, <2>2, <2>3, Constants DEF ByteVals
<1>2. CASE \E w \in Words : WriteWord(w)
  <2>1. PICK w \in Words : WriteWord(w)
    BY <1>2
  <2>2. /\ pc = "idle" /\ n < W /\ ShiftIn(w.bits, w.len) /\ pc' = "flush" /\ ret' = "idle"
        /\ words' = Append(words, w) /\ UNCHANGED <<stream, marks>>
    BY <2>1 DEF WriteWord, bufferVars, IInv, BitsInv
  <2>3. w.bits \in Nat /\ w.len \in 0..2*W
    BY WriterAssumption
  <2>4. LineBits' = LineBits
    BY <2>2 DEF LineBits, InLine, Stuffed
  <2>5. Got' = Join(Got, BitsOf(w.bits, w.len))
    BY <1>1, <2>2, <2>3, <2>4, GotShifted
  <2>6. WantedBits' = Join(WantedBits, BitsOf(w.bits, w.len))
    BY <1>1, <2>2, WantedGrows
  <2>7. Got = WantedBits
    BY <2>2 DEF RecInv
  <2> QED
    BY <2>2, <2>5, <2>6, <2>7 DEF RecInv
<1>3. CASE EndLine \/ Close
  <2>1. pc = "idle" /\ n < W /\ flushbits /\ UNCHANGED <<stream, marks, words>>
    BY <1>3 DEF EndLine, Close, bufferVars, IInv, BitsInv
  <2>2. LineBits' = LineBits /\ WantedBits' = WantedBits
    BY <2>1 DEF LineBits, InLine, Stuffed, WantedBits
  <2>3. Got = WantedBits
    BY <2>1 DEF RecInv
  <2>4. CASE n > 0
    <3>1. ShiftIn(FF, W - n) /\ pc' = "flush" /\ ret' = "mark1"
      BY <2>1, <2>4 DEF flushbits
    <3>2. W - n \in 0..2*W /\ W - n \in 0..W /\ W - n \in 0..W-1
      BY <1>1, <2>1, <2>4
    <3>3. Got' = Join(Got, BitsOf(FF, W - n))
      BY <1>1, <2>1, <2>2, <3>1, <3>2, GotShifted
    <3>4. BitsOf(FF, W - n) = Ones(W - n)
      BY <3>2, BitsOfFF DEF Ones
    <3>5. \E fill \in 0..W-1 : Got' = Join(WantedBits, Ones(fill))
      BY <2>3, <3>2, <3>3, <3>4
    <3> QED
      BY <2>2, <3>1, <3>5 DEF RecInv
  <2>5. CASE ~(n > 0)
    <3>1. pc' = "mark1" /\ UNCHANGED <<buf, n, ret>>
      BY <2>1, <2>5 DEF flushbits
    <3>2. Got' = WantedBits
      BY <2>2, <2>3, <3>1 DEF Got
    <3>3. Join(WantedBits, Ones(0)) = WantedBits
      BY <1>1, GotBits, NoBits, Joins DEF Bits
    <3>4. 0 \in 0..W-1
      BY <1>1
    <3>5. \E fill \in 0..W-1 : Got' = Join(WantedBits, Ones(fill))
      BY <3>2, <3>3, <3>4
    <3> QED
      BY <2>2, <3>1, <3>5 DEF RecInv
  <2> QED
    BY <2>4, <2>5
<1>4. CASE FlushByte /\ n < W
  <2>1. /\ pc = "flush" /\ pc' = ret /\ UNCHANGED <<ret, buf, n, stream, marks, words>>
    BY <1>1, <1>4 DEF FlushByte, bufferVars
  <2>2. Got' = Got /\ WantedBits' = WantedBits
    BY <2>1 DEF Got, LineBits, InLine, Stuffed, WantedBits
  <2> QED
    BY <1>1, <2>1, <2>2 DEF RecInv
<1>5. CASE FlushByte /\ ~(n < W)
  <2> DEFINE a == n - W
             b == (buf \div Pow2[a]) % Pow2[W]
  <2>1. a \in Nat /\ n = a + W /\ a + W <= 4*W
    BY <1>1, <1>5
  <2>2. b \in ByteVals /\ BitsOf(buf, n) = Join(BitsOf(b, W), BitsOf(buf, a))
    <3> HIDE DEF a
    <3>1. b \in ByteVals /\ BitsOf(buf, a + W) = Join(BitsOf(b, W), BitsOf(buf, a))
      BY <1>1, <2>1, BitsTaken
    <3> HIDE DEF b
    <3> QED
      BY <2>1, <3>1
  <2>3. /\ pc = "flush" /\ n' = a /\ writebyte(b) /\ pc' = IF b = FF THEN "stuff" ELSE "flush"
        /\ UNCHANGED <<ret, buf, words, marks>>
    BY <1>1, <1>5 DEF FlushByte
  <2> HIDE DEF a, b
  <2>4. stream' = Append(stream, b) /\ Len(stream') = Len(stream) + 1 /\ stream'[Len(stream')] = b
    <3>1. stream' = Append(stream, b) /\ stream \in Seq(ByteVals)
      BY <1>1, <2>3 DEF writebyte, TypeOK
    <3> QED
      BY <2>2, <3>1, AppendProperties
  <2>5. ~(InLine(Len(stream)) /\ stream[Len(stream)] = FF)
    BY <1>1, <2>3 DEF IInv, MarkInv, InLine
  <2>6. InLine(Len(stream))' /\ LineBits \in Bits /\ LineBits' = Join(LineBits, BitsOf(b, W))
    BY <1>1, <2>2, <2>3, <2>4, <2>5, LineGrows
  <2>7. Got' = Got
    <3>1. BitsOf(b, W) \in Bits /\ BitsOf(buf, a) \in Bits
      <4>1. b \in Nat /\ W \in 0..4*W /\ a \in 0..4*W
        BY <1>1, <2>1, <2>2 DEF ByteVals
      <4> QED
        BY <1>1, <4>1, BitsSeq DEF Bits
    <3>2. Join(Join(LineBits, BitsOf(b, W)), BitsOf(buf, a))
            = Join(LineBits, Join(BitsOf(b, W), BitsOf(buf, a)))
      BY <2>6, <3>1, Joins DEF Bits
    <3> QED
      BY <2>2, <2>3, <2>6, <3>2 DEF Got
  <2>8. WantedBits' = WantedBits
    BY <2>3 DEF WantedBits
  <2>9. pc' = "stuff" => stream'[Len(stream')] = FF
    BY <2>3, <2>4
  <2> QED
    BY <2>3, <2>6, <2>7, <2>8, <2>9 DEF RecInv
<1>6. CASE StuffByte
  <2>1. /\ pc = "stuff" /\ pc' = "flush" /\ writebyte(0) /\ UNCHANGED <<ret, buf, n, words, marks>>
    BY <1>6 DEF StuffByte
  <2>2. stream' = Append(stream, 0)
    BY <2>1 DEF writebyte
  <2>3. InLine(Len(stream)) /\ stream[Len(stream)] = FF
    BY <2>1 DEF RecInv
  <2>4. LineBits' = LineBits
    BY <1>1, <2>1, <2>2, <2>3, LineGrows
  <2>5. Got' = Got /\ WantedBits' = WantedBits
    BY <2>1, <2>4 DEF Got, WantedBits
  <2> QED
    BY <2>1, <2>5 DEF RecInv
<1>7. CASE MarkFirst \/ MarkSecond
  <2>1. pc' \in {"mark2", "send"}
    BY <1>7 DEF MarkFirst, MarkSecond
  <2> QED
    BY <2>1 DEF RecInv
<1>8. CASE Send
  <2>1. /\ Len(stream) \in marks /\ n = 0 /\ UNCHANGED <<buf, n, stream, marks>>
        /\ pc' = "closed" \/ (pc' = "idle" /\ words' = << >>)
    BY <1>8 DEF Send, IInv, MarkInv, BitsInv
  <2>2. pc' = "idle" => Got' = WantedBits'
    <3> SUFFICES ASSUME words' = << >> PROVE Got' = WantedBits'
      BY <2>1
    <3>1. LineBits' = << >>
      <4>1. LineBits = << >>
        BY <1>1, <2>1, NoBits
      <4> QED
        BY <2>1, <4>1 DEF LineBits, InLine, Stuffed
    <3>2. BitsOf(buf', n') = << >>
      BY <2>1, NoBits
    <3>3. WantedBits' = << >>
      <4>1. Len(words') = 0 /\ << >> \in Seq(Seq({}))
        OBVIOUS
      <4>2. [k \in 1..Len(words') |-> BitsOf(words'[k].bits, words'[k].len)] = << >>
        BY <4>1
      <4> QED
        BY <4>1, <4>2, FlatEmpty DEF WantedBits
    <3>4. Join(<< >>, << >>) = << >>
      BY NoBits
    <3> QED
      BY <3>1, <3>2, <3>3, <3>4 DEF Got
  <2> QED
    BY <2>1, <2>2 DEF RecInv
<1> QED
  BY <1>2, <1>3, <1>4, <1>5, <1>6, <1>7, <1>8 DEF Next

\* writebits and flushbits lose, add and disorder no bit: what a decoder reads in a line,
\* with the bits still in bitbuf, is what huffman_encode has written, and at the end of
\* the line only ones are behind it, less than a byte of them.
THEOREM StreamDecodes == Spec => []BitsRecovered
<1>1. Init => RecInv
  <2> SUFFICES ASSUME Init PROVE RecInv
    OBVIOUS
  <2>1. pc = "idle" /\ words = << >> /\ n = 0 /\ Len(stream) = 0 /\ TypeOK
    BY InitIInv DEF Init, IInv
  <2>2. Got = Join(<< >>, << >>) /\ WantedBits = << >>
    BY <2>1, NoBits DEF Got
  <2>3. Join(<< >>, << >>) = << >>
    BY NoBits
  <2> QED
    BY <2>1, <2>2, <2>3 DEF RecInv
<1>2. IInv /\ RecInv /\ [Next]_vars => RecInv'
  <2>1. IInv /\ RecInv /\ UNCHANGED vars => RecInv'
    BY DEF RecInv, Got, LineBits, WantedBits, InLine, Stuffed, vars, bufferVars
  <2> QED
    BY <2>1, RecStep
<1>3. IInv /\ RecInv => BitsRecovered
  <2>1. /\ LineBits \o BitsOf(buf, n) = Got
        /\ \A k : WantedBits \o [i \in 1..k |-> 1] = Join(WantedBits, Ones(k))
    BY DEF Got, Join, Ones
  <2>2. IInv /\ pc = "mark1" => n = 0
    BY DEF IInv, BitsInv
  <2> QED
    BY <2>1, <2>2 DEF RecInv, BitsRecovered
<1> QED
  BY <1>1, <1>2, <1>3, Inductive, PTL DEF Spec

-----------------------------------------------------------------------------
(* The image that LineIndex scans *)

Scan == INSTANCE LineIndex
          WITH Images <- {}, Slots <- MaxLines + 1, OldEntry <- [start_addr |-> 0, end_addr |-> 0],
               image <- stream, phase <- pc, lineend <- 0, linestart <- 0, line <- line, index <- << >>

\* The bytes of the board, which LineIndex knows by their values.
BoardBytes ==
  /\ FF = Scan!FF /\ Eoi = Scan!EOI /\ Old \in ByteVals
  /\ \A k \in 0..RstCount-1 : Rst[k] = Scan!RST0 + k

\* What is in the MRAM from IMAGE_DATA_START on, with the places e of the second bytes
\* of its markers, of which those in holes are lost.
StoredImage(e) ==
  [data |-> [i \in 1..Len(stream) |-> flash[Start + i - 1]],
   ends |-> e,
   lost |-> {k \in 1..Len(e) : e[k] \in holes}]

\* What no encoder can promise: where a byte was lost lies none that looks like a
\* marker's, and one of RstCount neighbours is not lost.
LostHarmless(e) ==
  /\ \A i \in holes : flash[Start + i - 1] \notin Scan!RstBytes \cup {Scan!EOI, Scan!FF}
  /\ \A k \in 1..Len(e)-RstCount : \E j \in k..k+RstCount-1 : e[j] \notin holes

\* e are the places in marks, in order: one for every line, with the line's number.
Ends(e) ==
  /\ e \in Seq(Nat) /\ \A k \in 1..Len(e) : e[k] \in marks
  /\ \A m \in marks : \E k \in 1..Len(e) : e[k] = m
  /\ Len(e) = line + (IF pc \in {"send", "closed"} THEN 1 ELSE 0)
  /\ \A j, k \in 1..Len(e) : j < k => e[j] + 2 <= e[k]
  /\ \A k \in 1..Len(e) : e[k] >= 2 /\ stream[e[k] - 1] = FF
  /\ \A k \in 1..Len(e) : k <= line => stream[e[k]] = Rst[(k - 1) % RstCount]
  /\ pc \in {"send", "closed"} => e[Len(e)] = Len(stream) /\ stream[Len(stream)] = marker

\* The marker being written has the number of the line; its first byte is written.
MarkerInv ==
  /\ (pc \in {"flush", "stuff"} /\ ret = "mark1") \/ pc \in {"mark1", "mark2", "send"} =>
       marker = Eoi \/ marker = Rst[line % RstCount]
  /\ pc = "mark2" => Len(stream) >= 1 /\ stream[Len(stream)] = FF /\ Len(stream) \notin marks
  /\ pc = "closed" => marker = Eoi

EndsInv == MarkerInv /\ \E e : Ends(e)

\* A byte that is no second byte of a marker leaves the places as they are.
LEMMA EndsKept ==
  ASSUME TypeOK, marks \subseteq 1..Len(stream), NEW e, Ends(e), NEW b \in ByteVals,
         stream' = Append(stream, b), UNCHANGED <<marks, line>>,
         pc \notin {"send", "closed"}, pc' \notin {"send", "closed"}
  PROVE  Ends(e)'
<1>1. /\ stream \in Seq(ByteVals) /\ Len(stream) \in Nat /\ line \in Nat
      /\ \A i \in 1..Len(stream) : stream'[i] = stream[i]
  <2>1. stream \in Seq(ByteVals) /\ line \in 0..MaxLines
    BY DEF TypeOK
  <2>2. line \in Nat
    BY <2>1, Constants
  <2> QED
    BY <2>1, <2>2, AppendProperties, LenProperties
<1>2. ASSUME NEW k \in 1..Len(e)
      PROVE  stream'[e[k]] = stream[e[k]] /\ stream'[e[k] - 1] = stream[e[k] - 1]
  <2>1. e[k] \in 1..Len(stream) /\ e[k] >= 2
    BY DEF Ends
  <2>2. e[k] - 1 \in 1..Len(stream)
    BY <1>1, <2>1
  <2> QED
    BY <1>1, <2>1, <2>2
<1> QED
  BY <1>1, <1>2 DEF Ends

\* A second byte is one place more.
LEMMA EndsGrow ==
  ASSUME TypeOK, marks \subseteq 1..Len(stream), NEW e, Ends(e), MarkerInv,
         pc = "mark2", pc' = "send", stream' = Append(stream, marker), marker \in ByteVals,
         marks' = marks \cup {Len(stream) + 1}, UNCHANGED <<line, marker>>
  PROVE  \E f : Ends(f)'
<1> DEFINE L == Len(stream)
           m == Len(e)
<1>1. /\ stream \in Seq(ByteVals) /\ L \in Nat /\ line \in Nat /\ Len(stream') = L + 1
      /\ \A i \in 1..L : stream'[i] = stream[i]
      /\ stream'[L + 1] = marker
  <2>1. stream \in Seq(ByteVals) /\ line \in 0..MaxLines
    BY DEF TypeOK
  <2>2. line \in Nat
    BY <2>1, Constants
  <2> QED
    BY <2>1, <2>2, AppendProperties, LenProperties
<1>2. L >= 1 /\ stream[L] = FF /\ L \notin marks
  BY DEF MarkerInv
<1>3. /\ e \in Seq(Nat) /\ m \in Nat /\ m = line
      /\ \A k \in 1..m : e[k] \in marks /\ e[k] \in 1..L /\ e[k] >= 2
  <2>1. e \in Seq(Nat) /\ m = line
    BY <1>1 DEF Ends
  <2>2. \A k \in 1..m : e[k] \in marks /\ e[k] >= 2
    BY DEF Ends
  <2> QED
    BY <1>1, <2>1, <2>2
<1>4. SUFFICES ASSUME NEW f, f = Append(e, L + 1) PROVE Ends(f)'
  OBVIOUS
<1>5. /\ f \in Seq(Nat) /\ Len(f) = m + 1 /\ f[m + 1] = L + 1
      /\ \A k \in 1..m : f[k] = e[k]
  BY <1>1, <1>3, <1>4, AppendProperties
<1>6. \A k \in 1..m+1 : k \in 1..m \/ k = m + 1
  BY <1>3
<1>7. ASSUME NEW k \in 1..m
      PROVE  /\ e[k] + 2 <= L + 1
             /\ stream'[e[k]] = stream[e[k]] /\ stream'[e[k] - 1] = FF
  <2>1. e[k] # L
    BY <1>2, <1>3
  <2>2. e[k] \in 1..L /\ e[k] - 1 \in 1..L
    BY <1>1, <1>3
  <2>3. stream[e[k] - 1] = FF
    BY DEF Ends
  <2> QED
    BY <1>1, <1>3, <2>1, <2>2, <2>3
<1>8. \A k \in 1..Len(f) : f[k] \in marks'
  BY <1>3, <1>5, <1>6
<1>9. \A x \in marks' : \E k \in 1..Len(f) : f[k] = x
  <2>1. m + 1 \in 1..m+1 /\ \A k \in 1..m : k \in 1..m+1
    BY <1>3
  <2>2. \A x \in marks : \E k \in 1..m : e[k] = x
    BY DEF Ends
  <2> QED
    BY <1>5, <2>1, <2>2
<1>10. \A j, k \in 1..Len(f) : j < k => f[j] + 2 <= f[k]
  <2> SUFFICES ASSUME NEW j \in 1..m+1, NEW k \in 1..m+1, j < k PROVE f[j] + 2 <= f[k]
    BY <1>5
  <2>1. j \in 1..m
    BY <1>3
  <2>2. CASE k \in 1..m
    BY <1>5, <2>1, <2>2 DEF Ends
  <2>3. CASE k = m + 1
    BY <1>5, <1>7, <2>1, <2>3
  <2> QED
    BY <1>6, <2>2, <2>3
<1>11. \A k \in 1..Len(f) : f[k] >= 2 /\ stream'[f[k] - 1] = FF
  <2> SUFFICES ASSUME NEW k \in 1..m+1 PROVE f[k] >= 2 /\ stream'[f[k] - 1] = FF
    BY <1>5
  <2>1. CASE k \in 1..m
    BY <1>3, <1>5, <1>7, <2>1
  <2>2. CASE k = m + 1
    <3>1. f[k] - 1 = L /\ f[k] >= 2 /\ L \in 1..L
      BY <1>1, <1>2, <1>5, <2>2
    <3> QED
      BY <1>1, <1>2, <3>1
  <2> QED
    BY <1>6, <2>1, <2>2
<1>12. \A k \in 1..Len(f) : k <= line => stream'[f[k]] = Rst[(k - 1) % RstCount]
  <2> SUFFICES ASSUME NEW k \in 1..m+1, k <= line PROVE stream'[f[k]] = Rst[(k - 1) % RstCount]
    BY <1>5
  <2>1. k \in 1..m
    BY <1>3
  <2>2. stream[e[k]] = Rst[(k - 1) % RstCount]
    BY <2>1 DEF Ends
  <2> QED
    BY <1>5, <1>7, <2>1, <2>2
<1>13. Len(f) = line + 1 /\ f[Len(f)] = Len(stream') /\ stream'[Len(stream')] = marker
  BY <1>1, <1>3, <1>5
<1> QED
  BY <1>5, <1>8, <1>9, <1>10, <1>11, <1>12, <1>13 DEF Ends

\* Every step keeps EndsInv.
LEMMA EndsStep ==
  ASSUME IInv, EndsInv, Next
  PROVE  EndsInv'
<1>1. /\ TypeOK /\ marks \subseteq 1..Len(stream) /\ Len(stream) \in Nat /\ MarkerInv
      /\ W \in Nat /\ n \in Nat /\ n <= 3*W /\ FF \in ByteVals /\ 0 \in ByteVals /\ marker \in ByteVals
      /\ ret \in {"idle", "mark1"} /\ buf \in Nat
  <2>1. TypeOK /\ marks \subseteq 1..Len(stream) /\ MarkerInv
    BY DEF IInv, MarkInv, EndsInv
  <2>2. /\ n \in 0..3*W /\ stream \in Seq(ByteVals) /\ marker \in 1..FF-1
        /\ ret \in {"idle", "mark1"} /\ buf \in Nat
    BY <2>1 DEF TypeOK
  <2>3. Len(stream) \in Nat
    BY <2>2, LenProperties
  <2> QED
    BY <2>1, <2>2, <2>3, Constants DEF ByteVals
<1>2. PICK e : Ends(e)
  BY DEF EndsInv
<1>3. CASE (\E w \in Words : WriteWord(w)) \/ EndLine \/ Close
  <2>1. /\ pc = "idle" /\ pc' \in {"flush", "mark1"} /\ UNCHANGED <<stream, marks, line>>
        /\ (pc' = "flush" /\ ret' = "mark1") \/ pc' = "mark1" =>
             marker' = Eoi \/ marker' = Rst[line % RstCount]
    BY <1>3 DEF WriteWord, EndLine, Close, flushbits, bufferVars
  <2>2. Ends(e)'
    BY <1>2, <2>1 DEF Ends
  <2> QED
    BY <2>1, <2>2 DEF EndsInv, MarkerInv
<1>4. CASE FlushByte /\ n < W
  <2>1. /\ pc = "flush" /\ pc' = ret /\ UNCHANGED <<ret, stream, marks, line, marker>>
    BY <1>1, <1>4 DEF FlushByte, bufferVars
  <2>2. Ends(e)'
    BY <1>1, <1>2, <2>1 DEF Ends
  <2> QED
    BY <1>1, <2>1, <2>2 DEF EndsInv, MarkerInv
<1>5. CASE (FlushByte /\ ~(n < W)) \/ StuffByte
  <2>1. PICK b \in ByteVals : /\ writebyte(b) /\ pc' \in {"flush", "stuff"}
                              /\ pc \in {"flush", "stuff"} /\ UNCHANGED <<ret, marker, marks, line>>
    <3>1. CASE FlushByte /\ ~(n < W)
      <4> DEFINE a == n - W
                 b == (buf \div Pow2[a]) % Pow2[W]
      <4>1. a \in Nat /\ n >= W /\ a + W <= 4*W
        BY <1>1, <3>1
      <4>2. b \in ByteVals
        <5> HIDE DEF a
        <5> QED
          BY <1>1, <4>1, BitsTaken
      <4>3. /\ writebyte(b) /\ pc = "flush" /\ pc' = IF b = FF THEN "stuff" ELSE "flush"
            /\ UNCHANGED <<ret, marker, marks, line>>
        BY <3>1, <4>1 DEF FlushByte
      <4> HIDE DEF b
      <4> QED
        BY <4>2, <4>3
    <3>2. CASE StuffByte
      BY <1>1, <3>2 DEF StuffByte
    <3> QED
      BY <1>5, <3>1, <3>2
  <2>2. stream' = Append(stream, b)
    BY <2>1 DEF writebyte
  <2>3. Ends(e)'
    BY <1>1, <1>2, <2>1, <2>2, EndsKept
  <2> QED
    BY <1>1, <2>1, <2>3 DEF EndsInv, MarkerInv
<1>6. CASE MarkFirst
  <2>1. /\ pc = "mark1" /\ pc' = "mark2" /\ stream' = Append(stream, FF)
        /\ UNCHANGED <<marker, marks, line>>
    BY <1>6 DEF MarkFirst, writebyte
  <2>2. Ends(e)'
    BY <1>1, <1>2, <2>1, EndsKept
  <2>3. Len(stream') = Len(stream) + 1 /\ stream'[Len(stream')] = FF
    BY <1>1, <2>1, AppendProperties DEF TypeOK
  <2>4. Len(stream') \notin marks'
    BY <1>1, <2>1, <2>3
  <2> QED
    BY <1>1, <2>1, <2>2, <2>3, <2>4 DEF EndsInv, MarkerInv
<1>7. CASE MarkSecond
  <2>1. /\ pc = "mark2" /\ pc' = "send" /\ stream' = Append(stream, marker)
        /\ marks' = marks \cup {Len(stream) + 1} /\ UNCHANGED <<marker, line>>
    BY <1>7 DEF MarkSecond, writebyte
  <2>2. \E f : Ends(f)'
    BY <1>1, <1>2, <2>1, EndsGrow
  <2> QED
    BY <1>1, <2>1, <2>2 DEF EndsInv, MarkerInv
<1>8. CASE Send
  <2>1. /\ pc = "send" /\ UNCHANGED <<marker, stream, marks>>
        /\ \/ marker = Eoi /\ pc' = "closed" /\ line' = line
           \/ marker # Eoi /\ pc' = "idle" /\ line' = line + 1
    BY <1>8 DEF Send
  <2>2. line \in Nat
    BY <1>1, Constants DEF TypeOK
  <2>3. Ends(e)'
    <3>1. CASE marker = Eoi
      BY <1>2, <2>1, <2>2, <3>1 DEF Ends
    <3>2. CASE marker # Eoi
      <4>1. stream[Len(stream)] = Rst[line % RstCount] /\ e[Len(e)] = Len(stream) /\ Len(e) = line + 1
        BY <1>1, <1>2, <2>1, <3>2 DEF Ends, MarkerInv
      <4>2. ASSUME NEW k \in 1..Len(e), k <= line + 1 PROVE stream[e[k]] = Rst[(k - 1) % RstCount]
        <5>1. CASE k <= line
          BY <1>2, <5>1 DEF Ends
        <5>2. CASE k = line + 1
          <6>1. k - 1 = line
            BY <2>2, <5>2
          <6> QED
            BY <4>1, <5>2, <6>1
        <5> QED
          BY <2>2, <4>2, <5>1, <5>2
      <4>3. pc' = "idle" /\ line' = line + 1
        BY <2>1, <3>2
      <4>4. Len(e) = line' + 0
        BY <2>2, <4>1, <4>3
      <4> QED
        BY <1>2, <2>1, <4>2, <4>3, <4>4 DEF Ends
    <3> QED
      BY <3>1, <3>2
  <2> QED
    BY <2>1, <2>3 DEF EndsInv, MarkerInv
<1> QED
  BY <1>3, <1>4, <1>5, <1>6, <1>7, <1>8 DEF Next

\* What LineIndex assumes of an image holds of the one in the MRAM.
IndexReady ==
  pc = "closed" /\ Fits =>
    \E e : /\ Ends(e)
           /\ StoredImage(e).data \in Seq(0..Scan!FF) /\ StoredImage(e).ends \in Seq(Nat)
           /\ LostHarmless(e) => Scan!ImageOK(StoredImage(e))

\* The image that is left in the MRAM after jpeg_close, if it fits, is one that
\* generateLineIndex can scan: a marker at the end of every line, in order and with the
\* number of the line, no 0xFF elsewhere but stuffed ones, the end marker whole, and
\* nothing lost but second bytes of restart markers.
THEOREM ImageForIndex ==
  ASSUME BoardBytes
  PROVE  Spec => []IndexReady
<1>1. Init => EndsInv
  <2> SUFFICES ASSUME Init PROVE EndsInv
    OBVIOUS
  <2>1. MarkerInv
    BY DEF Init, MarkerInv
  <2>2. << >> \in Seq(Nat) /\ Len(<< >>) = 0
    OBVIOUS
  <2>3. Ends(<< >>)
    BY <2>2 DEF Init, Ends
  <2> QED
    BY <2>1, <2>3 DEF EndsInv
<1>2. IInv /\ EndsInv /\ [Next]_vars => EndsInv'
  <2>1. IInv /\ EndsInv /\ UNCHANGED vars => EndsInv'
    BY DEF EndsInv, MarkerInv, Ends, vars, bufferVars
  <2> QED
    BY <2>1, EndsStep
<1>3. IInv /\ EndInv /\ EndsInv => IndexReady
  <2> SUFFICES ASSUME IInv, EndInv, EndsInv, pc = "closed", Fits
               PROVE  \E e : /\ Ends(e)
                             /\ StoredImage(e).data \in Seq(0..Scan!FF)
                             /\ StoredImage(e).ends \in Seq(Nat)
                             /\ LostHarmless(e) => Scan!ImageOK(StoredImage(e))
    BY DEF IndexReady
  <2>1. PICK e : Ends(e)
    BY DEF EndsInv
  <2> DEFINE L == Len(stream)
             im == StoredImage(e)
             data == im.data
             last == Len(e)
  <2>2. /\ stream \in Seq(ByteVals) /\ L \in Nat /\ line \in Nat /\ marks \subseteq 1..L
        /\ Unambiguous /\ Start \in Nat /\ DevSize \in Nat /\ RstCount \in Nat \ {0}
        /\ Start + L <= DevSize
        /\ flash \in [0..DevSize-1 -> ByteVals \cup {Old}]
    <3>1. TypeOK /\ marks \subseteq 1..L /\ Unambiguous
      BY DEF IInv, MarkInv
    <3>2. stream \in Seq(ByteVals) /\ line \in 0..MaxLines /\ flash \in [0..DevSize-1 -> ByteVals \cup {Old}]
      BY <3>1 DEF TypeOK
    <3>3. L \in Nat /\ line \in Nat
      BY <3>2, LenProperties, Constants
    <3> QED
      BY <3>1, <3>2, <3>3, Constants, WriterAssumption DEF Fits
  <2>3. /\ holes \subseteq marks /\ L \notin holes
        /\ \A i \in 1..L : i \in holes \/ flash[Start + i - 1] = stream[i]
    <3>1. Len(jpgbuff) = 0 /\ L \notin holes
      BY DEF EndInv
    <3>2. L - Len(jpgbuff) = L
      BY <2>2, <3>1
    <3> QED
      BY <3>1, <3>2 DEF IInv, HeldInv
  <2>4. /\ e \in Seq(Nat) /\ last = line + 1 /\ last \in 1..last
        /\ e[last] = L /\ stream[L] = Eoi
        /\ \A k \in 1..last : e[k] \in marks /\ e[k] \in 1..L /\ e[k] >= 2 /\ stream[e[k] - 1] = FF
        /\ \A m \in marks : \E k \in 1..last : e[k] = m
        /\ \A j, k \in 1..last : j < k => e[j] + 2 <= e[k]
        /\ \A k \in 1..last : k <= line => stream[e[k]] = Rst[(k - 1) % RstCount]
    <3>1. marker = Eoi
      BY DEF EndsInv, MarkerInv
    <3>2. e \in Seq(Nat) /\ last = line + 1
      BY <2>1 DEF Ends
    <3>3. last \in 1..last
      BY <2>2, <3>2
    <3>4. \A k \in 1..last : e[k] \in marks /\ e[k] \in 1..L
      BY <2>1, <2>2 DEF Ends
    <3> QED
      BY <2>1, <3>1, <3>2, <3>3, <3>4 DEF Ends
  <2>5. /\ data = [i \in 1..L |-> flash[Start + i - 1]] /\ im.ends = e
        /\ im.lost = {k \in 1..last : e[k] \in holes}
    BY DEF StoredImage
  <2>6. /\ data \in Seq(ByteVals) /\ Len(data) = L
        /\ \A i \in 1..L : data[i] = flash[Start + i - 1]
    <3>1. \A i \in 1..L : Start + i - 1 \in 0..DevSize-1
      BY <2>2
    <3>2. \A i \in 1..L : flash[Start + i - 1] \in ByteVals
      BY <2>2, <3>1 DEF BoardBytes
    <3> HIDE DEF im
    <3> QED
      BY <2>2, <2>5, <3>2
  <2>7. \A i \in 1..L : i \notin holes => data[i] = stream[i]
    BY <2>3, <2>6
  <2> HIDE DEF im
  <2>8. data \in Seq(0..Scan!FF)
    BY <2>6 DEF BoardBytes, ByteVals
  <2>9. ASSUME LostHarmless(e) PROVE Scan!ImageOK(im)
    <3>1. Scan!Lines(im) = line /\ Scan!Lines(im) + 1 = last
      BY <2>2, <2>4, <2>5 DEF Scan!Lines
    <3>2. \A k \in 1..last : data[e[k] - 1] = FF
      <4> SUFFICES ASSUME NEW k \in 1..last PROVE data[e[k] - 1] = FF
        OBVIOUS
      <4>1. e[k] - 1 \in 1..L /\ stream[e[k] - 1] = FF
        BY <2>2, <2>4
      <4>2. e[k] - 1 \notin holes
        <5>1. ASSUME NEW j \in 1..last PROVE e[j] # e[k] - 1
          <6>1. CASE j < k
            BY <2>2, <2>4, <6>1
          <6>2. CASE k < j
            BY <2>2, <2>4, <6>2
          <6>3. CASE j = k
            BY <2>2, <2>4, <6>3
          <6> QED
            BY <2>2, <2>4, <6>1, <6>2, <6>3
        <5> QED
          BY <2>3, <2>4, <5>1
      <4> QED
        BY <2>7, <4>1, <4>2
    <3>3. data[L] = Eoi
      BY <2>3, <2>4, <2>7
    <3>4. ASSUME NEW k \in 1..last-1
          PROVE  IF k \in im.lost THEN data[e[k]] \notin Scan!RstBytes \cup {Scan!EOI, Scan!FF}
                                  ELSE data[e[k]] = Scan!RST0 + ((k - 1) % RstCount)
      <4>1. k \in 1..last /\ k <= line /\ e[k] \in 1..L
        BY <2>2, <2>4
      <4>2. CASE e[k] \in holes
        <5>1. k \in im.lost
          BY <2>5, <4>1, <4>2
        <5> QED
          BY <2>6, <2>9, <4>1, <4>2, <5>1 DEF LostHarmless
      <4>3. CASE e[k] \notin holes
        <5>1. k \notin im.lost /\ data[e[k]] = Rst[(k - 1) % RstCount]
          BY <2>4, <2>5, <2>7, <4>1, <4>3
        <5>2. (k - 1) % RstCount \in 0..RstCount-1
          <6> DEFINE x == k - 1
          <6>1. x \in Int
            BY <4>1
          <6> HIDE DEF x
          <6>2. x % RstCount \in 0..RstCount-1
            BY <2>2, <6>1, ModFacts
          <6> QED
            BY <6>2 DEF x
        <5> QED
          BY <5>1, <5>2 DEF BoardBytes
      <4> QED
        BY <4>2, <4>3
    <3>5. ASSUME NEW i \in 1..L-1, data[i] = FF
          PROVE  data[i + 1] = 0 \/ \E k \in 1..last : e[k] = i + 1
      <4>1. i \in 1..L /\ i + 1 \in 1..L
        BY <2>2
      <4>2. i \notin holes
        BY <2>6, <2>9, <3>5, <4>1 DEF LostHarmless, BoardBytes
      <4>3. stream[i] = FF
        BY <2>7, <3>5, <4>1, <4>2
      <4>4. CASE i + 1 \in marks
        BY <2>4, <4>4
      <4>5. CASE i + 1 \notin marks
        <5>1. stream[i + 1] = 0
          BY <2>2, <4>3, <4>5 DEF Unambiguous
        <5> QED
          BY <2>3, <2>7, <4>1, <4>5, <5>1
      <4> QED
        BY <4>4, <4>5
    <3>6. ASSUME NEW k \in 1..last-RstCount PROVE ~(k..k+RstCount-1 \subseteq im.lost)
      <4>1. PICK j \in k..k+RstCount-1 : e[j] \notin holes
        BY <2>9 DEF LostHarmless
      <4>2. j \notin im.lost
        BY <2>5, <4>1
      <4> QED
        BY <4>2
    <3>7. im.lost \subseteq 1..last-1
      <4> SUFFICES ASSUME NEW k \in im.lost PROVE k \in 1..last-1
        OBVIOUS
      <4>1. k \in 1..last /\ e[k] \in holes
        BY <2>5
      <4>2. k # last
        BY <2>3, <2>4, <4>1
      <4> QED
        BY <2>2, <2>4, <4>1, <4>2
    <3>8. /\ Len(im.ends) > 0 /\ im.ends[1] >= 2 /\ im.ends[last] = Len(data)
          /\ \A j, k \in 1..last : j < k => im.ends[j] + 2 <= im.ends[k]
      <4>1. 1 \in 1..last /\ last > 0
        BY <2>2, <2>4
      <4> QED
        BY <2>4, <2>5, <2>6, <4>1
    <3>9. FF = Scan!FF /\ Eoi = Scan!EOI
      BY DEF BoardBytes
    <3> QED
      BY <2>5, <2>6, <3>1, <3>2, <3>3, <3>4, <3>5, <3>6, <3>7, <3>8, <3>9 DEF Scan!ImageOK
  <2> QED
    BY <2>1, <2>4, <2>5, <2>8, <2>9 DEF im
<1> QED
  BY <1>1, <1>2, <1>3, Inductive, EndInductive, PTL DEF Spec

=============================================================================
