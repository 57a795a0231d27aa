---------------------------- MODULE Sccb_proofs -----------------------------
(***************************************************************************)
(* Sccb for every width of a byte, every address and every set of cycles:  *)
(* the camera and the board agree on the place in the cycle, and the       *)
(* cycles are the accesses to a register file.                             *)
(***************************************************************************)
EXTENDS Sccb, SequenceTheorems, WellFoundedInduction, TLAPS

-----------------------------------------------------------------------------
(* Induction *)

Less == {p \in Nat \X Nat : p[1] < p[2]}

\* A set of numbers has a least one.
LEMMA Least ==
  ASSUME NEW S \in SUBSET Nat, S # {}
  PROVE  \E n \in S : \A m \in S : n <= m
<1>1. IsWellFoundedOn(Less, Nat)
  <2>1. IsWellFoundedOn(OpToRel(<, Nat), Nat)
    BY NatLessThanWellFounded
  <2> QED
    BY <2>1 DEF OpToRel, Less
<1>2. \E n \in S : \A m \in S : ~(<<m, n>> \in Less)
  BY <1>1, WFMin
<1>3. PICK n \in S : \A m \in S : ~(<<m, n>> \in Less)
  BY <1>2
<1>4. ASSUME NEW m \in S PROVE n <= m
  <2>1. <<m, n>> \in Nat \X Nat /\ ~(m < n)
    BY <1>3 DEF Less
  <2> QED
    BY <2>1
<1> QED
  BY <1>4

\* Induction over the numbers, for a set.
LEMMA Induction ==
  ASSUME NEW S, 0 \in S, \A n \in Nat : n \in S => n + 1 \in S
  PROVE  \A n \in Nat : n \in S
<1> DEFINE T == {n \in Nat : n \notin S}
<1> SUFFICES ASSUME T # {} PROVE FALSE
  OBVIOUS
<1>1. PICK n \in T : \A m \in T : n <= m
  BY Least
<1>2. n # 0 /\ n - 1 \in Nat /\ n - 1 \notin T
  BY <1>1
<1> QED
  BY <1>2

-----------------------------------------------------------------------------
(* Sequences of sequences *)

IsFlat(s, n, g) == g = [i \in 1..n |-> IF i = 1 THEN s[i] ELSE g[i - 1] \o s[i]]

LEMMA FlatExists == ASSUME NEW s PROVE \A n \in Nat : \E g : IsFlat(s, n, g)
<1> DEFINE S == {n \in Nat : \E g : IsFlat(s, n, g)}
<1>1. 0 \in S
  <2> DEFINE g == [i \in 1..0 |-> s[i]]
             f == [i \in 1..0 |-> IF i = 1 THEN s[i] ELSE g[i - 1] \o s[i]]
  <2>1. g = f
    OBVIOUS
  <2>2. IsFlat(s, 0, g)
    BY <2>1 DEF IsFlat
  <2> QED
    BY <2>2
<1>2. ASSUME NEW n \in Nat, n \in S PROVE n + 1 \in S
  <2>1. PICK g : IsFlat(s, n, g)
    BY <1>2
  <2> DEFINE Item(i) == IF i = 1 THEN s[i] ELSE g[i - 1] \o s[i]
             h == [i \in 1..n+1 |-> Item(i)]
             f == [i \in 1..n+1 |-> IF i = 1 THEN s[i] ELSE h[i - 1] \o s[i]]
  <2>2. ASSUME NEW i \in 1..n+1, i # 1 PROVE h[i - 1] = g[i - 1]
    <3>1. i - 1 \in 1..n /\ i - 1 \in 1..n+1
      BY <2>2
    <3>2. h[i - 1] = Item(i - 1)
      BY <3>1
    <3>3. g[i - 1] = Item(i - 1)
      BY <2>1, <3>1 DEF IsFlat
    <3> QED
      BY <3>2, <3>3
  <2>3. ASSUME NEW i \in 1..n+1 PROVE h[i] = f[i]
    <3>1. h[i] = Item(i) /\ f[i] = IF i = 1 THEN s[i] ELSE h[i - 1] \o s[i]
      OBVIOUS
    <3> HIDE DEF h, f
    <3>2. CASE i = 1
      BY <3>1, <3>2
    <3>3. CASE i # 1
      BY <2>2, <3>1, <3>3
    <3> QED
      BY <3>2, <3>3
  <2>4. h = f
    BY <2>3
  <2>5. IsFlat(s, n + 1, h)
    BY <2>4 DEF IsFlat
  <2> QED
    BY <2>5
<1> HIDE DEF S
<1>3. \A n \in Nat : n \in S
  BY <1>1, <1>2, Induction
<1> QED
  BY <1>3 DEF S

\* FlattenSeq from the left: the first sequence, then the others.
LEMMA FlatLeft ==
  ASSUME NEW T, NEW s \in Seq(Seq(T)), NEW x \in Seq(T), NEW r,
         Len(r) = Len(s) + 1, r[1] = x, \A i \in 1..Len(s) : r[i + 1] = s[i]
  PROVE  FlattenSeq(s) \in Seq(T) /\ FlattenSeq(r) = x \o FlattenSeq(s)
<1> DEFINE n == Len(s)
           g == CHOOSE g : IsFlat(s, n, g)
           h == CHOOSE h : IsFlat(r, n + 1, h)
<1>1. n \in Nat /\ \A i \in 1..n : s[i] \in Seq(T)
  BY LenProperties, ElementOfSeq
<1>2. IsFlat(s, n, g) /\ IsFlat(r, n + 1, h)
  <2>1. n + 1 \in Nat
    BY <1>1
  <2> HIDE DEF n
  <2>2. \E f : IsFlat(s, n, f)
    BY <1>1, FlatExists
  <2>3. \E f : IsFlat(r, n + 1, f)
    BY <2>1, FlatExists
  <2> QED
    BY <2>2, <2>3
<1>3. FlattenSeq(s) = IF n = 0 THEN s ELSE g[n]
  BY DEF FlattenSeq, IsFlat
<1>4. FlattenSeq(r) = h[n + 1]
  BY <1>1 DEF FlattenSeq, IsFlat
<1> HIDE DEF g, h, n
<1>5. /\ \A i \in 1..n : g[i] = IF i = 1 THEN s[i] ELSE g[i - 1] \o s[i]
      /\ \A i \in 1..n+1 : h[i] = IF i = 1 THEN r[i] ELSE h[i - 1] \o r[i]
  BY <1>2 DEF IsFlat
<1>6. \A i \in 1..n : r[i + 1] = s[i]
  BY DEF n
<1> DEFINE S == {i \in Nat : i \in 1..n => g[i] \in Seq(T) /\ h[i + 1] = x \o g[i]}
<1>7. 0 \in S
  OBVIOUS
<1>8. ASSUME NEW i \in Nat, i \in S PROVE i + 1 \in S
  <2> SUFFICES ASSUME i + 1 \in 1..n
               PROVE  g[i + 1] \in Seq(T) /\ h[(i + 1) + 1] = x \o g[i + 1]
    OBVIOUS
  <2>1. /\ (i + 1) + 1 \in 1..n+1 /\ (i + 1) + 1 # 1 /\ ((i + 1) + 1) - 1 = i + 1
        /\ i + 1 \in 1..n+1 /\ (i + 1) - 1 = i
    BY <1>1
  <2>2. h[(i + 1) + 1] = h[i + 1] \o s[i + 1] /\ s[i + 1] \in Seq(T)
    BY <1>1, <1>5, <1>6, <2>1
  <2>3. CASE i = 0
    <3>1. h[i + 1] = x /\ g[i + 1] = s[i + 1]
      BY <1>1, <1>5, <2>1, <2>3
    <3> QED
      BY <2>2, <3>1
  <2>4. CASE i # 0
    <3>1. i \in 1..n /\ i + 1 # 1
      BY <1>1, <2>1, <2>4
    <3>2. g[i] \in Seq(T) /\ h[i + 1] = x \o g[i]
      BY <1>8, <3>1
    <3>3. g[i + 1] = g[i] \o s[i + 1]
      BY <1>5, <2>1, <3>1
    <3>4. g[i] \in Seq(T) /\ s[i + 1] \in Seq(T)
      BY <2>2, <3>2
    <3>5. \A t, u \in Seq(T) : (x \o t) \o u = x \o (t \o u) /\ t \o u \in Seq(T)
      BY ConcatAssociative, ConcatProperties
    <3>6. (x \o g[i]) \o s[i + 1] = x \o (g[i] \o s[i + 1]) /\ g[i] \o s[i + 1] \in Seq(T)
      BY <3>4, <3>5
    <3> QED
      BY <2>2, <3>2, <3>3, <3>6
  <2> QED
    BY <2>3, <2>4
<1> HIDE DEF S
<1>9. \A i \in Nat : i \in S
  BY <1>7, <1>8, Induction
<1>10. CASE n = 0
  <2>1. s = << >>
    BY <1>10, EmptySeq DEF n
  <2>2. h[1] = x
    BY <1>5, <1>10
  <2> QED
    BY <1>3, <1>4, <1>10, <2>1, <2>2, ConcatEmptySeq
<1>11. CASE n # 0
  <2>1. n \in S /\ n \in 1..n
    BY <1>1, <1>9, <1>11
  <2>2. g[n] \in Seq(T) /\ h[n + 1] = x \o g[n]
    BY <2>1 DEF S
  <2> QED
    BY <1>3, <1>4, <1>11, <2>2
<1> QED
  BY <1>10, <1>11

-----------------------------------------------------------------------------
(* Programs, operation by operation: each ends with the program s *)

Ops == {"SCL", "SDA", "input", "pushpull", "opendrain", "sample"} \X {0, 1}
Programs == Seq(Ops)

Join(r, s) == r \o s
Push(op, v, s) == Cons(<<op, v>>, s)

StartThen(s) == Push("SDA", 1, Push("SCL", 1, Push("SDA", 0, Push("SCL", 0, s))))
StopThen(s) == Push("SDA", 0, Push("SCL", 0, Push("SCL", 1, Push("SDA", 1, s))))
IdleThen(s) == Push("SCL", 1, Push("SDA", 1, s))
NinthThen(s) == Push("SCL", 0, Push("input", 0, Push("SCL", 1, Push("pushpull", 0, s))))
EndThen(s) ==
  Push("SCL", 0, Push("pushpull", 0, Push("SDA", 1, Push("SCL", 1, Push("opendrain", 0, s)))))

\* The bits of b after the first i, and the bits read after the first i.
WriteOps(b, i) ==
  FlattenSeq([j \in 1..(W - i) |-> << <<"SCL", 0>>, <<"SDA", b[i + j]>>, <<"SCL", 1>> >>])
ReadOps(i) ==
  FlattenSeq([j \in 1..(W - i) |-> << <<"SCL", 0>>, <<"SCL", 1>>, <<"sample", 0>> >>])

ByteThen(b, s) == Join(WriteOps(b, 0), NinthThen(s))
ReadThen(s) == Push("input", 0, Join(ReadOps(0), EndThen(s)))

-----------------------------------------------------------------------------
(* The inductive invariant: where the cycle is *)

\* The bytes that the board writes in a cycle.
Kinds == {"chip", "register"} \cup IF call.op = "write" THEN {"value"} ELSE {"again"}

Sent(k) == CASE k = "chip"     -> AddrW
             [] k = "register" -> call.reg
             [] k = "value"    -> call.value
             [] k = "again"    -> AddrR

Final == StopThen(<< >>)
Reread == StartThen(ByteThen(AddrR, ReadThen(Final)))

\* What is left when a byte is written.
AfterRegister ==
  IF call.op = "write" THEN ByteThen(call.value, Final) ELSE StopThen(IdleThen(Reread))

After(k) == CASE k = "chip"     -> ByteThen(call.reg, AfterRegister)
              [] k = "register" -> AfterRegister
              [] k = "value"    -> Final
              [] k = "again"    -> ReadThen(Final)

Bits(k, i) == Join(WriteOps(Sent(k), i), NinthThen(After(k)))

Prefix(b, i) == [j \in 1..i |-> b[j]]

\* What the camera takes a byte for, and what it is in when it has acknowledged it.
Expected(k) == IF k \in {"chip", "again"} THEN "address" ELSE k
Acked(k) == CASE k = "chip" -> "register" [] k = "again" -> "send" [] OTHER -> "value"

\* The camera waits for a start condition; it does since it lost a dispute.
Away == camera = [st |-> "idle", bits |-> << >>, ack |-> "no"] /\ drive = 1
Lost == Away /\ disputed = "yes"

\* The camera has i bits of byte k.
Follows(k, i) == camera = [st |-> Expected(k), bits |-> Prefix(Sent(k), i), ack |-> "no"] /\ drive = 1
Taken(k, i) == Follows(k, i) \/ (k = "value" /\ Lost)

\* What the cycle has done before byte k, and when it is over.
Before(k) == byte = << >> /\ stored = "no" /\ (k \in {"value", "again"} => ptr = call.reg)
Done ==
  IF call.op = "write" THEN byte = << >> /\ (stored = "yes" \/ disputed = "yes")
  ELSE byte = regs[call.reg] \/ (disputed = "yes" /\ byte = Ones)

\* A start condition before byte k.
Start1(k) == /\ todo = StartThen(Bits(k, 0)) /\ Before(k)
             /\ Away /\ mode # "input"
Start2(k) == /\ todo = Push("SCL", 1, Push("SDA", 0, Push("SCL", 0, Bits(k, 0)))) /\ Before(k)
             /\ Away /\ mode # "input" /\ out = 1 /\ sda = 1
Start3(k) == /\ todo = Push("SDA", 0, Push("SCL", 0, Bits(k, 0))) /\ Before(k)
             /\ Away /\ mode # "input" /\ scl = 1 /\ sda = 1
Start4(k) == /\ todo = Push("SCL", 0, Bits(k, 0)) /\ Before(k)
             /\ camera = [st |-> "address", bits |-> << >>, ack |-> "no"] /\ drive = 1
             /\ mode # "input" /\ scl = 1

\* The first bit, the bit after i more, and the acknowledgement of byte k.
First(k) == /\ todo = Bits(k, 0) /\ Before(k)
            /\ mode # "input"
            /\ \/ scl = 0 /\ Follows(k, 0)
               \/ scl = 1 /\ \/ camera.st = Expected(k) /\ camera.bits = << >>
                             \/ k = "value" /\ Lost
Bit1(k, i) == /\ todo = Bits(k, i) /\ Before(k)
              /\ mode # "input" /\ scl = 1 /\ out = Sent(k)[i] /\ Taken(k, i)
Bit2(k, i) == /\ todo = Push("SDA", Sent(k)[i + 1], Push("SCL", 1, Bits(k, i + 1))) /\ Before(k)
              /\ mode # "input" /\ scl = 0 /\ Taken(k, i)
Bit3(k, i) == /\ todo = Push("SCL", 1, Bits(k, i + 1)) /\ Before(k)
              /\ mode # "input" /\ scl = 0 /\ out = Sent(k)[i + 1] /\ sda = out /\ Taken(k, i)

\* The camera has answered byte k.
Answered(k) ==
  /\ byte = << >> /\ (k # "chip" => ptr = call.reg) /\ out = Sent(k)[W]
  /\ \/ camera = [st |-> Acked(k), bits |-> << >>, ack |-> "yes"] /\ drive = 0
     \/ k = "value" /\ Lost
  /\ IF k = "value" THEN stored = "yes" \/ disputed = "yes" ELSE stored = "no"
Ninth1(k) == /\ todo = Push("input", 0, Push("SCL", 1, Push("pushpull", 0, After(k))))
             /\ Answered(k) /\ scl = 0
Ninth2(k) == /\ todo = Push("SCL", 1, Push("pushpull", 0, After(k)))
             /\ Answered(k) /\ scl = 0 /\ mode = "input" /\ sda = drive
Ninth3(k) == /\ todo = Push("pushpull", 0, After(k))
             /\ Answered(k) /\ scl = 1 /\ mode = "input" /\ sda = drive

\* The bits read: i are there.
Samples(i) == Join(ReadOps(i), EndThen(Final))
Reading == call.op = "read" /\ stored = "no" /\ ptr = call.reg
Listen == /\ todo = ReadThen(Final) /\ Reading /\ byte = << >> /\ scl = 1
          /\ \/ camera = [st |-> "send", bits |-> << >>, ack |-> "yes"] /\ drive = 0 /\ sda = 0
             \/ Lost /\ sda = 1
Sends(i) == camera.st = "send" /\ camera.bits = Prefix(regs[ptr], i)
Read1(i) == /\ todo = Samples(i) /\ Reading
            /\ mode = "input" /\ scl = 1
            /\ \/ Sends(i) /\ byte = Prefix(regs[ptr], i)
               \/ Lost /\ byte = Prefix(Ones, i)
ReadBit(i) == \/ Sends(i + 1) /\ drive = regs[ptr][i + 1] /\ byte = Prefix(regs[ptr], i)
              \/ Lost /\ byte = Prefix(Ones, i)
Read2(i) == /\ todo = Push("SCL", 1, Push("sample", 0, Samples(i + 1))) /\ Reading
            /\ mode = "input" /\ scl = 0 /\ sda = drive /\ ReadBit(i)
Read3(i) == /\ todo = Push("sample", 0, Samples(i + 1)) /\ Reading
            /\ mode = "input" /\ scl = 1 /\ sda = drive /\ ReadBit(i)

\* The end of a byte read.
Heard == call.op = "read" /\ Done /\ Away
End1 == /\ todo = Push("pushpull", 0, Push("SDA", 1, Push("SCL", 1, Push("opendrain", 0, Final))))
        /\ Heard /\ scl = 0
End2 == /\ todo = Push("SDA", 1, Push("SCL", 1, Push("opendrain", 0, Final)))
        /\ Heard /\ scl = 0 /\ mode = "pushpull"
End3 == /\ todo = Push("SCL", 1, Push("opendrain", 0, Final))
        /\ Heard /\ scl = 0 /\ mode = "pushpull" /\ out = 1 /\ sda = 1
End4 == /\ todo = Push("opendrain", 0, Final)
        /\ Heard /\ scl = 1 /\ mode = "pushpull" /\ out = 1 /\ sda = 1

\* A stop condition: the last, or the one between the two parts of a read cycle.
Rest(last) == IF last THEN << >> ELSE IdleThen(Reread)
So(last) == IF last THEN Done ELSE call.op = "read" /\ Before("again")
Between == camera.st \in {"idle", "address", "value"}
Stop1(last) == /\ todo = StopThen(Rest(last)) /\ So(last)
               /\ mode # "input" /\ scl = 1 /\ Between /\ camera.bits = << >>
Stop2(last) == /\ todo = Push("SCL", 0, Push("SCL", 1, Push("SDA", 1, Rest(last)))) /\ So(last)
               /\ mode # "input" /\ scl = 1 /\ out = 0 /\ sda = 0 /\ Between /\ camera.bits = << >>
Stop3(last) == /\ todo = Push("SCL", 1, Push("SDA", 1, Rest(last))) /\ So(last)
               /\ mode # "input" /\ scl = 0 /\ out = 0 /\ sda = 0 /\ Between /\ drive = 1
Stop4(last) == /\ todo = Push("SDA", 1, Rest(last)) /\ So(last)
               /\ mode # "input" /\ scl = 1 /\ out = 0 /\ sda = 0 /\ Between /\ drive = 1
Stopped(last) == /\ todo = Rest(last) /\ So(last)
                 /\ mode # "input" /\ Away /\ scl = 1 /\ out = 1 /\ sda = 1
Idle2 == /\ todo = Push("SDA", 1, Reread) /\ So(FALSE)
         /\ mode # "input" /\ Away /\ scl = 1 /\ out = 1 /\ sda = 1

InCycle ==
  \/ \E k \in Kinds \cap {"chip", "again"} : Start1(k) \/ Start2(k) \/ Start3(k) \/ Start4(k)
  \/ \E k \in Kinds : First(k) \/ Ninth1(k) \/ Ninth2(k) \/ Ninth3(k)
  \/ \E k \in Kinds : \E i \in 1..W : Bit1(k, i)
  \/ \E k \in Kinds : \E i \in 0..W-1 : Bit2(k, i) \/ Bit3(k, i)
  \/ Listen \/ (\E i \in 0..W : Read1(i)) \/ (\E i \in 0..W-1 : Read2(i) \/ Read3(i))
  \/ End1 \/ End2 \/ End3 \/ End4
  \/ \E last \in BOOLEAN : Stop1(last) \/ Stop2(last) \/ Stop3(last) \/ Stop4(last) \/ Stopped(last)
  \/ Idle2

Ready == call = NoCall /\ todo = << >> /\ byte \in BoundedSeq({0, 1}, W) /\ Away /\ mode # "input"

IInv == BusTypeOK /\ (Ready \/ (call # NoCall /\ InCycle))

-----------------------------------------------------------------------------
(* Programs *)

LEMMA PushIs ==
  ASSUME NEW op, NEW v, <<op, v>> \in Ops, NEW s \in Programs
  PROVE  /\ Push(op, v, s) \in Programs /\ Push(op, v, s) # << >>
         /\ Head(Push(op, v, s)) = <<op, v>> /\ Tail(Push(op, v, s)) = s
<1> DEFINE x == << <<op, v>> >>  r == x \o s  n == Len(s)
<1>1. x \in Seq(Ops) /\ Len(x) = 1 /\ x[1] = <<op, v>>
  OBVIOUS
<1>2. s \in Seq(Ops) /\ n \in Nat /\ s \in [1..n -> Ops]
  BY LenProperties DEF Programs
<1>3. /\ r \in Seq(Ops) /\ Len(r) = Len(x) + Len(s)
      /\ \A i \in 1..Len(x)+Len(s) : r[i] = IF i <= Len(x) THEN x[i] ELSE s[i - Len(x)]
  BY <1>1, <1>2, ConcatProperties
<1> HIDE DEF x, r
<1>4. Len(r) = n + 1 /\ \A i \in 1..n+1 : r[i] = IF i <= 1 THEN x[i] ELSE s[i - 1]
  BY <1>1, <1>2, <1>3
<1>5. r # << >> /\ r[1] = <<op, v>>
  BY <1>1, <1>2, <1>3, <1>4, EmptySeq
<1>6. /\ Head(r) = r[1] /\ Tail(r) \in Seq(Ops) /\ Len(Tail(r)) = Len(r) - 1
      /\ \A i \in 1..Len(Tail(r)) : Tail(r)[i] = r[i + 1]
  BY <1>3, <1>5, HeadTailProperties
<1>7. Tail(r) = s
  <2> DEFINE t == Tail(r)
  <2>1. t \in Seq(Ops) /\ Len(t) = n /\ \A i \in 1..n : t[i] = r[i + 1]
    BY <1>2, <1>4, <1>6
  <2>2. \A i \in 1..n : i + 1 \in 1..n+1 /\ ~(i + 1 <= 1) /\ (i + 1) - 1 = i
    BY <1>2
  <2> HIDE DEF t
  <2>3. \A i \in 1..n : r[i + 1] = s[i]
    BY <1>4, <2>2
  <2>4. t = s
    BY <1>2, <2>1, <2>3, SeqEqual
  <2> QED
    BY <2>4 DEF t
<1> QED
  BY <1>3, <1>5, <1>6, <1>7 DEF Push, Cons, Programs, x, r

\* One operation, and what comes after it.
LEMMA Joined ==
  /\ << >> \in Programs
  /\ \A s \in Programs : Join(<< >>, s) = s /\ Join(s, << >>) = s
  /\ \A a \in Ops : \A t \in Programs : Cons(a, t) \in Programs
  /\ \A t, s \in Programs : Join(t, s) \in Programs
  /\ \A a \in Ops : \A t, s \in Programs : Join(Cons(a, t), s) = Cons(a, Join(t, s))
  /\ \A r, t, s \in Programs : Join(Join(r, t), s) = Join(r, Join(t, s))
<1>1. \A a \in Ops : <<a>> \in Seq(Ops)
  OBVIOUS
<1>2. << >> \in Seq(Ops) /\ \A s \in Seq(Ops) : << >> \o s = s /\ s \o << >> = s
  BY EmptySeq, ConcatEmptySeq
<1>3. \A t, s \in Seq(Ops) : t \o s \in Seq(Ops)
  BY ConcatProperties
<1>4. \A r, t, s \in Seq(Ops) : (r \o t) \o s = r \o (t \o s)
  BY ConcatAssociative
<1> QED
  BY <1>1, <1>2, <1>3, <1>4 DEF Cons, Join, Programs

LEMMA Pair ==
  ASSUME NEW a, NEW b
  PROVE  <<a, b>> = Cons(a, Cons(b, << >>))
<1> DEFINE S == {a, b}  r == <<a, b>>  x == <<a>>  y == <<b>>  t == x \o y
<1>1. r \in Seq(S) /\ Len(r) = 2 /\ r[1] = a /\ r[2] = b
  OBVIOUS
<1>2. x \in Seq(S) /\ Len(x) = 1 /\ x[1] = a /\ y \in Seq(S) /\ Len(y) = 1 /\ y[1] = b
  OBVIOUS
<1>3. t \in Seq(S) /\ Len(t) = 2 /\ t[1] = a /\ t[2] = b
  <2> HIDE DEF x, y, S
  <2> QED
    BY <1>2, ConcatProperties
<1>4. Cons(b, << >>) = y
  BY DEF Cons
<1>5. \A i \in 1..2 : i = 1 \/ i = 2
  OBVIOUS
<1> HIDE DEF r, t, S
<1>6. \A i \in 1..Len(r) : r[i] = t[i]
  BY <1>1, <1>3, <1>5
<1>7. r = t
  BY <1>1, <1>3, <1>6, SeqEqual
<1> QED
  BY <1>4, <1>7 DEF r, t, Cons

LEMMA Triple ==
  ASSUME NEW a, NEW b, NEW c
  PROVE  <<a, b, c>> = Cons(a, Cons(b, Cons(c, << >>)))
<1>1. <<a, b, c>> = <<a>> \o <<b, c>>
  OBVIOUS
<1>2. <<a, b, c>> = Cons(a, <<b, c>>)
  BY <1>1 DEF Cons
<1> QED
  BY <1>2, Pair

LEMMA Quadruple ==
  ASSUME NEW a, NEW b, NEW c, NEW d
  PROVE  <<a, b, c, d>> = Cons(a, Cons(b, Cons(c, Cons(d, << >>))))
<1>1. <<a, b, c, d>> = <<a>> \o <<b, c, d>>
  OBVIOUS
<1>2. <<a, b, c, d>> = Cons(a, <<b, c, d>>)
  BY <1>1 DEF Cons
<1> QED
  BY <1>2, Triple

LEMMA Quintuple ==
  ASSUME NEW a, NEW b, NEW c, NEW d, NEW e
  PROVE  <<a, b, c, d, e>> = Cons(a, Cons(b, Cons(c, Cons(d, Cons(e, << >>)))))
<1>1. <<a, b, c, d, e>> = <<a>> \o <<b, c, d, e>>
  OBVIOUS
<1>2. <<a, b, c, d, e>> = Cons(a, <<b, c, d, e>>)
  BY <1>1 DEF Cons
<1> QED
  BY <1>2, Quadruple

LEMMA TwoThen ==
  ASSUME NEW a \in Ops, NEW b \in Ops, NEW s \in Programs
  PROVE  /\ Cons(a, Cons(b, << >>)) \in Programs /\ Cons(a, Cons(b, s)) \in Programs
         /\ Join(Cons(a, Cons(b, << >>)), s) = Cons(a, Cons(b, s))
<1>1. /\ Cons(b, << >>) \in Programs /\ Cons(b, s) \in Programs
      /\ Join(Cons(b, << >>), s) = Cons(b, s)
  BY Joined
<1> DEFINE u == Cons(b, << >>)  v == Cons(b, s)
<1>2. u \in Programs /\ v \in Programs /\ Join(u, s) = v
  BY <1>1
<1> HIDE DEF u, v
<1>3. Cons(a, u) \in Programs /\ Cons(a, v) \in Programs /\ Join(Cons(a, u), s) = Cons(a, v)
  BY <1>2, Joined
<1> QED
  BY <1>3 DEF u, v

LEMMA ThreeThen ==
  ASSUME NEW a \in Ops, NEW b \in Ops, NEW c \in Ops, NEW s \in Programs
  PROVE  /\ Cons(a, Cons(b, Cons(c, << >>))) \in Programs /\ Cons(a, Cons(b, Cons(c, s))) \in Programs
         /\ Join(Cons(a, Cons(b, Cons(c, << >>))), s) = Cons(a, Cons(b, Cons(c, s)))
<1>1. /\ Cons(b, Cons(c, << >>)) \in Programs /\ Cons(b, Cons(c, s)) \in Programs
      /\ Join(Cons(b, Cons(c, << >>)), s) = Cons(b, Cons(c, s))
  BY TwoThen
<1> DEFINE u == Cons(b, Cons(c, << >>))  v == Cons(b, Cons(c, s))
<1>2. u \in Programs /\ v \in Programs /\ Join(u, s) = v
  BY <1>1
<1> HIDE DEF u, v
<1>3. Cons(a, u) \in Programs /\ Cons(a, v) \in Programs /\ Join(Cons(a, u), s) = Cons(a, v)
  BY <1>2, Joined
<1> QED
  BY <1>3 DEF u, v

LEMMA FourThen ==
  ASSUME NEW a \in Ops, NEW b \in Ops, NEW c \in Ops, NEW d \in Ops, NEW s \in Programs
  PROVE  /\ Cons(a, Cons(b, Cons(c, Cons(d, << >>)))) \in Programs /\ Cons(a, Cons(b, Cons(c, Cons(d, s)))) \in Programs
         /\ Join(Cons(a, Cons(b, Cons(c, Cons(d, << >>)))), s) = Cons(a, Cons(b, Cons(c, Cons(d, s))))
<1>1. /\ Cons(b, Cons(c, Cons(d, << >>))) \in Programs /\ Cons(b, Cons(c, Cons(d, s))) \in Programs
      /\ Join(Cons(b, Cons(c, Cons(d, << >>))), s) = Cons(b, Cons(c, Cons(d, s)))
  BY ThreeThen
<1> DEFINE u == Cons(b, Cons(c, Cons(d, << >>)))  v == Cons(b, Cons(c, Cons(d, s)))
<1>2. u \in Programs /\ v \in Programs /\ Join(u, s) = v
  BY <1>1
<1> HIDE DEF u, v
<1>3. Cons(a, u) \in Programs /\ Cons(a, v) \in Programs /\ Join(Cons(a, u), s) = Cons(a, v)
  BY <1>2, Joined
<1> QED
  BY <1>3 DEF u, v

LEMMA FiveThen ==
  ASSUME NEW a \in Ops, NEW b \in Ops, NEW c \in Ops, NEW d \in Ops, NEW e \in Ops, NEW s \in Programs
  PROVE  /\ Cons(a, Cons(b, Cons(c, Cons(d, Cons(e, << >>))))) \in Programs /\ Cons(a, Cons(b, Cons(c, Cons(d, Cons(e, s))))) \in Programs
         /\ Join(Cons(a, Cons(b, Cons(c, Cons(d, Cons(e, << >>))))), s) = Cons(a, Cons(b, Cons(c, Cons(d, Cons(e, s)))))
<1>1. /\ Cons(b, Cons(c, Cons(d, Cons(e, << >>)))) \in Programs /\ Cons(b, Cons(c, Cons(d, Cons(e, s)))) \in Programs
      /\ Join(Cons(b, Cons(c, Cons(d, Cons(e, << >>)))), s) = Cons(b, Cons(c, Cons(d, Cons(e, s))))
  BY FourThen
<1> DEFINE u == Cons(b, Cons(c, Cons(d, Cons(e, << >>))))  v == Cons(b, Cons(c, Cons(d, Cons(e, s))))
<1>2. u \in Programs /\ v \in Programs /\ Join(u, s) = v
  BY <1>1
<1> HIDE DEF u, v
<1>3. Cons(a, u) \in Programs /\ Cons(a, v) \in Programs /\ Join(Cons(a, u), s) = Cons(a, v)
  BY <1>2, Joined
<1> QED
  BY <1>3 DEF u, v

\* The sequences of operations are these programs.
LEMMA ProgramsAre ==
  ASSUME NEW s \in Programs
  PROVE  /\ startCondition \in Programs /\ Join(startCondition, s) = StartThen(s)
         /\ stopCondition \in Programs /\ Join(stopCondition, s) = StopThen(s)
         /\ idleState \in Programs /\ Join(idleState, s) = IdleThen(s)
         /\ StartThen(s) \in Programs /\ StopThen(s) \in Programs /\ IdleThen(s) \in Programs
<1> DEFINE c0 == <<"SCL", 0>>  c1 == <<"SCL", 1>>  d0 == <<"SDA", 0>>
           d1 == <<"SDA", 1>>
<1>1. c0 \in Ops /\ c1 \in Ops /\ d0 \in Ops /\ d1 \in Ops
  BY DEF Ops
<1>2. startCondition = <<d1, c1, d0, c0>>
  BY DEF startCondition
<1>3. StartThen(s) = Cons(d1, Cons(c1, Cons(d0, Cons(c0, s))))
  BY DEF StartThen, Push
<1>4. stopCondition = <<d0, c0, c1, d1>>
  BY DEF stopCondition
<1>5. StopThen(s) = Cons(d0, Cons(c0, Cons(c1, Cons(d1, s))))
  BY DEF StopThen, Push
<1>6. idleState = <<c1, d1>>
  BY DEF idleState
<1>7. IdleThen(s) = Cons(c1, Cons(d1, s))
  BY DEF IdleThen, Push
<1> HIDE DEF c0, c1, d0, d1
<1>8. startCondition = Cons(d1, Cons(c1, Cons(d0, Cons(c0, << >>))))
  BY <1>2, Quadruple
<1>9. startCondition \in Programs /\ Join(startCondition, s) = StartThen(s) /\ StartThen(s) \in Programs
  BY <1>1, <1>3, <1>8, FourThen
<1>10. stopCondition = Cons(d0, Cons(c0, Cons(c1, Cons(d1, << >>))))
  BY <1>4, Quadruple
<1>11. stopCondition \in Programs /\ Join(stopCondition, s) = StopThen(s) /\ StopThen(s) \in Programs
  BY <1>1, <1>5, <1>10, FourThen
<1>12. idleState = Cons(c1, Cons(d1, << >>))
  BY <1>6, Pair
<1>13. idleState \in Programs /\ Join(idleState, s) = IdleThen(s) /\ IdleThen(s) \in Programs
  BY <1>1, <1>7, <1>12, TwoThen
<1> QED
  BY <1>9, <1>11, <1>13

NinthOps == << <<"SCL", 0>>, <<"input", 0>>, <<"SCL", 1>>, <<"pushpull", 0>> >>
EndOps == << <<"SCL", 0>>, <<"pushpull", 0>>, <<"SDA", 1>>, <<"SCL", 1>>, <<"opendrain", 0>> >>

LEMMA EndsAre ==
  ASSUME NEW s \in Programs
  PROVE  /\ NinthOps \in Programs /\ Join(NinthOps, s) = NinthThen(s) /\ NinthThen(s) \in Programs
         /\ EndOps \in Programs /\ Join(EndOps, s) = EndThen(s) /\ EndThen(s) \in Programs
<1> DEFINE c0 == <<"SCL", 0>>  c1 == <<"SCL", 1>>  d1 == <<"SDA", 1>>
           ip == <<"input", 0>>  pp == <<"pushpull", 0>>  od == <<"opendrain", 0>>
<1>1. c0 \in Ops /\ c1 \in Ops /\ d1 \in Ops /\ ip \in Ops /\ pp \in Ops /\ od \in Ops
  BY DEF Ops
<1>2. NinthOps = <<c0, ip, c1, pp>>
  BY DEF NinthOps
<1>3. NinthThen(s) = Cons(c0, Cons(ip, Cons(c1, Cons(pp, s))))
  BY DEF NinthThen, Push
<1>4. EndOps = <<c0, pp, d1, c1, od>>
  BY DEF EndOps
<1>5. EndThen(s) = Cons(c0, Cons(pp, Cons(d1, Cons(c1, Cons(od, s)))))
  BY DEF EndThen, Push
<1> HIDE DEF c0, c1, d1, ip, pp, od
<1>6. NinthOps = Cons(c0, Cons(ip, Cons(c1, Cons(pp, << >>))))
  BY <1>2, Quadruple
<1>7. NinthOps \in Programs /\ Join(NinthOps, s) = NinthThen(s) /\ NinthThen(s) \in Programs
  BY <1>1, <1>3, <1>6, FourThen
<1>8. EndOps = Cons(c0, Cons(pp, Cons(d1, Cons(c1, Cons(od, << >>)))))
  BY <1>4, Quintuple
<1>9. EndOps \in Programs /\ Join(EndOps, s) = EndThen(s) /\ EndThen(s) \in Programs
  <2> DEFINE t == Cons(c0, Cons(pp, Cons(d1, Cons(c1, Cons(od, << >>)))))
             u == Cons(c0, Cons(pp, Cons(d1, Cons(c1, Cons(od, s)))))
  <2>1. t \in Programs /\ u \in Programs /\ Join(t, s) = u
    BY <1>1, FiveThen
  <2>2. EndOps = t /\ EndThen(s) = u
    BY <1>5, <1>8
  <2> HIDE DEF t, u
  <2> QED
    BY <2>1, <2>2
<1> QED
  BY <1>7, <1>9

\* A sequence of sequences is flat.
LEMMA FlatSeq ==
  ASSUME NEW T, NEW s \in Seq(Seq(T))
  PROVE  FlattenSeq(s) \in Seq(T)
<1> DEFINE n == Len(s)
           r == [i \in 1..n+1 |-> IF i = 1 THEN << >> ELSE s[i - 1]]
<1>1. n \in Nat /\ \A i \in 1..n : s[i] \in Seq(T)
  BY LenProperties, ElementOfSeq
<1>2. \A i \in 1..n+1 : (IF i = 1 THEN << >> ELSE s[i - 1]) \in Seq(T)
  <2> TAKE i \in 1..n+1
  <2>1. CASE i = 1
    BY <2>1
  <2>2. CASE i # 1
    <3>1. i - 1 \in 1..n
      BY <1>1, <2>2
    <3> HIDE DEF n
    <3> QED
      BY <1>1, <2>2, <3>1
  <2> QED
    BY <2>1, <2>2
<1>3. r \in Seq(Seq(T)) /\ Len(r) = n + 1
  BY <1>1, <1>2
<1>4. r[1] = << >> /\ \A i \in 1..n : r[i + 1] = s[i]
  <2>1. 1 \in 1..n+1 /\ \A i \in 1..n : i + 1 \in 1..n+1 /\ i + 1 # 1 /\ (i + 1) - 1 = i
    BY <1>1
  <2>2. \A j \in 1..n+1 : r[j] = IF j = 1 THEN << >> ELSE s[j - 1]
    OBVIOUS
  <2> HIDE DEF r, n
  <2>3. r[1] = << >>
    BY <2>1, <2>2
  <2>4. ASSUME NEW i \in 1..n PROVE r[i + 1] = s[i]
    <3>1. r[i + 1] = s[(i + 1) - 1]
      BY <2>1, <2>2
    <3> QED
      BY <2>1, <3>1
  <2> QED
    BY <2>3, <2>4
<1>5. << >> \in Seq(T)
  OBVIOUS
<1> HIDE DEF r
<1> QED
  BY <1>3, <1>4, <1>5, FlatLeft

\* Clocks, one by one: of a byte that is written, and of one that is read.
LEMMA ClocksAre ==
  ASSUME NEW n \in Nat, NEW s \in Programs, NEW clock \in [1..n -> Programs]
  PROVE  /\ \A i \in 0..n : FlattenSeq([j \in 1..(n - i) |-> clock[i + j]]) \in Programs
         /\ Join(FlattenSeq([j \in 1..(n - n) |-> clock[n + j]]), s) = s
         /\ \A i \in 0..n-1 :
              Join(FlattenSeq([j \in 1..(n - i) |-> clock[i + j]]), s)
                = Join(clock[i + 1], Join(FlattenSeq([j \in 1..(n - (i + 1)) |-> clock[(i + 1) + j]]), s))
<1> DEFINE q(i) == [j \in 1..(n - i) |-> clock[i + j]]
<1>1. ASSUME NEW i \in 0..n PROVE q(i) \in Seq(Programs) /\ Len(q(i)) = n - i
  <2>1. n - i \in Nat /\ \A j \in 1..(n - i) : i + j \in 1..n
    OBVIOUS
  <2>2. \A j \in 1..(n - i) : clock[i + j] \in Programs
    BY <2>1
  <2> QED
    BY <2>1, <2>2
<1>2. ASSUME NEW i \in 0..n PROVE FlattenSeq(q(i)) \in Programs
  <2>1. q(i) \in Seq(Programs)
    BY <1>1
  <2> HIDE DEF q
  <2> QED
    BY <2>1, FlatSeq DEF Programs
<1>3. Join(FlattenSeq(q(n)), s) = s
  <2>1. q(n) \in Seq(Programs) /\ Len(q(n)) = 0
    BY <1>1
  <2> HIDE DEF q
  <2>2. q(n) = << >>
    BY <2>1, EmptySeq
  <2>3. FlattenSeq(<< >>) = << >>
    BY DEF FlattenSeq
  <2> QED
    BY <2>2, <2>3, Joined
<1>4. ASSUME NEW i \in 0..n-1 PROVE Join(FlattenSeq(q(i)), s) = Join(clock[i + 1], Join(FlattenSeq(q(i + 1)), s))
  <2>1. i \in 0..n /\ i + 1 \in 0..n /\ i + 1 \in 1..n
    OBVIOUS
  <2>2. /\ q(i) \in Seq(Programs) /\ Len(q(i)) = n - i
        /\ q(i + 1) \in Seq(Programs) /\ Len(q(i + 1)) = n - (i + 1)
    BY <1>1, <2>1
  <2>3. q(i)[1] = clock[i + 1]
    OBVIOUS
  <2>4. ASSUME NEW j \in 1..(n - (i + 1)) PROVE q(i)[j + 1] = q(i + 1)[j]
    <3>1. j + 1 \in 1..(n - i) /\ i + (j + 1) = (i + 1) + j
      OBVIOUS
    <3>2. q(i)[j + 1] = clock[i + (j + 1)]
      BY <3>1
    <3>3. q(i + 1)[j] = clock[(i + 1) + j]
      OBVIOUS
    <3> QED
      BY <3>1, <3>2, <3>3
  <2>5. clock[i + 1] \in Programs /\ FlattenSeq(q(i + 1)) \in Programs
    BY <1>2, <2>1
  <2> HIDE DEF q
  <2>6. Len(q(i)) = Len(q(i + 1)) + 1
    BY <2>2
  <2>7. \A j \in 1..Len(q(i + 1)) : q(i)[j + 1] = q(i + 1)[j]
    BY <2>2, <2>4
  <2>8. FlattenSeq(q(i)) = Join(clock[i + 1], FlattenSeq(q(i + 1)))
    BY <2>2, <2>3, <2>5, <2>6, <2>7, FlatLeft DEF Programs, Join
  <2> QED
    BY <2>5, <2>8, Joined
<1> QED
  BY <1>2, <1>3, <1>4

WriteClock(v) == << <<"SCL", 0>>, <<"SDA", v>>, <<"SCL", 1>> >>
ReadClock == << <<"SCL", 0>>, <<"SCL", 1>>, <<"sample", 0>> >>

LEMMA ClockIs ==
  ASSUME NEW s \in Programs
  PROVE  /\ \A v \in {0, 1} :
              /\ WriteClock(v) \in Programs
              /\ Join(WriteClock(v), s) = Push("SCL", 0, Push("SDA", v, Push("SCL", 1, s)))
         /\ ReadClock \in Programs
         /\ Join(ReadClock, s) = Push("SCL", 0, Push("SCL", 1, Push("sample", 0, s)))
<1> DEFINE c0 == <<"SCL", 0>>  c1 == <<"SCL", 1>>  p == <<"sample", 0>>
<1>1. c0 \in Ops /\ c1 \in Ops /\ p \in Ops
  BY DEF Ops
<1>2. ReadClock = <<c0, c1, p>> /\ Push("SCL", 0, Push("SCL", 1, Push("sample", 0, s))) = Cons(c0, Cons(c1, Cons(p, s)))
  BY DEF ReadClock, Push
<1>3. \A v \in {0, 1} :
        /\ WriteClock(v) \in Programs
        /\ Join(WriteClock(v), s) = Push("SCL", 0, Push("SDA", v, Push("SCL", 1, s)))
  <2> TAKE v \in {0, 1}
  <2> DEFINE d == <<"SDA", v>>
  <2>1. d \in Ops
    BY DEF Ops
  <2>2. /\ WriteClock(v) = <<c0, d, c1>>
        /\ Push("SCL", 0, Push("SDA", v, Push("SCL", 1, s))) = Cons(c0, Cons(d, Cons(c1, s)))
    BY DEF WriteClock, Push
  <2> HIDE DEF c0, c1, d
  <2>3. WriteClock(v) = Cons(c0, Cons(d, Cons(c1, << >>)))
    BY <2>2, Triple
  <2> DEFINE t == Cons(c0, Cons(d, Cons(c1, << >>)))  u == Cons(c0, Cons(d, Cons(c1, s)))
  <2>4. t \in Programs /\ Join(t, s) = u
    BY <1>1, <2>1, ThreeThen
  <2> HIDE DEF t, u
  <2>5. WriteClock(v) = t /\ Push("SCL", 0, Push("SDA", v, Push("SCL", 1, s))) = u
    BY <2>2, <2>3 DEF t, u
  <2> QED
    BY <2>4, <2>5
<1> HIDE DEF c0, c1, p
<1>4. ReadClock = Cons(c0, Cons(c1, Cons(p, << >>)))
  BY <1>2, Triple
<1>5. ReadClock \in Programs /\ Join(ReadClock, s) = Cons(c0, Cons(c1, Cons(p, s)))
  BY <1>1, <1>4, ThreeThen
<1> QED
  BY <1>2, <1>3, <1>5

LEMMA WriteOpsAre ==
  ASSUME NEW b \in Byte, NEW s \in Programs
  PROVE  /\ \A i \in 0..W : WriteOps(b, i) \in Programs /\ Join(WriteOps(b, i), s) \in Programs
         /\ Join(WriteOps(b, W), s) = s
         /\ \A i \in 0..W-1 :
              Join(WriteOps(b, i), s)
                = Push("SCL", 0, Push("SDA", b[i + 1], Push("SCL", 1, Join(WriteOps(b, i + 1), s))))
<1> DEFINE clock == [j \in 1..W |-> WriteClock(b[j])]
<1>1. W \in Nat \ {0} /\ \A j \in 1..W : b[j] \in {0, 1}
  BY SccbAssumption DEF Byte
<1>2. clock \in [1..W -> Programs]
  BY <1>1, ClockIs
<1>3. ASSUME NEW i \in 0..W PROVE WriteOps(b, i) = FlattenSeq([j \in 1..(W - i) |-> clock[i + j]])
  <2>1. \A j \in 1..(W - i) : i + j \in 1..W
    BY <1>1
  <2>2. \A j \in 1..(W - i) : clock[i + j] = WriteClock(b[i + j])
    BY <2>1
  <2>3. [j \in 1..(W - i) |-> clock[i + j]] = [j \in 1..(W - i) |-> WriteClock(b[i + j])]
    BY <2>2
  <2> QED
    BY <2>3 DEF WriteOps, WriteClock
<1>4. \A j \in 1..W : clock[j] = WriteClock(b[j])
  OBVIOUS
<1> HIDE DEF clock
<1>5. /\ \A i \in 0..W : FlattenSeq([j \in 1..(W - i) |-> clock[i + j]]) \in Programs
      /\ Join(FlattenSeq([j \in 1..(W - W) |-> clock[W + j]]), s) = s
      /\ \A i \in 0..W-1 :
           Join(FlattenSeq([j \in 1..(W - i) |-> clock[i + j]]), s)
             = Join(clock[i + 1], Join(FlattenSeq([j \in 1..(W - (i + 1)) |-> clock[(i + 1) + j]]), s))
  BY <1>1, <1>2, ClocksAre
<1>6. \A i \in 0..W : WriteOps(b, i) \in Programs /\ Join(WriteOps(b, i), s) \in Programs
  BY <1>3, <1>5, Joined
<1>7. Join(WriteOps(b, W), s) = s
  <2>1. W \in 0..W
    BY <1>1
  <2> QED
    BY <1>3, <1>5, <2>1
<1>8. ASSUME NEW i \in 0..W-1
      PROVE  Join(WriteOps(b, i), s)
               = Push("SCL", 0, Push("SDA", b[i + 1], Push("SCL", 1, Join(WriteOps(b, i + 1), s))))
  <2>1. i \in 0..W /\ i + 1 \in 0..W /\ i + 1 \in 1..W
    BY <1>1
  <2> DEFINE r == Join(WriteOps(b, i + 1), s)
  <2>2. WriteOps(b, i + 1) = FlattenSeq([j \in 1..(W - (i + 1)) |-> clock[(i + 1) + j]])
    BY <1>3, <2>1
  <2>3. Join(WriteOps(b, i), s) = Join(clock[i + 1], r)
    BY <1>3, <1>5, <2>1, <2>2
  <2>4. r \in Programs /\ clock[i + 1] = WriteClock(b[i + 1]) /\ b[i + 1] \in {0, 1}
    BY <1>1, <1>4, <1>6, <2>1
  <2> HIDE DEF r
  <2>5. Join(WriteClock(b[i + 1]), r) = Push("SCL", 0, Push("SDA", b[i + 1], Push("SCL", 1, r)))
    BY <2>4, ClockIs
  <2> QED
    BY <2>3, <2>4, <2>5 DEF r
<1> QED
  BY <1>6, <1>7, <1>8

LEMMA ReadOpsAre ==
  ASSUME NEW s \in Programs
  PROVE  /\ \A i \in 0..W : ReadOps(i) \in Programs /\ Join(ReadOps(i), s) \in Programs
         /\ Join(ReadOps(W), s) = s
         /\ \A i \in 0..W-1 :
              Join(ReadOps(i), s)
                = Push("SCL", 0, Push("SCL", 1, Push("sample", 0, Join(ReadOps(i + 1), s))))
<1> DEFINE clock == [j \in 1..W |-> ReadClock]
<1>1. W \in Nat \ {0}
  BY SccbAssumption
<1>2. clock \in [1..W -> Programs]
  BY ClockIs
<1>3. ASSUME NEW i \in 0..W PROVE ReadOps(i) = FlattenSeq([j \in 1..(W - i) |-> clock[i + j]])
  <2>1. \A j \in 1..(W - i) : i + j \in 1..W
    BY <1>1
  <2>2. \A j \in 1..(W - i) : clock[i + j] = ReadClock
    BY <2>1
  <2>3. [j \in 1..(W - i) |-> clock[i + j]] = [j \in 1..(W - i) |-> ReadClock]
    BY <2>2
  <2> QED
    BY <2>3 DEF ReadOps, ReadClock
<1>4. \A j \in 1..W : clock[j] = ReadClock
  OBVIOUS
<1> HIDE DEF clock
<1>5. /\ \A i \in 0..W : FlattenSeq([j \in 1..(W - i) |-> clock[i + j]]) \in Programs
      /\ Join(FlattenSeq([j \in 1..(W - W) |-> clock[W + j]]), s) = s
      /\ \A i \in 0..W-1 :
           Join(FlattenSeq([j \in 1..(W - i) |-> clock[i + j]]), s)
             = Join(clock[i + 1], Join(FlattenSeq([j \in 1..(W - (i + 1)) |-> clock[(i + 1) + j]]), s))
  BY <1>1, <1>2, ClocksAre
<1>6. \A i \in 0..W : ReadOps(i) \in Programs /\ Join(ReadOps(i), s) \in Programs
  BY <1>3, <1>5, Joined
<1>7. Join(ReadOps(W), s) = s
  <2>1. W \in 0..W
    BY <1>1
  <2> QED
    BY <1>3, <1>5, <2>1
<1>8. ASSUME NEW i \in 0..W-1
      PROVE  Join(ReadOps(i), s)
               = Push("SCL", 0, Push("SCL", 1, Push("sample", 0, Join(ReadOps(i + 1), s))))
  <2>1. i \in 0..W /\ i + 1 \in 0..W /\ i + 1 \in 1..W
    BY <1>1
  <2> DEFINE r == Join(ReadOps(i + 1), s)
  <2>2. ReadOps(i + 1) = FlattenSeq([j \in 1..(W - (i + 1)) |-> clock[(i + 1) + j]])
    BY <1>3, <2>1
  <2>3. Join(ReadOps(i), s) = Join(clock[i + 1], r)
    BY <1>3, <1>5, <2>1, <2>2
  <2>4. r \in Programs /\ clock[i + 1] = ReadClock
    BY <1>4, <1>6, <2>1
  <2> HIDE DEF r
  <2>5. Join(ReadClock, r) = Push("SCL", 0, Push("SCL", 1, Push("sample", 0, r)))
    BY <2>4, ClockIs
  <2> QED
    BY <2>3, <2>4, <2>5 DEF r
<1> QED
  BY <1>6, <1>7, <1>8

\* A byte written and a byte read, and what comes after it.
LEMMA BytesAre ==
  ASSUME NEW s \in Programs
  PROVE  /\ \A b \in Byte : /\ writeByte(b) \in Programs /\ Join(writeByte(b), s) = ByteThen(b, s)
                            /\ ByteThen(b, s) \in Programs
         /\ readByte \in Programs /\ Join(readByte, s) = ReadThen(s) /\ ReadThen(s) \in Programs
<1>1. W \in Nat \ {0} /\ 0 \in 0..W /\ W - 0 = W
  BY SccbAssumption
<1>2. ASSUME NEW b \in Byte
      PROVE  /\ writeByte(b) \in Programs /\ Join(writeByte(b), s) = ByteThen(b, s)
             /\ ByteThen(b, s) \in Programs
  <2>1. WriteOps(b, 0) = FlattenSeq([i \in 1..W |-> << <<"SCL", 0>>, <<"SDA", b[i]>>, <<"SCL", 1>> >>])
    <3>1. \A j \in 1..(W - 0) : 0 + j = j
      OBVIOUS
    <3> QED
      BY <1>1, <3>1 DEF WriteOps
  <2>2. writeByte(b) = Join(WriteOps(b, 0), NinthOps)
    BY <2>1 DEF writeByte, Join, NinthOps
  <2>3. WriteOps(b, 0) \in Programs
    BY <1>1, WriteOpsAre
  <2>4. NinthOps \in Programs /\ Join(NinthOps, s) = NinthThen(s) /\ NinthThen(s) \in Programs
    BY EndsAre
  <2>5. Join(Join(WriteOps(b, 0), NinthOps), s) = Join(WriteOps(b, 0), NinthThen(s))
    BY <2>3, <2>4, Joined
  <2> QED
    BY <2>2, <2>3, <2>4, <2>5, Joined DEF ByteThen
<1>3. readByte \in Programs /\ Join(readByte, s) = ReadThen(s) /\ ReadThen(s) \in Programs
  <2> DEFINE x == << <<"input", 0>> >>
  <2>1. ReadOps(0) = FlattenSeq([i \in 1..W |-> << <<"SCL", 0>>, <<"SCL", 1>>, <<"sample", 0>> >>])
    BY <1>1 DEF ReadOps
  <2>2. readByte = Join(Join(x, ReadOps(0)), EndOps)
    BY <2>1 DEF readByte, Join, EndOps
  <2>3. <<"input", 0>> \in Ops
    BY DEF Ops
  <2>4. x \in Programs /\ \A t \in Programs : Join(x, t) = Push("input", 0, t) /\ Push("input", 0, t) \in Programs
    <3>1. x \in Programs
      BY <2>3 DEF Programs
    <3>2. \A t : Join(x, t) = Push("input", 0, t)
      BY DEF Join, Push, Cons
    <3>3. \A t \in Programs : Push("input", 0, t) \in Programs
      BY <2>3, PushIs
    <3> QED
      BY <3>1, <3>2, <3>3
  <2> HIDE DEF x
  <2>5. ReadOps(0) \in Programs
    BY <1>1, ReadOpsAre
  <2>6. EndOps \in Programs /\ Join(EndOps, s) = EndThen(s) /\ EndThen(s) \in Programs
    BY EndsAre
  <2> DEFINE y == Join(ReadOps(0), EndThen(s))
  <2>7. y \in Programs /\ Join(x, ReadOps(0)) \in Programs
    BY <2>4, <2>5, <2>6, Joined
  <2>8. Join(Join(x, ReadOps(0)), EndThen(s)) = Join(x, y)
    BY <2>4, <2>5, <2>6, Joined
  <2>9. Join(Join(Join(x, ReadOps(0)), EndOps), s) = Join(Join(x, ReadOps(0)), EndThen(s))
    BY <2>6, <2>7, Joined
  <2>10. ReadThen(s) = Push("input", 0, y)
    BY DEF ReadThen
  <2>11. readByte \in Programs
    BY <2>2, <2>6, <2>7, Joined
  <2> HIDE DEF y
  <2> QED
    BY <2>2, <2>4, <2>7, <2>8, <2>9, <2>10, <2>11
<1> QED
  BY <1>2, <1>3

ProgramOf(c) ==
  StartThen(ByteThen(AddrW, ByteThen(c.reg,
    IF c.op = "write" THEN ByteThen(c.value, Final) ELSE StopThen(IdleThen(Reread)))))

LEMMA BytesKnown ==
  /\ AddrW \in Byte /\ AddrR \in Byte /\ AddrW[W] = 0 /\ AddrR[W] = 1 /\ W \in Nat \ {0}
  /\ \A c \in Calls : /\ c.op \in {"read", "write"} /\ c.reg \in Byte /\ c.value \in Byte
                      /\ c.reg \in DOMAIN Reset
  /\ Ones \in Byte
<1>1. W \in 1..W
  BY SccbAssumption
<1>2. AddrW \in [1..W -> {0, 1}] /\ AddrR = [AddrW EXCEPT ![W] = 1]
  BY SccbAssumption DEF Byte
<1>3. AddrR \in Byte /\ AddrR[W] = 1
  BY <1>1, <1>2 DEF Byte
<1> QED
  BY <1>3, SccbAssumption DEF Byte, Ones

LEMMA Continuations ==
  /\ Final \in Programs /\ ReadThen(Final) \in Programs /\ Reread \in Programs
  /\ StopThen(IdleThen(Reread)) \in Programs
<1>1. Final \in Programs
  BY ProgramsAre, Joined DEF Final
<1>2. ReadThen(Final) \in Programs
  BY <1>1, BytesAre
<1>3. ByteThen(AddrR, ReadThen(Final)) \in Programs
  BY <1>2, BytesAre, BytesKnown
<1>4. Reread \in Programs
  BY <1>3, ProgramsAre DEF Reread
<1>5. IdleThen(Reread) \in Programs
  BY <1>4, ProgramsAre
<1> QED
  BY <1>1, <1>2, <1>4, <1>5, ProgramsAre

\* A cycle, operation by operation.
LEMMA CycleIs ==
  ASSUME NEW c \in Calls
  PROVE  /\ (IF c.op = "read" THEN cameraReadCycle(c.reg) ELSE cameraWriteCycle(c.reg, c.value)) = ProgramOf(c)
<1>1. /\ AddrW \in Byte /\ AddrR \in Byte /\ c.reg \in Byte /\ c.value \in Byte
      /\ c.op \in {"read", "write"}
  BY BytesKnown
<1> DEFINE p1 == Join(startCondition, writeByte(AddrW))
           p2 == Join(p1, writeByte(c.reg))
<1>2. /\ startCondition \in Programs /\ stopCondition \in Programs /\ idleState \in Programs
      /\ \A b \in Byte : writeByte(b) \in Programs
      /\ readByte \in Programs
  BY ProgramsAre, BytesAre, Joined
<1>3. \A s \in Programs : /\ Join(startCondition, s) = StartThen(s) /\ StartThen(s) \in Programs
                          /\ Join(stopCondition, s) = StopThen(s) /\ StopThen(s) \in Programs
                          /\ Join(idleState, s) = IdleThen(s) /\ IdleThen(s) \in Programs
  BY ProgramsAre
<1>4. \A s \in Programs : \A b \in Byte : Join(writeByte(b), s) = ByteThen(b, s) /\ ByteThen(b, s) \in Programs
  BY BytesAre
<1>5. p1 \in Programs /\ \A s \in Programs : Join(p1, s) = StartThen(ByteThen(AddrW, s))
  <2>1. p1 \in Programs
    BY <1>1, <1>2, Joined
  <2>2. ASSUME NEW s \in Programs PROVE Join(p1, s) = StartThen(ByteThen(AddrW, s))
    <3> DEFINE t == ByteThen(AddrW, s)  a == writeByte(AddrW)
    <3>1. t \in Programs /\ a \in Programs /\ Join(a, s) = t
      BY <1>1, <1>2, <1>4
    <3> HIDE DEF t, a
    <3>2. Join(Join(startCondition, a), s) = Join(startCondition, Join(a, s))
      BY <1>2, <3>1, Joined
    <3>3. Join(startCondition, t) = StartThen(t)
      BY <1>3, <3>1
    <3> QED
      BY <3>1, <3>2, <3>3 DEF t, a
  <2> QED
    BY <2>1, <2>2
<1> HIDE DEF p1
<1>6. p2 \in Programs /\ \A s \in Programs : Join(p2, s) = StartThen(ByteThen(AddrW, ByteThen(c.reg, s)))
  <2> DEFINE a == writeByte(c.reg)
  <2>1. a \in Programs
    BY <1>1, <1>2
  <2>2. p2 \in Programs
    BY <1>5, <2>1, Joined
  <2>3. ASSUME NEW s \in Programs PROVE Join(p2, s) = StartThen(ByteThen(AddrW, ByteThen(c.reg, s)))
    <3> DEFINE t == ByteThen(c.reg, s)
    <3>1. t \in Programs /\ Join(a, s) = t
      BY <1>1, <1>4
    <3> HIDE DEF t, a
    <3>2. Join(Join(p1, a), s) = Join(p1, Join(a, s))
      BY <1>5, <2>1, <3>1, Joined
    <3>3. Join(p1, t) = StartThen(ByteThen(AddrW, t))
      BY <1>5, <3>1
    <3> QED
      BY <3>1, <3>2, <3>3 DEF t, a
  <2> QED
    BY <2>2, <2>3
<1> HIDE DEF p2
<1>7. stopCondition = Final
  BY <1>2, <1>3, Joined DEF Final
<1>8. CASE c.op = "write"
  <2>1. cameraWriteCycle(c.reg, c.value) = Join(Join(p2, writeByte(c.value)), stopCondition)
    BY DEF cameraWriteCycle, Join, p1, p2
  <2>2. Join(Join(p2, writeByte(c.value)), stopCondition) = Join(p2, Join(writeByte(c.value), stopCondition))
    <3> DEFINE a == writeByte(c.value)
    <3>1. a \in Programs /\ stopCondition \in Programs /\ p2 \in Programs
      BY <1>1, <1>2, <1>6
    <3> HIDE DEF a
    <3>2. Join(Join(p2, a), stopCondition) = Join(p2, Join(a, stopCondition))
      BY <3>1, Joined
    <3> QED
      BY <3>2 DEF a
  <2>3. Join(writeByte(c.value), stopCondition) = ByteThen(c.value, Final)
    BY <1>1, <1>2, <1>4, <1>7
  <2>4. ByteThen(c.value, Final) \in Programs
    BY <1>1, <1>2, <1>4, <1>7
  <2>5. Join(p2, ByteThen(c.value, Final)) = ProgramOf(c)
    BY <1>6, <1>8, <2>4 DEF ProgramOf
  <2> QED
    BY <1>8, <2>1, <2>2, <2>3, <2>5
<1>9. CASE c.op = "read"
  <2> DEFINE p3 == Join(p2, stopCondition)  p4 == Join(p3, idleState)
             p5 == Join(p4, startCondition) p6 == Join(p5, writeByte(AddrR))
             p7 == Join(p6, readByte)
  <2>1. cameraReadCycle(c.reg) = Join(p7, stopCondition)
    BY DEF cameraReadCycle, Join, p1, p2
  <2>2. p3 \in Programs /\ \A s \in Programs : Join(p3, s) = Join(p2, StopThen(s))
    BY <1>2, <1>3, <1>6, Joined
  <2> HIDE DEF p3
  <2>3. p4 \in Programs /\ \A s \in Programs : Join(p4, s) = Join(p3, IdleThen(s))
    BY <1>2, <1>3, <2>2, Joined
  <2> HIDE DEF p4
  <2>4. p5 \in Programs /\ \A s \in Programs : Join(p5, s) = Join(p4, StartThen(s))
    BY <1>2, <1>3, <2>3, Joined
  <2> HIDE DEF p5
  <2>5. p6 \in Programs /\ \A s \in Programs : Join(p6, s) = Join(p5, ByteThen(AddrR, s))
    BY <1>1, <1>2, <1>4, <2>4, Joined
  <2> HIDE DEF p6
  <2>6. \A s \in Programs : Join(p7, s) = Join(p6, ReadThen(s))
    BY <1>2, <2>5, Joined, BytesAre
  <2> HIDE DEF p7
  <2>7. Join(p7, stopCondition) = Join(p6, ReadThen(Final))
    BY <1>2, <1>7, <2>6
  <2>8. Join(p6, ReadThen(Final)) = Join(p5, ByteThen(AddrR, ReadThen(Final)))
    BY <2>5, Continuations
  <2>9. ByteThen(AddrR, ReadThen(Final)) \in Programs
    BY <1>1, <1>4, Continuations
  <2>10. Join(p5, ByteThen(AddrR, ReadThen(Final))) = Join(p4, Reread)
    BY <2>4, <2>9 DEF Reread
  <2>11. Join(p4, Reread) = Join(p3, IdleThen(Reread))
    BY <2>3, Continuations
  <2>12. Join(p3, IdleThen(Reread)) = Join(p2, StopThen(IdleThen(Reread)))
    BY <1>3, <2>2, Continuations
  <2>13. Join(p2, StopThen(IdleThen(Reread))) = ProgramOf(c)
    BY <1>6, <1>9, Continuations DEF ProgramOf
  <2> QED
    BY <1>9, <2>1, <2>7, <2>8, <2>10, <2>11, <2>12, <2>13
<1> QED
  BY <1>1, <1>8, <1>9

-----------------------------------------------------------------------------
(* The bits of a byte *)

LEMMA BoundedIs ==
  \A x : /\ x \in BoundedSeq({0, 1}, W) <=> x \in Seq({0, 1}) /\ Len(x) <= W
         /\ x \in Byte <=> x \in Seq({0, 1}) /\ Len(x) = W
<1>1. W \in Nat
  BY SccbAssumption
<1>2. ASSUME NEW x, x \in BoundedSeq({0, 1}, W) PROVE x \in Seq({0, 1}) /\ Len(x) <= W
  <2>1. PICK m \in 0..W : x \in [1..m -> {0, 1}]
    BY <1>2 DEF BoundedSeq, SeqOf
  <2> QED
    BY <1>1, <2>1
<1>3. ASSUME NEW x, x \in Seq({0, 1}), Len(x) <= W PROVE x \in BoundedSeq({0, 1}, W)
  <2>1. Len(x) \in 0..W /\ x \in [1..Len(x) -> {0, 1}]
    BY <1>1, <1>3, LenProperties
  <2> QED
    BY <2>1 DEF BoundedSeq, SeqOf
<1>4. ASSUME NEW x, x \in Byte PROVE x \in Seq({0, 1}) /\ Len(x) = W
  BY <1>1, <1>4 DEF Byte
<1>5. ASSUME NEW x, x \in Seq({0, 1}), Len(x) = W PROVE x \in Byte
  BY <1>1, <1>5, LenProperties DEF Byte
<1> QED
  BY <1>2, <1>3, <1>4, <1>5

LEMMA PrefixIs ==
  ASSUME NEW b \in Byte
  PROVE  /\ \A i \in 0..W : Prefix(b, i) \in BoundedSeq({0, 1}, W) /\ Len(Prefix(b, i)) = i
         /\ Prefix(b, 0) = << >> /\ Prefix(b, W) = b
         /\ \A i \in 0..W-1 : Append(Prefix(b, i), b[i + 1]) = Prefix(b, i + 1)
<1>1. W \in Nat /\ b \in [1..W -> {0, 1}]
  BY SccbAssumption DEF Byte
<1>2. ASSUME NEW i \in 0..W PROVE Prefix(b, i) \in Seq({0, 1}) /\ Len(Prefix(b, i)) = i
  BY <1>1 DEF Prefix
<1>3. ASSUME NEW i \in 0..W PROVE Prefix(b, i) \in BoundedSeq({0, 1}, W) /\ Len(Prefix(b, i)) = i
  BY <1>1, <1>2, BoundedIs
<1>4. Prefix(b, 0) = << >>
  <2>1. Prefix(b, 0) \in Seq({0, 1}) /\ Len(Prefix(b, 0)) = 0
    BY <1>1, <1>2
  <2> QED
    BY <2>1, EmptySeq
<1>5. Prefix(b, W) = b
  BY <1>1 DEF Prefix
<1>6. ASSUME NEW i \in 0..W-1 PROVE Append(Prefix(b, i), b[i + 1]) = Prefix(b, i + 1)
  <2> DEFINE x == Prefix(b, i)  y == Prefix(b, i + 1)
  <2>1. i \in 0..W /\ i + 1 \in 0..W /\ i + 1 \in 1..W /\ b[i + 1] \in {0, 1}
    BY <1>1
  <2>2. x \in Seq({0, 1}) /\ Len(x) = i /\ y \in Seq({0, 1}) /\ Len(y) = i + 1
    BY <1>2, <2>1
  <2>3. (\A j \in 1..i : x[j] = b[j]) /\ \A j \in 1..i+1 : y[j] = b[j]
    BY DEF Prefix
  <2> HIDE DEF x, y
  <2>4. /\ Append(x, b[i + 1]) \in Seq({0, 1}) /\ Len(Append(x, b[i + 1])) = i + 1
        /\ \A j \in 1..i : Append(x, b[i + 1])[j] = x[j]
        /\ Append(x, b[i + 1])[i + 1] = b[i + 1]
    BY <2>1, <2>2, AppendProperties
  <2> DEFINE z == Append(x, b[i + 1])
  <2> HIDE DEF z
  <2>5. z \in Seq({0, 1}) /\ Len(z) = i + 1 /\ \A j \in 1..i+1 : z[j] = y[j]
    BY <2>1, <2>3, <2>4 DEF z
  <2>6. z = y
    BY <2>2, <2>5, SeqEqual
  <2> QED
    BY <2>6 DEF x, y, z
<1> QED
  BY <1>3, <1>4, <1>5, <1>6

-----------------------------------------------------------------------------
(* What an operation on a pad does *)

Going == BusTypeOK /\ call \in Calls /\ BusNext
Kept == UNCHANGED <<call, byte, result>>
Quiet ==
  /\ UNCHANGED <<regs, call, stored, result>> /\ disputed' \in {disputed, "yes"}
  /\ byte' = byte \/ Len(byte) < W

LEMMA StepOf ==
  ASSUME Going, NEW op, NEW v, <<op, v>> \in Ops, NEW s \in Programs, todo = Push(op, v, s)
  PROVE  /\ call # NoCall /\ todo # << >> /\ Head(todo) = <<op, v>> /\ Tail(todo) = s
         /\ op = "SCL" => palWriteSCL
         /\ op = "SDA" => palWriteSDA
         /\ op \in {"input", "pushpull", "opendrain"} => palSetPadMode
         /\ op = "sample" => palReadPad
<1>1. call # NoCall
  BY SccbAssumption DEF Going
<1>2. todo # << >> /\ Head(todo) = <<op, v>> /\ Tail(todo) = s
  BY PushIs
<1>3. Head(todo)[1] = op
  BY <1>2
<1>4. palWriteSCL \/ palWriteSDA \/ palSetPadMode \/ palReadPad
  BY <1>1, <1>2 DEF Going, BusNext, BeginCycle, Return
<1>5. /\ palWriteSCL => op = "SCL"
      /\ palWriteSDA => op = "SDA"
      /\ palSetPadMode => op \in {"input", "pushpull", "opendrain"}
      /\ palReadPad => op = "sample"
  BY <1>3 DEF palWriteSCL, palWriteSDA, palSetPadMode, palReadPad
<1> QED
  BY <1>1, <1>2, <1>4, <1>5

Held == Kept /\ UNCHANGED <<out, mode, disputed>>

LEMMA Clock ==
  ASSUME Going, NEW v \in {0, 1}, NEW s \in Programs, todo = Push("SCL", v, s)
  PROVE  /\ todo' = s /\ scl' = v /\ Held
         /\ scl = 1 /\ v = 0 => OnFall /\ sda' \in Levels(mode, out, drive')
         /\ scl = 0 /\ v = 1 => OnRise /\ UNCHANGED <<sda, drive, ptr, regs, stored>>
         /\ scl = v => UNCHANGED <<sda, camera, drive, ptr, regs, stored>>
<1>1. <<"SCL", v>> \in Ops
  BY DEF Ops
<1>2. palWriteSCL /\ Head(todo) = <<"SCL", v>> /\ Tail(todo) = s
  BY <1>1, StepOf
<1>3. scl' = v
  BY <1>2 DEF palWriteSCL
<1>4. todo' = s /\ Held
  BY <1>2 DEF palWriteSCL, Step, Held, Kept
<1>5. (CASE scl = 1 /\ scl' = 0 -> OnFall /\ sda' \in Levels(mode, out, drive')
         [] scl = 0 /\ scl' = 1 -> OnRise /\ UNCHANGED <<sda, drive, ptr, regs, stored>>
         [] scl = scl'          -> UNCHANGED <<sda, decoderVars>>)
  BY <1>2 DEF palWriteSCL
<1>6. scl = 1 /\ v = 0 => OnFall /\ sda' \in Levels(mode, out, drive')
  BY <1>3, <1>5
<1>7. scl = 0 /\ v = 1 => OnRise /\ UNCHANGED <<sda, drive, ptr, regs, stored>>
  BY <1>3, <1>5
<1>8. scl = v => UNCHANGED <<sda, camera, drive, ptr, regs, stored>>
  BY <1>3, <1>5 DEF decoderVars
<1> QED
  BY <1>3, <1>4, <1>6, <1>7, <1>8

LEMMA Write ==
  ASSUME Going, NEW v \in {0, 1}, NEW s \in Programs, todo = Push("SDA", v, s)
  PROVE  todo' = s /\ out' = v /\ mode' = mode /\ SdaChanges /\ Kept /\ scl' = scl
<1>1. <<"SDA", v>> \in Ops
  BY DEF Ops
<1>2. palWriteSDA /\ Head(todo) = <<"SDA", v>> /\ Tail(todo) = s
  BY <1>1, StepOf
<1> QED
  BY <1>2 DEF palWriteSDA, Step, Kept

LEMMA Turn ==
  ASSUME Going, NEW m \in {"input", "pushpull", "opendrain"}, NEW s \in Programs,
         todo = Push(m, 0, s)
  PROVE  todo' = s /\ mode' = m /\ out' = out /\ SdaChanges /\ Kept /\ scl' = scl
<1>1. <<m, 0>> \in Ops
  BY DEF Ops
<1>2. palSetPadMode /\ Head(todo) = <<m, 0>> /\ Tail(todo) = s
  BY <1>1, StepOf
<1> QED
  BY <1>2 DEF palSetPadMode, Step, Kept

LEMMA Sample ==
  ASSUME Going, NEW s \in Programs, todo = Push("sample", 0, s)
  PROVE  /\ todo' = s /\ byte' = Append(byte, sda)
         /\ UNCHANGED <<call, result, scl, out, mode, sda, camera, drive, ptr, regs, stored, disputed>>
<1>1. <<"sample", 0>> \in Ops
  BY DEF Ops
<1>2. palReadPad /\ Tail(todo) = s
  BY <1>1, StepOf
<1> QED
  BY <1>2 DEF palReadPad, Step, lineVars, decoderVars

-----------------------------------------------------------------------------
(* What the camera makes of an edge *)

Modes == {"input", "pushpull", "opendrain"}

LEMMA LevelsAre ==
  ASSUME NEW m \in Modes, NEW o \in {0, 1}, NEW d \in {0, 1}, NEW x \in Levels(m, o, d)
  PROVE  /\ x \in {0, 1}
         /\ m # "input" /\ d = 1 => x = o
         /\ m # "input" /\ o = 0 => x = 0
         /\ m = "input" => x = d
BY DEF Levels, Disputed, Modes

LEMMA SdaMoves ==
  ASSUME BusTypeOK, SdaChanges, mode' \in Modes, out' \in {0, 1}
  PROVE  /\ sda' \in {0, 1} /\ UNCHANGED <<ptr, regs, stored>> /\ disputed' \in {disputed, "yes"}
         /\ mode' # "input" /\ drive = 1 => sda' = out'
         /\ mode' # "input" /\ out' = 0 => sda' = 0
         /\ mode' = "input" => sda' = drive
         /\ drive = 1 \/ scl = 0 \/ mode' = "input" => disputed' = disputed
         /\ mode' = "pushpull" /\ out' = 1 /\ drive = 0 /\ scl = 1 /\ sda' = 1 => disputed' = "yes"
         /\ scl = 1 /\ sda = 1 /\ sda' = 0 => OnStart
         /\ scl = 1 /\ sda = 0 /\ sda' = 1 => OnStop
         /\ scl = 0 \/ sda' = sda => UNCHANGED <<camera, drive>>
<1>1. drive \in {0, 1} /\ scl \in {0, 1} /\ sda \in {0, 1}
  BY DEF BusTypeOK
<1>2. sda' \in Levels(mode', out', drive)
  BY DEF SdaChanges
<1>3. /\ sda' \in {0, 1}
      /\ mode' # "input" /\ drive = 1 => sda' = out'
      /\ mode' # "input" /\ out' = 0 => sda' = 0
      /\ mode' = "input" => sda' = drive
  BY <1>1, <1>2, LevelsAre
<1>4. /\ UNCHANGED <<ptr, regs, stored>> /\ disputed' \in {disputed, "yes"}
      /\ drive = 1 \/ scl = 0 \/ mode' = "input" => disputed' = disputed
      /\ mode' = "pushpull" /\ out' = 1 /\ drive = 0 /\ scl = 1 /\ sda' = 1 => disputed' = "yes"
  BY <1>1 DEF SdaChanges, Disputed
<1>5. /\ scl = 1 /\ sda = 1 /\ sda' = 0 => OnStart
      /\ scl = 1 /\ sda = 0 /\ sda' = 1 => OnStop
      /\ scl = 0 \/ sda' = sda => UNCHANGED <<camera, drive>>
  BY <1>1, <1>3 DEF SdaChanges
<1> QED
  BY <1>3, <1>4, <1>5

\* The clock falls when no byte is complete.
LEMMA FallsEarly ==
  ASSUME BusTypeOK, OnFall, camera.st # "send", camera.st \in Receives => Len(camera.bits) < W
  PROVE  /\ camera' = [st |-> camera.st, bits |-> camera.bits, ack |-> "no"] /\ drive' = 1
         /\ UNCHANGED <<ptr, regs, stored>>
<1>1. camera \in [st : Receives \cup {"idle", "send"}, bits : BoundedSeq({0, 1}, W), ack : {"no", "yes"}]
  BY DEF BusTypeOK
<1>2. /\ camera' = [camera EXCEPT !.ack = "no"] /\ drive' = 1
      /\ UNCHANGED <<ptr, regs, stored>>
  <2>1. ~(camera.st \in Receives /\ Len(camera.bits) = W)
    <3>1. camera.bits \in BoundedSeq({0, 1}, W)
      BY <1>1
    <3>2. Len(camera.bits) \in Nat /\ W \in Nat
      BY <3>1, BoundedIs, LenProperties, SccbAssumption
    <3> QED
      BY <3>2
  <2> QED
    BY <2>1 DEF OnFall
<1> QED
  BY <1>1, <1>2

\* The clock rises when the camera takes no bit.
LEMMA RisesIdle ==
  ASSUME OnRise, camera.st \notin Receives \/ camera.ack = "yes"
  PROVE  camera' = camera
BY DEF OnRise

-----------------------------------------------------------------------------
(* What is left of a cycle *)

LEMMA PushIn ==
  \A s \in Programs : \A op \in {"SCL", "SDA", "input", "pushpull", "opendrain", "sample"} :
    \A v \in {0, 1} : Push(op, v, s) \in Programs
<1> TAKE s \in Programs
<1> TAKE op \in {"SCL", "SDA", "input", "pushpull", "opendrain", "sample"}
<1> TAKE v \in {0, 1}
<1>1. <<op, v>> \in Ops
  BY DEF Ops
<1> QED
  BY <1>1, PushIs

LEMMA SentIs ==
  ASSUME call \in Calls, NEW k \in Kinds
  PROVE  /\ k \in {"chip", "register", "value", "again"} /\ Sent(k) \in Byte
         /\ (\A i \in 1..W : Sent(k)[i] \in {0, 1})
         /\ k = "value" => call.op = "write"
         /\ k = "again" => call.op = "read" /\ Sent(k)[W] = 1
         /\ k = "chip" => Sent(k)[W] = 0
<1>1. k \in {"chip", "register", "value", "again"}
  BY DEF Kinds
<1>2. /\ AddrW \in Byte /\ AddrR \in Byte /\ AddrW[W] = 0 /\ AddrR[W] = 1
      /\ call.op \in {"read", "write"} /\ call.reg \in Byte /\ call.value \in Byte
  BY BytesKnown
<1>3. Sent(k) \in Byte
  BY <1>1, <1>2 DEF Sent
<1>4. k = "value" => call.op = "write"
  BY DEF Kinds
<1>5. k = "again" => call.op = "read"
  BY <1>2 DEF Kinds
<1>6. k = "again" => Sent(k)[W] = 1
  BY <1>2 DEF Sent
<1>7. k = "chip" => Sent(k)[W] = 0
  BY <1>2 DEF Sent
<1>8. \A i \in 1..W : Sent(k)[i] \in {0, 1}
  BY <1>3 DEF Byte
<1> QED
  BY <1>1, <1>3, <1>4, <1>5, <1>6, <1>7, <1>8

LEMMA AfterIs ==
  ASSUME call \in Calls
  PROVE  /\ AfterRegister \in Programs
         /\ \A k \in Kinds : After(k) \in Programs
<1>1. AddrW \in Byte /\ AddrR \in Byte /\ call.reg \in Byte /\ call.value \in Byte
  BY BytesKnown
<1>2. ByteThen(call.value, Final) \in Programs
  BY <1>1, BytesAre, Continuations
<1>3. AfterRegister \in Programs
  BY <1>2, Continuations DEF AfterRegister
<1>4. ByteThen(call.reg, AfterRegister) \in Programs
  BY <1>1, <1>3, BytesAre
<1>5. ASSUME NEW k \in Kinds PROVE After(k) \in Programs
  <2>1. k \in {"chip", "register", "value", "again"}
    BY SentIs
  <2> QED
    BY <1>3, <1>4, <2>1, Continuations DEF After
<1> QED
  BY <1>3, <1>5

LEMMA BitsAre ==
  ASSUME call \in Calls, NEW k \in Kinds
  PROVE  /\ After(k) \in Programs
         /\ \A i \in 0..W : Bits(k, i) \in Programs
         /\ Bits(k, 0) = ByteThen(Sent(k), After(k))
         /\ Bits(k, W) = Push("SCL", 0, Push("input", 0, Push("SCL", 1, Push("pushpull", 0, After(k)))))
         /\ \A i \in 0..W-1 :
              Bits(k, i) = Push("SCL", 0, Push("SDA", Sent(k)[i + 1], Push("SCL", 1, Bits(k, i + 1))))
<1>1. Sent(k) \in Byte /\ After(k) \in Programs
  BY SentIs, AfterIs
<1>2. NinthThen(After(k)) \in Programs
  BY <1>1, EndsAre
<1> DEFINE b == Sent(k)  s == NinthThen(After(k))
<1>3. b \in Byte /\ s \in Programs
  BY <1>1, <1>2
<1> HIDE DEF b, s
<1>4. /\ \A i \in 0..W : Join(WriteOps(b, i), s) \in Programs
      /\ Join(WriteOps(b, W), s) = s
      /\ \A i \in 0..W-1 :
           Join(WriteOps(b, i), s)
             = Push("SCL", 0, Push("SDA", b[i + 1], Push("SCL", 1, Join(WriteOps(b, i + 1), s))))
  BY <1>3, WriteOpsAre
<1>5. \A i : Bits(k, i) = Join(WriteOps(b, i), s)
  BY DEF Bits, b, s
<1>6. \A i \in 0..W : Bits(k, i) \in Programs
  BY <1>4, <1>5
<1>7. Bits(k, W) = NinthThen(After(k))
  BY <1>4, <1>5 DEF s
<1>8. ASSUME NEW i \in 0..W-1
      PROVE  Bits(k, i) = Push("SCL", 0, Push("SDA", b[i + 1], Push("SCL", 1, Bits(k, i + 1))))
  BY <1>4, <1>5
<1>9. Bits(k, 0) = ByteThen(Sent(k), After(k))
  BY DEF Bits, ByteThen
<1> QED
  BY <1>1, <1>6, <1>7, <1>8, <1>9 DEF NinthThen, b

LEMMA SamplesAre ==
  /\ \A i \in 0..W : Samples(i) \in Programs
  /\ ReadThen(Final) = Push("input", 0, Samples(0))
  /\ Samples(W) = Push("SCL", 0, Push("pushpull", 0, Push("SDA", 1, Push("SCL", 1, Push("opendrain", 0, Final)))))
  /\ \A i \in 0..W-1 :
       Samples(i) = Push("SCL", 0, Push("SCL", 1, Push("sample", 0, Samples(i + 1))))
<1> DEFINE s == EndThen(Final)
<1>1. s \in Programs
  BY EndsAre, Continuations
<1> HIDE DEF s
<1>2. /\ \A i \in 0..W : Join(ReadOps(i), s) \in Programs
      /\ Join(ReadOps(W), s) = s
      /\ \A i \in 0..W-1 :
           Join(ReadOps(i), s)
             = Push("SCL", 0, Push("SCL", 1, Push("sample", 0, Join(ReadOps(i + 1), s))))
  BY <1>1, ReadOpsAre
<1>3. \A i : Samples(i) = Join(ReadOps(i), s)
  BY DEF Samples, s
<1>4. ReadThen(Final) = Push("input", 0, Samples(0))
  BY DEF Samples, ReadThen
<1>5. Samples(W) = EndThen(Final)
  BY <1>2, <1>3 DEF s
<1>6. Samples(W) = Push("SCL", 0, Push("pushpull", 0, Push("SDA", 1, Push("SCL", 1, Push("opendrain", 0, Final)))))
  BY <1>5 DEF EndThen
<1>7. \A i \in 0..W : Samples(i) \in Programs
  BY <1>2, <1>3
<1>8. ASSUME NEW i \in 0..W-1
      PROVE  Samples(i) = Push("SCL", 0, Push("SCL", 1, Push("sample", 0, Samples(i + 1))))
  BY <1>2, <1>3
<1> QED
  BY <1>4, <1>6, <1>7, <1>8

LEMMA RestIs ==
  ASSUME NEW last \in BOOLEAN
  PROVE  Rest(last) \in Programs
<1>1. IdleThen(Reread) \in Programs
  BY Continuations, ProgramsAre
<1> QED
  BY <1>1, Joined DEF Rest

\* The cycle is the same after a step on the way.
LEMMA Same ==
  ASSUME call' = call
  PROVE  /\ Kinds' = Kinds /\ AfterRegister' = AfterRegister
         /\ \A k : Sent(k)' = Sent(k) /\ After(k)' = After(k)
         /\ \A k : \A i : Bits(k, i)' = Bits(k, i)
<1>1. Kinds' = Kinds
  BY DEF Kinds
<1>2. AfterRegister' = AfterRegister
  BY DEF AfterRegister
<1>3. \A k : Sent(k)' = Sent(k)
  BY DEF Sent
<1>4. \A k : After(k)' = After(k)
  BY <1>2 DEF After
<1>5. \A k : \A i : Bits(k, i)' = Bits(k, i)
  <2> TAKE k
  <2> TAKE i
  <2>1. Sent(k)' = Sent(k) /\ After(k)' = After(k)
    BY <1>3, <1>4
  <2> QED
    BY <2>1 DEF Bits
<1> QED
  BY <1>1, <1>2, <1>3, <1>4, <1>5

-----------------------------------------------------------------------------
(* Step by step: a start condition *)

LEMMA TypesAre ==
  ASSUME Going
  PROVE  /\ call # NoCall /\ call.op \in {"read", "write"} /\ call.reg \in Byte /\ call.value \in Byte
         /\ scl \in {0, 1} /\ out \in {0, 1} /\ sda \in {0, 1} /\ drive \in {0, 1}
         /\ mode \in Modes /\ ptr \in Byte /\ disputed \in {"no", "yes"}
         /\ camera \in [st : Receives \cup {"idle", "send"}, bits : BoundedSeq({0, 1}, W),
                        ack : {"no", "yes"}]
         /\ W \in Nat \ {0} /\ BusTypeOK /\ call \in Calls
<1>1. call # NoCall /\ BusTypeOK /\ call \in Calls /\ W \in Nat \ {0}
  BY SccbAssumption DEF Going
<1>2. call.op \in {"read", "write"} /\ call.reg \in Byte /\ call.value \in Byte
  BY <1>1, BytesKnown
<1> QED
  BY <1>1, <1>2 DEF BusTypeOK, Modes

LEMMA BeforeStays ==
  ASSUME NEW k, Before(k), UNCHANGED <<byte, stored, ptr, call>>
  PROVE  Before(k)'
BY DEF Before

LEMMA FromStart1 ==
  ASSUME Going, NEW k \in Kinds, Start1(k)
  PROVE  Start2(k)' /\ Quiet
<1>1. Bits(k, 0) \in Programs
  BY BitsAre, TypesAre
<1> DEFINE s == Push("SCL", 1, Push("SDA", 0, Push("SCL", 0, Bits(k, 0))))
<1>2. s \in Programs /\ todo = Push("SDA", 1, s)
  BY <1>1, PushIn DEF Start1, StartThen
<1> HIDE DEF s
<1>3. todo' = s /\ out' = 1 /\ mode' = mode /\ SdaChanges /\ Kept /\ scl' = scl
  BY <1>2, Write
<1>4. /\ mode \in Modes /\ mode # "input" /\ drive = 1 /\ scl \in {0, 1} /\ sda \in {0, 1} /\ BusTypeOK
      /\ Away /\ Before(k)
  BY TypesAre DEF Start1, Away
<1>5. /\ sda' = 1 /\ UNCHANGED <<ptr, regs, stored>> /\ disputed' = disputed
      /\ OnStop \/ UNCHANGED <<camera, drive>>
  BY <1>3, <1>4, SdaMoves
<1>6. Away'
  BY <1>4, <1>5 DEF Away, OnStop
<1>7. Before(k)'
  BY <1>3, <1>4, <1>5, BeforeStays DEF Kept
<1>8. Bits(k, 0)' = Bits(k, 0)
  BY <1>3, Same DEF Kept
<1>9. todo' = Push("SCL", 1, Push("SDA", 0, Push("SCL", 0, Bits(k, 0)')))
  BY <1>3, <1>8 DEF s
<1> QED
  BY <1>3, <1>4, <1>5, <1>6, <1>7, <1>9 DEF Start2, Quiet, Kept

LEMMA FromStart2 ==
  ASSUME Going, NEW k \in Kinds, Start2(k)
  PROVE  Start3(k)' /\ Quiet
<1>1. Bits(k, 0) \in Programs
  BY BitsAre, TypesAre
<1> DEFINE s == Push("SDA", 0, Push("SCL", 0, Bits(k, 0)))
<1>2. s \in Programs /\ todo = Push("SCL", 1, s)
  BY <1>1, PushIn DEF Start2
<1> HIDE DEF s
<1>3. scl \in {0, 1} /\ mode # "input" /\ sda = 1 /\ Away /\ Before(k)
  BY TypesAre DEF Start2
<1>4. /\ todo' = s /\ scl' = 1 /\ Held
      /\ scl = 0 => OnRise /\ UNCHANGED <<sda, drive, ptr, regs, stored>>
      /\ scl = 1 => UNCHANGED <<sda, camera, drive, ptr, regs, stored>>
  BY <1>2, Clock
<1>5. UNCHANGED <<sda, drive, ptr, regs, stored, camera>>
  <2>1. camera.st \notin Receives
    BY <1>3 DEF Away, Receives
  <2> QED
    BY <1>3, <1>4, <2>1, RisesIdle
<1>6. Away'
  BY <1>3, <1>5 DEF Away
<1>7. Before(k)'
  BY <1>3, <1>4, <1>5, BeforeStays DEF Held, Kept
<1>8. Bits(k, 0)' = Bits(k, 0)
  BY <1>4, Same DEF Held, Kept
<1>9. todo' = Push("SDA", 0, Push("SCL", 0, Bits(k, 0)'))
  BY <1>4, <1>8 DEF s
<1> QED
  BY <1>3, <1>4, <1>5, <1>6, <1>7, <1>9 DEF Start3, Quiet, Held, Kept

LEMMA FromStart3 ==
  ASSUME Going, NEW k \in Kinds, Start3(k)
  PROVE  Start4(k)' /\ Quiet
<1>1. Bits(k, 0) \in Programs
  BY BitsAre, TypesAre
<1> DEFINE s == Push("SCL", 0, Bits(k, 0))
<1>2. s \in Programs /\ todo = Push("SDA", 0, s)
  BY <1>1, PushIn DEF Start3
<1> HIDE DEF s
<1>3. todo' = s /\ out' = 0 /\ mode' = mode /\ SdaChanges /\ Kept /\ scl' = scl
  BY <1>2, Write
<1>4. /\ mode \in Modes /\ mode # "input" /\ drive = 1 /\ scl = 1 /\ sda = 1 /\ BusTypeOK /\ Before(k)
  BY TypesAre DEF Start3, Away
<1>5. /\ OnStart /\ UNCHANGED <<ptr, regs, stored>> /\ disputed' = disputed
  BY <1>3, <1>4, SdaMoves
<1>7. Before(k)'
  BY <1>3, <1>4, <1>5, BeforeStays DEF Kept
<1>8. Bits(k, 0)' = Bits(k, 0)
  BY <1>3, Same DEF Kept
<1>9. todo' = Push("SCL", 0, Bits(k, 0)')
  BY <1>3, <1>8 DEF s
<1> QED
  BY <1>3, <1>4, <1>5, <1>7, <1>9 DEF Start4, Quiet, Kept, OnStart

LEMMA FromStart4 ==
  ASSUME Going, NEW k \in Kinds \cap {"chip", "again"}, Start4(k)
  PROVE  First(k)' /\ Quiet
<1>0. k \in Kinds
  OBVIOUS
<1>1. Bits(k, 0) \in Programs
  BY <1>0, BitsAre, TypesAre
<1>2. todo = Push("SCL", 0, Bits(k, 0))
  BY DEF Start4
<1>3. /\ camera = [st |-> "address", bits |-> << >>, ack |-> "no"]
      /\ mode # "input" /\ scl = 1 /\ Before(k) /\ BusTypeOK
  BY TypesAre DEF Start4
<1>4. todo' = Bits(k, 0) /\ scl' = 0 /\ Held /\ OnFall
  BY <1>1, <1>2, <1>3, Clock
<1>5. /\ camera' = [st |-> "address", bits |-> << >>, ack |-> "no"] /\ drive' = 1
      /\ UNCHANGED <<ptr, regs, stored>>
  <2>1. camera.st # "send" /\ Len(camera.bits) = 0
    BY <1>3, EmptySeq
  <2>2. Len(camera.bits) < W
    BY <2>1, SccbAssumption
  <2> QED
    BY <1>3, <1>4, <2>1, <2>2, FallsEarly
<1>6. Follows(k, 0)'
  <2>1. Prefix(Sent(k)', 0) = << >>
    <3>1. Sent(k)' \in Byte
      BY <1>0, <1>4, Same, SentIs, TypesAre DEF Held, Kept
    <3> QED
      BY <3>1, PrefixIs
  <2> QED
    BY <1>5, <2>1 DEF Follows, Expected
<1>7. Before(k)'
  BY <1>3, <1>4, <1>5, BeforeStays DEF Held, Kept
<1>8. Bits(k, 0)' = Bits(k, 0)
  BY <1>4, Same DEF Held, Kept
<1> QED
  BY <1>3, <1>4, <1>5, <1>6, <1>7, <1>8 DEF First, Quiet, Held, Kept

-----------------------------------------------------------------------------
(* Step by step: a byte that the board writes *)

LEMMA SentStays ==
  ASSUME Going, NEW k \in Kinds, call' = call
  PROVE  /\ Kinds' = Kinds /\ Sent(k)' = Sent(k) /\ After(k)' = After(k) /\ Sent(k) \in Byte
         /\ \A i : Bits(k, i)' = Bits(k, i)
         /\ \A i : Prefix(Sent(k), i)' = Prefix(Sent(k), i)
<1>1. Sent(k)' = Sent(k) /\ After(k)' = After(k) /\ \A i : Bits(k, i)' = Bits(k, i)
  BY Same
<1>2. \A i : Prefix(Sent(k), i)' = Prefix(Sent(k), i)
  BY <1>1 DEF Prefix
<1>3. Sent(k) \in Byte /\ Kinds' = Kinds
  BY SentIs, TypesAre, Same
<1> QED
  BY <1>1, <1>2, <1>3

LEMMA FromFirst ==
  ASSUME Going, NEW k \in Kinds, First(k)
  PROVE  Bit2(k, 0)' /\ Quiet
<1>1. 0 \in 0..W-1 /\ 1 \in 0..W /\ W \in Nat \ {0} /\ 1 \in 1..W
  BY SccbAssumption
<1>2. Bits(k, 1) \in Programs /\ Sent(k)[1] \in {0, 1}
  BY <1>1, BitsAre, SentIs, TypesAre
<1> DEFINE s == Push("SDA", Sent(k)[1], Push("SCL", 1, Bits(k, 1)))
<1>3. s \in Programs
  BY <1>2, PushIn
<1>4. todo = Push("SCL", 0, s)
  <2>1. \A i \in 0..W-1 :
          Bits(k, i) = Push("SCL", 0, Push("SDA", Sent(k)[i + 1], Push("SCL", 1, Bits(k, i + 1))))
    BY BitsAre, TypesAre
  <2>2. Bits(k, 0) = Push("SCL", 0, Push("SDA", Sent(k)[0 + 1], Push("SCL", 1, Bits(k, 0 + 1))))
    BY <1>1, <2>1
  <2>3. 0 + 1 = 1
    OBVIOUS
  <2> QED
    BY <2>2, <2>3 DEF First
<1> HIDE DEF s
<1>5. /\ mode # "input" /\ Before(k) /\ BusTypeOK /\ scl \in {0, 1}
      /\ \/ scl = 0 /\ Follows(k, 0)
         \/ scl = 1 /\ \/ camera.st = Expected(k) /\ camera.bits = << >>
                       \/ k = "value" /\ Lost
  BY TypesAre DEF First
<1>6. /\ todo' = s /\ scl' = 0 /\ Held
      /\ scl = 1 => OnFall
      /\ scl = 0 => UNCHANGED <<sda, camera, drive, ptr, regs, stored>>
  BY <1>3, <1>4, Clock
<1>7. Prefix(Sent(k), 0)' = << >> /\ Prefix(Sent(k), 0) = << >>
  BY <1>6, SentStays, PrefixIs DEF Held, Kept
<1>8. UNCHANGED <<ptr, regs, stored>> /\ Taken(k, 0)'
  <2>1. CASE scl = 0
    BY <1>5, <1>6, <1>7, <2>1 DEF Follows, Taken
  <2>2. CASE scl = 1 /\ camera.st = Expected(k) /\ camera.bits = << >>
    <3>1. camera.st # "send" /\ Len(camera.bits) = 0
      <4>1. k \in {"chip", "register", "value", "again"}
        BY SentIs, TypesAre
      <4> QED
        BY <2>2, <4>1, EmptySeq DEF Expected
    <3>2. Len(camera.bits) < W
      BY <3>1, SccbAssumption
    <3>3. /\ camera' = [st |-> camera.st, bits |-> camera.bits, ack |-> "no"] /\ drive' = 1
          /\ UNCHANGED <<ptr, regs, stored>>
      BY <1>5, <1>6, <2>2, <3>1, <3>2, FallsEarly
    <3> QED
      BY <1>7, <2>2, <3>3 DEF Taken, Follows
  <2>3. CASE scl = 1 /\ k = "value" /\ Lost
    <3>1. camera.st = "idle" /\ camera.bits = << >>
      BY <2>3 DEF Lost, Away
    <3>2. /\ camera' = [st |-> camera.st, bits |-> camera.bits, ack |-> "no"] /\ drive' = 1
          /\ UNCHANGED <<ptr, regs, stored>>
      BY <1>5, <1>6, <2>3, <3>1, FallsEarly DEF Receives
    <3> QED
      BY <1>6, <2>3, <3>1, <3>2 DEF Taken, Lost, Away, Held
  <2> QED
    BY <1>1, <1>5, <2>1, <2>2, <2>3
<1>9. Before(k)'
  BY <1>5, <1>6, <1>8, BeforeStays DEF Held, Kept
<1>10. todo' = Push("SDA", Sent(k)'[0 + 1], Push("SCL", 1, Bits(k, 0 + 1)'))
  <2>1. Sent(k)' = Sent(k) /\ Bits(k, 1)' = Bits(k, 1)
    BY <1>6, SentStays DEF Held, Kept
  <2>2. 0 + 1 = 1
    OBVIOUS
  <2> QED
    BY <1>6, <2>1, <2>2 DEF s
<1> QED
  BY <1>5, <1>6, <1>8, <1>9, <1>10 DEF Bit2, Quiet, Held, Kept

LEMMA FromBit2 ==
  ASSUME Going, NEW k \in Kinds, NEW i \in 0..W-1, Bit2(k, i)
  PROVE  Bit3(k, i)' /\ Quiet
<1>1. i + 1 \in 0..W /\ i + 1 \in 1..W
  BY SccbAssumption
<1>2. Bits(k, i + 1) \in Programs /\ Sent(k)[i + 1] \in {0, 1}
  BY <1>1, BitsAre, SentIs, TypesAre
<1> DEFINE s == Push("SCL", 1, Bits(k, i + 1))  v == Sent(k)[i + 1]
<1>3. s \in Programs /\ todo = Push("SDA", v, s) /\ v \in {0, 1}
  BY <1>2, PushIn DEF Bit2
<1> HIDE DEF s, v
<1>4. todo' = s /\ out' = v /\ mode' = mode /\ SdaChanges /\ Kept /\ scl' = scl
  BY <1>3, Write
<1>5. /\ mode \in Modes /\ mode # "input" /\ drive = 1 /\ scl = 0 /\ BusTypeOK /\ Before(k) /\ Taken(k, i)
  BY TypesAre DEF Bit2, Taken, Follows, Lost, Away
<1>6. /\ sda' = v /\ UNCHANGED <<ptr, regs, stored, camera, drive, disputed>>
  BY <1>3, <1>4, <1>5, SdaMoves
<1>7. Before(k)'
  BY <1>4, <1>5, <1>6, BeforeStays DEF Kept
<1>8. Sent(k)' = Sent(k) /\ Bits(k, i + 1)' = Bits(k, i + 1) /\ Prefix(Sent(k), i)' = Prefix(Sent(k), i)
  BY <1>4, SentStays DEF Kept
<1>9. Taken(k, i)'
  BY <1>5, <1>6, <1>8 DEF Taken, Follows, Lost, Away
<1>10. todo' = Push("SCL", 1, Bits(k, i + 1)') /\ out' = Sent(k)'[i + 1]
  BY <1>4, <1>8 DEF s, v
<1> QED
  BY <1>4, <1>5, <1>6, <1>7, <1>9, <1>10 DEF Bit3, Quiet, Kept

LEMMA FromBit3 ==
  ASSUME Going, NEW k \in Kinds, NEW i \in 0..W-1, Bit3(k, i)
  PROVE  Bit1(k, i + 1)' /\ Quiet
<1>1. i + 1 \in 0..W /\ i + 1 \in 1..W /\ i \in 0..W /\ i < W
  BY SccbAssumption
<1>2. Bits(k, i + 1) \in Programs
  BY <1>1, BitsAre, TypesAre
<1>3. todo = Push("SCL", 1, Bits(k, i + 1))
  BY DEF Bit3
<1>4. /\ mode # "input" /\ scl = 0 /\ Before(k) /\ Taken(k, i) /\ BusTypeOK
      /\ out = Sent(k)[i + 1] /\ sda = out
  BY TypesAre DEF Bit3
<1>5. /\ todo' = Bits(k, i + 1) /\ scl' = 1 /\ Held /\ OnRise
      /\ UNCHANGED <<sda, drive, ptr, regs, stored>>
  BY <1>2, <1>3, <1>4, Clock
<1>6. Sent(k)' = Sent(k) /\ Bits(k, i + 1)' = Bits(k, i + 1)
      /\ Prefix(Sent(k), i + 1)' = Prefix(Sent(k), i + 1) /\ Sent(k) \in Byte
  BY <1>5, SentStays DEF Held, Kept
<1>7. Taken(k, i + 1)'
  <2>1. CASE Follows(k, i)
    <3>1. Len(Prefix(Sent(k), i)) = i /\ Append(Prefix(Sent(k), i), Sent(k)[i + 1]) = Prefix(Sent(k), i + 1)
      BY <1>1, <1>6, PrefixIs
    <3>2. Expected(k) \in Receives
      <4>1. k \in {"chip", "register", "value", "again"}
        BY SentIs, TypesAre
      <4> QED
        BY <4>1 DEF Expected, Receives
    <3> DEFINE x == Prefix(Sent(k), i)
    <3>3. camera = [st |-> Expected(k), bits |-> x, ack |-> "no"] /\ drive = 1
      BY <2>1 DEF Follows
    <3>4. Len(x) < W /\ Append(x, sda) = Prefix(Sent(k), i + 1)
      BY <1>1, <1>4, <3>1
    <3> HIDE DEF x
    <3>5. camera' = [st |-> Expected(k), bits |-> Append(x, sda), ack |-> "no"]
      BY <1>5, <3>2, <3>3, <3>4 DEF OnRise
    <3> QED
      BY <1>5, <1>6, <3>3, <3>4, <3>5 DEF Taken, Follows
  <2>2. CASE k = "value" /\ Lost
    <3>1. camera' = camera
      <4>1. camera.st \notin Receives
        BY <2>2 DEF Lost, Away, Receives
      <4> QED
        BY <1>5, <4>1, RisesIdle
    <3> QED
      BY <1>5, <2>2, <3>1 DEF Taken, Lost, Away, Held
  <2> QED
    BY <1>4, <2>1, <2>2 DEF Taken
<1>8. Before(k)'
  BY <1>4, <1>5, BeforeStays DEF Held, Kept
<1>9. out' = Sent(k)'[i + 1]
  BY <1>4, <1>5, <1>6 DEF Held
<1> QED
  BY <1>4, <1>5, <1>6, <1>7, <1>8, <1>9 DEF Bit1, Quiet, Held, Kept

LEMMA FromBit1 ==
  ASSUME Going, NEW k \in Kinds, NEW i \in 1..W, i # W, Bit1(k, i)
  PROVE  Bit2(k, i)' /\ Quiet
<1>1. i \in 0..W-1 /\ i + 1 \in 0..W /\ i + 1 \in 1..W /\ i \in 0..W /\ i < W
  BY SccbAssumption
<1>2. Bits(k, i + 1) \in Programs /\ Sent(k)[i + 1] \in {0, 1}
  BY <1>1, BitsAre, SentIs, TypesAre
<1> DEFINE s == Push("SDA", Sent(k)[i + 1], Push("SCL", 1, Bits(k, i + 1)))
<1>3. s \in Programs
  BY <1>2, PushIn
<1>4. todo = Push("SCL", 0, s)
  BY <1>1, BitsAre, TypesAre DEF Bit1
<1> HIDE DEF s
<1>5. mode # "input" /\ scl = 1 /\ Before(k) /\ Taken(k, i) /\ BusTypeOK
  BY TypesAre DEF Bit1
<1>6. todo' = s /\ scl' = 0 /\ Held /\ OnFall
  BY <1>3, <1>4, <1>5, Clock
<1>7. Sent(k)' = Sent(k) /\ Bits(k, i + 1)' = Bits(k, i + 1)
      /\ Prefix(Sent(k), i)' = Prefix(Sent(k), i) /\ Sent(k) \in Byte
  BY <1>6, SentStays DEF Held, Kept
<1>8. UNCHANGED <<ptr, regs, stored>> /\ Taken(k, i)'
  <2>1. CASE Follows(k, i)
    <3>1. Len(Prefix(Sent(k), i)) = i
      BY <1>1, <1>7, PrefixIs
    <3>2. camera.st # "send" /\ Len(camera.bits) < W
      <4>1. k \in {"chip", "register", "value", "again"}
        BY SentIs, TypesAre
      <4> QED
        BY <1>1, <2>1, <3>1, <4>1 DEF Follows, Expected
    <3>3. /\ camera' = [st |-> camera.st, bits |-> camera.bits, ack |-> "no"] /\ drive' = 1
          /\ UNCHANGED <<ptr, regs, stored>>
      BY <1>5, <1>6, <3>2, FallsEarly
    <3> QED
      BY <1>7, <2>1, <3>3 DEF Taken, Follows
  <2>2. CASE k = "value" /\ Lost
    <3>1. camera.st = "idle" /\ camera.bits = << >>
      BY <2>2 DEF Lost, Away
    <3>2. /\ camera' = [st |-> camera.st, bits |-> camera.bits, ack |-> "no"] /\ drive' = 1
          /\ UNCHANGED <<ptr, regs, stored>>
      BY <1>5, <1>6, <3>1, FallsEarly DEF Receives
    <3> QED
      BY <1>6, <2>2, <3>1, <3>2 DEF Taken, Lost, Away, Held
  <2> QED
    BY <1>5, <2>1, <2>2 DEF Taken
<1>9. Before(k)'
  BY <1>5, <1>6, <1>8, BeforeStays DEF Held, Kept
<1>10. todo' = Push("SDA", Sent(k)'[i + 1], Push("SCL", 1, Bits(k, i + 1)'))
  BY <1>6, <1>7 DEF s
<1> QED
  BY <1>5, <1>6, <1>8, <1>9, <1>10 DEF Bit2, Quiet, Held, Kept

-----------------------------------------------------------------------------
(* Step by step: the acknowledgement of a byte *)

Stores ==
  /\ call.op = "write" /\ stored = "no" /\ stored' = "yes"
  /\ regs' = [regs EXCEPT ![call.reg] = call.value]
  /\ UNCHANGED <<call, byte, disputed, result>>

\* The clock falls when the camera has a byte.
LEMMA FallsComplete ==
  ASSUME OnFall, camera.st \in Receives, Len(camera.bits) = W
  PROVE  /\ camera.st = "address" /\ camera.bits = AddrW =>
              Acknowledge("register") /\ UNCHANGED <<ptr, regs, stored>>
         /\ camera.st = "address" /\ camera.bits = AddrR =>
              Acknowledge("send") /\ UNCHANGED <<ptr, regs, stored>>
         /\ camera.st = "register" =>
              Acknowledge("value") /\ ptr' = camera.bits /\ UNCHANGED <<regs, stored>>
         /\ camera.st = "value" =>
              /\ Acknowledge("value") /\ UNCHANGED ptr
              /\ regs' = IF ptr \in DOMAIN regs THEN [regs EXCEPT ![ptr] = camera.bits] ELSE regs
              /\ stored' = "yes"
<1>1. camera.st # "send" /\ ~(camera.st \in Receives => Len(camera.bits) < W)
  BY SccbAssumption DEF Receives
<1>2. (CASE camera.st = "address" /\ camera.bits = AddrW ->
              Acknowledge("register") /\ UNCHANGED <<ptr, regs, stored>>
         [] camera.st = "address" /\ camera.bits = AddrR ->
              Acknowledge("send") /\ UNCHANGED <<ptr, regs, stored>>
         [] camera.st = "address" /\ camera.bits \notin {AddrW, AddrR} ->
              OnStop /\ UNCHANGED <<ptr, regs, stored>>
         [] camera.st = "register" ->
              Acknowledge("value") /\ ptr' = camera.bits /\ UNCHANGED <<regs, stored>>
         [] camera.st = "value" ->
              /\ Acknowledge("value") /\ UNCHANGED ptr
              /\ regs' = IF ptr \in DOMAIN regs THEN [regs EXCEPT ![ptr] = camera.bits] ELSE regs
              /\ stored' = "yes")
  BY <1>1 DEF OnFall
<1>3. AddrW # AddrR
  BY BytesKnown
<1> HIDE DEF Acknowledge
<1>4. CASE camera.st = "address"
  BY <1>2, <1>3, <1>4
<1>5. CASE camera.st = "register"
  BY <1>2, <1>5
<1>6. CASE camera.st = "value"
  BY <1>2, <1>6
<1> QED
  BY <1>4, <1>5, <1>6 DEF Receives

LEMMA FromLastBit ==
  ASSUME Going, NEW k \in Kinds, Bit1(k, W)
  PROVE  Ninth1(k)' /\ (Quiet \/ Stores)
<1>1. /\ After(k) \in Programs
      /\ Bits(k, W) = Push("SCL", 0, Push("input", 0, Push("SCL", 1, Push("pushpull", 0, After(k)))))
  BY BitsAre, TypesAre
<1> DEFINE s == Push("input", 0, Push("SCL", 1, Push("pushpull", 0, After(k))))
<1>2. s \in Programs /\ todo = Push("SCL", 0, s)
  BY <1>1, PushIn DEF Bit1
<1> HIDE DEF s
<1>3. mode # "input" /\ scl = 1 /\ Before(k) /\ Taken(k, W) /\ BusTypeOK /\ out = Sent(k)[W]
  BY TypesAre DEF Bit1
<1>4. todo' = s /\ scl' = 0 /\ Held /\ OnFall
  BY <1>2, <1>3, Clock
<1>5. Sent(k)' = Sent(k) /\ After(k)' = After(k) /\ Sent(k) \in Byte
  BY <1>4, SentStays DEF Held, Kept
<1>6. todo' = Push("input", 0, Push("SCL", 1, Push("pushpull", 0, After(k)')))
  BY <1>4, <1>5 DEF s
<1>7. byte' = << >> /\ out' = Sent(k)'[W] /\ UNCHANGED <<call, byte, disputed, result>> /\ stored = "no"
  BY <1>3, <1>4, <1>5 DEF Held, Kept, Before
<1>8. CASE Follows(k, W)
  <2>1. camera.st = Expected(k) /\ camera.bits = Sent(k) /\ Len(camera.bits) = W
    <3>1. Prefix(Sent(k), W) = Sent(k)
      BY <1>5, PrefixIs
    <3>2. Len(Sent(k)) = W
      BY <1>5, BoundedIs
    <3> QED
      BY <1>8, <3>1, <3>2 DEF Follows
  <2>2. CASE k = "chip"
    <3>1. camera.st = "address" /\ camera.bits = AddrW /\ camera.st \in Receives
      BY <2>1, <2>2 DEF Expected, Sent, Receives
    <3>2. Acknowledge("register") /\ UNCHANGED <<ptr, regs, stored>>
      BY <1>4, <2>1, <3>1, FallsComplete
    <3> QED
      BY <1>4, <1>6, <1>7, <2>2, <3>2 DEF Ninth1, Answered, Acknowledge, Acked, Quiet
  <2>3. CASE k = "again"
    <3>1. camera.st = "address" /\ camera.bits = AddrR /\ camera.st \in Receives
      BY <2>1, <2>3 DEF Expected, Sent, Receives
    <3>2. Acknowledge("send") /\ UNCHANGED <<ptr, regs, stored>>
      BY <1>4, <2>1, <3>1, FallsComplete
    <3>3. ptr = call.reg
      BY <1>3, <2>3 DEF Before
    <3> QED
      BY <1>4, <1>6, <1>7, <2>3, <3>2, <3>3 DEF Ninth1, Answered, Acknowledge, Acked, Quiet
  <2>4. CASE k = "register"
    <3>1. camera.st = "register" /\ camera.bits = call.reg /\ camera.st \in Receives
      BY <2>1, <2>4 DEF Expected, Sent, Receives
    <3>2. Acknowledge("value") /\ ptr' = call.reg /\ UNCHANGED <<regs, stored>>
      BY <1>4, <2>1, <3>1, FallsComplete
    <3> QED
      BY <1>4, <1>6, <1>7, <2>4, <3>2 DEF Ninth1, Answered, Acknowledge, Acked, Quiet
  <2>5. CASE k = "value"
    <3>1. camera.st = "value" /\ camera.bits = call.value /\ camera.st \in Receives
      BY <2>1, <2>5 DEF Expected, Sent, Receives
    <3>2. /\ Acknowledge("value") /\ UNCHANGED ptr /\ stored' = "yes"
          /\ regs' = IF ptr \in DOMAIN regs THEN [regs EXCEPT ![ptr] = camera.bits] ELSE regs
      BY <1>4, <2>1, <3>1, FallsComplete
    <3>3. ptr = call.reg
      BY <1>3, <2>5 DEF Before
    <3>4. call.reg \in DOMAIN regs
      <4>1. call.reg \in DOMAIN Reset
        BY BytesKnown, TypesAre
      <4> QED
        BY <1>3, <4>1 DEF BusTypeOK
    <3>5. regs' = [regs EXCEPT ![call.reg] = call.value]
      BY <3>1, <3>2, <3>3, <3>4
    <3>6. call.op = "write"
      BY <2>5, SentIs, TypesAre
    <3>7. Stores
      BY <1>7, <3>2, <3>5, <3>6 DEF Stores
    <3> QED
      BY <1>4, <1>6, <1>7, <2>5, <3>2, <3>3, <3>7 DEF Ninth1, Answered, Acknowledge, Acked
  <2>6. k \in {"chip", "register", "value", "again"}
    BY SentIs, TypesAre
  <2> QED
    BY <2>2, <2>3, <2>4, <2>5, <2>6
<1>9. CASE k = "value" /\ Lost
  <2>1. camera.st = "idle" /\ camera.bits = << >>
    BY <1>9 DEF Lost, Away
  <2>2. /\ camera' = [st |-> camera.st, bits |-> camera.bits, ack |-> "no"] /\ drive' = 1
        /\ UNCHANGED <<ptr, regs, stored>>
    BY <1>3, <1>4, <2>1, FallsEarly DEF Receives
  <2>3. ptr = call.reg
    BY <1>3, <1>9 DEF Before
  <2>4. Lost' /\ disputed' = "yes"
    BY <1>7, <1>9, <2>1, <2>2 DEF Lost, Away
  <2> QED
    BY <1>4, <1>6, <1>7, <1>9, <2>2, <2>3, <2>4 DEF Ninth1, Answered, Quiet
<1> QED
  BY <1>3, <1>8, <1>9 DEF Taken

LEMMA FromNinth1 ==
  ASSUME Going, NEW k \in Kinds, Ninth1(k)
  PROVE  Ninth2(k)' /\ Quiet
<1>1. After(k) \in Programs
  BY BitsAre, TypesAre
<1> DEFINE s == Push("SCL", 1, Push("pushpull", 0, After(k)))
<1>2. s \in Programs /\ todo = Push("input", 0, s)
  BY <1>1, PushIn DEF Ninth1
<1> HIDE DEF s
<1>3. todo' = s /\ mode' = "input" /\ out' = out /\ SdaChanges /\ Kept /\ scl' = scl
  BY <1>2, Turn
<1>4. scl = 0 /\ BusTypeOK /\ Answered(k) /\ out \in {0, 1}
  BY TypesAre DEF Ninth1
<1>5. sda' = drive /\ UNCHANGED <<ptr, regs, stored, camera, drive, disputed>>
  BY <1>3, <1>4, SdaMoves DEF Modes
<1>6. Sent(k)' = Sent(k) /\ After(k)' = After(k)
  BY <1>3, SentStays DEF Kept
<1>7. Answered(k)'
  BY <1>3, <1>4, <1>5, <1>6 DEF Answered, Kept, Lost, Away
<1>8. todo' = Push("SCL", 1, Push("pushpull", 0, After(k)'))
  BY <1>3, <1>6 DEF s
<1> QED
  BY <1>3, <1>4, <1>5, <1>7, <1>8 DEF Ninth2, Quiet, Kept

LEMMA FromNinth2 ==
  ASSUME Going, NEW k \in Kinds, Ninth2(k)
  PROVE  Ninth3(k)' /\ Quiet
<1>1. After(k) \in Programs
  BY BitsAre, TypesAre
<1> DEFINE s == Push("pushpull", 0, After(k))
<1>2. s \in Programs /\ todo = Push("SCL", 1, s)
  BY <1>1, PushIn DEF Ninth2
<1> HIDE DEF s
<1>3. scl = 0 /\ mode = "input" /\ sda = drive /\ Answered(k)
  BY DEF Ninth2
<1>4. todo' = s /\ scl' = 1 /\ Held /\ OnRise /\ UNCHANGED <<sda, drive, ptr, regs, stored>>
  BY <1>2, <1>3, Clock
<1>5. camera' = camera
  <2>1. camera.st \notin Receives \/ camera.ack = "yes"
    BY <1>3 DEF Answered, Lost, Away, Receives
  <2> QED
    BY <1>4, <2>1, RisesIdle
<1>6. Sent(k)' = Sent(k) /\ After(k)' = After(k)
  BY <1>4, SentStays DEF Held, Kept
<1>7. Answered(k)'
  BY <1>3, <1>4, <1>5, <1>6 DEF Answered, Held, Kept, Lost, Away
<1>8. todo' = Push("pushpull", 0, After(k)')
  BY <1>4, <1>6 DEF s
<1> QED
  BY <1>3, <1>4, <1>5, <1>7, <1>8 DEF Ninth3, Quiet, Held, Kept

\* The pad of SDA is an output again.  The board may win, and the camera then takes
\* the rising level for a stop condition.
LEMMA FromNinth3 ==
  ASSUME Going, NEW k \in Kinds, Ninth3(k)
  PROVE  /\ Quiet
         /\ k = "chip" => First("register")'
         /\ k = "register" /\ call.op = "write" => First("value")'
         /\ k = "register" /\ call.op = "read" => Stop1(FALSE)'
         /\ k = "value" => Stop1(TRUE)'
         /\ k = "again" => Listen'
<1>1. After(k) \in Programs /\ todo = Push("pushpull", 0, After(k))
  BY BitsAre, TypesAre DEF Ninth3
<1>2. /\ todo' = After(k) /\ mode' = "pushpull" /\ out' = out /\ SdaChanges /\ Kept /\ scl' = 1
      /\ scl = 1 /\ mode = "input" /\ sda = drive /\ Answered(k) /\ out \in {0, 1} /\ BusTypeOK
      /\ drive \in {0, 1}
  BY <1>1, Turn, TypesAre DEF Ninth3
<1>3. /\ sda' \in {0, 1} /\ UNCHANGED <<ptr, regs, stored>> /\ disputed' \in {disputed, "yes"}
      /\ drive = 1 => sda' = out /\ disputed' = disputed
      /\ out = 0 => sda' = 0
      /\ out = 1 /\ drive = 0 /\ sda' = 1 => disputed' = "yes"
      /\ sda = 1 /\ sda' = 0 => OnStart
      /\ sda = 0 /\ sda' = 1 => OnStop
      /\ sda' = sda => UNCHANGED <<camera, drive>>
  BY <1>2, SdaMoves DEF Modes
<1>4. /\ byte' = << >> /\ byte' = byte /\ (k # "chip" => ptr' = call'.reg) /\ call' = call /\ result' = result
      /\ k # "value" => stored' = "no"
      /\ k = "value" => stored' = "yes" \/ disputed' = "yes"
  BY <1>2, <1>3 DEF Answered, Kept
<1>5. Quiet
  BY <1>3, <1>4 DEF Quiet
<1>6. CASE camera = [st |-> Acked(k), bits |-> << >>, ack |-> "yes"] /\ drive = 0
  <2>1. \/ camera' = [st |-> Acked(k), bits |-> << >>, ack |-> "yes"] /\ drive' = 0 /\ sda' = 0
        \/ Lost' /\ out = 1 /\ sda' = 1
    BY <1>2, <1>3, <1>6 DEF OnStop, Lost, Away
  <2>2. camera'.bits = << >>
    BY <2>1 DEF Lost, Away
  <2>3. CASE k = "chip"
    <3>1. out = 0
      BY <1>2, <2>3, SentIs, TypesAre DEF Answered
    <3>2. camera'.st = "register" /\ camera'.bits = << >>
      BY <2>1, <2>3, <3>1 DEF Acked
    <3>3. After(k) = Bits("register", 0)
      <4>1. "register" \in Kinds
        BY DEF Kinds
      <4>2. Bits("register", 0) = ByteThen(Sent("register"), After("register"))
        BY <4>1, BitsAre, TypesAre
      <4> QED
        BY <2>3, <4>2 DEF After, Sent
    <3>4. Bits("register", 0)' = Bits("register", 0)
      BY <1>4, Same
    <3>5. Before("register")'
      BY <1>4, <2>3 DEF Before
    <3>6. First("register")'
      BY <1>2, <3>2, <3>3, <3>4, <3>5 DEF First, Expected
    <3> QED
      BY <1>5, <2>3, <3>6
  <2>4. CASE k = "register" /\ call.op = "write"
    <3>1. \/ camera'.st = "value" /\ camera'.bits = << >>
          \/ Lost'
      BY <2>1, <2>4 DEF Acked
    <3>2. After(k) = Bits("value", 0)
      <4>1. "value" \in Kinds
        BY <2>4 DEF Kinds
      <4>2. Bits("value", 0) = ByteThen(Sent("value"), After("value"))
        BY <4>1, BitsAre, TypesAre
      <4> QED
        BY <2>4, <4>2 DEF After, Sent, AfterRegister
    <3>3. Bits("value", 0)' = Bits("value", 0)
      BY <1>4, Same
    <3>4. Before("value")'
      BY <1>4, <2>4 DEF Before
    <3>5. First("value")'
      BY <1>2, <3>1, <3>2, <3>3, <3>4 DEF First, Expected
    <3> QED
      BY <1>5, <2>4, <3>5
  <2>5. CASE k = "register" /\ call.op = "read"
    <3>1. camera'.st \in {"idle", "address", "value"}
      BY <2>1, <2>5 DEF Acked, Lost, Away
    <3>2. After(k) = StopThen(Rest(FALSE))
      BY <2>5 DEF After, AfterRegister, Rest
    <3>3. Before("again")' /\ call'.op = "read"
      BY <1>4, <2>5 DEF Before
    <3>4. Stop1(FALSE)'
      BY <1>2, <2>2, <3>1, <3>2, <3>3 DEF Stop1, So, Between, Rest
    <3> QED
      BY <1>5, <2>5, <3>4
  <2>6. CASE k = "value"
    <3>1. camera'.st \in {"idle", "address", "value"}
      BY <2>1, <2>6 DEF Acked, Lost, Away
    <3>2. After(k) = StopThen(Rest(TRUE))
      BY <2>6 DEF After, Final, Rest
    <3>3. call'.op = "write"
      BY <1>4, <2>6, SentIs, TypesAre
    <3>4. Done'
      BY <1>4, <2>6, <3>3 DEF Done
    <3>5. Stop1(TRUE)'
      BY <1>2, <2>2, <3>1, <3>2, <3>4 DEF Stop1, So, Between, Rest
    <3> QED
      BY <1>5, <2>6, <3>5
  <2>7. CASE k = "again"
    <3>1. \/ camera' = [st |-> "send", bits |-> << >>, ack |-> "yes"] /\ drive' = 0 /\ sda' = 0
          \/ Lost' /\ sda' = 1
      BY <2>1, <2>7 DEF Acked
    <3>2. Reading'
      <4>1. call.op = "read"
        BY <2>7, SentIs, TypesAre
      <4> QED
        BY <1>4, <2>7, <4>1 DEF Reading
    <3>3. After(k) = ReadThen(Final)
      BY <2>7 DEF After
    <3>4. Listen'
      BY <1>2, <1>4, <3>1, <3>2, <3>3 DEF Listen
    <3> QED
      BY <1>5, <2>7, <3>4
  <2>8. k \in {"chip", "register", "value", "again"} /\ call.op \in {"read", "write"}
    BY SentIs, TypesAre
  <2> QED
    BY <2>3, <2>4, <2>5, <2>6, <2>7, <2>8
<1>7. CASE k = "value" /\ Lost
  <2>1. camera'.st \in {"idle", "address", "value"} /\ camera'.bits = << >>
    <3>1. sda = 1 /\ sda' \in {0, 1} /\ camera.st = "idle" /\ camera.bits = << >>
      BY <1>2, <1>3, <1>7 DEF Lost, Away
    <3>2. CASE sda' = 0
      BY <1>3, <3>1, <3>2 DEF OnStart
    <3>3. CASE sda' = 1
      BY <1>3, <3>1, <3>3
    <3> QED
      BY <3>1, <3>2, <3>3
  <2>2. After(k) = StopThen(Rest(TRUE))
    BY <1>7 DEF After, Final, Rest
  <2>3. call'.op = "write"
    BY <1>4, <1>7, SentIs, TypesAre
  <2>4. Done'
    BY <1>4, <1>7, <2>3 DEF Done
  <2>5. Stop1(TRUE)'
    BY <1>2, <2>1, <2>2, <2>4 DEF Stop1, So, Between, Rest
  <2> QED
    BY <1>5, <1>7, <2>5
<1> QED
  BY <1>2, <1>6, <1>7 DEF Answered

-----------------------------------------------------------------------------
(* Step by step: a byte that the board reads *)

LEMMA Held1 ==
  ASSUME Going, ptr = call.reg
  PROVE  /\ ptr \in DOMAIN regs /\ regs[ptr] \in Byte /\ \A i \in 1..W : regs[ptr][i] \in {0, 1}
<1>1. call.reg \in DOMAIN Reset /\ BusTypeOK
  BY BytesKnown, TypesAre
<1>2. ptr \in DOMAIN regs /\ regs[ptr] \in Byte
  BY <1>1 DEF BusTypeOK
<1> QED
  BY <1>2 DEF Byte

LEMMA FromListen ==
  ASSUME Going, Listen
  PROVE  Read1(0)' /\ Quiet
<1>1. Samples(0) \in Programs /\ todo = Push("input", 0, Samples(0))
  BY SamplesAre, SccbAssumption DEF Listen
<1>2. /\ todo' = Samples(0) /\ mode' = "input" /\ out' = out /\ SdaChanges /\ Kept /\ scl' = 1
      /\ scl = 1 /\ Reading /\ byte = << >> /\ BusTypeOK /\ out \in {0, 1}
      /\ \/ camera = [st |-> "send", bits |-> << >>, ack |-> "yes"] /\ drive = 0 /\ sda = 0
         \/ Lost /\ sda = 1
  BY <1>1, Turn, TypesAre DEF Listen
<1>3. sda' = drive /\ UNCHANGED <<ptr, regs, stored, disputed>> /\ (sda' = sda => UNCHANGED <<camera, drive>>)
  BY <1>2, SdaMoves DEF Modes
<1>4. sda' = sda /\ UNCHANGED <<camera, drive>>
  BY <1>2, <1>3 DEF Lost, Away
<1>5. Reading'
  BY <1>2, <1>3 DEF Reading, Kept
<1>6. Prefix(regs[ptr], 0) = << >> /\ Prefix(Ones, 0) = << >> /\ byte' = << >>
  BY <1>2, Held1, PrefixIs, BytesKnown DEF Reading, Kept
<1>7. Prefix(regs[ptr], 0)' = Prefix(regs[ptr], 0)
  BY <1>3 DEF Prefix
<1>8. \/ Sends(0)' /\ byte' = Prefix(regs[ptr], 0)'
      \/ Lost' /\ byte' = Prefix(Ones, 0)
  <2>1. CASE Lost
    BY <1>3, <1>4, <1>6, <2>1 DEF Lost, Away
  <2>2. CASE camera = [st |-> "send", bits |-> << >>, ack |-> "yes"]
    BY <1>4, <1>6, <1>7, <2>2 DEF Sends
  <2> QED
    BY <1>2, <2>1, <2>2
<1> QED
  BY <1>2, <1>3, <1>5, <1>8 DEF Read1, Quiet, Kept

LEMMA PrefixStays ==
  ASSUME UNCHANGED <<regs, ptr>>
  PROVE  (\A i : Prefix(regs[ptr], i)' = Prefix(regs[ptr], i)) /\ regs'[ptr'] = regs[ptr]
BY DEF Prefix

LEMMA FromRead1 ==
  ASSUME Going, NEW i \in 0..W-1, Read1(i)
  PROVE  Read2(i)' /\ Quiet
<1>1. i + 1 \in 0..W /\ i \in 0..W /\ i < W /\ i + 1 \in 1..W
  BY SccbAssumption
<1> DEFINE s == Push("SCL", 1, Push("sample", 0, Samples(i + 1)))
<1>2. s \in Programs /\ todo = Push("SCL", 0, s)
  <2>1. Samples(i + 1) \in Programs /\ Samples(i) = Push("SCL", 0, s)
    BY <1>1, SamplesAre
  <2> QED
    BY <2>1, PushIn DEF Read1
<1> HIDE DEF s
<1>3. mode = "input" /\ scl = 1 /\ Reading /\ BusTypeOK /\ out \in {0, 1}
  BY TypesAre DEF Read1
<1>4. todo' = s /\ scl' = 0 /\ Held /\ OnFall /\ sda' \in Levels(mode, out, drive')
  BY <1>2, <1>3, Clock
<1>5. ptr \in DOMAIN regs /\ regs[ptr] \in Byte /\ regs[ptr][i + 1] \in {0, 1} /\ Ones \in Byte
  BY <1>1, <1>3, Held1, BytesKnown DEF Reading
<1>6. sda' = drive'
  BY <1>3, <1>4 DEF Levels, Disputed
<1>7. UNCHANGED <<ptr, regs, stored>> /\ ReadBit(i)'
  <2>1. CASE Sends(i) /\ byte = Prefix(regs[ptr], i)
    <3> DEFINE x == Prefix(regs[ptr], i)  b == regs[ptr][i + 1]
    <3>1. Len(x) = i /\ Append(x, b) = Prefix(regs[ptr], i + 1)
      BY <1>1, <1>5, PrefixIs
    <3>2. camera.st = "send" /\ camera.bits = x
      BY <2>1 DEF Sends
    <3>3. regs[ptr][Len(camera.bits) + 1] = b /\ Len(camera.bits) < W
      BY <1>1, <3>1, <3>2
    <3> HIDE DEF x, b
    <3>4. /\ camera' = [camera EXCEPT !.ack = "no", !.bits = Append(@, b)] /\ drive' = b
          /\ UNCHANGED <<ptr, regs, stored>>
      <4>1. camera.st \notin Receives
        BY <3>2 DEF Receives
      <4>2. ~(Len(camera.bits) = W \/ ptr \notin DOMAIN regs)
        BY <1>5, <3>3
      <4> QED
        BY <1>4, <3>2, <3>3, <4>1, <4>2 DEF OnFall
    <3>5. camera'.st = "send" /\ camera'.bits = Append(x, b)
      <4>1. camera \in [st : Receives \cup {"idle", "send"}, bits : BoundedSeq({0, 1}, W), ack : {"no", "yes"}]
        BY TypesAre
      <4> QED
        BY <3>2, <3>4, <4>1
    <3>6. /\ Prefix(regs[ptr], i + 1)' = Prefix(regs[ptr], i + 1)
          /\ Prefix(regs[ptr], i)' = Prefix(regs[ptr], i) /\ regs'[ptr'] = regs[ptr]
      BY <3>4, PrefixStays
    <3>7. Sends(i + 1)'
      BY <3>1, <3>5, <3>6 DEF Sends
    <3>8. byte' = Prefix(regs[ptr], i)' /\ drive' = regs'[ptr'][i + 1]
      BY <1>4, <2>1, <3>4, <3>6 DEF Held, Kept, b
    <3> QED
      BY <3>4, <3>7, <3>8 DEF ReadBit
  <2>2. CASE Lost /\ byte = Prefix(Ones, i)
    <3>1. camera.st = "idle" /\ camera.bits = << >>
      BY <2>2 DEF Lost, Away
    <3>2. /\ camera' = [st |-> camera.st, bits |-> camera.bits, ack |-> "no"] /\ drive' = 1
          /\ UNCHANGED <<ptr, regs, stored>>
      BY <1>3, <1>4, <3>1, FallsEarly DEF Receives
    <3>3. Lost' /\ byte' = Prefix(Ones, i)
      BY <1>4, <2>2, <3>1, <3>2 DEF Lost, Away, Held, Kept
    <3> QED
      BY <3>2, <3>3 DEF ReadBit
  <2> QED
    BY <2>1, <2>2 DEF Read1
<1>8. Reading'
  BY <1>3, <1>4, <1>7 DEF Reading, Held, Kept
<1> QED
  BY <1>3, <1>4, <1>6, <1>7, <1>8 DEF Read2, Quiet, Held, Kept, s

LEMMA FromRead2 ==
  ASSUME Going, NEW i \in 0..W-1, Read2(i)
  PROVE  Read3(i)' /\ Quiet
<1>1. i + 1 \in 0..W
  BY SccbAssumption
<1> DEFINE s == Push("sample", 0, Samples(i + 1))
<1>2. s \in Programs /\ todo = Push("SCL", 1, s)
  BY <1>1, SamplesAre, PushIn DEF Read2
<1> HIDE DEF s
<1>3. mode = "input" /\ scl = 0 /\ sda = drive /\ Reading /\ ReadBit(i)
  BY DEF Read2
<1>4. todo' = s /\ scl' = 1 /\ Held /\ OnRise /\ UNCHANGED <<sda, drive, ptr, regs, stored>>
  BY <1>2, <1>3, Clock
<1>5. camera' = camera
  <2>1. camera.st \notin Receives
    BY <1>3 DEF ReadBit, Sends, Lost, Away, Receives
  <2> QED
    BY <1>4, <2>1, RisesIdle
<1>6. Reading'
  BY <1>3, <1>4 DEF Reading, Held, Kept
<1>7. /\ Prefix(regs[ptr], i + 1)' = Prefix(regs[ptr], i + 1)
      /\ Prefix(regs[ptr], i)' = Prefix(regs[ptr], i) /\ regs'[ptr'] = regs[ptr]
  BY <1>4, PrefixStays
<1>8. ReadBit(i)'
  <2>1. CASE Lost /\ byte = Prefix(Ones, i)
    BY <1>4, <1>5, <2>1 DEF ReadBit, Lost, Away, Held, Kept
  <2>2. CASE Sends(i + 1) /\ drive = regs[ptr][i + 1] /\ byte = Prefix(regs[ptr], i)
    BY <1>4, <1>5, <1>7, <2>2 DEF ReadBit, Sends, Held, Kept
  <2> QED
    BY <1>3, <2>1, <2>2 DEF ReadBit
<1> QED
  BY <1>3, <1>4, <1>6, <1>8 DEF Read3, Quiet, Held, Kept, s

LEMMA FromRead3 ==
  ASSUME Going, NEW i \in 0..W-1, Read3(i)
  PROVE  Read1(i + 1)' /\ Quiet /\ Len(byte) < W
<1>1. i + 1 \in 0..W /\ i \in 0..W /\ i < W /\ i + 1 \in 1..W
  BY SccbAssumption
<1>2. Samples(i + 1) \in Programs /\ todo = Push("sample", 0, Samples(i + 1))
  BY <1>1, SamplesAre DEF Read3
<1>3. mode = "input" /\ scl = 1 /\ sda = drive /\ Reading /\ ReadBit(i)
  BY DEF Read3
<1>4. /\ todo' = Samples(i + 1) /\ byte' = Append(byte, sda)
      /\ UNCHANGED <<call, result, scl, out, mode, sda, camera, drive, ptr, regs, stored, disputed>>
  BY <1>2, Sample
<1>5. regs[ptr] \in Byte /\ Ones \in Byte /\ Ones[i + 1] = 1
  BY <1>1, <1>3, Held1, BytesKnown DEF Reading, Ones
<1>6. Prefix(regs[ptr], i + 1)' = Prefix(regs[ptr], i + 1)
  BY <1>4, PrefixStays
<1>7. Reading'
  BY <1>3, <1>4 DEF Reading
<1>8. CASE Lost /\ byte = Prefix(Ones, i)
  <2>1. Append(Prefix(Ones, i), Ones[i + 1]) = Prefix(Ones, i + 1) /\ Len(Prefix(Ones, i)) = i
    BY <1>1, <1>5, PrefixIs
  <2>2. sda = 1
    BY <1>3, <1>8 DEF Lost, Away
  <2>3. byte' = Prefix(Ones, i + 1) /\ Len(byte) < W
    BY <1>1, <1>4, <1>5, <1>8, <2>1, <2>2
  <2>4. Lost'
    BY <1>4, <1>8 DEF Lost, Away
  <2> QED
    BY <1>3, <1>4, <1>7, <2>3, <2>4 DEF Read1, Quiet
<1>9. CASE Sends(i + 1) /\ drive = regs[ptr][i + 1] /\ byte = Prefix(regs[ptr], i)
  <2>1. /\ Append(Prefix(regs[ptr], i), regs[ptr][i + 1]) = Prefix(regs[ptr], i + 1)
        /\ Len(Prefix(regs[ptr], i)) = i
    BY <1>1, <1>5, PrefixIs
  <2>2. byte' = Prefix(regs[ptr], i + 1)' /\ Len(byte) < W
    BY <1>1, <1>3, <1>4, <1>6, <1>9, <2>1
  <2>3. Sends(i + 1)'
    BY <1>4, <1>6, <1>9 DEF Sends
  <2> QED
    BY <1>3, <1>4, <1>7, <2>2, <2>3 DEF Read1, Quiet
<1> QED
  BY <1>3, <1>8, <1>9 DEF ReadBit

LEMMA FromLastRead ==
  ASSUME Going, Read1(W)
  PROVE  End1' /\ Quiet
<1>1. W \in 0..W
  BY SccbAssumption
<1> DEFINE s == Push("pushpull", 0, Push("SDA", 1, Push("SCL", 1, Push("opendrain", 0, Final))))
<1>2. s \in Programs /\ todo = Push("SCL", 0, s)
  BY SamplesAre, Continuations, PushIn DEF Read1
<1> HIDE DEF s
<1>3. mode = "input" /\ scl = 1 /\ Reading /\ BusTypeOK
  BY TypesAre DEF Read1
<1>4. todo' = s /\ scl' = 0 /\ Held /\ OnFall
  BY <1>2, <1>3, Clock
<1>5. ptr = call.reg /\ regs[ptr] \in Byte /\ Ones \in Byte
  BY <1>3, Held1, BytesKnown DEF Reading
<1>6. Away' /\ Done' /\ UNCHANGED <<regs, stored>>
  <2>1. CASE Sends(W) /\ byte = Prefix(regs[ptr], W)
    <3>1. Prefix(regs[ptr], W) = regs[ptr] /\ Len(Prefix(regs[ptr], W)) = W
      BY <1>1, <1>5, PrefixIs
    <3>2. camera.st = "send" /\ camera.st \notin Receives /\ Len(camera.bits) = W
      BY <2>1, <3>1 DEF Sends, Receives
    <3>3. OnStop /\ UNCHANGED <<ptr, regs, stored>>
      <4>1. ~(Len(camera.bits) < W)
        BY <3>2, SccbAssumption
      <4> QED
        BY <1>4, <3>2, <4>1 DEF OnFall
    <3>4. byte' = regs'[call'.reg] /\ call'.op = "read"
      BY <1>3, <1>4, <1>5, <2>1, <3>1, <3>3 DEF Held, Kept, Reading
    <3> QED
      BY <3>3, <3>4 DEF OnStop, Away, Done
  <2>2. CASE Lost /\ byte = Prefix(Ones, W)
    <3>1. camera.st = "idle" /\ camera.bits = << >>
      BY <2>2 DEF Lost, Away
    <3>2. /\ camera' = [st |-> camera.st, bits |-> camera.bits, ack |-> "no"] /\ drive' = 1
          /\ UNCHANGED <<ptr, regs, stored>>
      BY <1>3, <1>4, <3>1, FallsEarly DEF Receives
    <3>3. Prefix(Ones, W) = Ones
      BY <1>5, PrefixIs
    <3>4. byte' = Ones /\ disputed' = "yes" /\ call'.op = "read"
      BY <1>3, <1>4, <2>2, <3>3 DEF Lost, Held, Kept, Reading
    <3> QED
      BY <3>1, <3>2, <3>4 DEF Away, Done
  <2> QED
    BY <2>1, <2>2 DEF Read1
<1>7. Heard'
  BY <1>3, <1>4, <1>6 DEF Heard, Reading, Held, Kept
<1> QED
  BY <1>4, <1>6, <1>7 DEF End1, Quiet, Held, Kept, s

-----------------------------------------------------------------------------
(* Step by step: the end of a byte read *)

LEMMA HeardStays ==
  ASSUME Heard, UNCHANGED <<call, byte, regs, camera, drive, stored, disputed>>
  PROVE  Heard'
BY DEF Heard, Done, Away

LEMMA FromEnd1 ==
  ASSUME Going, End1
  PROVE  End2' /\ Quiet
<1> DEFINE s == Push("SDA", 1, Push("SCL", 1, Push("opendrain", 0, Final)))
<1>1. s \in Programs /\ todo = Push("pushpull", 0, s)
  BY Continuations, PushIn DEF End1
<1> HIDE DEF s
<1>2. todo' = s /\ mode' = "pushpull" /\ out' = out /\ SdaChanges /\ Kept /\ scl' = scl
  BY <1>1, Turn
<1>3. scl = 0 /\ BusTypeOK /\ Heard /\ out \in {0, 1}
  BY TypesAre DEF End1
<1>4. UNCHANGED <<ptr, regs, stored, camera, drive, disputed>>
  BY <1>2, <1>3, SdaMoves DEF Modes
<1>5. Heard'
  BY <1>2, <1>3, <1>4, HeardStays DEF Kept
<1> QED
  BY <1>2, <1>3, <1>4, <1>5 DEF End2, Quiet, Kept, s

LEMMA FromEnd2 ==
  ASSUME Going, End2
  PROVE  End3' /\ Quiet
<1> DEFINE s == Push("SCL", 1, Push("opendrain", 0, Final))
<1>1. s \in Programs /\ todo = Push("SDA", 1, s)
  BY Continuations, PushIn DEF End2
<1> HIDE DEF s
<1>2. todo' = s /\ out' = 1 /\ mode' = mode /\ SdaChanges /\ Kept /\ scl' = scl
  BY <1>1, Write
<1>3. scl = 0 /\ BusTypeOK /\ Heard /\ mode = "pushpull" /\ drive = 1
  BY TypesAre DEF End2, Heard, Away
<1>4. sda' = 1 /\ UNCHANGED <<ptr, regs, stored, camera, drive, disputed>>
  BY <1>2, <1>3, SdaMoves DEF Modes
<1>5. Heard'
  BY <1>2, <1>3, <1>4, HeardStays DEF Kept
<1> QED
  BY <1>2, <1>3, <1>4, <1>5 DEF End3, Quiet, Kept, s

LEMMA FromEnd3 ==
  ASSUME Going, End3
  PROVE  End4' /\ Quiet
<1> DEFINE s == Push("opendrain", 0, Final)
<1>1. s \in Programs /\ todo = Push("SCL", 1, s)
  BY Continuations, PushIn DEF End3
<1> HIDE DEF s
<1>2. scl = 0 /\ Heard /\ mode = "pushpull" /\ out = 1 /\ sda = 1
  BY DEF End3
<1>3. todo' = s /\ scl' = 1 /\ Held /\ OnRise /\ UNCHANGED <<sda, drive, ptr, regs, stored>>
  BY <1>1, <1>2, Clock
<1>4. camera' = camera
  <2>1. camera.st \notin Receives
    BY <1>2 DEF Heard, Away, Receives
  <2> QED
    BY <1>3, <2>1, RisesIdle
<1>5. Heard'
  BY <1>2, <1>3, <1>4, HeardStays DEF Held, Kept
<1> QED
  BY <1>2, <1>3, <1>4, <1>5 DEF End4, Quiet, Held, Kept, s

LEMMA FromEnd4 ==
  ASSUME Going, End4
  PROVE  Stop1(TRUE)' /\ Quiet
<1>1. Final \in Programs /\ todo = Push("opendrain", 0, Final)
  BY Continuations DEF End4
<1>2. todo' = Final /\ mode' = "opendrain" /\ out' = out /\ SdaChanges /\ Kept /\ scl' = scl
  BY <1>1, Turn
<1>3. scl = 1 /\ sda = 1 /\ BusTypeOK /\ Heard /\ out = 1 /\ drive = 1
  BY TypesAre DEF End4, Heard, Away
<1>4. sda' = sda /\ UNCHANGED <<ptr, regs, stored, camera, drive, disputed>>
  BY <1>2, <1>3, SdaMoves DEF Modes
<1>5. Heard'
  BY <1>2, <1>3, <1>4, HeardStays DEF Kept
<1>6. Done' /\ camera'.st = "idle" /\ camera'.bits = << >>
  BY <1>5 DEF Heard, Away
<1> QED
  BY <1>2, <1>3, <1>4, <1>6 DEF Stop1, So, Between, Rest, Final, Quiet, Kept

-----------------------------------------------------------------------------
(* Step by step: a stop condition and the pause after it *)

LEMMA SoStays ==
  ASSUME NEW last \in BOOLEAN, So(last), UNCHANGED <<call, byte, regs, ptr, stored, disputed>>
  PROVE  So(last)'
BY DEF So, Done, Before

LEMMA FromStop1 ==
  ASSUME Going, NEW last \in BOOLEAN, Stop1(last)
  PROVE  Stop2(last)' /\ Quiet
<1> DEFINE s == Push("SCL", 0, Push("SCL", 1, Push("SDA", 1, Rest(last))))
<1>1. s \in Programs /\ todo = Push("SDA", 0, s)
  BY RestIs, PushIn DEF Stop1, StopThen
<1> HIDE DEF s
<1>2. todo' = s /\ out' = 0 /\ mode' = mode /\ SdaChanges /\ Kept /\ scl' = scl
  BY <1>1, Write
<1>3. /\ scl = 1 /\ BusTypeOK /\ mode # "input" /\ mode \in Modes /\ So(last) /\ Between
      /\ camera.bits = << >> /\ sda \in {0, 1}
  BY TypesAre DEF Stop1
<1>4. /\ sda' = 0 /\ UNCHANGED <<ptr, regs, stored>> /\ disputed' \in {disputed, "yes"}
      /\ sda = 1 => OnStart
      /\ sda = 0 => UNCHANGED <<camera, drive>>
  BY <1>2, <1>3, SdaMoves
<1>5. disputed' = disputed
  BY <1>2, <1>4 DEF SdaChanges
<1>6. camera'.st \in {"idle", "address", "value"} /\ camera'.bits = << >>
  BY <1>3, <1>4 DEF OnStart, Between
<1>7. So(last)'
  BY <1>2, <1>3, <1>4, <1>5, SoStays DEF Kept
<1> QED
  BY <1>2, <1>3, <1>4, <1>6, <1>7 DEF Stop2, Between, Quiet, Kept, s, Rest

LEMMA FromStop2 ==
  ASSUME Going, NEW last \in BOOLEAN, Stop2(last)
  PROVE  Stop3(last)' /\ Quiet
<1> DEFINE s == Push("SCL", 1, Push("SDA", 1, Rest(last)))
<1>1. s \in Programs /\ todo = Push("SCL", 0, s)
  BY RestIs, PushIn DEF Stop2
<1> HIDE DEF s
<1>2. /\ scl = 1 /\ BusTypeOK /\ mode # "input" /\ So(last) /\ Between
      /\ camera.bits = << >> /\ out = 0
  BY TypesAre DEF Stop2
<1>3. todo' = s /\ scl' = 0 /\ Held /\ OnFall /\ sda' \in Levels(mode, out, drive')
  BY <1>1, <1>2, Clock
<1>4. /\ camera' = [st |-> camera.st, bits |-> camera.bits, ack |-> "no"] /\ drive' = 1
      /\ UNCHANGED <<ptr, regs, stored>>
  <2>1. camera.st # "send" /\ Len(camera.bits) = 0
    BY <1>2, EmptySeq DEF Between
  <2>2. Len(camera.bits) < W
    BY <2>1, SccbAssumption
  <2> QED
    BY <1>2, <1>3, <2>1, <2>2, FallsEarly
<1>5. sda' = 0
  BY <1>2, <1>3 DEF Levels, Disputed
<1>6. So(last)'
  BY <1>2, <1>3, <1>4, SoStays DEF Held, Kept
<1> QED
  BY <1>2, <1>3, <1>4, <1>5, <1>6 DEF Stop3, Between, Quiet, Held, Kept, s, Rest

LEMMA FromStop3 ==
  ASSUME Going, NEW last \in BOOLEAN, Stop3(last)
  PROVE  Stop4(last)' /\ Quiet
<1> DEFINE s == Push("SDA", 1, Rest(last))
<1>1. s \in Programs /\ todo = Push("SCL", 1, s)
  BY RestIs, PushIn DEF Stop3
<1> HIDE DEF s
<1>2. /\ scl = 0 /\ mode # "input" /\ So(last) /\ Between /\ out = 0 /\ sda = 0 /\ drive = 1
  BY DEF Stop3
<1>3. todo' = s /\ scl' = 1 /\ Held /\ OnRise /\ UNCHANGED <<sda, drive, ptr, regs, stored>>
  BY <1>1, <1>2, Clock
<1>4. camera'.st = camera.st
  <2>1. camera \in [st : Receives \cup {"idle", "send"}, bits : BoundedSeq({0, 1}, W), ack : {"no", "yes"}]
    BY TypesAre
  <2> QED
    BY <1>3, <2>1 DEF OnRise
<1>5. So(last)'
  BY <1>2, <1>3, SoStays DEF Held, Kept
<1> QED
  BY <1>2, <1>3, <1>4, <1>5 DEF Stop4, Between, Quiet, Held, Kept, s, Rest

LEMMA FromStop4 ==
  ASSUME Going, NEW last \in BOOLEAN, Stop4(last)
  PROVE  Stopped(last)' /\ Quiet
<1>1. Rest(last) \in Programs /\ todo = Push("SDA", 1, Rest(last))
  BY RestIs DEF Stop4
<1>2. todo' = Rest(last) /\ out' = 1 /\ mode' = mode /\ SdaChanges /\ Kept /\ scl' = scl
  BY <1>1, Write
<1>3. /\ scl = 1 /\ BusTypeOK /\ mode # "input" /\ mode \in Modes /\ So(last) /\ sda = 0 /\ drive = 1
  BY TypesAre DEF Stop4
<1>4. sda' = 1 /\ OnStop /\ UNCHANGED <<ptr, regs, stored, disputed>>
  BY <1>2, <1>3, SdaMoves
<1>5. So(last)'
  BY <1>2, <1>3, <1>4, SoStays DEF Kept
<1> QED
  BY <1>2, <1>3, <1>4, <1>5 DEF Stopped, OnStop, Away, Quiet, Kept, Rest

LEMMA FromPause ==
  ASSUME Going, Stopped(FALSE)
  PROVE  Idle2' /\ Quiet
<1> DEFINE s == Push("SDA", 1, Reread)
<1>1. s \in Programs /\ todo = Push("SCL", 1, s)
  BY Continuations, PushIn DEF Stopped, Rest, IdleThen
<1> HIDE DEF s
<1>2. mode # "input" /\ Away /\ scl = 1 /\ out = 1 /\ sda = 1 /\ So(FALSE)
  BY DEF Stopped
<1>3. todo' = s /\ scl' = 1 /\ Held /\ UNCHANGED <<sda, camera, drive, ptr, regs, stored>>
  BY <1>1, <1>2, Clock
<1>4. So(FALSE)'
  BY <1>2, <1>3, SoStays DEF Held, Kept
<1> QED
  BY <1>2, <1>3, <1>4 DEF Idle2, Away, Quiet, Held, Kept, s

LEMMA FromIdle2 ==
  ASSUME Going, Idle2
  PROVE  "again" \in Kinds' /\ Start1("again")' /\ Quiet
<1>1. Reread \in Programs /\ todo = Push("SDA", 1, Reread)
  BY Continuations DEF Idle2
<1>2. todo' = Reread /\ out' = 1 /\ mode' = mode /\ SdaChanges /\ Kept /\ scl' = scl
  BY <1>1, Write
<1>3. /\ mode # "input" /\ mode \in Modes /\ Away /\ scl = 1 /\ sda = 1 /\ So(FALSE) /\ BusTypeOK
      /\ drive = 1
  BY TypesAre DEF Idle2, Away
<1>4. sda' = sda /\ UNCHANGED <<ptr, regs, stored, camera, drive, disputed>>
  BY <1>2, <1>3, SdaMoves
<1>5. call.op = "read" /\ Before("again")
  BY <1>3 DEF So
<1>6. Before("again")'
  BY <1>2, <1>4, <1>5, BeforeStays DEF Kept
<1>7. "again" \in Kinds /\ Kinds' = Kinds
  BY <1>2, <1>5, Same DEF Kinds, Kept
<1>8. Reread = StartThen(Bits("again", 0))
  <2>1. Bits("again", 0) = ByteThen(Sent("again"), After("again"))
    BY <1>7, BitsAre, TypesAre
  <2> QED
    BY <2>1 DEF Reread, Sent, After
<1>9. Bits("again", 0)' = Bits("again", 0)
  BY <1>2, Same DEF Kept
<1>10. todo' = StartThen(Bits("again", 0)')
  BY <1>2, <1>8, <1>9
<1>11. Away' /\ mode' # "input"
  BY <1>2, <1>3, <1>4 DEF Away
<1>12. Quiet
  BY <1>2, <1>4 DEF Quiet, Kept
<1> QED
  BY <1>6, <1>7, <1>10, <1>11, <1>12 DEF Start1, StartThen

-----------------------------------------------------------------------------
(* Step by step: a cycle begins and returns *)

LEMMA FromReady ==
  ASSUME BusTypeOK, Ready, BusNext
  PROVE  /\ call' \in Calls /\ "chip" \in Kinds' /\ Start1("chip")'
         /\ BeginCycle
<1>1. BeginCycle
  BY DEF Ready, BusNext, palWriteSCL, palWriteSDA, palSetPadMode, palReadPad, Return, Step
<1>2. call' \in Calls
  BY <1>1 DEF BeginCycle
<1>3. todo' = ProgramOf(call')
  <2> DEFINE c == call'
  <2>1. todo' = IF c.op = "read" THEN cameraReadCycle(c.reg) ELSE cameraWriteCycle(c.reg, c.value)
    BY <1>1 DEF BeginCycle
  <2> HIDE DEF c
  <2>2. c \in Calls
    BY <1>2 DEF c
  <2>3. todo' = ProgramOf(c)
    BY <2>1, <2>2, CycleIs
  <2> QED
    BY <2>3 DEF c
<1>4. ProgramOf(call') = StartThen(Bits("chip", 0)')
  BY DEF ProgramOf, Bits, ByteThen, Sent, After, AfterRegister
<1>5. Before("chip")'
  BY <1>1 DEF BeginCycle, Before
<1>6. Away' /\ mode' # "input"
  BY <1>1 DEF BeginCycle, Ready, Away, lineVars
<1>7. "chip" \in Kinds'
  BY DEF Kinds
<1> QED
  BY <1>1, <1>2, <1>3, <1>4, <1>5, <1>6, <1>7 DEF Start1, StartThen

LEMMA FromDone ==
  ASSUME Going, Stopped(TRUE)
  PROVE  /\ Ready' /\ Return /\ result' \in Byte /\ byte' = byte
         /\ Registers!Finish
<1>1. todo = << >> /\ Done /\ mode # "input" /\ Away
  BY DEF Stopped, Rest, So
<1>2. Return
  BY <1>1, TypesAre DEF Going, BusNext, BeginCycle, palWriteSCL, palWriteSDA, palSetPadMode, palReadPad, Step
<1>3. call.op = "read" => byte \in Byte
  <2> SUFFICES ASSUME call.op = "read" PROVE byte \in Byte
    OBVIOUS
  <2>1. call.reg \in DOMAIN Reset /\ Ones \in Byte
    BY BytesKnown, TypesAre
  <2>2. regs[call.reg] \in Byte
    BY <2>1, TypesAre DEF BusTypeOK
  <2> QED
    BY <1>1, <2>1, <2>2 DEF Done
<1>4. result \in Byte /\ byte \in BoundedSeq({0, 1}, W)
  BY TypesAre DEF BusTypeOK
<1>5. Ready'
  BY <1>1, <1>2, <1>4 DEF Ready, Return, Away, lineVars, decoderVars
<1>6. Registers!Finish
  BY <1>1, <1>2, TypesAre DEF Registers!Finish, Return, Done, decoderVars
<1> QED
  BY <1>2, <1>3, <1>4, <1>5, <1>6 DEF Return

-----------------------------------------------------------------------------
(* Types *)

LEMMA PlacesAre ==
  ASSUME call \in Calls, InCycle
  PROVE  todo \in Programs
<1>1. W \in Nat \ {0} /\ Final \in Programs /\ Reread \in Programs /\ ReadThen(Final) \in Programs
  BY SccbAssumption, Continuations
<1>2. ASSUME NEW k \in Kinds PROVE After(k) \in Programs /\ \A i \in 0..W : Bits(k, i) \in Programs
  BY BitsAre
<1>3. ASSUME NEW k \in Kinds, Start1(k) \/ Start2(k) \/ Start3(k) \/ Start4(k)
      PROVE  todo \in Programs
  <2>1. Bits(k, 0) \in Programs
    BY <1>1, <1>2
  <2> QED
    BY <1>3, <2>1, PushIn DEF Start1, StartThen, Start2, Start3, Start4
<1>4. ASSUME NEW k \in Kinds, First(k) \/ Ninth1(k) \/ Ninth2(k) \/ Ninth3(k)
      PROVE  todo \in Programs
  <2>1. Bits(k, 0) \in Programs /\ After(k) \in Programs
    BY <1>1, <1>2
  <2> QED
    BY <1>4, <2>1, PushIn DEF First, Ninth1, Ninth2, Ninth3
<1>5. ASSUME NEW k \in Kinds, NEW i \in 1..W, Bit1(k, i) PROVE todo \in Programs
  BY <1>1, <1>2, <1>5 DEF Bit1
<1>6. ASSUME NEW k \in Kinds, NEW i \in 0..W-1, Bit2(k, i) \/ Bit3(k, i) PROVE todo \in Programs
  <2>1. i + 1 \in 0..W /\ i + 1 \in 1..W
    BY <1>1
  <2>2. Bits(k, i + 1) \in Programs /\ Sent(k)[i + 1] \in {0, 1}
    BY <1>2, <2>1, SentIs
  <2>3. Push("SCL", 1, Bits(k, i + 1)) \in Programs
    BY <2>2, PushIn
  <2>4. Push("SDA", Sent(k)[i + 1], Push("SCL", 1, Bits(k, i + 1))) \in Programs
    BY <2>2, <2>3, PushIn
  <2> QED
    BY <1>6, <2>3, <2>4 DEF Bit2, Bit3
<1>7. Listen => todo \in Programs
  BY <1>1 DEF Listen
<1>8. ASSUME NEW i \in 0..W, Read1(i) PROVE todo \in Programs
  BY <1>8, SamplesAre DEF Read1
<1>9. ASSUME NEW i \in 0..W-1, Read2(i) \/ Read3(i) PROVE todo \in Programs
  <2>1. i + 1 \in 0..W
    BY <1>1
  <2>2. Samples(i + 1) \in Programs
    BY <2>1, SamplesAre
  <2> QED
    BY <1>9, <2>2, PushIn DEF Read2, Read3
<1>10. End1 \/ End2 \/ End3 \/ End4 => todo \in Programs
  BY <1>1, PushIn DEF End1, End2, End3, End4
<1>11. ASSUME NEW last \in BOOLEAN,
              Stop1(last) \/ Stop2(last) \/ Stop3(last) \/ Stop4(last) \/ Stopped(last)
       PROVE  todo \in Programs
  <2>1. Rest(last) \in Programs
    BY RestIs
  <2>2. StopThen(Rest(last)) \in Programs
    BY <2>1, ProgramsAre
  <2> QED
    BY <1>11, <2>1, <2>2, PushIn DEF Stop1, Stop2, Stop3, Stop4, Stopped
<1>12. Idle2 => todo \in Programs
  BY <1>1, PushIn DEF Idle2
<1> QED
  BY <1>3, <1>4, <1>5, <1>6, <1>7, <1>8, <1>9, <1>10, <1>11, <1>12 DEF InCycle

CameraType ==
  /\ camera \in [st : Receives \cup {"idle", "send"}, bits : BoundedSeq({0, 1}, W),
                 ack : {"no", "yes"}]
  /\ drive \in {0, 1} /\ ptr \in Byte /\ regs \in [DOMAIN Reset -> Byte] /\ stored \in {"no", "yes"}

LEMMA EmptyBits == << >> \in BoundedSeq({0, 1}, W)
<1> DEFINE x == << >>
<1>1. x \in Seq({0, 1}) /\ Len(x) = 0
  BY EmptySeq
<1> HIDE DEF x
<1>2. Len(x) <= W
  BY <1>1, SccbAssumption
<1>3. x \in BoundedSeq({0, 1}, W)
  BY <1>1, <1>2, BoundedIs
<1> QED
  BY <1>3 DEF x

LEMMA LongerBits ==
  ASSUME NEW x \in BoundedSeq({0, 1}, W), Len(x) < W, NEW b \in {0, 1}
  PROVE  Append(x, b) \in BoundedSeq({0, 1}, W)
<1>1. x \in Seq({0, 1}) /\ W \in Nat
  BY BoundedIs, SccbAssumption
<1>2. Append(x, b) \in Seq({0, 1}) /\ Len(Append(x, b)) = Len(x) + 1 /\ Len(x) \in Nat
  BY <1>1, AppendProperties, LenProperties
<1> DEFINE y == Append(x, b)
<1>3. y \in Seq({0, 1})
  BY <1>2
<1>4. Len(y) <= W
  BY <1>1, <1>2
<1> HIDE DEF y
<1>5. y \in BoundedSeq({0, 1}, W)
  BY <1>3, <1>4, BoundedIs
<1> QED
  BY <1>5 DEF y

LEMMA CameraRises ==
  ASSUME BusTypeOK, OnRise
  PROVE  camera' \in [st : Receives \cup {"idle", "send"}, bits : BoundedSeq({0, 1}, W),
                      ack : {"no", "yes"}]
<1>1. /\ camera \in [st : Receives \cup {"idle", "send"}, bits : BoundedSeq({0, 1}, W),
                     ack : {"no", "yes"}]
      /\ sda \in {0, 1}
  BY DEF BusTypeOK
<1>2. CASE camera.st \in Receives /\ camera.ack = "no" /\ Len(camera.bits) < W
  <2> DEFINE x == Append(camera.bits, sda)
  <2>1. x \in BoundedSeq({0, 1}, W)
    BY <1>1, <1>2, LongerBits
  <2>2. camera' = [camera EXCEPT !.bits = x]
    BY <1>2 DEF OnRise
  <2> HIDE DEF x
  <2> QED
    BY <1>1, <2>1, <2>2
<1>3. CASE ~(camera.st \in Receives /\ camera.ack = "no" /\ Len(camera.bits) < W)
  BY <1>1, <1>3 DEF OnRise
<1> QED
  BY <1>2, <1>3

LEMMA CameraFalls ==
  ASSUME BusTypeOK, OnFall
  PROVE  CameraType'
<1>1. /\ camera \in [st : Receives \cup {"idle", "send"}, bits : BoundedSeq({0, 1}, W),
                     ack : {"no", "yes"}]
      /\ ptr \in Byte /\ regs \in [DOMAIN Reset -> Byte] /\ stored \in {"no", "yes"}
      /\ W \in Nat \ {0}
  BY SccbAssumption DEF BusTypeOK
<1>2. camera.bits \in Seq({0, 1}) /\ Len(camera.bits) <= W /\ Len(camera.bits) \in Nat
  <2>1. camera.bits \in BoundedSeq({0, 1}, W)
    BY <1>1
  <2> QED
    BY <2>1, BoundedIs, LenProperties
<1>3. ASSUME OnStop, UNCHANGED <<ptr, regs, stored>> PROVE CameraType'
  BY <1>1, <1>3, EmptyBits DEF OnStop, CameraType
<1>4. CASE camera.st \in Receives /\ Len(camera.bits) = W
  <2>1. camera.bits \in Byte
    BY <1>2, <1>4, BoundedIs
  <2>2. ASSUME NEW next \in {"register", "send", "value"}, Acknowledge(next)
        PROVE  /\ camera' \in [st : Receives \cup {"idle", "send"}, bits : BoundedSeq({0, 1}, W),
                               ack : {"no", "yes"}]
               /\ drive' \in {0, 1}
    BY <2>2, EmptyBits DEF Acknowledge, Receives
  <2>3. CASE camera.st = "address" /\ camera.bits \in {AddrW, AddrR}
    BY <1>1, <1>4, <2>2, <2>3, FallsComplete DEF CameraType
  <2>4. CASE camera.st = "address" /\ camera.bits \notin {AddrW, AddrR}
    <3>1. camera.st # "send" /\ ~(camera.st \in Receives => Len(camera.bits) < W)
      BY <1>1, <1>4, <2>4
    <3>2. OnStop /\ UNCHANGED <<ptr, regs, stored>>
      BY <2>4, <3>1 DEF OnFall
    <3> QED
      BY <1>3, <3>2
  <2>5. CASE camera.st = "register"
    BY <1>1, <1>4, <2>1, <2>2, <2>5, FallsComplete DEF CameraType
  <2>6. CASE camera.st = "value"
    <3>1. /\ Acknowledge("value") /\ UNCHANGED ptr /\ stored' = "yes"
          /\ regs' = IF ptr \in DOMAIN regs THEN [regs EXCEPT ![ptr] = camera.bits] ELSE regs
      BY <1>4, <2>6, FallsComplete
    <3>2. regs' \in [DOMAIN Reset -> Byte]
      BY <1>1, <2>1, <3>1
    <3> QED
      BY <1>1, <2>2, <3>1, <3>2 DEF CameraType
  <2> QED
    BY <1>4, <2>3, <2>4, <2>5, <2>6 DEF Receives
<1>5. CASE camera.st = "send" /\ Len(camera.bits) < W /\ ptr \in DOMAIN regs
  <2> DEFINE b == regs[ptr][Len(camera.bits) + 1]  x == Append(camera.bits, b)
  <2>1. b \in {0, 1}
    <3>1. regs[ptr] \in [1..W -> {0, 1}]
      BY <1>1, <1>5 DEF Byte
    <3>2. Len(camera.bits) + 1 \in 1..W
      BY <1>1, <1>2, <1>5
    <3> QED
      BY <3>1, <3>2
  <2>2. /\ camera' = [camera EXCEPT !.ack = "no", !.bits = x] /\ drive' = b
        /\ UNCHANGED <<ptr, regs, stored>>
    <3>1. camera.st \notin Receives /\ ~(Len(camera.bits) = W \/ ptr \notin DOMAIN regs)
      BY <1>2, <1>5 DEF Receives
    <3> QED
      BY <1>5, <3>1 DEF OnFall
  <2> HIDE DEF b
  <2>3. x \in BoundedSeq({0, 1}, W)
    <3>1. camera.bits \in BoundedSeq({0, 1}, W)
      BY <1>1
    <3> QED
      BY <1>5, <2>1, <3>1, LongerBits
  <2> HIDE DEF x
  <2> QED
    BY <1>1, <2>1, <2>2, <2>3 DEF CameraType
<1>6. CASE camera.st = "send" /\ ~(Len(camera.bits) < W /\ ptr \in DOMAIN regs)
  <2>1. camera.st \notin Receives
    BY <1>6 DEF Receives
  <2>2. OnStop /\ UNCHANGED <<ptr, regs, stored>>
    BY <1>6, <2>1 DEF OnFall
  <2> QED
    BY <1>3, <2>2
<1>7. CASE camera.st # "send" /\ ~(camera.st \in Receives /\ Len(camera.bits) = W)
  <2>1. camera.st \in Receives => Len(camera.bits) < W
    BY <1>1, <1>2, <1>7
  <2>2. /\ camera' = [st |-> camera.st, bits |-> camera.bits, ack |-> "no"] /\ drive' = 1
        /\ UNCHANGED <<ptr, regs, stored>>
    BY <1>7, <2>1, FallsEarly
  <2> QED
    BY <1>1, <2>2 DEF CameraType
<1> QED
  BY <1>4, <1>5, <1>6, <1>7

LEMMA CameraMoves ==
  ASSUME BusTypeOK, SdaChanges, mode' \in Modes, out' \in {0, 1}
  PROVE  CameraType' /\ sda' \in {0, 1} /\ disputed' \in {"no", "yes"}
<1>1. sda' \in {0, 1} /\ UNCHANGED <<ptr, regs, stored>> /\ disputed' \in {disputed, "yes"}
  BY SdaMoves
<1>2. OnStart \/ OnStop \/ UNCHANGED <<camera, drive>>
  BY DEF SdaChanges
<1>3. BusTypeOK
  OBVIOUS
<1> QED
  BY <1>1, <1>2, <1>3, EmptyBits DEF BusTypeOK, CameraType, OnStart, OnStop, Receives

LEMMA TypeStays ==
  ASSUME Going, todo \in Programs, todo # << >>, byte' = byte \/ Len(byte) < W
  PROVE  BusTypeOK'
<1> DEFINE op == Head(todo)[1]  v == Head(todo)[2]
<1>1. op \in {"SCL", "SDA", "input", "pushpull", "opendrain", "sample"} /\ v \in {0, 1}
  <2>1. Head(todo) \in Ops
    BY HeadTailProperties DEF Programs
  <2> QED
    BY <2>1 DEF Ops
<1>2. /\ BusTypeOK /\ call # NoCall /\ call \in Calls
      /\ palWriteSCL \/ palWriteSDA \/ palSetPadMode \/ palReadPad
  BY TypesAre DEF Going, BusNext, BeginCycle, Return
<1>3. CameraType
  BY <1>2 DEF BusTypeOK, CameraType
<1>4. CASE palWriteSCL
  <2>1. scl' = v /\ UNCHANGED <<call, byte, result, out, mode, disputed>>
    BY <1>4 DEF palWriteSCL, Step
  <2>4. (CASE scl = 1 /\ scl' = 0 -> OnFall /\ sda' \in Levels(mode, out, drive')
           [] scl = 0 /\ scl' = 1 -> OnRise /\ UNCHANGED <<sda, drive, ptr, regs, stored>>
           [] scl = scl'          -> UNCHANGED <<sda, decoderVars>>)
    BY <1>4 DEF palWriteSCL
  <2>2. scl \in {0, 1} /\ scl' \in {0, 1} /\ mode \in Modes /\ out \in {0, 1} /\ sda \in {0, 1}
    BY <1>1, <1>2, <2>1 DEF BusTypeOK, Modes
  <2>3. CameraType' /\ sda' \in {0, 1}
    <3>1. CASE scl = 1 /\ scl' = 0
      <4>1. OnFall /\ sda' \in Levels(mode, out, drive')
        BY <2>4, <3>1
      <4>2. CameraType'
        BY <1>2, <4>1, CameraFalls
      <4>3. drive' \in {0, 1}
        BY <4>2 DEF CameraType
      <4> QED
        BY <2>2, <4>1, <4>2, <4>3, LevelsAre
    <3>2. CASE scl = 0 /\ scl' = 1
      <4>1. OnRise /\ UNCHANGED <<sda, drive, ptr, regs, stored>>
        BY <2>4, <3>2
      <4> QED
        BY <1>2, <1>3, <2>2, <4>1, CameraRises DEF CameraType
    <3>3. CASE scl = scl'
      <4>1. UNCHANGED <<sda, decoderVars>>
        BY <2>4, <3>3
      <4> QED
        BY <1>3, <2>2, <4>1 DEF CameraType, decoderVars
    <3> QED
      BY <2>2, <3>1, <3>2, <3>3
  <2> QED
    BY <1>2, <2>1, <2>2, <2>3 DEF BusTypeOK, CameraType, Modes
<1>5. CASE palWriteSDA
  <2>1. out' = v /\ mode' = mode /\ SdaChanges /\ UNCHANGED <<call, byte, result, scl>>
    BY <1>5 DEF palWriteSDA, Step
  <2>2. mode' \in Modes /\ out' \in {0, 1}
    BY <1>1, <1>2, <2>1 DEF BusTypeOK, Modes
  <2>3. CameraType' /\ sda' \in {0, 1} /\ disputed' \in {"no", "yes"}
    BY <1>2, <2>1, <2>2, CameraMoves
  <2> QED
    BY <1>2, <2>1, <2>2, <2>3 DEF BusTypeOK, CameraType, Modes
<1>6. CASE palSetPadMode
  <2>1. mode' = op /\ op \in Modes /\ out' = out /\ SdaChanges /\ UNCHANGED <<call, byte, result, scl>>
    BY <1>6 DEF palSetPadMode, Step, Modes
  <2>2. mode' \in Modes /\ out' \in {0, 1}
    BY <1>2, <2>1 DEF BusTypeOK
  <2>3. CameraType' /\ sda' \in {0, 1} /\ disputed' \in {"no", "yes"}
    BY <1>2, <2>1, <2>2, CameraMoves
  <2> QED
    BY <1>2, <2>1, <2>2, <2>3 DEF BusTypeOK, CameraType, Modes
<1>7. CASE palReadPad
  <2>1. byte' = Append(byte, sda) /\ UNCHANGED <<call, result, lineVars, decoderVars, disputed>>
    BY <1>7 DEF palReadPad, Step
  <2>2. byte' \in BoundedSeq({0, 1}, W)
    <3>1. byte \in BoundedSeq({0, 1}, W) /\ sda \in {0, 1}
      BY <1>2 DEF BusTypeOK
    <3> QED
      BY <2>1, <3>1, LongerBits
  <2> QED
    BY <1>2, <2>1, <2>2 DEF BusTypeOK, lineVars, decoderVars
<1> QED
  BY <1>2, <1>4, <1>5, <1>6, <1>7

-----------------------------------------------------------------------------
(* The invariant is inductive *)

\* Every step of a cycle goes to the next place.
LEMMA Moves ==
  ASSUME Going, InCycle, ~Stopped(TRUE)
  PROVE  InCycle' /\ (Quiet \/ Stores)
<1>1. W \in Nat \ {0}
  BY SccbAssumption
<1>2. Quiet \/ Stores => Kinds' = Kinds
  BY Same DEF Quiet, Stores
<1>3. ASSUME NEW k \in Kinds \cap {"chip", "again"}, Start1(k) \/ Start2(k) \/ Start3(k)
      PROVE  InCycle' /\ Quiet
  <2>1. Quiet /\ (Start2(k) \/ Start3(k) \/ Start4(k))'
    BY <1>3, FromStart1, FromStart2, FromStart3
  <2>2. k \in Kinds' \cap {"chip", "again"}
    BY <1>2, <2>1
  <2> QED
    BY <2>1, <2>2 DEF InCycle
<1>4. ASSUME NEW k \in Kinds \cap {"chip", "again"}, Start4(k)
      PROVE  InCycle' /\ Quiet
  <2>1. Quiet /\ First(k)'
    BY <1>4, FromStart4
  <2>2. k \in Kinds'
    BY <1>2, <2>1
  <2> QED
    BY <2>1, <2>2 DEF InCycle
<1>5. ASSUME NEW k \in Kinds, First(k)
      PROVE  InCycle' /\ Quiet
  <2>1. Quiet /\ Bit2(k, 0)'
    BY <1>5, FromFirst
  <2>2. k \in Kinds' /\ 0 \in 0..W-1
    BY <1>1, <1>2, <2>1
  <2> QED
    BY <2>1, <2>2 DEF InCycle
<1>6. ASSUME NEW k \in Kinds, NEW i \in 0..W-1, Bit2(k, i)
      PROVE  InCycle' /\ Quiet
  <2>1. Quiet /\ Bit3(k, i)'
    BY <1>6, FromBit2
  <2>2. k \in Kinds'
    BY <1>2, <2>1
  <2> QED
    BY <2>1, <2>2 DEF InCycle
<1>7. ASSUME NEW k \in Kinds, NEW i \in 0..W-1, Bit3(k, i)
      PROVE  InCycle' /\ Quiet
  <2>1. Quiet /\ Bit1(k, i + 1)'
    BY <1>7, FromBit3
  <2>2. k \in Kinds' /\ i + 1 \in 1..W
    BY <1>1, <1>2, <2>1
  <2> QED
    BY <2>1, <2>2 DEF InCycle
<1>8. ASSUME NEW k \in Kinds, NEW i \in 1..W, Bit1(k, i)
      PROVE  InCycle' /\ (Quiet \/ Stores)
  <2>1. CASE i # W
    <3>1. Quiet /\ Bit2(k, i)'
      BY <1>8, <2>1, FromBit1
    <3>2. k \in Kinds' /\ i \in 0..W-1
      BY <1>1, <1>2, <2>1, <3>1
    <3> QED
      BY <3>1, <3>2 DEF InCycle
  <2>2. CASE i = W
    <3>1. (Quiet \/ Stores) /\ Ninth1(k)'
      BY <1>8, <2>2, FromLastBit
    <3>2. k \in Kinds'
      BY <1>2, <3>1
    <3> QED
      BY <3>1, <3>2 DEF InCycle
  <2> QED
    BY <2>1, <2>2
<1>9. ASSUME NEW k \in Kinds, Ninth1(k) \/ Ninth2(k)
      PROVE  InCycle' /\ Quiet
  <2>1. Quiet /\ (Ninth2(k) \/ Ninth3(k))'
    BY <1>9, FromNinth1, FromNinth2
  <2>2. k \in Kinds'
    BY <1>2, <2>1
  <2> QED
    BY <2>1, <2>2 DEF InCycle
<1>10. ASSUME NEW k \in Kinds, Ninth3(k)
       PROVE  InCycle' /\ Quiet
  <2>1. /\ Quiet
        /\ k = "chip" => First("register")'
        /\ k = "register" /\ call.op = "write" => First("value")'
        /\ k = "register" /\ call.op = "read" => Stop1(FALSE)'
        /\ k = "value" => Stop1(TRUE)'
        /\ k = "again" => Listen'
    BY <1>10, FromNinth3
  <2>2. Kinds' = Kinds /\ "register" \in Kinds /\ (call.op = "write" => "value" \in Kinds)
    BY <1>2, <2>1 DEF Kinds
  <2>3. First("register")' \/ (First("value")' /\ "value" \in Kinds) \/ Stop1(FALSE)' \/ Stop1(TRUE)' \/ Listen'
    <3>1. k \in {"chip", "register", "value", "again"} /\ call.op \in {"read", "write"}
      BY SentIs, TypesAre
    <3> QED
      BY <2>1, <2>2, <3>1
  <2> QED
    BY <2>1, <2>2, <2>3 DEF InCycle
<1>11. ASSUME Listen PROVE InCycle' /\ Quiet
  <2>1. Quiet /\ Read1(0)' /\ 0 \in 0..W
    BY <1>1, <1>11, FromListen
  <2> QED
    BY <2>1 DEF InCycle
<1>12. ASSUME NEW i \in 0..W, Read1(i) PROVE InCycle' /\ Quiet
  <2>1. CASE i # W
    <3>1. i \in 0..W-1
      BY <1>1, <2>1
    <3>2. Quiet /\ Read2(i)'
      BY <1>12, <3>1, FromRead1
    <3> QED
      BY <3>1, <3>2 DEF InCycle
  <2>2. CASE i = W
    <3>1. Quiet /\ End1'
      BY <1>12, <2>2, FromLastRead
    <3> QED
      BY <3>1 DEF InCycle
  <2> QED
    BY <2>1, <2>2
<1>13. ASSUME NEW i \in 0..W-1, Read2(i) PROVE InCycle' /\ Quiet
  <2>1. Quiet /\ Read3(i)'
    BY <1>13, FromRead2
  <2> QED
    BY <2>1 DEF InCycle
<1>14. ASSUME NEW i \in 0..W-1, Read3(i) PROVE InCycle' /\ Quiet
  <2>1. Quiet /\ Read1(i + 1)' /\ i + 1 \in 0..W
    BY <1>1, <1>14, FromRead3
  <2> QED
    BY <2>1 DEF InCycle
<1>15. ASSUME End1 \/ End2 \/ End3 \/ End4 PROVE InCycle' /\ Quiet
  <2>1. Quiet /\ (End2' \/ End3' \/ End4' \/ Stop1(TRUE)')
    BY <1>15, FromEnd1, FromEnd2, FromEnd3, FromEnd4
  <2> QED
    BY <2>1 DEF InCycle
<1>16. ASSUME NEW last \in BOOLEAN, Stop1(last) \/ Stop2(last) \/ Stop3(last) \/ Stop4(last)
       PROVE  InCycle' /\ Quiet
  <2>1. Quiet /\ (Stop2(last)' \/ Stop3(last)' \/ Stop4(last)' \/ Stopped(last)')
    BY <1>16, FromStop1, FromStop2, FromStop3, FromStop4
  <2> QED
    BY <2>1 DEF InCycle
<1>17. ASSUME Stopped(FALSE) PROVE InCycle' /\ Quiet
  <2>1. Quiet /\ Idle2'
    BY <1>17, FromPause
  <2> QED
    BY <2>1 DEF InCycle
<1>18. ASSUME Idle2 PROVE InCycle' /\ Quiet
  <2>1. Quiet /\ Start1("again")' /\ "again" \in Kinds'
    BY <1>18, FromIdle2
  <2> QED
    BY <2>1 DEF InCycle
<1>19. ASSUME NEW last \in BOOLEAN, Stopped(last) PROVE InCycle' /\ Quiet
  <2>1. last = FALSE
    BY <1>19
  <2> QED
    BY <1>17, <1>19, <2>1
<1> QED
  BY <1>3, <1>4, <1>5, <1>6, <1>7, <1>8, <1>9, <1>10, <1>11, <1>12, <1>13, <1>14, <1>15,
     <1>16, <1>18, <1>19 DEF InCycle

\* A step that changes nothing stays at its place.
LEMMA Stutters ==
  ASSUME UNCHANGED busVars, InCycle
  PROVE  InCycle'
<1>1. UNCHANGED <<call, todo, byte, result, scl, out, mode, sda, camera, drive, ptr, regs, stored, disputed>>
  BY DEF busVars, boardVars, lineVars, decoderVars
<1>2. Kinds' = Kinds /\ \A k : Sent(k)' = Sent(k) /\ After(k)' = After(k)
  BY <1>1, Same
<1>3. \A k : \A i : Bits(k, i)' = Bits(k, i)
  BY <1>1, Same
<1>4. \A k : Before(k)' = Before(k)
  BY <1>1 DEF Before
<1>5. Away' = Away /\ Lost' = Lost /\ Done' = Done /\ Reading' = Reading /\ Between' = Between
  BY <1>1 DEF Away, Lost, Done, Reading, Between
<1>6. \A k : \A i : Follows(k, i)' = Follows(k, i)
  BY <1>1, <1>2 DEF Follows, Prefix
<1>7. \A k : \A i : Taken(k, i)' = Taken(k, i)
  BY <1>5, <1>6 DEF Taken
<1>8. \A k : Answered(k)' = Answered(k)
  BY <1>1, <1>2, <1>5 DEF Answered
<1>9. \A i : Sends(i)' = Sends(i)
  BY <1>1 DEF Sends, Prefix
<1>10. \A i : ReadBit(i)' = ReadBit(i)
  BY <1>1, <1>5, <1>9 DEF ReadBit, Prefix
<1>11. Heard' = Heard
  BY <1>1, <1>5 DEF Heard
<1>12. \A last : So(last)' = So(last)
  BY <1>1, <1>4, <1>5 DEF So
<1>13. ASSUME NEW k, Start1(k) \/ Start2(k) \/ Start3(k) \/ Start4(k)
       PROVE  (Start1(k) \/ Start2(k) \/ Start3(k) \/ Start4(k))'
  BY <1>1, <1>3, <1>4, <1>5, <1>13 DEF Start1, Start2, Start3, Start4, StartThen
<1>14. ASSUME NEW k, First(k) \/ Ninth1(k) \/ Ninth2(k) \/ Ninth3(k)
       PROVE  (First(k) \/ Ninth1(k) \/ Ninth2(k) \/ Ninth3(k))'
  BY <1>1, <1>2, <1>3, <1>4, <1>5, <1>6, <1>8, <1>14 DEF First, Ninth1, Ninth2, Ninth3
<1>15. ASSUME NEW k, NEW i, Bit1(k, i) PROVE Bit1(k, i)'
  BY <1>1, <1>2, <1>3, <1>4, <1>7, <1>15 DEF Bit1
<1>16. ASSUME NEW k, NEW i, Bit2(k, i) \/ Bit3(k, i) PROVE (Bit2(k, i) \/ Bit3(k, i))'
  BY <1>1, <1>2, <1>3, <1>4, <1>7, <1>16 DEF Bit2, Bit3
<1>17. Listen => Listen'
  BY <1>1, <1>5 DEF Listen
<1>18. ASSUME NEW i, Read1(i) PROVE Read1(i)'
  BY <1>1, <1>5, <1>9, <1>18 DEF Read1, Prefix
<1>19. ASSUME NEW i, Read2(i) \/ Read3(i) PROVE (Read2(i) \/ Read3(i))'
  BY <1>1, <1>5, <1>10, <1>19 DEF Read2, Read3
<1>20. End1 \/ End2 \/ End3 \/ End4 => End1' \/ End2' \/ End3' \/ End4'
  BY <1>1, <1>11 DEF End1, End2, End3, End4
<1>21. ASSUME NEW last, Stop1(last) \/ Stop2(last) \/ Stop3(last) \/ Stop4(last) \/ Stopped(last)
       PROVE  (Stop1(last) \/ Stop2(last) \/ Stop3(last) \/ Stop4(last) \/ Stopped(last))'
  BY <1>1, <1>5, <1>12, <1>21 DEF Stop1, Stop2, Stop3, Stop4, Stopped
<1>22. Idle2 => Idle2'
  BY <1>1, <1>5, <1>12 DEF Idle2
<1>23. CASE \E k \in Kinds \cap {"chip", "again"} : Start1(k) \/ Start2(k) \/ Start3(k) \/ Start4(k)
  BY <1>2, <1>13, <1>23 DEF InCycle
<1>24. CASE \E k \in Kinds : First(k) \/ Ninth1(k) \/ Ninth2(k) \/ Ninth3(k)
  BY <1>2, <1>14, <1>24 DEF InCycle
<1>25. CASE \E k \in Kinds : \E i \in 1..W : Bit1(k, i)
  BY <1>2, <1>15, <1>25 DEF InCycle
<1>26. CASE \E k \in Kinds : \E i \in 0..W-1 : Bit2(k, i) \/ Bit3(k, i)
  BY <1>2, <1>16, <1>26 DEF InCycle
<1>27. CASE Listen \/ (\E i \in 0..W : Read1(i)) \/ (\E i \in 0..W-1 : Read2(i) \/ Read3(i))
  BY <1>17, <1>18, <1>19, <1>27 DEF InCycle
<1>28. CASE End1 \/ End2 \/ End3 \/ End4 \/ Idle2
  BY <1>20, <1>22, <1>28 DEF InCycle
<1>29. CASE \E last \in BOOLEAN : Stop1(last) \/ Stop2(last) \/ Stop3(last) \/ Stop4(last) \/ Stopped(last)
  BY <1>21, <1>29 DEF InCycle
<1> QED
  BY <1>23, <1>24, <1>25, <1>26, <1>27, <1>28, <1>29 DEF InCycle

\* The steps of the board and the camera, and those of the register file.
LEMMA Steps ==
  ASSUME IInv, [BusNext]_busVars
  PROVE  IInv' /\ [Registers!RegNext]_(Registers!regVars)
<1>1. BusTypeOK
  BY DEF IInv
<1>2. CASE UNCHANGED busVars
  <2>1. UNCHANGED <<call, todo, byte, result, scl, out, mode, sda, camera, drive, ptr, regs, stored, disputed>>
    BY <1>2 DEF busVars, boardVars, lineVars, decoderVars
  <2>2. BusTypeOK'
    BY <1>1, <2>1 DEF BusTypeOK
  <2>3. Ready => Ready'
    BY <2>1 DEF Ready, Away
  <2>4. call # NoCall /\ InCycle => call' # NoCall /\ InCycle'
    BY <1>2, <2>1, Stutters
  <2> QED
    BY <2>1, <2>2, <2>3, <2>4 DEF IInv, Registers!regVars
<1>3. CASE Ready /\ BusNext
  <2>1. call' \in Calls /\ "chip" \in Kinds' /\ Start1("chip")' /\ BeginCycle
    BY <1>1, <1>3, FromReady
  <2>2. InCycle'
    BY <2>1 DEF InCycle
  <2>3. call' # NoCall
    BY <2>1, SccbAssumption
  <2>4. BusTypeOK'
    BY <1>1, <2>1, EmptyBits DEF BusTypeOK, BeginCycle, lineVars
  <2>5. Registers!Begin
    BY <2>1 DEF Registers!Begin, BeginCycle
  <2> QED
    BY <2>2, <2>3, <2>4, <2>5 DEF IInv, Registers!RegNext
<1>4. CASE call # NoCall /\ InCycle /\ BusNext
  <2>1. call \in Calls /\ Going
    BY <1>1, <1>4 DEF Going, BusTypeOK
  <2>2. todo \in Programs
    BY <1>4, <2>1, PlacesAre
  <2>3. CASE Stopped(TRUE)
    <3>1. /\ Ready' /\ Return /\ result' \in Byte /\ byte' = byte
          /\ Registers!Finish
      BY <2>1, <2>3, FromDone
    <3>2. BusTypeOK'
      BY <1>1, <3>1 DEF BusTypeOK, Return, lineVars, decoderVars
    <3> QED
      BY <3>1, <3>2 DEF IInv, Registers!RegNext
  <2>4. CASE ~Stopped(TRUE)
    <3>1. InCycle' /\ (Quiet \/ Stores)
      BY <1>4, <2>1, <2>4, Moves
    <3>2. call' = call /\ (byte' = byte \/ Len(byte) < W)
      BY <3>1 DEF Quiet, Stores
    <3>3. todo # << >>
      <4>1. ~Return /\ ~BeginCycle
        BY <1>4, <3>2 DEF Return, BeginCycle
      <4> QED
        BY <1>4, <4>1 DEF BusNext, palWriteSCL, palWriteSDA, palSetPadMode, palReadPad, Step
    <3>4. BusTypeOK'
      BY <2>1, <2>2, <3>2, <3>3, TypeStays
    <3>5. CASE Stores
      <4>1. Registers!Store
        BY <1>4, <3>5 DEF Stores, Registers!Store
      <4> QED
        BY <1>4, <3>1, <3>2, <3>4, <4>1 DEF IInv, Registers!RegNext
    <3>6. CASE Quiet /\ disputed' = disputed
      <4>1. UNCHANGED Registers!regVars
        BY <3>6 DEF Quiet, Registers!regVars
      <4> QED
        BY <1>4, <3>1, <3>2, <3>4, <4>1 DEF IInv
    <3>7. CASE Quiet /\ disputed' = "yes"
      <4>1. Registers!Dispute
        BY <1>4, <3>7 DEF Quiet, Registers!Dispute
      <4> QED
        BY <1>4, <3>1, <3>2, <3>4, <4>1 DEF IInv, Registers!RegNext
    <3> QED
      BY <3>1, <3>5, <3>6, <3>7 DEF Quiet
  <2> QED
    BY <2>3, <2>4
<1> QED
  BY <1>2, <1>3, <1>4 DEF IInv

LEMMA Starts == BusInit => IInv /\ Registers!RegInit
<1> SUFFICES ASSUME BusInit PROVE IInv /\ Registers!RegInit
  OBVIOUS
<1>1. Ones \in Byte /\ << >> \in BoundedSeq({0, 1}, W)
  BY BytesKnown, EmptyBits
<1>2. Reset \in [DOMAIN Reset -> Byte]
  BY SccbAssumption
<1>3. BusTypeOK
  BY <1>1, <1>2 DEF BusInit, BusTypeOK, Receives
<1>4. Ready
  BY <1>1 DEF BusInit, Ready, Away
<1>5. Registers!RegInit
  BY DEF BusInit, Registers!RegInit
<1> QED
  BY <1>3, <1>4, <1>5 DEF IInv

LEMMA Invariant == BusSpec => []IInv
<1>1. BusInit => IInv
  BY Starts
<1>2. IInv /\ [BusNext]_busVars => IInv'
  BY Steps
<1> QED
  BY <1>1, <1>2, PTL DEF BusSpec

-----------------------------------------------------------------------------
(* What the cycles promise *)

\* In every reachable state the variables have their types: the camera never takes more
\* than W bits into its register, and the board never samples more (palReadPad is called
\* W times in readByte).
THEOREM TypeCorrect == BusSpec => []BusTypeOK
<1>1. IInv => BusTypeOK
  BY DEF IInv
<1> QED
  BY <1>1, Invariant, PTL

\* When cameraReadCycle or cameraWriteCycle has returned, the camera waits for the start
\* condition of the next cycle, whatever the disputes over SDA made of this one.
THEOREM BusIsFree == BusSpec => []BusFree
<1>1. IInv => BusFree
  BY DEF IInv, Ready, Away, BusFree
<1> QED
  BY <1>1, Invariant, PTL

\* The operations on the pads and the camera's decoder implement a register file: a cycle
\* stores its value in its own register, once, and a read returns what that register
\* holds; a cycle in which the board won a dispute over SDA may be lost, and does nothing
\* else.
THEOREM CyclesAreAccesses == BusSpec => ImplementsRegisters
<1>1. BusInit => Registers!RegInit
  BY Starts
<1>2. IInv /\ [BusNext]_busVars => [Registers!RegNext]_(Registers!regVars)
  BY Steps
<1> QED
  BY <1>1, <1>2, Invariant, PTL DEF BusSpec, ImplementsRegisters, Registers!RegSpec

=============================================================================
