-------------------------- MODULE SpiFlash_proofs ---------------------------
(***************************************************************************)
(* The two parts of spi_flash.c.                                           *)
(*                                                                         *)
(* SpiFlash for every set of threads, memory size and set of requests: its *)
(* type, the state of the MRAM between the calls, and that the calls       *)
(* implement the atomic memory of FlashMemory.                             *)
(*                                                                         *)
(* LineIndex for every image that JpegWriter may leave and every number of *)
(* lines: its type, which entries are written, and what is read by them.   *)
(***************************************************************************)
EXTENDS SpiFlash, LineIndex, SequenceTheorems, TLAPS

-----------------------------------------------------------------------------
(* SpiFlash: the invariant *)

\* The thread inside a call's transaction holds the bus; one that waits is queued;
\* one that holds the bus is inside or has just been handed it.
LockInv ==
  /\ \A t \in Threads : pc[t] \in Inside => holder = t
  /\ \A t \in waiting : pc[t] = "queued" /\ t # holder
  /\ holder # NoThread => pc[holder] \in Inside \cup {"queued"}
  /\ \A t \in Threads : pc[t] \in Inside \cup {"queued"} => ~Refused(req[t])

\* The frame and the latch are what the holder's control point says.
FrameInv ==
  /\ \A t \in Threads : pc[t] = "data" =>
       /\ frame = IF Writes(req[t]) THEN "WRITE" ELSE "READ"
       /\ ptr = Cell(req[t], count[t])
  /\ frame # "none" => holder # NoThread /\ pc[holder] = "data"
  /\ \A t \in Threads : pc[t] \in {"enable", "disable"} => Writes(req[t])
  /\ \A t \in Threads : pc[t] \in {"open", "data", "disable"} /\ Writes(req[t]) => wel = "set"
  /\ wel = "set" => /\ holder # NoThread /\ Writes(req[holder])
                    /\ pc[holder] \in {"open", "data", "disable"}

\* A buffer that is only read keeps its bytes; the bytes before count are transferred.
DataInv ==
  /\ \A t \in Threads : Writes(req[t]) => buf[t] = req[t].data
  /\ \A t \in Threads : pc[t] \in {"called", "queued", "enable", "open"} => count[t] = 0
  /\ \A t \in Threads : pc[t] = "data" =>
       \A i \in 0..count[t]-1 :
         mem[Cell(req[t], i)] = IF Writes(req[t]) THEN req[t].data[i] ELSE buf[t][i]

IInv == TypeOK /\ LockInv /\ FrameInv /\ DataInv

-----------------------------------------------------------------------------
(* Addresses *)

\* Quotient and remainder.
LEMMA DivMod ==
  ASSUME NEW x \in Int, NEW d \in Nat \ {0}
  PROVE  x % d \in 0..d-1 /\ x \div d \in Int /\ x = d * (x \div d) + (x % d)
OBVIOUS

\* Multiples of d, for the prover's arithmetic.
LEMMA Times ==
  ASSUME NEW k \in Int, NEW d \in Nat \ {0}
  PROVE  d * k \in Int /\ (k >= 1 => d * k >= d) /\ (k <= -1 => d * k <= -d)
OBVIOUS

\* Differences of multiples.
LEMMA Dist ==
  ASSUME NEW k \in Int, NEW q \in Int, NEW d \in Nat \ {0}
  PROVE  d * k - d * q = d * (k-q) 
OBVIOUS

\* The remainder is the only number of its range that leaves a multiple.
LEMMA Unique ==
  ASSUME NEW x \in Int, NEW d \in Nat \ {0}, NEW q \in Int, NEW r \in 0..d-1, x = d * q + r
  PROVE  x % d = r
<1> DEFINE p == x \div d
<1>1. p \in Int /\ x % d \in 0..d-1 /\ x = d * p + (x % d)
  BY DivMod
<1>2. d * p - d * q = d * (p - q) /\ p - q \in Int /\ d * p \in Int /\ d * q \in Int
  BY <1>1, Dist, Times
<1>a. d * (p - q) \in Int /\ (p - q >= 1 => d * (p-q) >= d) /\ (p-q <= -1 => d * (p-q) <= -d)
  BY <1>2, Times
<1> HIDE DEF p
<1>b. d * (p-q) = r - (x % d)
  BY <1>1, <1>2
<1>c. d * (p-q) < d /\ d * (p-q) > -d
  BY <1>1, <1>b
<1>3. p - q = 0
  BY <1>a, <1>c, <1>2
<1>4. p = q
  BY <1>3, <1>1
<1> QED
  BY <1>1, <1>4, <1>2

\* Remainders of a number and of its successor.
LEMMA ModStep ==
  ASSUME NEW x \in Int, NEW d \in Nat \ {0}
  PROVE  /\ x % d \in 0..d-1
         /\ ((x % d) + 1) % d = (x + 1) % d
<1> DEFINE q == x \div d
           r == x % d
<1>1. q \in Int /\ r \in 0..d-1 /\ x = d * q + r /\ d * q \in Int
  BY DivMod, Times
<1>2. d * (q + 1) = d * q + d /\ q + 1 \in Int
  BY <1>1
<1> HIDE DEF q, r
<1>3. CASE r < d - 1
  <2>1. x + 1 = d * q + (r + 1) /\ r + 1 \in 0..d-1 /\ r + 1 = d * 0 + (r + 1) /\ x + 1 \in Int
    BY <1>1, <1>3
  <2>2. (x + 1) % d = r + 1
    BY <1>1, <2>1, Unique
  <2>3. (r + 1) % d = r + 1
    BY <1>1, <2>1, Unique
  <2> QED
    BY <1>1, <2>2, <2>3 DEF r
<1>4. CASE r = d - 1
  <2>1. x + 1 = d * (q + 1) + 0 /\ 0 \in 0..d-1 /\ r + 1 = d * 1 + 0 /\ x + 1 \in Int
    BY <1>1, <1>2, <1>4
  <2>2. (x + 1) % d = 0
    BY <1>2, <2>1, Unique
  <2>3. (r + 1) % d = 0
    BY <1>1, <2>1, Unique
  <2> QED
    BY <1>1, <2>2, <2>3 DEF r
<1> QED
  BY <1>1, <1>3, <1>4

\* Numbers less than d apart have different remainders.
LEMMA ModApart ==
  ASSUME NEW x \in Int, NEW y \in Int, NEW d \in Nat \ {0}, x < y, y - x < d
  PROVE  x % d # y % d
<1> DEFINE q == x \div d
           p == y \div d
<1>1. q \in Int /\ p \in Int /\ x = d * q + (x % d) /\ y = d * p + (y % d)
      /\ x % d \in Int /\ y % d \in Int
  BY DivMod
<1>2. d * p - d * q = d * (p - q) /\ p - q \in Int /\ d * p \in Int /\ d * q \in Int
  BY <1>1, Dist, Times
<1>3. d * (p - q) \in Int /\ (p - q >= 1 => d * (p-q) >= d) /\ (p-q <= -1 => d * (p-q) <= -d)
      /\ (p - q = 0 => d * (p-q) = 0)
  BY <1>2, Times
<1> HIDE DEF q, p
<1>4. SUFFICES ASSUME x % d = y % d PROVE FALSE
  OBVIOUS
<1>5. d * (p - q) = y - x
  BY <1>1, <1>2, <1>4
<1> QED
  BY <1>2, <1>3, <1>5

\* The MRAM counts its address up from cell to cell of a request, and no cell is
\* used twice in a request.
LEMMA CellFacts ==
  ASSUME NEW r \in Requests, NEW i \in 0..r.n
  PROVE  /\ Cell(r, i) \in 0..MemSize-1
         /\ (Cell(r, i) + 1) % MemSize = Cell(r, i + 1)
         /\ i < r.n => \A j \in 0..r.n-1 : Cell(r, j) = Cell(r, i) => j = i
<1>1. /\ MemSize \in Nat \ {0} /\ r.addr \in Int /\ r.n \in Nat /\ r.n <= MemSize
      /\ r.addr + i \in Int /\ i \in Int
  BY FlashAssumption
<1>2. Cell(r, i) \in 0..MemSize-1
  BY <1>1, ModStep DEF Cell
<1>3. (Cell(r, i) + 1) % MemSize = (r.addr + i + 1) % MemSize
  BY <1>1, ModStep DEF Cell
<1>4. r.addr + i + 1 = r.addr + (i + 1)
  BY <1>1
<1>5. ASSUME i < r.n, NEW j \in 0..r.n-1, j # i
      PROVE  Cell(r, j) # Cell(r, i)
  <2>1. r.addr + j \in Int /\ j \in Int
    BY <1>1
  <2>2. CASE j < i
    <3>1. r.addr + j < r.addr + i /\ (r.addr + i) - (r.addr + j) < MemSize
      BY <1>1, <1>5, <2>1, <2>2
    <3> QED
      BY <1>1, <2>1, <3>1, ModApart DEF Cell
  <2>3. CASE i < j
    <3>1. r.addr + i < r.addr + j /\ (r.addr + j) - (r.addr + i) < MemSize
      BY <1>1, <1>5, <2>1, <2>3
    <3> QED
      BY <1>1, <2>1, <3>1, ModApart DEF Cell
  <2> QED
    BY <1>1, <1>5, <2>1, <2>2, <2>3
<1> QED
  BY <1>2, <1>3, <1>4, <1>5 DEF Cell

\* What the requests are.
LEMMA RequestFacts ==
  ASSUME NEW r \in Requests
  PROVE  /\ r.n \in Nat /\ r.n >= 1
         /\ r.data \in [0..r.n-1 -> Byte]
  BY FlashAssumption

-----------------------------------------------------------------------------
(* SpiFlash: the invariant is one *)

LEMMA InitInv == Init => IInv
<1> SUFFICES ASSUME Init PROVE IInv
  OBVIOUS
<1> USE DEF Init, LockInit
<1>1. TypeOK
  BY RequestFacts, FlashAssumption DEF TypeOK, LockTypeOK
<1>2. LockInv
  BY LockAssumption DEF LockInv, Inside
<1>3. FrameInv
  BY DEF FrameInv
<1>4. DataInv
  BY DEF DataInv
<1> QED
  BY <1>1, <1>2, <1>3, <1>4 DEF IInv

\* One lemma per action: it preserves the invariant.
LEMMA CallInv ==
  ASSUME IInv, NEW t \in Threads, Call(t)
  PROVE  IInv'
<1> USE LockAssumption DEF IInv, Call, Goto, vars, threadVars, deviceVars, lockVars
<1>1. TypeOK'
  BY RequestFacts, FlashAssumption DEF TypeOK, LockTypeOK, Inside
<1>2. LockInv'
  BY DEF TypeOK, LockTypeOK, LockInv, Inside
<1>3. FrameInv'
  BY DEF TypeOK, LockTypeOK, LockInv, Inside, FrameInv
<1>4. DataInv'
  BY DEF TypeOK, LockTypeOK, LockInv, Inside, FrameInv, DataInv
<1> QED
  BY <1>1, <1>2, <1>3, <1>4

LEMMA RefuseInv ==
  ASSUME IInv, NEW t \in Threads, Refuse(t)
  PROVE  IInv'
<1> USE LockAssumption DEF IInv, Refuse, Goto, vars, threadVars, deviceVars, lockVars
<1>1. TypeOK'
  BY FlashAssumption DEF TypeOK, LockTypeOK, Inside
<1>2. LockInv'
  BY DEF TypeOK, LockTypeOK, LockInv, Inside
<1>3. FrameInv'
  BY DEF TypeOK, LockTypeOK, LockInv, Inside, FrameInv
<1>4. DataInv'
  BY DEF TypeOK, LockTypeOK, LockInv, Inside, FrameInv, DataInv
<1> QED
  BY <1>1, <1>2, <1>3, <1>4

LEMMA spiAcquireBusInv ==
  ASSUME IInv, NEW t \in Threads, spiAcquireBus(t)
  PROVE  IInv'
<1> USE LockAssumption DEF IInv, spiAcquireBus, Goto, vars, threadVars, deviceVars, lockVars, Acquire, Wait, First
<1>1. TypeOK'
  BY FlashAssumption DEF TypeOK, LockTypeOK, Inside
<1>2. LockInv'
  BY DEF TypeOK, LockTypeOK, LockInv, Inside
<1>3. FrameInv'
  BY DEF TypeOK, LockTypeOK, LockInv, Inside, FrameInv
<1>4. DataInv'
  BY DEF TypeOK, LockTypeOK, LockInv, Inside, FrameInv, DataInv
<1> QED
  BY <1>1, <1>2, <1>3, <1>4

LEMMA WriteEnableInv ==
  ASSUME IInv, NEW t \in Threads, WriteEnable(t)
  PROVE  IInv'
<1> USE LockAssumption DEF IInv, WriteEnable, Goto, vars, threadVars, deviceVars, lockVars
<1>1. TypeOK'
  BY FlashAssumption DEF TypeOK, LockTypeOK, Inside
<1>2. LockInv'
  BY DEF TypeOK, LockTypeOK, LockInv, Inside
<1>3. FrameInv'
  BY DEF TypeOK, LockTypeOK, LockInv, Inside, FrameInv
<1>4. DataInv'
  BY DEF TypeOK, LockTypeOK, LockInv, Inside, FrameInv, DataInv
<1> QED
  BY <1>1, <1>2, <1>3, <1>4

LEMMA OpenFrameInv ==
  ASSUME IInv, NEW t \in Threads, OpenFrame(t)
  PROVE  IInv'
<1> USE LockAssumption DEF IInv, OpenFrame, Goto, vars, threadVars, deviceVars, lockVars
<1>c. Cell(req[t], 0) \in 0..MemSize-1 /\ count[t] = 0 /\ Cell(req[t], 0) = flash_addr(req[t])
  <2>1. req[t] \in Requests /\ 0 \in 0..req[t].n /\ count[t] = 0
    BY RequestFacts DEF TypeOK, DataInv
  <2>2. Cell(req[t], 0) = flash_addr(req[t])
    BY <2>1, FlashAssumption DEF Cell, flash_addr
  <2> QED
    BY <2>1, <2>2, CellFacts
<1>1. TypeOK'
  BY FlashAssumption, <1>c DEF TypeOK, LockTypeOK, Inside
<1>2. LockInv'
  BY DEF TypeOK, LockTypeOK, LockInv, Inside
<1>3. FrameInv'
  BY <1>c DEF TypeOK, LockTypeOK, LockInv, Inside, FrameInv
<1>4. DataInv'
  BY DEF TypeOK, LockTypeOK, LockInv, Inside, FrameInv, DataInv
<1> QED
  BY <1>1, <1>2, <1>3, <1>4

LEMMA CloseFrameInv ==
  ASSUME IInv, NEW t \in Threads, CloseFrame(t)
  PROVE  IInv'
<1> USE LockAssumption DEF IInv, CloseFrame, Goto, vars, threadVars, deviceVars, lockVars
<1>1. TypeOK'
  BY FlashAssumption DEF TypeOK, LockTypeOK, Inside
<1>2. LockInv'
  BY DEF TypeOK, LockTypeOK, LockInv, Inside
<1>3. FrameInv'
  BY DEF TypeOK, LockTypeOK, LockInv, Inside, FrameInv
<1>4. DataInv'
  BY DEF TypeOK, LockTypeOK, LockInv, Inside, FrameInv, DataInv
<1> QED
  BY <1>1, <1>2, <1>3, <1>4

LEMMA WriteDisableInv ==
  ASSUME IInv, NEW t \in Threads, WriteDisable(t)
  PROVE  IInv'
<1> USE LockAssumption DEF IInv, WriteDisable, Goto, vars, threadVars, deviceVars, lockVars
<1>1. TypeOK'
  BY FlashAssumption DEF TypeOK, LockTypeOK, Inside
<1>2. LockInv'
  BY DEF TypeOK, LockTypeOK, LockInv, Inside
<1>3. FrameInv'
  BY DEF TypeOK, LockTypeOK, LockInv, Inside, FrameInv
<1>4. DataInv'
  BY DEF TypeOK, LockTypeOK, LockInv, Inside, FrameInv, DataInv
<1> QED
  BY <1>1, <1>2, <1>3, <1>4

LEMMA spiReleaseBusInv ==
  ASSUME IInv, NEW t \in Threads, spiReleaseBus(t)
  PROVE  IInv'
<1> USE LockAssumption DEF IInv, spiReleaseBus, Goto, vars, threadVars, deviceVars, lockVars, Release
<1>1. TypeOK'
  BY FlashAssumption DEF TypeOK, LockTypeOK, Inside
<1>2. LockInv'
  BY DEF TypeOK, LockTypeOK, LockInv, Inside
<1>3. FrameInv'
  BY DEF TypeOK, LockTypeOK, LockInv, Inside, FrameInv
<1>4. DataInv'
  BY DEF TypeOK, LockTypeOK, LockInv, Inside, FrameInv, DataInv
<1> QED
  BY <1>1, <1>2, <1>3, <1>4

LEMMA ReturnInv ==
  ASSUME IInv, NEW t \in Threads, Return(t)
  PROVE  IInv'
<1> USE LockAssumption DEF IInv, Return, Goto, vars, threadVars, deviceVars, lockVars
<1>1. TypeOK'
  BY FlashAssumption DEF TypeOK, LockTypeOK, Inside
<1>2. LockInv'
  BY DEF TypeOK, LockTypeOK, LockInv, Inside
<1>3. FrameInv'
  BY DEF TypeOK, LockTypeOK, LockInv, Inside, FrameInv
<1>4. DataInv'
  BY DEF TypeOK, LockTypeOK, LockInv, Inside, FrameInv, DataInv
<1> QED
  BY <1>1, <1>2, <1>3, <1>4

LEMMA TransferInv ==
  ASSUME IInv, NEW t \in Threads, Transfer(t)
  PROVE  IInv'
<1> USE LockAssumption DEF IInv, Transfer
<1>1. /\ req[t] \in Requests /\ req[t].n \in Nat /\ req[t].data \in [0..req[t].n-1 -> Byte]
      /\ count[t] \in 0..req[t].n /\ count[t] \in 0..req[t].n-1
      /\ count[t]+1 \in 0..req[t].n /\ count[t] < req[t].n
  BY RequestFacts DEF TypeOK
<1>2. /\ ptr = Cell(req[t], count[t]) /\ ptr' = Cell(req[t], count[t]+1)
      /\ ptr \in 0..MemSize-1 /\ ptr' \in 0..MemSize-1
  BY <1>1, CellFacts DEF FrameInv
<1>3. \A i \in 0..req[t].n-1 : Cell(req[t], i) \in 0..MemSize-1
                               /\ (Cell(req[t], i) = ptr => i = count[t])
  BY <1>1, <1>2, CellFacts
<1>4. \A s \in Threads : pc[s] = "data" => s = t
  BY DEF LockInv, Inside
<1>5. TypeOK'
  <2>1. mem' \in [0..MemSize-1 -> Byte]
    <3>1. Writes(req[t]) => buf[t][count[t]] \in Byte
      BY <1>1 DEF DataInv
    <3> QED
      BY <1>2, <3>1 DEF TypeOK
  <2>2. DOMAIN buf' = Threads /\ \A s \in Threads : buf'[s] \in [0..req[s].n-1 -> Byte]
    <3>1. mem[ptr] \in Byte
      BY <1>2 DEF TypeOK
    <3>2. DOMAIN buf' = Threads /\ \A s \in Threads \ {t} : buf'[s] = buf[s]
      BY DEF TypeOK
    <3>3. buf'[t] = buf[t] \/ buf'[t] = [buf[t] EXCEPT ![count[t]] = mem[ptr]]
      BY DEF TypeOK
    <3>4. buf[t] \in [0..req[t].n-1 -> Byte]
      BY DEF TypeOK
    <3>5. buf'[t] \in [0..req[t].n-1 -> Byte]
      BY <3>1, <3>3, <3>4
    <3> QED
      BY <3>2, <3>5 DEF TypeOK
  <2>3. DOMAIN count' = Threads /\ \A s \in Threads : count'[s] \in 0..req[s].n
    BY <1>1 DEF TypeOK
  <2> QED
    BY <1>2, <2>1, <2>2, <2>3 DEF TypeOK, LockTypeOK, lockVars
<1>6. LockInv'
  BY DEF TypeOK, LockTypeOK, LockInv, Inside, lockVars
<1>7. FrameInv'
  BY <1>2, <1>4 DEF TypeOK, LockTypeOK, FrameInv, lockVars
<1>8. DataInv'
  <2>1. \A s \in Threads : Writes(req[s]) => buf'[s] = req[s].data
    BY DEF DataInv, TypeOK
  <2>2. \A s \in Threads : pc[s] \in {"called", "queued", "enable", "open"} => count'[s] = 0
    BY DEF DataInv, TypeOK
  <2>3. \A i \in 0..count[t] :
           mem'[Cell(req[t], i)] = IF Writes(req[t]) THEN req[t].data[i] ELSE buf'[t][i]
    <3> SUFFICES ASSUME NEW i \in 0..count[t]
                 PROVE  mem'[Cell(req[t], i)] = IF Writes(req[t]) THEN req[t].data[i] ELSE buf'[t][i]
      OBVIOUS
    <3>1. i \in 0..req[t].n-1 /\ (i # count[t] => i \in 0..count[t]-1)
      BY <1>1
    <3>2. Writes(req[t]) => buf[t] = req[t].data /\ frame = "WRITE" /\ wel = "set"
      BY DEF DataInv, FrameInv
    <3>3. i # count[t] =>
            mem[Cell(req[t], i)] = IF Writes(req[t]) THEN req[t].data[i] ELSE buf[t][i]
      BY <3>1 DEF DataInv
    <3>4. CASE Writes(req[t])
      BY <1>2, <1>3, <3>1, <3>2, <3>3, <3>4 DEF TypeOK
    <3>5. CASE ~Writes(req[t])
      BY <1>1, <1>2, <1>3, <3>1, <3>3, <3>5 DEF TypeOK
    <3> QED
      BY <3>4, <3>5
  <2>4. req' = req /\ pc' = pc /\ count'[t] - 1 = count[t]
    BY <1>1 DEF TypeOK
  <2> QED
    BY <1>4, <2>1, <2>2, <2>3, <2>4 DEF DataInv
<1> QED
  BY <1>5, <1>6, <1>7, <1>8

LEMMA NextInv == IInv /\ [Next]_vars => IInv'
<1> SUFFICES ASSUME IInv, [Next]_vars
             PROVE  IInv'
  OBVIOUS
<1>1. CASE UNCHANGED vars
  BY <1>1 DEF IInv, TypeOK, LockTypeOK, LockInv, FrameInv, DataInv, vars, threadVars,
              deviceVars, lockVars
<1>2. CASE Next
  BY <1>2, CallInv, RefuseInv, spiAcquireBusInv, WriteEnableInv, OpenFrameInv, TransferInv,
     CloseFrameInv, WriteDisableInv, spiReleaseBusInv, ReturnInv DEF Next, Proceed
<1> QED
  BY <1>1, <1>2

LEMMA Invariance == Spec => []IInv
<1> QED
  BY InitInv, NextInv, PTL DEF Spec

-----------------------------------------------------------------------------
(* SpiFlash: theorems *)

\* Every state of the calls is of the declared type: no address leaves the MRAM and
\* no transfer passes the end of a caller's buffer.
THEOREM TypeCorrect == Spec => []TypeOK
<1>1. IInv => TypeOK
  BY DEF IInv
<1> QED
  BY <1>1, Invariance, PTL

\* Between the calls of spi_flash.c no frame is open and the MRAM is write
\* protected, whoever called and in whatever order.
THEOREM QuietBus == Spec => []QuietWhenFree
<1>1. IInv => QuietWhenFree
  BY DEF IInv, TypeOK, LockTypeOK, QuietWhenFree, FrameInv, LockInv
<1> QED
  BY <1>1, Invariance, PTL

\* A write frame that has sent all its bytes leaves in the MRAM what the request says.
LEMMA WholeWrite ==
  ASSUME IInv, NEW t \in Threads, pc[t] = "data", Writes(req[t]), count[t] = req[t].n
  PROVE  Stored(mem, req[t]) = mem
<1>1. req[t] \in Requests /\ req[t].n \in Nat /\ mem \in [0..MemSize-1 -> Byte]
  BY RequestFacts DEF IInv, TypeOK
<1>2. ASSUME NEW i \in 0..req[t].n-1 PROVE mem[Cell(req[t], i)] = req[t].data[i]
  BY DEF IInv, DataInv
<1>3. ASSUME NEW a \in 0..MemSize-1, NEW i \in 0..req[t].n-1, Cell(req[t], i) = a
      PROVE  req[t].data[CHOOSE j \in 0..req[t].n-1 : Cell(req[t], j) = a] = mem[a]
  BY <1>2, <1>3
<1> QED
  BY <1>1, <1>3 DEF Stored

\* A read frame that has received all its bytes has filled the buffer with what the
\* MRAM holds.
LEMMA WholeRead ==
  ASSUME IInv, NEW t \in Threads, pc[t] = "data", ~Writes(req[t]), count[t] = req[t].n
  PROVE  Loaded(mem, req[t]) = buf[t]
<1>1. req[t] \in Requests /\ req[t].n \in Nat /\ buf[t] \in [0..req[t].n-1 -> Byte]
  BY RequestFacts DEF IInv, TypeOK
<1>2. ASSUME NEW i \in 0..req[t].n-1 PROVE mem[Cell(req[t], i)] = buf[t][i]
  BY DEF IInv, DataInv
<1> QED
  BY <1>1, <1>2 DEF Loaded

\* A byte written at its place changes nothing for a write that counts as complete.
LEMMA StoredAfterByte ==
  ASSUME NEW r \in Requests, NEW m, NEW i \in 0..r.n-1, DOMAIN m = 0..MemSize-1
  PROVE  Stored([m EXCEPT ![Cell(r, i)] = r.data[i]], r) = Stored(m, r)
  BY DEF Stored

\* The check of flashWriteBytes, a subtraction of unsigned numbers, is the one on the
\* end of the write: no address is above FLASH_HIGH_ADDR.
LEMMA RefusedFacts ==
  ASSUME NEW r \in Requests
  PROVE  Refused(r) <=> Atomic!Ignored(r)
<1>1. r.addr \in Int /\ r.n \in Int /\ HighAddr \in Int
  BY FlashAssumption
<1> QED
  BY <1>1 DEF Refused, Atomic!Ignored

LEMMA InitRefines == Init => Atomic!MemInit
<1> SUFFICES ASSUME Init PROVE Atomic!MemInit
  OBVIOUS
<1>1. atomicMem = mem
  BY DEF Init, atomicMem
<1>2. atomicStatus = [t \in Threads |-> "idle"]
  BY DEF Init, atomicStatus
<1>3. atomicBuf = buf
  BY DEF Init, atomicBuf, Accessing
<1> QED
  BY <1>1, <1>2, <1>3 DEF Init, Atomic!MemInit

\* The calls, the moment of access and the returns of the abstract memory; every
\* other step of the code is a stutter there.
LEMMA NextRefines ==
  ASSUME IInv, IInv', [Next]_vars
  PROVE  [Atomic!MemNext]_(Atomic!memVars)
<1> DEFINE Stutter == UNCHANGED <<atomicMem, atomicStatus, req, atomicBuf>>
<1>1. ASSUME Stutter PROVE UNCHANGED Atomic!memVars
  BY <1>1 DEF Atomic!memVars
<1>2. CASE UNCHANGED vars
  <2>1. Stutter
    BY <1>2 DEF vars, threadVars, deviceVars, lockVars, atomicMem, atomicBuf, atomicStatus,
                Accessing
  <2> QED
    BY <1>1, <2>1
<1>3. ASSUME NEW t \in Threads, Call(t) PROVE Atomic!Call(t)
  <2> USE <1>3 DEF Call, Goto, deviceVars, lockVars
  <2>1. atomicMem' = atomicMem
    BY DEF atomicMem, IInv, FrameInv, TypeOK, LockInv, LockTypeOK
  <2>2. atomicStatus[t] = "idle" /\ atomicStatus' = [atomicStatus EXCEPT ![t] = "called"]
    BY DEF IInv, TypeOK, atomicStatus
  <2>3. PICK r \in Requests : req' = [req EXCEPT ![t] = r] /\ buf' = [buf EXCEPT ![t] = r.data]
    OBVIOUS
  <2>4. atomicBuf' = [atomicBuf EXCEPT ![t] = r.data]
    BY <2>3 DEF atomicBuf, IInv, TypeOK, Accessing
  <2> QED
    BY <2>1, <2>2, <2>3, <2>4 DEF Atomic!Call
<1>4. ASSUME NEW t \in Threads, Refuse(t) PROVE Atomic!Access(t)
  <2> USE <1>4 DEF Refuse, Goto, deviceVars, lockVars
  <2>1. atomicMem' = atomicMem
    BY DEF atomicMem
  <2>2. atomicStatus[t] = "called" /\ atomicStatus' = [atomicStatus EXCEPT ![t] = "done"]
    BY DEF IInv, TypeOK, atomicStatus
  <2>3. atomicBuf' = atomicBuf
    BY DEF atomicBuf, IInv, TypeOK, Accessing
  <2> QED
    BY <2>1, <2>2, <2>3, RefusedFacts DEF Atomic!Access, IInv, TypeOK
<1>5. ASSUME NEW t \in Threads, OpenFrame(t) PROVE Atomic!Access(t)
  <2> USE <1>5 DEF OpenFrame, Goto, lockVars
  <2>1. ~Refused(req[t]) /\ holder = t /\ frame = "none"
    BY DEF IInv, TypeOK, LockInv, FrameInv, Inside
  <2>2. atomicStatus[t] = "called" /\ atomicStatus' = [atomicStatus EXCEPT ![t] = "done"]
    BY DEF IInv, TypeOK, atomicStatus
  <2>3. atomicMem = mem /\ atomicMem' = IF Writes(req[t]) THEN Stored(mem, req[t]) ELSE mem
    BY <2>1 DEF atomicMem
  <2>4. \A s \in Threads : ~Accessing(s)
    BY <2>1 DEF Accessing, IInv, FrameInv, LockInv, Inside
  <2>5. atomicBuf' = IF Writes(req[t]) THEN atomicBuf
                     ELSE [atomicBuf EXCEPT ![t] = Loaded(mem, req[t])]
    BY <2>4 DEF atomicBuf, IInv, TypeOK, Accessing
  <2> QED
    BY <2>1, <2>2, <2>3, <2>5, RefusedFacts
       DEF Atomic!Access, IInv, TypeOK, Atomic!Writes, Writes, Atomic!Stored, Stored,
           Atomic!Loaded, Loaded, Atomic!Cell, Cell
<1>6. ASSUME NEW t \in Threads, Transfer(t) PROVE Stutter
  <2> USE <1>6 DEF Transfer, lockVars
  <2>1. /\ req[t] \in Requests /\ count[t] \in 0..req[t].n-1 /\ ptr = Cell(req[t], count[t])
        /\ DOMAIN mem = 0..MemSize-1 /\ holder = t
    BY RequestFacts DEF IInv, TypeOK, FrameInv, LockInv, Inside
  <2>2. \A s \in Threads : Accessing(s) => s = t
    BY <2>1 DEF Accessing, IInv, LockInv, Inside
  <2>3. atomicStatus' = atomicStatus
    BY DEF atomicStatus
  <2>4. CASE Writes(req[t])
    <3>1. /\ frame = "WRITE" /\ wel = "set"
          /\ mem' = [mem EXCEPT ![Cell(req[t], count[t])] = req[t].data[count[t]]]
      BY <2>1, <2>4 DEF IInv, FrameInv, DataInv
    <3>2. Stored(mem', req[t]) = Stored(mem, req[t])
      BY <2>1, <3>1, StoredAfterByte
    <3>3. atomicMem' = atomicMem
      BY <2>1, <3>1, <3>2 DEF atomicMem
    <3>4. atomicBuf' = atomicBuf
      BY <2>2, <2>4 DEF atomicBuf, Accessing
    <3> QED
      BY <2>3, <3>3, <3>4
  <2>5. CASE ~Writes(req[t])
    <3>1. frame = "READ" /\ mem' = mem /\ \A s \in Threads \ {t} : buf'[s] = buf[s]
      BY <2>5 DEF IInv, FrameInv, TypeOK
    <3>2. atomicMem' = atomicMem
      BY <3>1 DEF atomicMem
    <3>3. atomicBuf' = atomicBuf
      BY <2>5, <3>1 DEF atomicBuf, Accessing
    <3> QED
      BY <2>3, <3>2, <3>3
  <2> QED
    BY <2>4, <2>5
<1>7. ASSUME NEW t \in Threads, CloseFrame(t) PROVE Stutter
  <2> USE <1>7 DEF CloseFrame, Goto, lockVars
  <2>1. holder = t /\ count[t] = req[t].n
    BY DEF IInv, LockInv, Inside
  <2>2. atomicStatus' = atomicStatus
    BY DEF atomicStatus, IInv, TypeOK
  <2>3. frame = IF Writes(req[t]) THEN "WRITE" ELSE "READ"
    BY DEF IInv, FrameInv
  <2>4. atomicMem' = atomicMem
    BY <2>1, <2>3, WholeWrite DEF atomicMem
  <2>5. \A s \in Threads : s # t => (Accessing(s) <=> Accessing(s)')
    BY DEF Accessing, IInv, TypeOK
  <2>6. ~Accessing(t)' /\ (Accessing(t) /\ ~Writes(req[t]) => Loaded(mem, req[t]) = buf[t])
    BY <2>1, WholeRead DEF Accessing, IInv, TypeOK
  <2>7. atomicBuf' = atomicBuf
    BY <2>5, <2>6 DEF atomicBuf
  <2> QED
    BY <2>2, <2>4, <2>7
<1>8. ASSUME NEW t \in Threads,
             spiAcquireBus(t) \/ WriteEnable(t) \/ WriteDisable(t) \/ spiReleaseBus(t)
      PROVE  Stutter
  <2> USE <1>8 DEF spiAcquireBus, WriteEnable, WriteDisable, spiReleaseBus, Goto, First,
                   deviceVars, lockVars
  <2>1. /\ UNCHANGED <<req, buf, mem, frame>>
        /\ \E p, q \in {"called", "queued", "enable", "open", "disable", "release", "done"} :
             pc[t] = p /\ pc' = [pc EXCEPT ![t] = q]
    OBVIOUS
  <2>2. atomicStatus' = atomicStatus
    BY DEF atomicStatus, IInv, TypeOK
  <2>3. \A s \in Threads : Accessing(s)' = Accessing(s)
    BY <2>1 DEF Accessing, IInv, TypeOK
  <2>4. atomicBuf' = atomicBuf
    BY <2>1, <2>3 DEF atomicBuf
  <2>5. frame = "none" \/ holder' = holder
    BY DEF IInv, TypeOK, LockTypeOK, FrameInv, LockInv, Inside, Acquire, Wait, Release
  <2>6. atomicMem' = atomicMem
    BY <2>1, <2>5 DEF atomicMem
  <2> QED
    BY <2>1, <2>2, <2>4, <2>6
<1>9. ASSUME NEW t \in Threads, Return(t) PROVE Atomic!Return(t)
  <2> USE <1>9 DEF Return, Goto, deviceVars, lockVars
  <2>1. atomicMem' = atomicMem
    BY DEF atomicMem
  <2>2. atomicStatus[t] = "done" /\ atomicStatus' = [atomicStatus EXCEPT ![t] = "idle"]
    BY DEF IInv, TypeOK, atomicStatus
  <2>3. atomicBuf' = atomicBuf
    BY DEF atomicBuf, IInv, TypeOK, Accessing
  <2> QED
    BY <2>1, <2>2, <2>3 DEF Atomic!Return
<1>10. CASE Next
  <2> HIDE DEF Stutter
  <2> QED
    BY <1>1, <1>3, <1>4, <1>5, <1>6, <1>7, <1>8, <1>9, <1>10
       DEF Next, Proceed, Atomic!MemNext
<1> QED
  BY <1>2, <1>10

\* The functions of spi_flash.c are thread safe in the sense of FlashMemory: whatever
\* calls overlap, each takes effect as a whole at one moment between its call and its
\* return.
THEOREM ImplementsAtomicMemory == Spec => ImplementsMemory
<1>1. IInv /\ IInv' /\ [Next]_vars => [Atomic!MemNext]_(Atomic!memVars)
  BY NextRefines
<1> QED
  BY InitRefines, Invariance, <1>1, PTL DEF Spec, ImplementsMemory, Atomic!MemSpec

-----------------------------------------------------------------------------
(* LineIndex: the invariant *)

\* Bytes that generateLineIndex has stepped over.
Passed == lineend - Start

\* Where the bytes behind the marker of line k begin.
Behind(k) == Start + (IF k = 0 THEN 0 ELSE image.ends[k])

Whole == 1..Lines(image) \ image.lost

\* The scan has not run past the end marker.
ScanInv ==
  /\ image \in Images
  /\ lineend \in Nat /\ lineend >= Start
  /\ phase \in {"scan", "done"}
  /\ phase = "scan" => Passed + 2 <= Len(image.data)
  /\ phase = "done" => Passed + 1 = Len(image.data)

\* line is the number of the last whole line that the scan has passed.
LineInv ==
  /\ line \in Whole \cup {0}
  /\ line # 0 => image.ends[line] <= Passed + 1
  /\ \A k \in Whole : image.ends[k] <= Passed + 1 => k <= line
  /\ linestart = Behind(line)

\* The entries of the whole lines passed, and at the end that of the last one.
EntryOf(k, end) == [start_addr |-> Behind(LastWhole(k)), end_addr |-> Start + end - 1]

IndexInv ==
  /\ index \in [0..Slots-1 -> Entry]
  /\ \A s \in 0..Slots-1 :
       \/ /\ s + 1 \in Whole /\ image.ends[s + 1] <= Passed + 1
          /\ index[s] = EntryOf(s + 1, image.ends[s + 1])
       \/ /\ phase = "done" /\ s = line
          /\ index[s] = EntryOf(Lines(image) + 1, Len(image.data))
       \/ /\ ~(s + 1 \in Whole /\ image.ends[s + 1] <= Passed + 1)
          /\ ~(phase = "done" /\ s = line)
          /\ index[s] = OldEntry

\* Entries begin behind the line before that is whole, or at the start.
LastInv ==
  /\ \A k \in Whole : image.ends[k] <= Passed + 1 =>
       LastWhole(k) \in Whole \cup {0} /\ LastWhole(k) < k
  /\ phase = "done" => LastWhole(Lines(image) + 1) = line

ScanIInv == ScanInv /\ LineInv /\ IndexInv /\ LastInv

-----------------------------------------------------------------------------
(* Images *)

\* What IndexAssumption says of the image in the MRAM.
LEMMA ImageFacts ==
  ASSUME image \in Images
  PROVE  LET last == Lines(image) + 1
             size == Len(image.data)
         IN  /\ RstCount \in {1, 2, 4, 8} /\ Start \in Nat /\ Slots \in Nat
             /\ OldEntry \in Entry
             /\ image.data \in Seq(0..255) /\ size \in Nat
             /\ last \in Nat /\ last >= 1 /\ last <= Slots
             /\ \A k \in 1..last : image.ends[k] \in Nat /\ image.ends[k] >= 2
             /\ image.ends[last] = size
             /\ \A j, k \in 1..last : j < k => image.ends[j] + 2 <= image.ends[k]
             /\ \A k \in 1..last : image.ends[k] <= size
             /\ \A i \in 1..size : image.data[i] \in 0..255
<1> DEFINE last == Lines(image) + 1
           size == Len(image.data)
<1>1. /\ RstCount \in {1, 2, 4, 8} /\ Start \in Nat /\ Slots \in Nat
      /\ OldEntry \in Entry
      /\ image.data \in Seq(0..255) /\ image.ends \in Seq(Nat)
      /\ Lines(image) < Slots /\ ImageOK(image)
  BY IndexAssumption DEF FF, Entry
<1>2. last = Len(image.ends) /\ last \in Nat /\ last >= 1 /\ size \in Nat
  BY <1>1 DEF ImageOK, Lines
<1>3. /\ image.ends[1] >= 2 /\ image.ends[last] = size
      /\ \A j, k \in 1..last : j < k => image.ends[j] + 2 <= image.ends[k]
  BY <1>1 DEF ImageOK
<1>4. \A k \in 1..last : image.ends[k] \in Nat
  BY <1>1, <1>2
<1>5. \A k \in 1..last : image.ends[k] >= 2 /\ image.ends[k] <= size
  <2> TAKE k \in 1..last
  <2>1. image.ends[k] >= 2
    BY <1>2, <1>3, <1>4
  <2>2. image.ends[k] <= size
    BY <1>2, <1>3, <1>4
  <2> QED
    BY <2>1, <2>2
<1>6. \A i \in 1..size : image.data[i] \in 0..255
  BY <1>1, ElementOfSeq
<1>7. last <= Slots
  BY <1>1, <1>2 DEF Lines
<1> QED
  BY <1>1, <1>2, <1>3, <1>4, <1>5, <1>6, <1>7

\* The bytes of the image where lineend points.
LEMMA MemFacts ==
  ASSUME ScanInv, phase = "scan"
  PROVE  /\ Passed \in Nat
         /\ Mem(lineend) = image.data[Passed + 1]
         /\ Mem(lineend + 1) = image.data[Passed + 2]
         /\ Passed + 1 \in 1..Len(image.data) /\ Passed + 2 \in 1..Len(image.data)
<1>1. Start \in Nat /\ Len(image.data) \in Nat
  BY ImageFacts DEF ScanInv
<1>2. Passed \in Nat /\ Passed + 2 <= Len(image.data)
  BY <1>1 DEF ScanInv, Passed
<1> QED
  BY <1>1, <1>2 DEF ScanInv, Passed, Mem

\* lineend points at a byte of the image that another one follows.
LEMMA Place ==
  ASSUME ScanInv, phase = "scan"
  PROVE  /\ Passed \in Nat /\ Passed + 1 \in 1..Len(image.data)-1
         /\ (Passed + 1) + 1 = Passed + 2
<1>1. Len(image.data) \in Nat
  BY ImageFacts DEF ScanInv
<1>2. Passed \in Nat /\ Passed + 2 <= Len(image.data)
  BY MemFacts DEF ScanInv
<1> QED
  BY <1>1, <1>2

\* Only the end marker is taken for one.
LEMMA EndFacts ==
  ASSUME ScanInv, phase = "scan", IsEnd
  PROVE  Passed + 2 = Len(image.data)
<1> DEFINE last == Lines(image) + 1
           i == Passed + 1
<1>1. image.data[i] = 255 /\ image.data[i + 1] = 217 /\ i \in 1..Len(image.data)-1
  <2>1. Mem(lineend) = 255 /\ Mem(lineend + 1) = 217
    BY DEF IsEnd, FF, EOI
  <2>2. Passed \in Nat /\ i \in 1..Len(image.data)-1 /\ i + 1 = Passed + 2
    BY Place
  <2> QED
    BY MemFacts, <2>1, <2>2
<1>2. PICK k \in 1..last : image.ends[k] = i + 1
  <2>1. ImageOK(image)
    BY IndexAssumption DEF ScanInv
  <2>2. image.data[i] = FF => image.data[i + 1] = 0 \/ \E k \in 1..last : image.ends[k] = i + 1
    BY <1>1, <2>1 DEF ImageOK
  <2> QED
    BY <1>1, <2>2 DEF FF
<1>3. k = last
  <2> SUFFICES ASSUME k # last PROVE FALSE
    OBVIOUS
  <2>1. k \in 1..last-1
    BY <1>2, ImageFacts DEF ScanInv
  <2>2. ImageOK(image) /\ RstCount \in {1, 2, 4, 8}
    BY IndexAssumption DEF ScanInv
  <2>3. IF k \in image.lost THEN image.data[image.ends[k]] # 217
                            ELSE image.data[image.ends[k]] = 208 + ((k - 1) % RstCount)
    BY <2>1, <2>2 DEF ImageOK, EOI, RST0, FF
  <2>4. (k - 1) % RstCount \in 0..7
    <3>1. k - 1 \in Nat
      BY <2>1, ImageFacts DEF ScanInv
    <3> QED
      BY <3>1, <2>2
  <2> QED
    BY <1>1, <1>2, <2>3, <2>4
<1>4. Passed \in Nat /\ image.ends[last] = Len(image.data)
  BY MemFacts, ImageFacts DEF ScanInv
<1> QED
  BY <1>2, <1>3, <1>4

\* A restart marker is that of a whole line, with its number.
LEMMA RstFacts ==
  ASSUME ScanInv, phase = "scan", IsRst
  PROVE  \E k \in Whole : /\ image.ends[k] = Passed + 2
                          /\ Mem(lineend + 1) = 208 + ((k - 1) % RstCount)
<1> DEFINE last == Lines(image) + 1
           i == Passed + 1
<1>1. image.data[i] = 255 /\ image.data[i + 1] \in RstBytes /\ i \in 1..Len(image.data)-1
  <2>1. Mem(lineend) = 255 /\ Mem(lineend + 1) \in RstBytes
    BY DEF IsRst, FF
  <2>2. Passed \in Nat /\ i \in 1..Len(image.data)-1 /\ i + 1 = Passed + 2
    BY Place
  <2> QED
    BY MemFacts, <2>1, <2>2
<1>2. RstCount \in {1, 2, 4, 8} /\ ImageOK(image)
  BY IndexAssumption DEF ScanInv
<1>3. image.data[i + 1] \notin {0, 217}
  BY <1>1, <1>2 DEF RstBytes, RST0
<1>4. PICK k \in 1..last : image.ends[k] = i + 1
  <2>1. image.data[i] = FF => image.data[i + 1] = 0 \/ \E k \in 1..last : image.ends[k] = i + 1
    BY <1>1, <1>2 DEF ImageOK
  <2> QED
    BY <1>1, <1>3, <2>1 DEF FF
<1>5. k # last
  <2>1. image.data[image.ends[last]] = 217
    BY <1>2 DEF ImageOK, EOI
  <2> QED
    BY <1>3, <1>4, <2>1
<1>6. last \in Nat /\ last - 1 = Lines(image) /\ Passed \in Nat
  BY MemFacts, ImageFacts, IndexAssumption DEF ScanInv, Lines
<1>7. k \in 1..last-1
  BY <1>4, <1>5, <1>6
<1>8. IF k \in image.lost THEN image.data[image.ends[k]] \notin RstBytes
                          ELSE image.data[image.ends[k]] = 208 + ((k - 1) % RstCount)
  BY <1>2, <1>7 DEF ImageOK, RST0
<1>9. k \in Whole
  BY <1>1, <1>4, <1>6, <1>7, <1>8 DEF Whole
<1> QED
  BY <1>1, <1>4, <1>6, <1>7, <1>8, <1>9, MemFacts DEF Whole

\* The least number from l on that a marker with n's number can mean is n, if n is
\* less than RstCount away.
LEMMA NextNumber ==
  ASSUME NEW l \in Nat, NEW n \in Nat, l <= n, RstCount \in {1, 2, 4, 8}, n - l < RstCount
  PROVE  LET rst  == (208 + (n % RstCount)) % RstCount
             base == (l \div RstCount) * RstCount
         IN  (IF l % RstCount <= rst THEN base + rst ELSE base + rst + RstCount) = n
<1>1. CASE RstCount = 1
  BY <1>1
<1>2. CASE RstCount = 2
  BY <1>2
<1>3. CASE RstCount = 4
  BY <1>3
<1>4. CASE RstCount = 8
  BY <1>4
<1> QED
  BY <1>1, <1>2, <1>3, <1>4

\* How to know LastWhole.
LEMMA LastIs ==
  ASSUME NEW l \in Nat, NEW p \in Nat,
         p = 0 \/ (p \in 1..l-1 /\ p \notin image.lost),
         \A k \in 1..l-1 : k \notin image.lost => k <= p
  PROVE  LastWhole(l) = p
<1> DEFINE whole == {k \in 1..l-1 : k \notin image.lost}
<1>1. CASE p = 0
  <2>1. whole = {}
    BY <1>1
  <2> QED
    BY <1>1, <2>1 DEF LastWhole
<1>2. CASE p # 0
  <2>1. p \in whole /\ \A j \in whole : j <= p
    BY <1>2
  <2>2. \A q \in whole : (\A j \in whole : j <= q) => q = p
    BY <2>1
  <2>3. (CHOOSE k \in whole : \A j \in whole : j <= k) = p
    BY <2>1, <2>2
  <2> QED
    BY <2>1, <2>3 DEF LastWhole
<1> QED
  BY <1>1, <1>2

\* The line that generateLineIndex takes for the one a restart marker ends is that
\* line: those in between lost their markers, and are fewer than RstCount.
LEMMA MarkedFacts ==
  ASSUME ScanInv, LineInv, phase = "scan", IsRst,
         NEW k \in Whole, image.ends[k] = Passed + 2,
         Mem(lineend + 1) = 208 + ((k - 1) % RstCount)
  PROVE  /\ MarkedLine = k - 1
         /\ line < k /\ LastWhole(k) = line
         /\ \A j \in Whole : image.ends[j] <= Passed + 2 <=> j <= k
<1> DEFINE last == Lines(image) + 1
<1>1. /\ last \in Nat /\ Lines(image) = last - 1 /\ Passed \in Nat
      /\ RstCount \in {1, 2, 4, 8} /\ ImageOK(image)
      /\ \A j \in 1..last : image.ends[j] \in Nat
      /\ \A i, j \in 1..last : i < j => image.ends[i] + 2 <= image.ends[j]
  <2>1. image \in Images
    BY DEF ScanInv
  <2>2. Lines(image) \in Int /\ ImageOK(image)
    BY <2>1, IndexAssumption DEF Lines
  <2> QED
    BY <2>1, <2>2, MemFacts, ImageFacts
<1>2. k \in 1..last-1 /\ line \in 0..last-1 /\ Whole \subseteq 1..last-1
  BY <1>1 DEF Whole, LineInv
<1>3. \A j \in Whole : image.ends[j] <= Passed + 2 <=> j <= k
  BY <1>1, <1>2
<1>4. line < k
  BY <1>1, <1>2 DEF LineInv
<1>5. \A j \in 1..k-1 : j > line => j \in image.lost
  <2> SUFFICES ASSUME NEW j \in 1..k-1, j \in Whole PROVE j <= line
    BY <1>1, <1>2 DEF Whole
  <2>1. image.ends[j] + 2 <= image.ends[k]
    BY <1>1, <1>2
  <2> QED
    BY <1>1, <1>2, <2>1 DEF LineInv
<1>6. LastWhole(k) = line
  <2>1. line = 0 \/ (line \in 1..k-1 /\ line \notin image.lost)
    BY <1>2, <1>4 DEF LineInv, Whole
  <2> QED
    BY <1>2, <1>5, <2>1, LastIs
<1>7. k - 1 - line < RstCount
  <2> SUFFICES ASSUME k - 1 - line >= RstCount PROVE FALSE
    BY <1>1, <1>2
  <2>1. line + 1 \in 1..last-RstCount
    BY <1>1, <1>2
  <2>2. ~((line + 1)..((line + 1) + RstCount - 1) \subseteq image.lost)
    BY <1>1, <2>1 DEF ImageOK
  <2> QED
    BY <1>1, <1>2, <1>5, <2>2
<1>8. MarkedLine = k - 1
  BY <1>1, <1>2, <1>4, <1>7, NextNumber DEF MarkedLine
<1> QED
  BY <1>3, <1>4, <1>6, <1>8

-----------------------------------------------------------------------------
(* LineIndex: the invariant is one *)

\* What the steps need to know of the image, in one place.
LEMMA Numbers ==
  ASSUME ScanInv
  PROVE  LET last == Lines(image) + 1
         IN  /\ Start \in Nat /\ Slots \in Nat /\ Passed \in Nat /\ lineend = Start + Passed
             /\ Len(image.data) \in Nat
             /\ last \in Nat /\ last >= 1 /\ last <= Slots /\ Lines(image) = last - 1
             /\ Whole \subseteq 1..last-1
             /\ \A k \in 1..last : image.ends[k] \in Nat /\ image.ends[k] >= 2
             /\ \A j, k \in 1..last : j < k => image.ends[j] + 2 <= image.ends[k]
             /\ image.ends[last] = Len(image.data)
             /\ \A k \in Whole : image.ends[k] + 2 <= Len(image.data)
<1> DEFINE last == Lines(image) + 1
<1>1. image \in Images /\ lineend \in Nat /\ lineend >= Start
  BY DEF ScanInv
<1>2. Lines(image) \in Int /\ last \in Nat /\ last >= 1 /\ last <= Slots /\ Slots \in Nat
  BY <1>1, ImageFacts, IndexAssumption DEF Lines
<1>3. Start \in Nat /\ Passed \in Nat /\ lineend = Start + Passed
  BY <1>1, ImageFacts DEF Passed
<1>4. Lines(image) = last - 1 /\ Whole \subseteq 1..last-1
  BY <1>2 DEF Whole
<1>5. /\ Len(image.data) \in Nat
      /\ \A k \in 1..last : image.ends[k] \in Nat /\ image.ends[k] >= 2
      /\ \A j, k \in 1..last : j < k => image.ends[j] + 2 <= image.ends[k]
      /\ image.ends[last] = Len(image.data)
  BY <1>1, ImageFacts
<1>6. \A k \in Whole : image.ends[k] + 2 <= Len(image.data)
  <2> TAKE k \in Whole
  <2>1. k \in 1..last /\ last \in 1..last /\ k < last
    BY <1>2, <1>4
  <2> QED
    BY <1>5, <2>1
<1> QED
  BY <1>2, <1>3, <1>4, <1>5, <1>6

\* Where the line being scanned begins, and its slot.
LEMMA Locals ==
  ASSUME ScanInv, LineInv
  PROVE  linestart \in Nat /\ line \in 0..Slots-1
<1>1. line \in 0..Slots-1
  BY Numbers DEF LineInv
<1>2. CASE line = 0
  BY <1>2, Numbers DEF LineInv, Behind
<1>3. CASE line # 0
  <2>1. line \in Whole /\ linestart = Start + image.ends[line]
    BY <1>3 DEF LineInv, Behind
  <2>2. image.ends[line] \in Nat /\ Start \in Nat
    BY <2>1, Numbers
  <2> QED
    BY <1>1, <2>1, <2>2
<1> QED
  BY <1>1, <1>2, <1>3

\* The image stays, and all that depends on it alone.
LEMMA SameImage ==
  ASSUME image' = image
  PROVE  /\ Whole' = Whole /\ Lines(image)' = Lines(image)
         /\ \A k : LastWhole(k)' = LastWhole(k)
         /\ \A k : Behind(k)' = Behind(k)
         /\ \A k, end : EntryOf(k, end)' = EntryOf(k, end)
<1>1. \A k : LastWhole(k)' = LastWhole(k)
  BY DEF LastWhole
<1>2. \A k : Behind(k)' = Behind(k)
  BY DEF Behind
<1> QED
  BY <1>1, <1>2 DEF Whole, EntryOf, Lines

LEMMA ScanInitInv == IndexInit => ScanIInv
<1> SUFFICES ASSUME IndexInit PROVE ScanIInv
  OBVIOUS
<1> DEFINE last == Lines(image) + 1
<1>1. image \in Images /\ Passed = 0 /\ line = 0 /\ phase = "scan" /\ linestart = Start
  BY IndexAssumption DEF IndexInit, Passed
<1>2. last \in Nat /\ last >= 1 /\ \A k \in 1..last : image.ends[k] \in Nat /\ image.ends[k] >= 2
  BY <1>1, ImageFacts
<1>3. ScanInv
  BY <1>1, ImageFacts DEF IndexInit, ScanInv
<1>4. \A k \in Whole : image.ends[k] > Passed + 1
  BY <1>1, <1>3, Numbers
<1>5. LineInv
  BY <1>1, <1>3, <1>4, Numbers DEF LineInv, Behind
<1>6. index \in [0..Slots-1 -> Entry]
  BY <1>1, ImageFacts DEF IndexInit
<1>7. IndexInv
  BY <1>1, <1>3, <1>4, <1>6, Numbers DEF IndexInv, IndexInit
<1>8. LastInv
  <2>1. \A k \in Whole : ~(image.ends[k] <= Passed + 1)
    <3> TAKE k \in Whole
    <3>1. image.ends[k] \in Nat /\ Passed \in Nat
      BY <1>3, Numbers
    <3> QED
      BY <1>4, <3>1
  <2> QED
    BY <1>1, <2>1 DEF LastInv
<1> QED
  BY <1>3, <1>5, <1>7, <1>8 DEF ScanIInv

\* No marker: the place passed is none of a whole line, nor the end.
LEMMA NoMarkerStep ==
  ASSUME ScanIInv, NoMarker
  PROVE  ScanIInv'
<1> USE DEF ScanIInv
<1>1. /\ phase = "scan" /\ ~IsEnd /\ ~IsRst /\ lineend' = lineend + 1
      /\ image' = image /\ phase' = phase /\ linestart' = linestart /\ line' = line /\ index' = index
  BY DEF NoMarker
<1>2. Passed' = Passed + 1
  BY <1>1, Numbers DEF Passed
<1>3. Passed + 2 # Len(image.data)
  <2> SUFFICES ASSUME Passed + 2 = Len(image.data) PROVE FALSE
    OBVIOUS
  <2>1. image.data[Passed + 1] = 255 /\ image.data[Passed + 2] = 217
    <3> DEFINE last == Lines(image) + 1
    <3>1. ImageOK(image) /\ last \in 1..last
      BY Numbers, IndexAssumption DEF ScanInv
    <3>2. image.data[image.ends[last] - 1] = 255 /\ image.data[Len(image.data)] = 217
      BY <3>1 DEF ImageOK, FF, EOI
    <3> QED
      BY <3>2, Numbers
  <2> QED
    BY <1>1, <2>1, MemFacts DEF IsEnd, FF, EOI
<1>4. ScanInv'
  BY <1>1, <1>2, <1>3, Numbers DEF ScanInv
<1>5. \A k \in Whole : image.ends[k] <= Passed + 2 => image.ends[k] <= Passed + 1
  <2> SUFFICES ASSUME NEW k \in Whole, image.ends[k] = Passed + 2 PROVE FALSE
    <3>1. \A k \in Whole : image.ends[k] \in Nat /\ Passed \in Nat
      BY Numbers
    <3> QED
      BY <3>1
  <2>1. ImageOK(image) /\ RstCount \in {1, 2, 4, 8}
    BY IndexAssumption DEF ScanInv
  <2>2. k \in 1..Lines(image) /\ Lines(image) \in Nat /\ k \notin image.lost
    BY Numbers DEF Whole
  <2>3. image.data[Passed + 1] = 255
    <3>1. image.data[image.ends[k] - 1] = 255
      BY <2>1, <2>2 DEF ImageOK, FF
    <3> QED
      BY <3>1, Numbers
  <2>4. image.data[Passed + 2] = 208 + ((k - 1) % RstCount)
    BY <2>1, <2>2, Numbers DEF ImageOK, RST0
  <2>5. (k - 1) % RstCount \in 0..RstCount-1
    BY <2>1, <2>2
  <2>6. image.data[Passed + 2] \in RstBytes
    BY <2>1, <2>4, <2>5 DEF RstBytes, RST0
  <2> QED
    BY <1>1, <2>3, <2>6, MemFacts DEF IsRst, FF
<1>6. LineInv'
  BY <1>1, <1>2, <1>5, SameImage, Numbers DEF LineInv
<1>7. IndexInv'
  <2>1. index' \in [0..Slots-1 -> Entry]
    BY <1>1 DEF IndexInv
  <2>2. \A k \in Whole : image.ends[k] <= Passed' + 1 <=> image.ends[k] <= Passed + 1
    <3> TAKE k \in Whole
    <3>1. image.ends[k] \in Nat /\ Passed \in Nat
      BY Numbers
    <3> QED
      BY <1>2, <1>5, <3>1
  <2> SUFFICES ASSUME NEW s \in 0..Slots-1
               PROVE  \/ /\ s + 1 \in Whole /\ image.ends[s + 1] <= Passed' + 1
                         /\ index[s] = EntryOf(s + 1, image.ends[s + 1])
                      \/ /\ ~(s + 1 \in Whole /\ image.ends[s + 1] <= Passed' + 1)
                         /\ index[s] = OldEntry
    BY <1>1, <2>1, SameImage DEF IndexInv
  <2> QED
    BY <1>1, <2>2 DEF IndexInv
<1>8. LastInv'
  <2>1. \A k \in Whole : image.ends[k] <= Passed' + 1 => image.ends[k] <= Passed + 1
    BY <1>2, <1>5, Numbers
  <2> QED
    BY <1>1, <2>1, SameImage DEF LastInv
<1> QED
  BY <1>4, <1>6, <1>7, <1>8

\* The end marker closes the entry behind the last whole line.
LEMMA EndOfImageStep ==
  ASSUME ScanIInv, EndOfImage
  PROVE  ScanIInv'
<1> USE DEF ScanIInv
<1> DEFINE last == Lines(image) + 1
           new == [start_addr |-> linestart, end_addr |-> lineend + 1]
<1>1. /\ phase = "scan" /\ phase' = "done" /\ IsEnd /\ lineend' = lineend + 1
      /\ image' = image /\ linestart' = linestart /\ line' = line
      /\ index' = [index EXCEPT ![line] = new]
  BY DEF EndOfImage, WriteEntry
<1>2. Passed' = Passed + 1 /\ Passed + 2 = Len(image.data)
  BY <1>1, EndFacts, Numbers DEF Passed
<1>3. ScanInv'
  BY <1>1, <1>2, Numbers DEF ScanInv
<1>4. \A k \in Whole : image.ends[k] <= Passed + 1 /\ image.ends[k] <= Passed + 2
  <2> TAKE k \in Whole
  <2>1. image.ends[k] \in Nat /\ Passed \in Nat /\ image.ends[k] + 2 <= Len(image.data)
    BY Numbers
  <2> QED
    BY <1>2, <2>1
<1>5. LineInv'
  BY <1>1, <1>2, <1>4, SameImage, Numbers DEF LineInv
<1>6. line \in 0..last-1 /\ line \in 0..Slots-1 /\ line + 1 \notin Whole
  <2>1. line \in 0..last-1 /\ line \in 0..Slots-1
    BY Numbers DEF LineInv
  <2>2. line + 1 \in Whole => line + 1 <= line
    BY <1>4 DEF LineInv
  <2> QED
    BY <2>1, <2>2
<1>7. LastWhole(last) = line
  <2>1. last \in Nat /\ line \in Nat
    BY <1>6, Numbers
  <2>2. line = 0 \/ (line \in 1..last-1 /\ line \notin image.lost)
    BY <1>6 DEF LineInv, Whole
  <2>3. \A k \in 1..last-1 : k \notin image.lost => k <= line
    BY <1>4, Numbers DEF LineInv, Whole
  <2> QED
    BY <2>1, <2>2, <2>3, LastIs
<1>8. new = EntryOf(last, Len(image.data))
  BY <1>2, <1>7, Numbers DEF EntryOf, LineInv
<1>9. IndexInv'
  <2>1. index' \in [0..Slots-1 -> Entry]
    <3>1. linestart \in Nat /\ lineend + 1 \in Nat
      BY Locals, Numbers
    <3>2. new \in Entry
      BY <3>1 DEF Entry
    <3> QED
      BY <1>1, <3>2 DEF IndexInv
  <2> SUFFICES ASSUME NEW s \in 0..Slots-1
               PROVE  \/ /\ s + 1 \in Whole /\ image.ends[s + 1] <= Passed' + 1
                         /\ index'[s] = EntryOf(s + 1, image.ends[s + 1])
                      \/ /\ s = line
                         /\ index'[s] = EntryOf(Lines(image) + 1, Len(image.data))
                      \/ /\ ~(s + 1 \in Whole /\ image.ends[s + 1] <= Passed' + 1)
                         /\ s # line
                         /\ index'[s] = OldEntry
    BY <1>1, <2>1, SameImage DEF IndexInv
  <2>2. CASE s = line
    BY <1>1, <1>8, <2>2 DEF IndexInv
  <2>3. CASE s # line
    <3>1. index'[s] = index[s]
      BY <1>1, <2>3 DEF IndexInv
    <3>2. s + 1 \in Whole => image.ends[s + 1] <= Passed' + 1 /\ image.ends[s + 1] <= Passed + 1
      <4>1. Passed \in Nat /\ Passed' + 1 = Passed + 2
        BY <1>2, Numbers
      <4> QED
        BY <1>4, <4>1
    <3> QED
      BY <1>1, <2>3, <3>1, <3>2 DEF IndexInv
  <2> QED
    BY <2>2, <2>3
<1>10. LastInv'
  BY <1>1, <1>4, <1>7, SameImage DEF LastInv
<1> QED
  BY <1>3, <1>5, <1>9, <1>10

\* A restart marker closes the entry of its line.
LEMMA EndOfLineStep ==
  ASSUME ScanIInv, EndOfLine
  PROVE  ScanIInv'
<1> USE DEF ScanIInv
<1> DEFINE last == Lines(image) + 1
           new == [start_addr |-> linestart, end_addr |-> lineend + 1]
<1>1. /\ phase = "scan" /\ phase' = phase /\ IsRst /\ lineend' = lineend + 1 /\ image' = image
      /\ linestart' = lineend + 2 /\ line' = MarkedLine + 1
      /\ index' = [index EXCEPT ![MarkedLine] = new]
  BY DEF EndOfLine, WriteEntry
<1>2. PICK k \in Whole : /\ image.ends[k] = Passed + 2
                         /\ Mem(lineend + 1) = 208 + ((k - 1) % RstCount)
  BY <1>1, RstFacts
<1>3. /\ MarkedLine = k - 1 /\ line < k /\ LastWhole(k) = line
      /\ \A j \in Whole : image.ends[j] <= Passed + 2 <=> j <= k
  BY <1>1, <1>2, MarkedFacts
<1>4. Passed' = Passed + 1 /\ Passed \in Nat
  BY <1>1, Numbers DEF Passed
<1>5. k \in 1..last-1 /\ last <= Slots /\ last \in Nat /\ Slots \in Nat
  BY Numbers
<1>6. ScanInv'
  <2>1. image.ends[k] + 2 <= Len(image.data) /\ Len(image.data) \in Nat
    BY Numbers
  <2>2. Passed' + 2 <= Len(image.data)
    BY <1>2, <1>4, <2>1
  <2>3. lineend' \in Nat /\ lineend' >= Start
    BY <1>1, Numbers
  <2> QED
    BY <1>1, <2>2, <2>3 DEF ScanInv
<1>7. line' = k /\ linestart' = Start + image.ends[k]
  BY <1>1, <1>2, <1>3, <1>5, Numbers
<1>8. LineInv'
  <2>1. linestart' = Behind(k)
    BY <1>5, <1>7 DEF Behind
  <2>2. \A j \in Whole : image.ends[j] <= Passed' + 1 => j <= k
    BY <1>3, <1>4
  <2>3. image.ends[k] <= Passed' + 1
    BY <1>2, <1>4
  <2> QED
    BY <1>1, <1>7, <2>1, <2>2, <2>3, SameImage DEF LineInv
<1>9. new = EntryOf(k, image.ends[k])
  BY <1>2, <1>3, Numbers DEF EntryOf, LineInv
<1>10. IndexInv'
  <2>1. index' \in [0..Slots-1 -> Entry]
    <3>1. linestart \in Nat /\ lineend + 1 \in Nat
      BY Locals, Numbers
    <3>2. new \in Entry
      BY <3>1 DEF Entry
    <3> QED
      BY <1>1, <3>2 DEF IndexInv
  <2> SUFFICES ASSUME NEW s \in 0..Slots-1
               PROVE  \/ /\ s + 1 \in Whole /\ image.ends[s + 1] <= Passed' + 1
                         /\ index'[s] = EntryOf(s + 1, image.ends[s + 1])
                      \/ /\ ~(s + 1 \in Whole /\ image.ends[s + 1] <= Passed' + 1)
                         /\ index'[s] = OldEntry
    BY <1>1, <2>1, SameImage DEF IndexInv
  <2>2. CASE s = k - 1
    <3>1. s + 1 = k /\ index'[s] = new
      BY <1>1, <1>3, <1>5, <2>2 DEF IndexInv
    <3> QED
      BY <1>2, <1>4, <1>9, <3>1
  <2>3. CASE s # k - 1
    <3>1. index'[s] = index[s]
      BY <1>1, <1>3, <2>3 DEF IndexInv
    <3>2. s + 1 \in Whole =>
            (image.ends[s + 1] <= Passed' + 1 <=> image.ends[s + 1] <= Passed + 1)
      <4> SUFFICES ASSUME s + 1 \in Whole
                   PROVE  image.ends[s + 1] <= Passed + 2 <=> image.ends[s + 1] <= Passed + 1
        BY <1>4
      <4>1. s + 1 <= k => image.ends[s + 1] + 2 <= image.ends[k]
        <5>1. s + 1 \in 1..last /\ k \in 1..last /\ s + 1 # k
          BY <1>5, <2>3, Numbers
        <5>2. \A i, j \in 1..last : i < j => image.ends[i] + 2 <= image.ends[j]
          BY Numbers
        <5>3. s + 1 < k => image.ends[s + 1] + 2 <= image.ends[k]
          BY <5>1, <5>2
        <5> QED
          BY <5>1, <5>3
      <4>2. image.ends[s + 1] \in Nat
        BY Numbers
      <4> QED
        BY <1>2, <1>3, <1>4, <4>1, <4>2
    <3> QED
      BY <1>1, <3>1, <3>2 DEF IndexInv
  <2> QED
    BY <2>2, <2>3
<1>11. LastInv'
  <2> SUFFICES ASSUME NEW j \in Whole, image.ends[j] <= Passed + 2
               PROVE  LastWhole(j) \in Whole \cup {0} /\ LastWhole(j) < j
    BY <1>1, <1>4, SameImage DEF LastInv
  <2>1. CASE j = k
    BY <1>3, <2>1 DEF LineInv
  <2>2. CASE j # k
    <3>1. j \in 1..last-1 /\ j < k
      BY <1>3, <1>5, <2>2, Numbers
    <3>2. \A i, m \in 1..last : i < m => image.ends[i] + 2 <= image.ends[m]
      BY Numbers
    <3>3. image.ends[j] + 2 <= image.ends[k]
      BY <1>5, <3>1, <3>2
    <3>4. image.ends[j] \in Nat
      BY Numbers
    <3>5. image.ends[j] <= Passed + 1
      BY <1>2, <1>4, <3>3, <3>4
    <3> QED
      BY <3>5 DEF LastInv
  <2> QED
    BY <2>1, <2>2
<1> QED
  BY <1>6, <1>8, <1>10, <1>11

LEMMA ScanNextInv == ScanIInv /\ [IndexNext]_indexVars => ScanIInv'
<1> SUFFICES ASSUME ScanIInv, [IndexNext]_indexVars PROVE ScanIInv'
  OBVIOUS
<1>1. CASE EndOfImage
  BY <1>1, EndOfImageStep
<1>2. CASE EndOfLine
  BY <1>2, EndOfLineStep
<1>3. CASE NoMarker
  BY <1>3, NoMarkerStep
<1>4. CASE UNCHANGED indexVars
  <2>1. UNCHANGED <<image, phase, lineend, linestart, line, index>>
    BY <1>4 DEF indexVars
  <2>2. Passed' = Passed
    BY <2>1 DEF Passed
  <2> QED
    BY <2>1, <2>2, SameImage DEF ScanIInv, ScanInv, LineInv, IndexInv, LastInv
<1> QED
  BY <1>1, <1>2, <1>3, <1>4 DEF IndexNext

LEMMA ScanInvariance == IndexSpec => []ScanIInv
  BY ScanInitInv, ScanNextInv, PTL DEF IndexSpec

-----------------------------------------------------------------------------
(* LineIndex: theorems *)

\* The locals of generateLineIndex and the entries it writes are of their types,
\* and no entry is written behind the last slot, for every image.
THEOREM IndexTypeCorrect == IndexSpec => []IndexTypeOK
<1>1. ScanIInv => IndexTypeOK
  <2> SUFFICES ASSUME ScanIInv PROVE IndexTypeOK
    OBVIOUS
  <2> USE DEF ScanIInv
  <2>1. phase \in {"scan", "done"} /\ lineend \in Nat /\ linestart \in Nat /\ line \in 0..Slots-1
    BY Locals DEF ScanInv
  <2> QED
    BY <2>1 DEF IndexTypeOK, IndexInv
<1> QED
  BY <1>1, ScanInvariance, PTL

\* Whatever markers an image has lost, only the slots of its whole lines and the one
\* that the end marker closes are written.
THEOREM WholeLinesOnly == IndexSpec => []OnlyWholeLines
<1>1. ScanIInv => OnlyWholeLines
  <2> SUFFICES ASSUME ScanIInv, NEW s \in 0..Slots-1, index[s] # OldEntry
               PROVE  s + 1 \in Whole \/ s = LastWhole(Lines(image) + 1)
    BY DEF OnlyWholeLines, Whole
  <2> QED
    BY DEF ScanIInv, IndexInv, LastInv
<1> QED
  BY <1>1, ScanInvariance, PTL

\* An entry from behind line p up to byte e of the image gives just these bytes.
LEMMA ReadExact ==
  ASSUME ScanInv, NEW s, NEW p \in Whole \cup {0}, NEW e \in 0..Len(image.data),
         p # 0 => image.ends[p] <= e,
         index[s] = [start_addr |-> Behind(p), end_addr |-> Start + e - 1]
  PROVE  readLineFromSPI(s) = SubSeq(image.data, IF p = 0 THEN 1 ELSE image.ends[p] + 1, e)
<1> DEFINE q == IF p = 0 THEN 0 ELSE image.ends[p]
<1>1. /\ q \in Nat /\ q <= e /\ Start \in Nat /\ e \in Nat
      /\ Len(image.data) \in Nat /\ e <= Len(image.data)
  BY Numbers
<1>2. Behind(p) = Start + q /\ index[s].start_addr = Start + q
  BY DEF Behind
<1>3. readLineLength(s) = e - q
  BY <1>1, <1>2 DEF readLineLength
<1> HIDE DEF q
<1>4. \A i \in 1..e-q : Mem(Start + q + i - 1) = image.data[q + i]
  <2> SUFFICES ASSUME NEW i \in 1..e-q PROVE Mem(Start + q + i - 1) = image.data[q + i]
    OBVIOUS
  <2>1. q + i \in 1..Len(image.data) /\ (Start + q + i - 1) - Start + 1 = q + i
    BY <1>1
  <2> QED
    BY <2>1 DEF Mem
<1> DEFINE from == IF p = 0 THEN 1 ELSE image.ends[p] + 1
           read == [i \in 1..e-q |-> image.data[q + i]]
<1>5. readLineFromSPI(s) = read
  BY <1>2, <1>3, <1>4 DEF readLineFromSPI
<1>6. from = q + 1 /\ from \in Int
  BY <1>1 DEF q
<1> HIDE DEF from
<1>7. \A i \in from..e : image.data[i] \in 0..255
  <2>1. \A i \in 1..Len(image.data) : image.data[i] \in 0..255
    BY ImageFacts DEF ScanInv
  <2> SUFFICES ASSUME NEW i \in from..e PROVE i \in 1..Len(image.data)
    BY <2>1
  <2> QED
    BY <1>1, <1>6
<1>8. /\ SubSeq(image.data, from, e) \in Seq(0..255)
      /\ Len(SubSeq(image.data, from, e)) = e - q
      /\ \A i \in 1..e-q : SubSeq(image.data, from, e)[i] = image.data[q + i]
  <2>1. e \in Int /\ e - from + 1 = e - q
    BY <1>1, <1>6
  <2>2. /\ SubSeq(image.data, from, e) \in Seq(0..255)
        /\ Len(SubSeq(image.data, from, e)) = IF from <= e THEN e - from + 1 ELSE 0
        /\ \A i \in 1..e-from+1 : SubSeq(image.data, from, e)[i] = image.data[from + i - 1]
    BY <1>6, <1>7, <2>1, SubSeqProperties
  <2>3. \A i \in 1..e-q : from + i - 1 = q + i
    BY <1>1, <1>6
  <2>4. (IF from <= e THEN e - from + 1 ELSE 0) = e - q
    BY <1>1, <1>6
  <2> QED
    BY <2>1, <2>2, <2>3, <2>4
<1>9. read \in Seq(0..255) /\ Len(read) = e - q
  <2>1. e - q \in Nat
    BY <1>1
  <2>2. \A i \in 1..e-q : image.data[q + i] \in 0..255
    BY <1>1, <1>6, <1>7
  <2>3. read \in [1..e-q -> 0..255]
    BY <2>2
  <2>4. read \in Seq(0..255)
    <3>1. read \in UNION {[1..n -> 0..255] : n \in Nat}
      BY <2>1, <2>3
    <3>2. Seq(0..255) = UNION {[1..n -> 0..255] : n \in Nat}
      BY SeqDef
    <3> QED
      BY <3>1, <3>2
  <2>5. DOMAIN read = 1..e-q /\ DOMAIN read = 1..Len(read) /\ Len(read) \in Nat
    BY <2>3, <2>4, LenProperties
  <2> QED
    BY <2>1, <2>4, <2>5
<1>10. SubSeq(image.data, from, e) = read
  BY <1>8, <1>9, SeqEqual
<1> QED
  BY <1>5, <1>10 DEF from

\* After the scan each whole line, and what follows the last one, is read by its own
\* number and with its exact bytes, whatever markers were lost before it.
THEOREM LinesFound == IndexSpec => []IndexRight
<1>1. ScanIInv => IndexRight
  <2> SUFFICES ASSUME ScanIInv, phase = "done" PROVE IndexRight
    BY DEF IndexRight
  <2> USE DEF ScanIInv
  <2> DEFINE last == Lines(image) + 1
  <2>1. /\ last \in Nat /\ last >= 1 /\ last <= Slots /\ Start \in Nat /\ Slots \in Nat
        /\ Whole \subseteq 1..last-1 /\ Lines(image) = last - 1
        /\ image.ends[last] = Len(image.data) /\ Len(image.data) = Passed + 1
        /\ Passed \in Nat
    BY Numbers DEF ScanInv
  <2>2. \A k \in Whole : image.ends[k] \in 0..Len(image.data) /\ image.ends[k] <= Passed + 1
    <3> TAKE k \in Whole
    <3>1. image.ends[k] \in Nat /\ image.ends[k] + 2 <= Len(image.data)
      BY Numbers
    <3> QED
      BY <2>1, <3>1
  <2>3. ASSUME NEW l \in Whole
        PROVE  readLineFromSPI(l - 1) = Between(LastWhole(l), l)
    <3> DEFINE p == LastWhole(l)
    <3>1. p \in Whole \cup {0} /\ p < l
      BY <2>2 DEF LastInv
    <3> HIDE DEF p
    <3>2. p # 0 => image.ends[p] <= image.ends[l]
      <4>1. \A j, k \in 1..last : j < k => image.ends[j] + 2 <= image.ends[k]
        BY Numbers
      <4>2. p # 0 => image.ends[p] + 2 <= image.ends[l] /\ image.ends[p] \in Nat
        <5> SUFFICES ASSUME p # 0 PROVE image.ends[p] + 2 <= image.ends[l] /\ image.ends[p] \in Nat
          OBVIOUS
        <5>1. p \in 1..last /\ l \in 1..last /\ p < l /\ p \in Whole
          BY <2>1, <3>1
        <5> QED
          BY <2>1, <2>2, <4>1, <5>1
      <4> QED
        BY <2>2, <4>2
    <3>3. l - 1 \in 0..Slots-1 /\ (l - 1) + 1 = l
      BY <2>1
    <3>4. index[l - 1] = EntryOf(l, image.ends[l])
      <4>1. l - 1 # line
        <5>1. l <= line /\ line \in Nat
          BY <2>2, Locals DEF LineInv
        <5> QED
          BY <2>1, <5>1
      <4> QED
        BY <2>2, <3>3, <4>1 DEF IndexInv, LineInv
    <3> QED
      BY <2>2, <3>1, <3>2, <3>4, ReadExact DEF Between, EntryOf, p
  <2>4. readLineFromSPI(LastWhole(last)) = Between(LastWhole(last), last)
    <3>1. LastWhole(last) = line /\ line \in Whole \cup {0} /\ line \in 0..Slots-1
      BY Locals DEF LastInv, LineInv
    <3>2. index[line] = EntryOf(last, Len(image.data))
      <4>1. line + 1 \notin Whole
        BY <2>2, <3>1 DEF LineInv
      <4> QED
        BY <3>1, <4>1 DEF IndexInv
    <3>3. line # 0 => image.ends[line] <= Len(image.data)
      BY <2>2, <3>1
    <3>4. index[line] = [start_addr |-> Behind(line), end_addr |-> Start + Len(image.data) - 1]
      BY <3>1, <3>2 DEF EntryOf
    <3>5. Len(image.data) \in 0..Len(image.data)
      BY <2>1
    <3>6. readLineFromSPI(line)
            = SubSeq(image.data, IF line = 0 THEN 1 ELSE image.ends[line] + 1, Len(image.data))
      BY <3>1, <3>3, <3>4, <3>5, ReadExact
    <3> QED
      BY <2>1, <3>1, <3>6 DEF Between
  <2> QED
    BY <2>3, <2>4 DEF IndexRight, Whole
<1> QED
  BY <1>1, ScanInvariance, PTL

=============================================================================
