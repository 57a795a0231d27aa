------------------------------ MODULE SpiFlash ------------------------------
(***************************************************************************)
(* flashWriteByte, flashWriteBytes, flashReadByte and flashReadBytes       *)
(* (spi_flash.c) called by several threads: the mutex of the SPI bus, the  *)
(* frames in which the MRAM gets its commands, its write enable latch, and *)
(* the transfer of the data byte by byte.  Every wait of a call, for the   *)
(* mutex, for 400 microseconds or for the end of a transfer, lets other    *)
(* threads run; flashWake and flashSleep send nothing.                     *)
(***************************************************************************)
EXTENDS FlashRequests, BusLock

VARIABLES
  pc, req, buf,   \* by thread: control point, request, the caller's buffer
  count,          \* by thread: bytes transferred so far
  mem,            \* the MRAM
  wel,            \* its write enable latch
  frame, ptr      \* the command of the frame that NSS holds open, its address

threadVars == <<pc, req, buf, count>>
deviceVars == <<mem, wel, frame, ptr>>
vars == <<threadVars, deviceVars, lockVars>>

Inside == {"enable", "open", "data", "disable", "release"}

TypeOK ==
  /\ LockTypeOK
  /\ pc \in [Threads -> {"idle", "called", "queued", "done"} \cup Inside]
  /\ req \in [Threads -> Requests]
  /\ DOMAIN buf = Threads
  /\ \A t \in Threads : buf[t] \in [0..req[t].n-1 -> Byte] /\ count[t] \in 0..req[t].n
  /\ DOMAIN count = Threads
  /\ mem \in [0..MemSize-1 -> Byte]
  /\ wel \in {"clear", "set"}
  /\ frame \in {"none", "READ", "WRITE"} /\ ptr \in 0..MemSize-1

Init ==
  /\ LockInit
  /\ pc = [t \in Threads |-> "idle"]
  /\ req \in [Threads -> Requests]
  /\ buf = [t \in Threads |-> req[t].data]
  /\ count = [t \in Threads |-> 0]
  /\ mem \in [0..MemSize-1 -> Byte]
  /\ wel = "clear" /\ frame = "none" /\ ptr = 0

-----------------------------------------------------------------------------
Goto(t, from, to) == pc[t] = from /\ pc' = [pc EXCEPT ![t] = to]

Call(t) ==
  /\ Goto(t, "idle", "called")
  /\ \E r \in Requests :
       req' = [req EXCEPT ![t] = r] /\ buf' = [buf EXCEPT ![t] = r.data]
  /\ count' = [count EXCEPT ![t] = 0]
  /\ UNCHANGED <<deviceVars, lockVars>>

\* "Prevent overflow": flashWriteBytes returns at once.
Refused(r) == r.op = "flashWriteBytes" /\ (r.n > HighAddr - r.addr \/ r.n < 2)

Refuse(t) ==
  /\ Refused(req[t])
  /\ Goto(t, "called", "done")
  /\ UNCHANGED <<req, buf, count, deviceVars, lockVars>>

\* A call that writes begins with a frame of its own for the write enable.
First(t) == IF Writes(req[t]) THEN "enable" ELSE "open"

spiAcquireBus(t) ==
  /\ ~Refused(req[t])
  /\ \/ Acquire(t) /\ Goto(t, "called", First(t))
     \/ Wait(t) /\ Goto(t, "called", "queued")
     \/ holder = t /\ Goto(t, "queued", First(t)) /\ UNCHANGED lockVars
  /\ UNCHANGED <<req, buf, count, deviceVars>>

WriteEnable(t) ==
  /\ Goto(t, "enable", "open")
  /\ wel' = "set"
  /\ UNCHANGED <<req, buf, count, mem, frame, ptr, lockVars>>

\* The three bytes of the address that are sent: 17 of its bits.
flash_addrUncut(r) == r.addr % HighAddr            \* mutant: 20 bits are sent

flash_addr(r) == r.addr % MemSize

\* spiSelect, the command and the three bytes of the address.
OpenFrame(t) ==
  /\ Goto(t, "open", "data")
  /\ frame' = IF Writes(req[t]) THEN "WRITE" ELSE "READ"
  /\ ptr' = flash_addr(req[t])
  /\ UNCHANGED <<req, buf, count, mem, wel, lockVars>>

\* One byte of spiSend or spiReceive.
Transfer(t) ==
  /\ pc[t] = "data" /\ count[t] < req[t].n
  /\ IF Writes(req[t])
       THEN /\ mem' = IF frame = "WRITE" /\ wel = "set"
                        THEN [mem EXCEPT ![ptr] = buf[t][count[t]]] ELSE mem
            /\ UNCHANGED buf
       ELSE buf' = [buf EXCEPT ![t][count[t]] = mem[ptr]] /\ UNCHANGED mem
  /\ ptr' = (ptr + 1) % MemSize
  /\ count' = [count EXCEPT ![t] = @ + 1]
  /\ UNCHANGED <<pc, req, wel, frame, lockVars>>

CloseFrameShort(t) ==                              \* mutant: NSS rises a byte early
  /\ count[t] >= req[t].n - 1
  /\ Goto(t, "data", IF Writes(req[t]) THEN "disable" ELSE "release")
  /\ frame' = "none"
  /\ UNCHANGED <<req, buf, count, mem, wel, ptr, lockVars>>

CloseFrame(t) ==
  /\ count[t] = req[t].n
  /\ Goto(t, "data", IF Writes(req[t]) THEN "disable" ELSE "release")
  /\ frame' = "none"
  /\ UNCHANGED <<req, buf, count, mem, wel, ptr, lockVars>>

NoWriteDisable(t) ==                               \* mutant: the latch stays set
  /\ Goto(t, "disable", "release")
  /\ UNCHANGED <<req, buf, count, deviceVars, lockVars>>

WriteDisable(t) ==
  /\ Goto(t, "disable", "release")
  /\ wel' = "clear"
  /\ UNCHANGED <<req, buf, count, mem, frame, ptr, lockVars>>

spiReleaseBus(t) ==
  /\ Release(t)
  /\ Goto(t, "release", "done")
  /\ UNCHANGED <<req, buf, count, deviceVars>>

Return(t) ==
  /\ Goto(t, "done", "idle")
  /\ UNCHANGED <<req, buf, count, deviceVars, lockVars>>

Proceed(t) ==
  \/ Refuse(t) \/ spiAcquireBus(t) \/ WriteEnable(t) \/ OpenFrame(t) \/ Transfer(t)
  \/ CloseFrame(t) \/ WriteDisable(t) \/ spiReleaseBus(t) \/ Return(t)

Next == \E t \in Threads : Call(t) \/ Proceed(t)

Spec == Init /\ [][Next]_vars

(* A thread inside a call is scheduled again after each of its waits. *)
FairSpec == Spec /\ \A t \in Threads : WF_vars(Proceed(t))

-----------------------------------------------------------------------------
(* Properties *)

\* The calls implement atomic accesses.  The moment of a call is when its address
\* has been sent: from there on the bytes of a write still under way count as
\* written, and those of a read as read.
Accessing(t) == pc[t] = "data"

atomicMem == IF frame = "WRITE" THEN Stored(mem, req[holder]) ELSE mem
atomicBuf ==
  [t \in Threads |-> IF Accessing(t) /\ ~Writes(req[t]) THEN Loaded(mem, req[t]) ELSE buf[t]]
atomicStatus ==
  [t \in Threads |->
     CASE pc[t] = "idle" -> "idle"
       [] pc[t] \in {"called", "queued", "enable", "open"} -> "called"
       [] OTHER -> "done"]

Atomic == INSTANCE FlashMemory WITH mem <- atomicMem, buf <- atomicBuf, status <- atomicStatus

ImplementsMemory == Atomic!MemSpec

\* Between the calls the MRAM is deaf to stray bytes: no frame is open and the
\* write enable latch is clear, so that a call never works in a frame or on a
\* latch that another one left.
QuietWhenFree ==
  /\ holder = NoThread \/ pc[holder] = "queued" => frame = "none" /\ wel = "clear"
  /\ wel = "set" => holder # NoThread /\ Writes(req[holder])

\* Every call returns, also against threads that call again and again: the bus is
\* handed to the thread that waits.
EveryCallReturns == \A t \in Threads : pc[t] = "called" ~> pc[t] = "idle"

\* flashWriteBytes returns without writing anything if addr + n is greater than the
\* highest addressable byte (spi_flash.h); the MRAM uses 17 address bits.
Overruns(r) == r.op = "flashWriteBytes" /\ r.addr + r.n > MemSize

OverrunRefused == [][mem' # mem => ~Overruns(req[holder])]_mem

=============================================================================
