---------------------------- MODULE FlashMemory ----------------------------
(***************************************************************************)
(* What "all functions are thread safe" (spi_flash.h) means: between the   *)
(* call and the return of a function there is one moment at which all of   *)
(* its access to the MRAM happens.  A write that runs past the last cell   *)
(* goes on at cell 0, as it does in the MRAM; that flashWriteBytes should  *)
(* write nothing then (spi_flash.h) is OverrunRefused in SpiFlash.         *)
(***************************************************************************)
EXTENDS FlashRequests

CONSTANT Threads

VARIABLES
  mem,        \* the MRAM
  status,     \* by thread: "idle", "called" or "done"
  req, buf    \* by thread: its request and the bytes in its buffer

\* flashWriteBytes is for two bytes or more, below FLASH_HIGH_ADDR.
Ignored(r) == r.op = "flashWriteBytes" /\ (r.n < 2 \/ r.addr + r.n > HighAddr)

memVars == <<mem, status, req, buf>>

MemInit ==
  /\ mem \in [0..MemSize-1 -> Byte]
  /\ status = [t \in Threads |-> "idle"]
  /\ req \in [Threads -> Requests]
  /\ buf = [t \in Threads |-> req[t].data]

Call(t) ==
  /\ status[t] = "idle"
  /\ status' = [status EXCEPT ![t] = "called"]
  /\ \E r \in Requests :
       req' = [req EXCEPT ![t] = r] /\ buf' = [buf EXCEPT ![t] = r.data]
  /\ UNCHANGED mem

Access(t) ==
  /\ status[t] = "called"
  /\ status' = [status EXCEPT ![t] = "done"]
  /\ IF Ignored(req[t]) THEN UNCHANGED <<mem, buf>>
     ELSE IF Writes(req[t]) THEN mem' = Stored(mem, req[t]) /\ UNCHANGED buf
     ELSE buf' = [buf EXCEPT ![t] = Loaded(mem, req[t])] /\ UNCHANGED mem
  /\ UNCHANGED req

Return(t) ==
  /\ status[t] = "done"
  /\ status' = [status EXCEPT ![t] = "idle"]
  /\ UNCHANGED <<mem, req, buf>>

MemNext == \E t \in Threads : Call(t) \/ Access(t) \/ Return(t)

MemSpec == MemInit /\ [][MemNext]_memVars

=============================================================================
