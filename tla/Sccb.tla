-------------------------------- MODULE Sccb --------------------------------
(***************************************************************************)
(* The SCCB bus between the board and the camera (camera_iface.c): the     *)
(* cycles are programs of operations on the pads of the clock SCL and the  *)
(* data line SDA, carried out one by one; the camera decodes the edges.    *)
(*                                                                         *)
(* The pad of SDA is made an input for the ninth bit of a byte and an      *)
(* output again while SCL is still high.  If the camera acknowledges (0)   *)
(* and the last bit was 1, both drive the line, and its level is whichever *)
(* wins.  A line nobody drives is pulled up.  Delays are left out.         *)
(***************************************************************************)
EXTENDS Integers, SequencesExt

CONSTANTS
  W,          \* bits in a byte (8)
  AddrW,      \* CAM_ADDR_W, bits from the most significant: 0 is the last one
  AddrR,      \* CAM_ADDR_R: the last one is 1
  Calls,      \* the cycles asked for: [op, reg, value]
  NoCall,
  Reset       \* what the registers hold at first

Byte == [1..W -> {0, 1}]
Ones == [i \in 1..W |-> 1]

ASSUME SccbAssumption ==
  /\ NoCall \notin Calls
  /\ W \in Nat \ {0} /\ AddrW \in Byte /\ AddrR = [AddrW EXCEPT ![W] = 1] /\ AddrW[W] = 0
  /\ \A c \in Calls : c.op \in {"read", "write"} /\ c.reg \in DOMAIN Reset /\ c.value \in Byte
  /\ DOMAIN Reset \subseteq Byte /\ Reset \in [DOMAIN Reset -> Byte]

VARIABLES
  call, todo,          \* the cycle under way and the operations it has left
  byte, result,        \* the bits sampled, and what the last read cycle returned
  scl, out, mode, sda, \* SCL; SDA: the pad's output bit and mode, the level
  camera,              \* the camera's decoder: [st, bits, ack]
  drive,               \* 0: the camera pulls SDA low
  ptr, regs,           \* its register address and registers
  stored, disputed     \* of this cycle: the write is done; the board won a dispute

boardVars == <<call, todo, byte, result>>
lineVars == <<scl, out, mode, sda>>
decoderVars == <<camera, drive, ptr, regs, stored>>
busVars == <<boardVars, lineVars, decoderVars, disputed>>

-----------------------------------------------------------------------------
(* The cycles *)

startCondition == << <<"SDA", 1>>, <<"SCL", 1>>, <<"SDA", 0>>, <<"SCL", 0>> >>

stopNoRelease ==                                   \* mutant: SDA is not raised at the end
  << <<"SDA", 0>>, <<"SCL", 0>>, <<"SCL", 1>> >>

stopCondition == << <<"SDA", 0>>, <<"SCL", 0>>, <<"SCL", 1>>, <<"SDA", 1>> >>

idleState == << <<"SCL", 1>>, <<"SDA", 1>> >>

writeByteNoNinth(b) ==                             \* mutant: eight clocks only
  FlattenSeq([i \in 1..W |-> << <<"SCL", 0>>, <<"SDA", b[i]>>, <<"SCL", 1>> >>])

writeByte(b) ==
  FlattenSeq([i \in 1..W |-> << <<"SCL", 0>>, <<"SDA", b[i]>>, <<"SCL", 1>> >>])
    \o << <<"SCL", 0>>, <<"input", 0>>, <<"SCL", 1>>, <<"pushpull", 0>> >>

readByteTwice ==                                   \* mutant: samples after each edge
  << <<"input", 0>> >>
    \o FlattenSeq([i \in 1..W |->
                     << <<"SCL", 0>>, <<"sample", 0>>, <<"SCL", 1>>, <<"sample", 0>> >>])
    \o << <<"SCL", 0>>, <<"pushpull", 0>>, <<"SDA", 1>>, <<"SCL", 1>>, <<"opendrain", 0>> >>

readByte ==
  << <<"input", 0>> >>
    \o FlattenSeq([i \in 1..W |-> << <<"SCL", 0>>, <<"SCL", 1>>, <<"sample", 0>> >>])
    \o << <<"SCL", 0>>, <<"pushpull", 0>>, <<"SDA", 1>>, <<"SCL", 1>>, <<"opendrain", 0>> >>

cameraReadCycle(reg) ==
  startCondition \o writeByte(AddrW) \o writeByte(reg) \o stopCondition \o idleState
    \o startCondition \o writeByte(AddrR) \o readByte \o stopCondition

cameraWriteCycle(reg, value) ==
  startCondition \o writeByte(AddrW) \o writeByte(reg) \o writeByte(value) \o stopCondition

-----------------------------------------------------------------------------
(* The decoder of the camera *)

Receives == {"address", "register", "value"}

\* SDA changing while SCL is high.
OnStart == camera' = [st |-> "address", bits |-> << >>, ack |-> "no"] /\ drive' = 1
OnStop == camera' = [st |-> "idle", bits |-> << >>, ack |-> "no"] /\ drive' = 1

\* SCL rising: a bit is taken.
OnRise ==
  camera' = IF camera.st \in Receives /\ camera.ack = "no" /\ Len(camera.bits) < W
              THEN [camera EXCEPT !.bits = Append(@, sda)] ELSE camera

\* SCL falling: after the last bit of a byte, the acknowledgement; after that, or
\* after a bit sent, the next bit.
Acknowledge(next) == camera' = [st |-> next, bits |-> << >>, ack |-> "yes"] /\ drive' = 0

OnFall ==
  \/ /\ camera.st \in Receives /\ Len(camera.bits) = W
     /\ CASE camera.st = "address" /\ camera.bits = AddrW ->
               Acknowledge("register") /\ UNCHANGED <<ptr, regs, stored>>
          [] camera.st = "address" /\ camera.bits = AddrR ->
               Acknowledge("send") /\ UNCHANGED <<ptr, regs, stored>>
          [] camera.st = "address" /\ camera.bits \notin {AddrW, AddrR} ->
               OnStop /\ UNCHANGED <<ptr, regs, stored>>
          [] camera.st = "register" ->
               Acknowledge("value") /\ ptr' = camera.bits /\ UNCHANGED <<regs, stored>>
          [] camera.st = "value" ->
               /\ Acknowledge("value") /\ UNCHANGED ptr
               /\ regs' = IF ptr \in DOMAIN regs THEN [regs EXCEPT ![ptr] = camera.bits] ELSE regs
               /\ stored' = "yes"
  \/ /\ camera.st = "send" /\ Len(camera.bits) < W /\ ptr \in DOMAIN regs
     /\ LET bit == regs[ptr][Len(camera.bits) + 1] IN
        camera' = [camera EXCEPT !.ack = "no", !.bits = Append(@, bit)] /\ drive' = bit
     /\ UNCHANGED <<ptr, regs, stored>>
  \/ /\ camera.st = "send" /\ (Len(camera.bits) = W \/ ptr \notin DOMAIN regs)
     /\ OnStop /\ UNCHANGED <<ptr, regs, stored>>
  \/ /\ camera.st \notin {"send"} /\ (camera.st \in Receives => Len(camera.bits) < W)
     /\ camera' = [camera EXCEPT !.ack = "no"] /\ drive' = 1
     /\ UNCHANGED <<ptr, regs, stored>>

-----------------------------------------------------------------------------
(* The pads *)

Disputed(m, o, d) == m = "pushpull" /\ o = 1 /\ d = 0

Levels(m, o, d) ==
  IF Disputed(m, o, d) THEN {0, 1}
  ELSE IF m = "input" \/ o = 1 THEN {d}
  ELSE {0}

\* The operation is done; SDA settles.
Step == call # NoCall /\ todo # << >> /\ todo' = Tail(todo) /\ UNCHANGED call

palWriteSCL ==
  /\ Step /\ Head(todo)[1] = "SCL"
  /\ scl' = Head(todo)[2]
  /\ CASE scl = 1 /\ scl' = 0 -> OnFall /\ sda' \in Levels(mode, out, drive')
       [] scl = 0 /\ scl' = 1 -> OnRise /\ UNCHANGED <<sda, drive, ptr, regs, stored>>
       [] scl = scl'          -> UNCHANGED <<sda, decoderVars>>
  /\ UNCHANGED <<byte, result, out, mode, disputed>>

SdaChanges ==
  /\ sda' \in Levels(mode', out', drive)
  /\ CASE scl = 1 /\ sda = 1 /\ sda' = 0 -> OnStart
       [] scl = 1 /\ sda = 0 /\ sda' = 1 -> OnStop
       [] OTHER -> UNCHANGED <<camera, drive>>
  /\ disputed' = IF scl = 1 /\ sda' = 1 /\ Disputed(mode', out', drive) THEN "yes" ELSE disputed
  /\ UNCHANGED <<ptr, regs, stored>>

palWriteSDA ==
  /\ Step /\ Head(todo)[1] = "SDA"
  /\ out' = Head(todo)[2] /\ UNCHANGED mode
  /\ SdaChanges
  /\ UNCHANGED <<byte, result, scl>>

palSetPadMode ==
  /\ Step /\ Head(todo)[1] \in {"input", "pushpull", "opendrain"}
  /\ mode' = Head(todo)[1] /\ UNCHANGED out
  /\ SdaChanges
  /\ UNCHANGED <<byte, result, scl>>

palReadPad ==
  /\ Step /\ Head(todo)[1] = "sample"
  /\ byte' = Append(byte, sda)
  /\ UNCHANGED <<result, lineVars, decoderVars, disputed>>

BeginCycle ==
  /\ call = NoCall
  /\ call' \in Calls
  /\ todo' = IF call'.op = "read" THEN cameraReadCycle(call'.reg)
                                  ELSE cameraWriteCycle(call'.reg, call'.value)
  /\ byte' = << >> /\ stored' = "no" /\ disputed' = "no"
  /\ UNCHANGED <<result, lineVars, camera, drive, ptr, regs>>

Return ==
  /\ call # NoCall /\ todo = << >>
  /\ call' = NoCall
  /\ result' = IF call.op = "read" THEN byte ELSE result
  /\ UNCHANGED <<todo, byte, lineVars, decoderVars, disputed>>

\* setupSCCB: both pads are outputs, and low.
BusInit ==
  /\ call = NoCall /\ todo = << >> /\ byte = << >> /\ result = Ones
  /\ scl = 0 /\ out = 0 /\ mode = "pushpull" /\ sda = 0
  /\ camera = [st |-> "idle", bits |-> << >>, ack |-> "no"] /\ drive = 1
  /\ ptr = Ones /\ regs = Reset /\ stored = "no" /\ disputed = "no"

BusNext ==
  \/ BeginCycle \/ palWriteSCL \/ palWriteSDA \/ palSetPadMode \/ palReadPad \/ Return

BusSpec == BusInit /\ [][BusNext]_busVars

-----------------------------------------------------------------------------
(* Properties *)

BusTypeOK ==
  /\ call \in Calls \cup {NoCall}
  /\ byte \in BoundedSeq({0, 1}, W) /\ result \in Byte
  /\ scl \in {0, 1} /\ out \in {0, 1} /\ sda \in {0, 1} /\ drive \in {0, 1}
  /\ mode \in {"input", "pushpull", "opendrain"}
  /\ camera \in [st : Receives \cup {"idle", "send"}, bits : BoundedSeq({0, 1}, W),
                 ack : {"no", "yes"}]
  /\ ptr \in Byte /\ regs \in [DOMAIN Reset -> Byte]
  /\ stored \in {"no", "yes"} /\ disputed \in {"no", "yes"}

\* Between cycles the camera waits for a start condition and has let go of SDA, also
\* after a dispute that made it lose its place: no cycle is decoded in the middle of
\* another.
BusFree == call = NoCall => camera.st = "idle" /\ drive = 1

\* The cycles are the accesses to a register file that their callers take them for,
\* up to cycles lost in a dispute, which the callers find by reading back.
Registers == INSTANCE CameraRegisters WITH Released <- Ones
ImplementsRegisters == Registers!RegSpec

=============================================================================
