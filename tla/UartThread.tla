----------------------------- MODULE UartThread -----------------------------
(***************************************************************************)
(* UART_Thread (uart_iface.c) over the serial driver, with the IHU line    *)
(* and the camera thread's two status flags as its environment.            *)
(*                                                                         *)
(* The thread waits for a driver event, reads a 6-byte command with        *)
(* blocking reads, checks it, and queues a reply without blocking.  A byte *)
(* of a command is one of a few symbols: the two version bytes, a build    *)
(* byte, a command letter or line noise.  A reply byte has no content; a   *)
(* reply is the sequence of the lengths given to sdAsynchronousWrite.      *)
(***************************************************************************)
EXTENDS SerialDriver, CameraFlags

CONSTANTS
  Cmds,          \* command letters the IHU sends; only "R" and "T" are known
  LineLens,      \* values readLineFromSPI may return (uint16_t, 0 included)
  LenField,      \* 2^10: the length field of the data header (0x3FF + 1)
  PayloadMax,    \* size of lineData
  MaxCmds,       \* bound: commands the IHU sends
  MaxErrors,     \* bound: bytes damaged or lost on the line, in the first MaxErrors commands
  IhuEarly       \* TRUE: the IHU may send before the thread has registered

ASSUME UartAssumption ==
  /\ LineLens \subseteq 0..PayloadMax
  /\ PayloadMax \in Nat
  /\ LenField \in Nat \ {0}
  /\ MaxCmds \in Nat /\ MaxErrors \in Nat
  /\ IhuEarly \in BOOLEAN
  /\ {"ver0", "ver1", "build", "noise"} \cup Cmds \subseteq Byte

VARIABLES
  pc,            \* control point of UART_Thread
  buf,           \* the part of read_buffer filled so far
  segs,          \* lengths still to be given to the output queue, in order
  line,          \* number of the next image line
  wire,          \* bytes of the current command still on the line
  sent,          \* commands sent by the IHU
  errors,        \* bytes damaged or lost so far
  \* History:
  replied,       \* replies the thread has begun
  told,          \* last answer to a ready query
  seen           \* the mishaps so far, a subset of Mishaps

\* "early": a byte was queued before the thread registered; "silent": a frame was
\* discarded without a reply; "dropped": the full input queue dropped a byte;
\* "crowded": a reply was begun that is larger than the room then left in the
\* output queue, or that has a write of length 0; "truncated": a byte of a reply
\* did not fit in the output queue.
Mishaps == {"early", "silent", "dropped", "crowded", "truncated"}

threadVars == <<pc, buf, segs, line>>
lineVars == <<wire, sent, errors>>
historyVars == <<replied, told, seen>>
vars == <<driverVars, threadVars, flagVars, lineVars, historyVars>>

MESSAGE_CMD_SIZE == 6
Frame(c) == <<"ver0", "ver1", "build", "build", c, c>>

TypeOK ==
  /\ DriverTypeOK
  /\ pc \in {"boot", "wait", "read", "status", "line", "write"}
  /\ buf \in Seq(Byte) /\ Len(buf) < MESSAGE_CMD_SIZE
  /\ segs \in Seq(Nat)
  /\ line \in Nat
  /\ FlagsTypeOK
  /\ wire \in Seq(Byte)
  /\ sent \in 0..MaxCmds /\ errors \in 0..MaxErrors
  /\ replied \in Nat
  /\ told \in {"none", "N", "Y", "F"}
  /\ seen \in SUBSET Mishaps

Init ==
  /\ DriverInit
  /\ InitFlags
  /\ pc = "boot" /\ buf = << >> /\ segs = << >> /\ line = 0
  /\ wire = << >> /\ sent = 0 /\ errors = 0
  /\ replied = 0 /\ told = "none" /\ seen = {}

-----------------------------------------------------------------------------
(* The IHU and the line *)

\* The IHU puts a command on the line (send_CMD).
IhuSend(c) ==
  /\ wire = << >>
  /\ sent < MaxCmds
  /\ IhuEarly \/ listener # "none"
  /\ wire' = Frame(c)
  /\ sent' = sent + 1
  /\ UNCHANGED <<driverVars, threadVars, flagVars, errors, historyVars>>

Received ==
  /\ wire' = Tail(wire)
  /\ seen' = seen \cup {m \in {"early"} : listener = "none"}
                  \cup {m \in {"dropped"} : Len(iq) >= InCap}
  /\ UNCHANGED <<threadVars, flagVars, sent, replied, told>>

\* serve_interrupt, RXNE.
RxByte ==
  /\ wire # << >>
  /\ sdIncomingDataI(Head(wire))
  /\ Received
  /\ UNCHANGED errors

\* serve_interrupt with an error bit in SR: the byte is damaged or lost.
RxError ==
  /\ wire # << >>
  /\ errors < MaxErrors /\ sent <= MaxErrors
  /\ ReceiveDamaged("noise") \/ ReceiveLost
  /\ Received
  /\ errors' = errors + 1

TxInterrupt ==
  /\ TxByte \/ TxEmpty \/ TxEnd
  /\ UNCHANGED <<threadVars, flagVars, lineVars, historyVars>>

-----------------------------------------------------------------------------
(* The camera thread's writes to the flags; it preempts UART_Thread. *)

Camera ==
  /\ FlagsNext
  /\ UNCHANGED <<driverVars, threadVars, lineVars, historyVars>>

-----------------------------------------------------------------------------
(* UART_Thread *)

ThreadStart ==
  /\ pc = "boot"
  /\ Register
  /\ pc' = "wait"
  /\ UNCHANGED <<buf, segs, line, flagVars, lineVars, historyVars>>

\* chEvtWaitOne: the read is entered for the input event alone.  Any other bit
\* is discarded; the overrun bit never comes together with the input bit.
WaitEvent ==
  /\ pc = "wait"
  /\ \E e \in myUART_events :
       /\ WaitOne(e)
       /\ pc' = IF e = "IN" THEN "read" ELSE "wait"
  /\ UNCHANGED <<buf, segs, line, flagVars, lineVars, historyVars>>

\* Start one of the UART_Reply_* functions with the given write lengths.
Reply(lengths, total) ==
  /\ segs' = lengths
  /\ replied' = replied + 1
  /\ pc' = "write"
  /\ seen' = seen \cup {m \in {"crowded"} :
                oq + total > OutCap \/ \E i \in DOMAIN lengths : lengths[i] = 0}

UART_Reply_Status(answer) ==
  /\ Reply(<<6>>, 6)
  /\ told' = answer

\* UART_Reply_Data: header, payload of length & 0x3FF, checksum.
UART_Reply_Data(length) ==
  LET n == length % LenField IN Reply(<<6, n, 2>>, 8 + n)

\* The version is right and the two command bytes are equal.
WellFormedSwapped(f) ==                            \* mutant: version bytes swapped
  f[1] = "ver1" /\ f[2] = "ver0" /\ f[5] = f[6]

WellFormed(f) == f[1] = "ver0" /\ f[2] = "ver1" /\ f[5] = f[6]

\* What the thread does with a complete frame, up to its next access to state
\* another thread writes.  Both known commands test cameraHealth first.
DispatchNoFailed(f) ==                             \* mutant: nothing sent when failed
  IF ~WellFormed(f) \/ f[5] \notin {"R", "T"} \/ cameraHealth = "FAILED" THEN
    /\ pc' = "wait"
    /\ seen' = seen \cup {"silent"}
    /\ UNCHANGED <<segs, replied, told>>
  ELSE
    /\ pc' = IF f[5] = "R" THEN "status" ELSE "line"
    /\ UNCHANGED <<segs, replied, told, seen>>

Dispatch(f) ==
  IF ~WellFormed(f) \/ f[5] \notin {"R", "T"} THEN
    /\ pc' = "wait"
    /\ seen' = seen \cup {"silent"}
    /\ UNCHANGED <<segs, replied, told>>
  ELSE IF cameraHealth = "FAILED" THEN
    /\ Reply(<<6>>, 6)
    /\ told' = IF f[5] = "R" THEN "F" ELSE told
  ELSE
    /\ pc' = IF f[5] = "R" THEN "status" ELSE "line"
    /\ UNCHANGED <<segs, replied, told, seen>>

\* sdRead: one byte of the command, and the parse once six are there.
ReadByte ==
  /\ pc = "read"
  /\ \E b \in Byte :
       /\ sdReadByte(b)
       /\ IF Len(buf) + 1 < MESSAGE_CMD_SIZE
            THEN /\ buf' = Append(buf, b)
                 /\ UNCHANGED <<pc, segs, replied, told, seen>>
            ELSE /\ buf' = << >>
                 /\ Dispatch(Append(buf, b))
  /\ UNCHANGED <<line, flagVars, lineVars>>

\* CMD_READY, healthy: cameraThreadDone is read after cameraHealth.
ReadyQuery ==
  /\ pc = "status"
  /\ UART_Reply_Status(IF cameraThreadDone = "DONE" THEN "Y" ELSE "N")
  /\ UNCHANGED <<driverVars, buf, line, flagVars, lineVars>>

\* CMD_TRANS, healthy: the next line is read and sent, or Failed if it is empty.
TransmitLine ==
  /\ pc = "line"
  /\ \E n \in LineLens : IF n = 0 THEN Reply(<<6>>, 6) ELSE UART_Reply_Data(n)
  /\ line' = line + 1
  /\ UNCHANGED <<driverVars, buf, flagVars, lineVars, told>>

\* What is left of the writes after one byte of the first is queued.  A write
\* of length 0 (n = 0 wraps in --n) goes on until the queue is full.
AfterByteOff(s) ==                                 \* mutant: n tested before --n
  CASE Head(s) = 0 -> Tail(s)
    [] OTHER       -> <<Head(s) - 1>> \o Tail(s)

AfterByte(s) ==
  CASE Head(s) = 0 -> s
    [] Head(s) = 1 -> Tail(s)
    [] OTHER       -> <<Head(s) - 1>> \o Tail(s)

\* sdAsynchronousWrite: TIME_IMMEDIATE, so a full queue ends the current write.
WriteByte ==
  /\ pc = "write"
  /\ \/ /\ sdQueueByte
        /\ segs' = AfterByte(segs)
        /\ UNCHANGED seen
     \/ /\ oq = OutCap
        /\ segs' = Tail(segs)
        /\ seen' = seen \cup {"truncated"}
        /\ UNCHANGED driverVars
  /\ pc' = IF segs' = << >> THEN "wait" ELSE "write"
  /\ UNCHANGED <<buf, line, flagVars, lineVars, replied, told>>

-----------------------------------------------------------------------------
Ihu == \E c \in Cmds : IhuSend(c)
Thread == ThreadStart \/ WaitEvent \/ ReadByte \/ ReadyQuery \/ TransmitLine \/ WriteByte

Next == Ihu \/ RxByte \/ RxError \/ TxInterrupt \/ Camera \/ Thread

Spec == Init /\ [][Next]_vars

(* Interrupts are served and UART_Thread is scheduled: the camera thread runs *)
(* at a higher priority but ends (module CameraThread).  The line delivers    *)
(* the bytes of a command that was begun.                                     *)
FairSpec == Spec /\ WF_vars(RxByte) /\ WF_vars(TxInterrupt) /\ WF_vars(Thread)

-----------------------------------------------------------------------------
(* Properties *)

\* The thread sleeps, bytes wait in the input queue, and nothing that is under
\* way will raise the input event.
Stalled ==
  pc = "wait" /\ iq # << >> /\ "IN" \notin events /\ "TXEIE" \notin irq

\* Because sdIncomingDataI raises the event only for a byte that finds the queue
\* empty, UART_Thread relies on its own reply (CHN_OUTPUT_EMPTY) to come back to
\* commands that were queued meanwhile.  As long as no byte came before it
\* registered and every frame was answered, queued bytes always wake it.
WakeupKept == seen \cap {"early", "silent"} = {} => ~Stalled

\* Without a damaged, lost or dropped byte the 6-byte reads stay aligned with
\* the frames the IHU sent: a frame of a known command is never discarded.
FramingKept ==
  (Cmds \subseteq {"R", "T"} /\ errors = 0 /\ "dropped" \notin seen)
     => "silent" \notin seen

\* The writes of a reply do not block and their results are ignored: no byte of a
\* reply is left out as long as each reply was begun with room for all of its
\* writes, none of them of length 0 (a transmitter that was armed only makes room).
RepliesWhole == "crowded" \notin seen => "truncated" \notin seen

\* The answers to the ready queries go from not ready to ready or failed and
\* never back to not ready, and never from failed to ready.
StatusMonotone ==
  [][/\ told \in {"Y", "F"} => told' # "N"
     /\ told = "F" => told' # "Y"]_told

\* A write of 0 bytes that is under way: it goes on for as long as the transmitter
\* takes the bytes that it queues.
EndlessWrite == segs # << >> /\ Head(segs) = 0

\* Every command the IHU sends is answered, also one that waits in the queue while
\* another is answered, unless a byte was damaged, lost, dropped or too early, or
\* the thread is caught in a write of 0 bytes.
EveryCommandAnswered ==
  \A n \in 1..MaxCmds :
    (sent = n) ~> \/ replied >= n
                  \/ errors > 0 \/ seen \cap {"early", "dropped"} # {}
                  \/ EndlessWrite

=============================================================================
