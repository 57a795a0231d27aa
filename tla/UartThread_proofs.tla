------------------------- MODULE UartThread_proofs -------------------------
(***************************************************************************)
(* Type correctness of UartThread, and the theorem that UART_Thread loses  *)
(* a wake-up only after early bytes or a silently discarded frame, for     *)
(* every queue size, command set, line length and number of errors.        *)
(***************************************************************************)
EXTENDS UartThread, SequenceTheorems, TLAPS

\* The thread registers before it runs, bytes queued before that are early ones,
\* and it has a write left while it is writing.
Control ==
  /\ listener = IF pc = "boot" THEN "none" ELSE "UART_Thread"
  /\ pc = "boot" /\ iq # << >> => "early" \in seen
  /\ pc = "write" => segs # << >>

\* While the output queue holds bytes the transmit interrupt that sends them is
\* enabled (notify3 and serve_interrupt).
TxArmed == oq > 0 => "TXEIE" \in irq

IInv == TypeOK /\ Control /\ TxArmed /\ WakeupKept

\* What is left of the writes is a sequence of lengths.
LEMMA AfterByteType ==
  ASSUME NEW s \in Seq(Nat), s # << >>
  PROVE  AfterByte(s) \in Seq(Nat)
<1>1. Head(s) \in Nat /\ Tail(s) \in Seq(Nat)
  OBVIOUS
<1>2. CASE Head(s) = 0
  BY <1>2 DEF AfterByte
<1>3. CASE Head(s) = 1
  BY <1>1, <1>3 DEF AfterByte
<1>4. CASE Head(s) # 0 /\ Head(s) # 1
  <2>1. Head(s) - 1 \in Nat
    BY <1>1, <1>4
  <2>2. <<Head(s) - 1>> \o Tail(s) \in Seq(Nat)
    BY <1>1, <2>1
  <2> QED
    BY <1>4, <2>2 DEF AfterByte
<1> QED
  BY <1>2, <1>3, <1>4

\* The initial state satisfies the inductive invariant.
LEMMA InitIInv == Init => IInv
<1> SUFFICES ASSUME Init PROVE IInv
  OBVIOUS
<1>1. TypeOK
  <2>1. DriverTypeOK
    BY CapAssumption DEF Init, DriverInit, DriverTypeOK, TxIrq, myUART_events
  <2>2. buf \in Seq(Byte) /\ Len(buf) < MESSAGE_CMD_SIZE
        /\ segs \in Seq(Nat) /\ wire \in Seq(Byte)
    BY DEF Init, MESSAGE_CMD_SIZE
  <2>3. sent \in 0..MaxCmds /\ errors \in 0..MaxErrors
    BY UartAssumption DEF Init
  <2> QED
    BY <2>1, <2>2, <2>3 DEF Init, InitFlags, TypeOK, FlagsTypeOK, Mishaps
<1>2. Control /\ TxArmed /\ WakeupKept
  BY DEF Init, DriverInit, Control, TxArmed, WakeupKept, Stalled
<1> QED
  BY <1>1, <1>2 DEF IInv

\* A received byte raises the input event for a listener, or finds the queue
\* neither empty nor full.
LEMMA ReceiveDriver ==
  ASSUME DriverTypeOK, NEW b \in Byte,
         sdIncomingDataI(b) \/ ReceiveDamaged(b) \/ ReceiveLost
  PROVE  /\ DriverTypeOK'
         /\ UNCHANGED <<oq, irq, listener>>
         /\ listener # "none" =>
              "IN" \in events' \/ (iq # << >> /\ events' = events)
<1>1. iq \in Seq(Byte) /\ Len(iq) \in Nat /\ Len(iq) <= InCap /\ InCap \in Nat
  BY CapAssumption DEF DriverTypeOK
<1>2. iq' = iq \/ (Len(iq) < InCap /\ iq' = Append(iq, b))
  BY DEF sdIncomingDataI, ReceiveDamaged, ReceiveLost
<1>3. iq' \in Seq(Byte) /\ Len(iq') <= InCap
  <2>1. CASE iq' = iq
    BY <1>1, <2>1
  <2>2. CASE Len(iq) < InCap /\ iq' = Append(iq, b)
    BY <1>1, <2>2
  <2> QED
    BY <1>2, <2>1, <2>2
<1>4. UNCHANGED <<oq, irq, listener>>
  BY DEF sdIncomingDataI, ReceiveDamaged, ReceiveLost
<1>5. Broadcast \/ (iq # << >> /\ events' = events)
  BY DEF sdIncomingDataI, ReceiveDamaged, ReceiveLost
<1>6. events' \in SUBSET myUART_events
  BY <1>5 DEF Broadcast, DriverTypeOK
<1>7. listener # "none" => "IN" \in events' \/ (iq # << >> /\ events' = events)
  BY <1>5 DEF Broadcast, myUART_events
<1> QED
  BY <1>3, <1>4, <1>6, <1>7 DEF DriverTypeOK

\* TC handled in the same interrupt: the event is raised and TXEIE stays.
LEMMA LateEndDriver ==
  ASSUME DriverTypeOK, LateEnd
  PROVE  /\ irq' \in SUBSET TxIrq /\ events' \in SUBSET myUART_events
         /\ "TXEIE" \in irq => "TXEIE" \in irq'
         /\ listener # "none" => "IN" \in events'
BY DEF DriverTypeOK, LateEnd, Broadcast, TxIrq, myUART_events

\* The transmit interrupts: the queue is not armed only when it is empty, and
\* the step that disarms it raises the input event for a listener.
LEMMA TransmitDriver ==
  ASSUME DriverTypeOK, TxArmed, TxByte \/ TxEmpty \/ TxEnd
  PROVE  /\ DriverTypeOK'
         /\ TxArmed'
         /\ UNCHANGED <<iq, listener>>
         /\ listener # "none" =>
              "IN" \in events' \/ (events' = events /\ "TXEIE" \in irq')
<1> USE CapAssumption DEF DriverTypeOK, TxIrq, myUART_events, TxArmed
<1>1. CASE TxByte
  <2>1. /\ "TXEIE" \in irq /\ oq > 0 /\ oq' = oq - 1 /\ UNCHANGED <<iq, listener>>
        /\ LateEnd \/ UNCHANGED <<irq, events>>
    BY <1>1 DEF TxByte
  <2>2. oq' \in 0..OutCap
    BY <2>1
  <2>3. CASE LateEnd
    BY <2>1, <2>2, <2>3, LateEndDriver
  <2>4. CASE UNCHANGED <<irq, events>>
    BY <2>1, <2>2, <2>4
  <2> QED
    BY <2>1, <2>3, <2>4
<1>2. CASE TxEmpty
  <2>1. /\ "TXEIE" \in irq /\ oq = 0 /\ UNCHANGED <<iq, oq, listener>>
        /\ LateEnd \/ (irq' = (irq \ {"TXEIE"}) \cup {"TCIE"} /\ Broadcast)
    BY <1>2 DEF TxEmpty
  <2>2. CASE LateEnd
    BY <2>1, <2>2, LateEndDriver
  <2>3. CASE irq' = (irq \ {"TXEIE"}) \cup {"TCIE"} /\ Broadcast
    BY <2>1, <2>3 DEF Broadcast
  <2> QED
    BY <2>1, <2>2, <2>3
<1>3. CASE TxEnd
  BY <1>3 DEF TxEnd, Broadcast
<1> QED
  BY <1>1, <1>2, <1>3

\* One byte of a reply is queued and the interrupt that sends it is enabled.
LEMMA QueueDriver ==
  ASSUME DriverTypeOK, sdQueueByte
  PROVE  DriverTypeOK' /\ "TXEIE" \in irq'
BY CapAssumption DEF DriverTypeOK, TxIrq, sdQueueByte

\* What the receive and transmit interrupts preserve.
LEMMA InterruptIInv ==
  ASSUME IInv, RxByte \/ RxError \/ TxInterrupt
  PROVE  IInv'
<1> USE DEF IInv
<1>1. CASE RxByte \/ RxError
  <2>1. PICK b \in Byte : sdIncomingDataI(b) \/ ReceiveDamaged(b) \/ ReceiveLost
    <3>1. CASE RxByte
      <4>1. Head(wire) \in Byte
        BY <3>1 DEF RxByte, TypeOK
      <4> QED
        BY <3>1, <4>1 DEF RxByte
    <3>2. CASE RxError
      <4>1. "noise" \in Byte
        BY UartAssumption
      <4> QED
        BY <3>2, <4>1 DEF RxError
    <3> QED
      BY <1>1, <3>1, <3>2
  <2>2. /\ DriverTypeOK'
        /\ UNCHANGED <<oq, irq, listener>>
        /\ listener # "none" =>
              "IN" \in events' \/ (iq # << >> /\ events' = events)
    BY <2>1, ReceiveDriver DEF TypeOK
  <2>3. wire # << >> /\ Received /\ errors' \in 0..MaxErrors
    BY <1>1, UartAssumption DEF RxByte, RxError, TypeOK
  <2>4. UNCHANGED <<threadVars, flagVars, sent, replied, told>>
    BY <2>3 DEF Received
  <2>5. wire' \in Seq(Byte)
    BY <2>3 DEF Received, TypeOK
  <2>6. /\ seen' \in SUBSET Mishaps
        /\ seen' \cap {"early", "silent"} = {} =>
             seen \cap {"early", "silent"} = {} /\ listener # "none"
        /\ listener = "none" => "early" \in seen'
    BY <2>3 DEF Received, TypeOK, Mishaps
  <2>7. TypeOK'
    BY <2>2, <2>3, <2>4, <2>5, <2>6 DEF TypeOK, FlagsTypeOK, threadVars, flagVars
  <2>8. Control' /\ TxArmed'
    BY <2>2, <2>4, <2>6 DEF Control, TxArmed, threadVars
  <2>9. WakeupKept'
    BY <2>2, <2>4, <2>6 DEF WakeupKept, Stalled, threadVars
  <2> QED
    BY <2>7, <2>8, <2>9
<1>2. CASE TxInterrupt
  <2>1. UNCHANGED <<threadVars, flagVars, lineVars, historyVars>>
    BY <1>2 DEF TxInterrupt
  <2>2. /\ DriverTypeOK' /\ TxArmed' /\ UNCHANGED <<iq, listener>>
        /\ listener # "none" =>
              "IN" \in events' \/ (events' = events /\ "TXEIE" \in irq')
    BY <1>2, TransmitDriver DEF TxInterrupt, TypeOK
  <2>3. TypeOK'
    BY <2>1, <2>2 DEF TypeOK, FlagsTypeOK, threadVars, flagVars, lineVars, historyVars
  <2>4. Control' /\ WakeupKept'
    BY <2>1, <2>2 DEF Control, WakeupKept, Stalled, threadVars, historyVars
  <2> QED
    BY <2>2, <2>3, <2>4
<1> QED
  BY <1>1, <1>2

\* The IHU and the camera flags touch nothing the wake-up depends on.
LEMMA EnvironmentIInv ==
  ASSUME IInv, Ihu \/ Camera
  PROVE  IInv'
<1> USE DEF IInv
<1>1. UNCHANGED <<driverVars, threadVars, historyVars, errors>>
  BY DEF Ihu, Camera, IhuSend, lineVars
<1>2. wire' \in Seq(Byte) /\ sent' \in 0..MaxCmds
  <2>1. CASE Ihu
    <3>1. PICK c \in Cmds : IhuSend(c)
      BY <2>1 DEF Ihu
    <3>2. {"ver0", "ver1", "build", c} \subseteq Byte /\ MaxCmds \in Nat
      BY UartAssumption
    <3>3. wire' = <<"ver0", "ver1", "build", "build", c, c>> /\ sent' = sent + 1 /\ sent < MaxCmds
      BY <3>1 DEF IhuSend, Frame
    <3> QED
      BY <3>2, <3>3 DEF TypeOK
  <2>2. CASE Camera
    BY <2>2 DEF Camera, lineVars, TypeOK
  <2> QED
    BY <2>1, <2>2
<1>3. FlagsTypeOK'
  BY DEF Ihu, Camera, IhuSend, FlagsNext, CamStart, CamFail, CamDone, flagVars, TypeOK,
         FlagsTypeOK
<1>4. TypeOK'
  BY <1>1, <1>2, <1>3 DEF TypeOK, FlagsTypeOK, DriverTypeOK, driverVars, threadVars, historyVars
<1>5. Control' /\ TxArmed' /\ WakeupKept'
  BY <1>1 DEF Control, TxArmed, WakeupKept, Stalled, driverVars, threadVars, historyVars
<1> QED
  BY <1>4, <1>5

\* Beginning a reply adds at most the mishap "crowded".
LEMMA ReplyType ==
  ASSUME TypeOK, NEW lengths \in Seq(Nat), lengths # << >>, NEW total, Reply(lengths, total)
  PROVE  /\ pc' = "write" /\ segs' \in Seq(Nat) /\ segs' # << >> /\ replied' \in Nat
         /\ seen' \in SUBSET Mishaps
         /\ seen' \cap {"early", "silent"} = seen \cap {"early", "silent"}
<1>1. pc' = "write" /\ segs' = lengths /\ replied' = replied + 1
  BY DEF Reply
<1>2. replied' \in Nat
  BY <1>1 DEF TypeOK
<1>3. seen' = seen \/ seen' = seen \cup {"crowded"}
  BY DEF Reply
<1>4. seen' \in SUBSET Mishaps /\ seen' \cap {"early", "silent"} = seen \cap {"early", "silent"}
  BY <1>3 DEF TypeOK, Mishaps
<1> QED
  BY <1>1, <1>2, <1>4

\* The length of a status reply.
LEMMA StatusLengths == <<6>> \in Seq(Nat) /\ <<6>> # << >>
OBVIOUS

\* A reply that is begun has a non-empty list of lengths.
LEMMA DispatchType ==
  ASSUME TypeOK, NEW f, Dispatch(f)
  PROVE  /\ pc' \in {"wait", "status", "line", "write"}
         /\ segs' \in Seq(Nat) /\ replied' \in Nat
         /\ told' \in {"none", "N", "Y", "F"} /\ seen' \in SUBSET Mishaps
         /\ pc' = "write" => segs' # << >>
         /\ pc' = "wait" => "silent" \in seen'
<1> DEFINE bad == ~WellFormed(f) \/ f[5] \notin {"R", "T"}
<1>1. CASE bad
  <2>1. pc' = "wait" /\ seen' = seen \cup {"silent"} /\ UNCHANGED <<segs, replied, told>>
    BY <1>1 DEF Dispatch
  <2> QED
    BY <2>1 DEF TypeOK, Mishaps
<1>2. CASE ~bad /\ cameraHealth = "FAILED"
  <2>1. Reply(<<6>>, 6) /\ (told' = "F" \/ told' = told)
    BY <1>2 DEF Dispatch
  <2> QED
    BY <2>1, ReplyType, StatusLengths DEF TypeOK
<1>3. CASE ~bad /\ cameraHealth # "FAILED"
  <2>1. pc' \in {"status", "line"} /\ UNCHANGED <<segs, replied, told, seen>>
    BY <1>3 DEF Dispatch
  <2> QED
    BY <2>1 DEF TypeOK
<1> QED
  BY <1>1, <1>2, <1>3

\* Every step of UART_Thread preserves the inductive invariant.
LEMMA ThreadIInv ==
  ASSUME IInv, Thread
  PROVE  IInv'
<1> USE DEF IInv
<1>1. CASE ThreadStart
  <2>1. TypeOK' /\ Control' /\ TxArmed'
    BY <1>1 DEF ThreadStart, Register, TypeOK, FlagsTypeOK, DriverTypeOK, Control, TxArmed,
                flagVars, lineVars, historyVars
  <2>2. WakeupKept'
    BY <1>1 DEF ThreadStart, Register, WakeupKept, Stalled, Control, historyVars
  <2> QED
    BY <2>1, <2>2
<1>2. CASE WaitEvent
  <2>1. PICK e \in myUART_events :
          WaitOne(e) /\ pc' = IF e = "IN" THEN "read" ELSE "wait"
    BY <1>2 DEF WaitEvent
  <2>2. UNCHANGED <<buf, segs, line, flagVars, lineVars, historyVars>> /\ pc = "wait"
    BY <1>2 DEF WaitEvent
  <2>3. UNCHANGED <<iq, oq, irq, listener>> /\ events' = events \ {e}
    BY <2>1 DEF WaitOne
  <2>4. TypeOK' /\ Control' /\ TxArmed'
    BY <2>1, <2>2, <2>3 DEF TypeOK, FlagsTypeOK, DriverTypeOK, Control, TxArmed,
                            flagVars, lineVars, historyVars
  <2>5. WakeupKept'
    BY <2>1, <2>2, <2>3 DEF WakeupKept, Stalled, historyVars
  <2> QED
    BY <2>4, <2>5
<1>3. CASE ReadByte
  <2>1. PICK b \in Byte :
          /\ sdReadByte(b)
          /\ IF Len(buf) + 1 < MESSAGE_CMD_SIZE
               THEN /\ buf' = Append(buf, b)
                    /\ UNCHANGED <<pc, segs, replied, told, seen>>
               ELSE /\ buf' = << >>
                    /\ Dispatch(Append(buf, b))
    BY <1>3 DEF ReadByte
  <2>2. UNCHANGED <<line, flagVars, lineVars>> /\ pc = "read"
    BY <1>3 DEF ReadByte
  <2>3. /\ UNCHANGED <<oq, irq, events, listener>>
        /\ iq' \in Seq(Byte) /\ Len(iq') <= InCap
    BY <2>1, CapAssumption DEF sdReadByte, TypeOK, FlagsTypeOK, DriverTypeOK
  <2>4. CASE Len(buf) + 1 < MESSAGE_CMD_SIZE
    <3>1. buf' \in Seq(Byte) /\ Len(buf') < MESSAGE_CMD_SIZE
      BY <2>1, <2>4 DEF TypeOK, MESSAGE_CMD_SIZE
    <3>2. UNCHANGED <<pc, segs, replied, told, seen>>
      BY <2>1, <2>4
    <3>3. TypeOK'
      BY <2>2, <2>3, <3>1, <3>2 DEF TypeOK, FlagsTypeOK, DriverTypeOK, flagVars, lineVars
    <3> QED
      BY <2>2, <2>3, <3>2, <3>3 DEF Control, TxArmed, WakeupKept, Stalled
  <2>5. CASE ~(Len(buf) + 1 < MESSAGE_CMD_SIZE)
    <3>1. buf' = << >> /\ Dispatch(Append(buf, b))
      BY <2>1, <2>5
    <3>2. /\ pc' \in {"wait", "status", "line", "write"}
          /\ segs' \in Seq(Nat) /\ replied' \in Nat
          /\ told' \in {"none", "N", "Y", "F"} /\ seen' \in SUBSET Mishaps
          /\ pc' = "write" => segs' # << >>
          /\ pc' = "wait" => "silent" \in seen'
      BY <3>1, DispatchType
    <3>3. buf' \in Seq(Byte) /\ Len(buf') < MESSAGE_CMD_SIZE
      BY <3>1 DEF MESSAGE_CMD_SIZE
    <3>4. TypeOK'
      BY <2>2, <2>3, <3>2, <3>3 DEF TypeOK, FlagsTypeOK, DriverTypeOK, flagVars, lineVars
    <3> QED
      BY <2>2, <2>3, <3>2, <3>4 DEF Control, TxArmed, WakeupKept, Stalled
  <2> QED
    BY <2>4, <2>5
<1>4. CASE ReadyQuery
  <2>1. /\ Reply(<<6>>, 6)
        /\ told' \in {"N", "Y"} /\ pc = "status"
        /\ UNCHANGED <<driverVars, buf, line, flagVars, lineVars>>
    BY <1>4 DEF ReadyQuery, UART_Reply_Status
  <2>2. /\ pc' = "write" /\ segs' \in Seq(Nat) /\ segs' # << >> /\ replied' \in Nat
        /\ seen' \in SUBSET Mishaps
        /\ seen' \cap {"early", "silent"} = seen \cap {"early", "silent"}
    BY <2>1, ReplyType, StatusLengths
  <2>3. TypeOK'
    BY <2>1, <2>2 DEF TypeOK, FlagsTypeOK, DriverTypeOK, driverVars, flagVars, lineVars
  <2> QED
    BY <2>1, <2>2, <2>3 DEF Control, TxArmed, WakeupKept, Stalled, driverVars
<1>5. CASE TransmitLine
  <2>1. PICK n \in LineLens : IF n = 0 THEN Reply(<<6>>, 6) ELSE UART_Reply_Data(n)
    BY <1>5 DEF TransmitLine
  <2>2. n \in Nat /\ n % LenField \in Nat
    BY UartAssumption
  <2>3. /\ pc' = "write" /\ segs' \in Seq(Nat) /\ segs' # << >> /\ replied' \in Nat
        /\ seen' \in SUBSET Mishaps
        /\ seen' \cap {"early", "silent"} = seen \cap {"early", "silent"}
    <3>1. CASE n = 0
      <4>1. Reply(<<6>>, 6)
        BY <2>1, <3>1
      <4> QED
        BY <4>1, ReplyType, StatusLengths
    <3>2. CASE n # 0
      <4>1. Reply(<<6, n % LenField, 2>>, 8 + (n % LenField))
        BY <2>1, <3>2 DEF UART_Reply_Data
      <4>2. <<6, n % LenField, 2>> \in Seq(Nat) /\ <<6, n % LenField, 2>> # << >>
        BY <2>2
      <4> QED
        BY <4>1, <4>2, ReplyType
    <3> QED
      BY <3>1, <3>2
  <2>4. /\ line' = line + 1 /\ pc = "line"
        /\ UNCHANGED <<driverVars, buf, flagVars, lineVars, told>>
    BY <1>5 DEF TransmitLine
  <2>5. TypeOK'
    BY <2>3, <2>4 DEF TypeOK, FlagsTypeOK, DriverTypeOK, driverVars, flagVars, lineVars
  <2> QED
    BY <2>3, <2>4, <2>5 DEF Control, TxArmed, WakeupKept, Stalled, driverVars
<1>6. CASE WriteByte
  <2>1. /\ pc = "write" /\ segs # << >> /\ segs \in Seq(Nat)
        /\ pc' \in {"wait", "write"}
        /\ pc' = "write" => segs' # << >>
        /\ UNCHANGED <<buf, line, flagVars, lineVars, replied, told>>
    BY <1>6 DEF WriteByte, Control, TypeOK
  <2>2. /\ DriverTypeOK' /\ "TXEIE" \in irq' /\ listener' = listener
        /\ segs' \in Seq(Nat) /\ seen' \in SUBSET Mishaps
    <3>1. CASE sdQueueByte /\ segs' = AfterByte(segs) /\ UNCHANGED seen
      BY <2>1, <3>1, QueueDriver, AfterByteType DEF TypeOK, sdQueueByte
    <3>2. CASE /\ oq = OutCap /\ segs' = Tail(segs)
               /\ seen' = seen \cup {"truncated"} /\ UNCHANGED driverVars
      <4>1. oq > 0
        BY <3>2, CapAssumption
      <4> QED
        BY <2>1, <3>2, <4>1 DEF TypeOK, FlagsTypeOK, DriverTypeOK, TxArmed, Mishaps, driverVars
    <3> QED
      BY <1>6, <3>1, <3>2 DEF WriteByte
  <2>3. TypeOK'
    <3>1. UNCHANGED <<buf, line, cameraHealth, cameraThreadDone, cam, wire, sent, errors,
                      replied, told>>
      BY <2>1 DEF flagVars, lineVars
    <3> QED
      BY <2>1, <2>2, <3>1 DEF TypeOK, FlagsTypeOK
  <2> QED
    BY <2>1, <2>2, <2>3 DEF Control, TxArmed, WakeupKept, Stalled
<1> QED
  BY <1>1, <1>2, <1>3, <1>4, <1>5, <1>6 DEF Thread

\* A stuttering step changes nothing.
LEMMA StutterIInv ==
  ASSUME IInv, UNCHANGED vars
  PROVE  IInv'
BY DEF IInv, TypeOK, FlagsTypeOK, DriverTypeOK, Control, TxArmed, WakeupKept, Stalled, vars,
       driverVars, threadVars, flagVars, lineVars, historyVars

\* The inductive invariant holds in every reachable state of UART_Thread, its
\* driver and their environment.
LEMMA Inductive == Spec => []IInv
<1>1. Init => IInv
  BY InitIInv
<1>2. IInv /\ [Next]_vars => IInv'
  BY InterruptIInv, EnvironmentIInv, ThreadIInv, StutterIInv DEF Next
<1> QED
  BY <1>1, <1>2, PTL DEF Spec

\* UART_Thread's and the driver's variables keep their types; in particular the
\* input and output queues never exceed their buffers and read_buffer is never
\* written past its end.
THEOREM TypeCorrect == Spec => []TypeOK
<1>1. IInv => TypeOK
  BY DEF IInv
<1> QED
  BY <1>1, Inductive, PTL

\* As long as no byte was queued before UART_Thread registered for the driver's
\* events and it discarded no frame silently, it never sleeps on queued bytes
\* with nothing under way to wake it.
THEOREM NoLostWakeup == Spec => []WakeupKept
<1>1. IInv => WakeupKept
  BY DEF IInv
<1> QED
  BY <1>1, Inductive, PTL

-----------------------------------------------------------------------------
\* The camera flags move once, health before done, and an answer that was given
\* stays justified by them.
StatusInv ==
  /\ cam = "new" => cameraHealth = "HEALTHY" /\ cameraThreadDone = "BUSY"
  /\ cameraThreadDone = "DONE" => cam = "done"
  /\ told = "Y" => cameraThreadDone = "DONE"
  /\ told = "F" => cameraHealth = "FAILED" /\ pc # "status"

\* One step as the ready queries see it.
StatusStep ==
  /\ told \in {"Y", "F"} => told' # "N"
  /\ told = "F" => told' # "Y"

\* No step takes back an answer that was given to a ready query.
LEMMA StatusPreserved ==
  ASSUME TypeOK, StatusInv, [Next]_vars
  PROVE  StatusInv' /\ (StatusStep \/ UNCHANGED told)
<1> USE DEF StatusInv, StatusStep
<1>1. CASE Ihu \/ RxByte \/ RxError \/ TxInterrupt \/ UNCHANGED vars
  BY <1>1 DEF Ihu, IhuSend, RxByte, RxError, Received, TxInterrupt, vars, threadVars,
              flagVars, historyVars
<1>2. CASE Camera
  <2>1. UNCHANGED <<threadVars, historyVars>>
    BY <1>2 DEF Camera
  <2> QED
    BY <1>2, <2>1 DEF Camera, FlagsNext, CamStart, CamFail, CamDone, threadVars, historyVars,
                      TypeOK, FlagsTypeOK
<1>3. CASE ThreadStart \/ WaitEvent \/ TransmitLine \/ WriteByte
  <2>1. UNCHANGED <<flagVars, told>> /\ pc' # "status"
    BY <1>3 DEF ThreadStart, WaitEvent, TransmitLine, Reply, UART_Reply_Data, WriteByte,
                historyVars
  <2> QED
    BY <2>1 DEF flagVars
<1>4. CASE ReadByte
  <2>1. UNCHANGED flagVars /\ pc = "read"
    BY <1>4 DEF ReadByte
  <2>2. PICK b \in Byte :
          \/ UNCHANGED <<pc, told>>
          \/ Dispatch(Append(buf, b))
    BY <1>4 DEF ReadByte
  <2>3. CASE UNCHANGED <<pc, told>>
    BY <2>1, <2>3 DEF flagVars
  <2>4. CASE Dispatch(Append(buf, b))
    <3>1. /\ told' = told \/ (told' = "F" /\ cameraHealth = "FAILED" /\ pc' = "write")
          /\ pc' = "status" => cameraHealth # "FAILED"
      BY <2>4 DEF Dispatch, Reply
    <3> QED
      BY <2>1, <3>1 DEF flagVars
  <2> QED
    BY <2>2, <2>3, <2>4
<1>5. CASE ReadyQuery
  <2>1. /\ UNCHANGED flagVars /\ pc = "status" /\ pc' = "write"
        /\ told' = IF cameraThreadDone = "DONE" THEN "Y" ELSE "N"
    BY <1>5 DEF ReadyQuery, UART_Reply_Status, Reply
  <2> QED
    BY <2>1 DEF flagVars
<1> QED
  BY <1>1, <1>2, <1>3, <1>4, <1>5 DEF Next, Thread

\* The answers UART_Thread gives to the ready queries never go back from ready or
\* failed to not ready, nor from failed to ready, wherever the camera thread
\* preempts it between its reads of the two flags.
THEOREM StatusAnswersMonotone == Spec => StatusMonotone
<1>1. Init => StatusInv
  BY DEF Init, InitFlags, StatusInv
<1>2. TypeOK /\ StatusInv /\ [Next]_vars => StatusInv'
  BY StatusPreserved
<1>3. TypeOK /\ StatusInv /\ [Next]_vars => [StatusStep]_told
  BY StatusPreserved
<1>4. Spec => [][StatusStep]_told
  BY <1>1, <1>2, <1>3, TypeCorrect, PTL DEF Spec
<1> QED
  BY <1>4 DEF StatusMonotone, StatusStep

-----------------------------------------------------------------------------
\* The bytes still owed by at most three writes.
Owed(s) ==
  CASE Len(s) = 1 -> s[1]
    [] Len(s) = 2 -> s[1] + s[2]
    [] OTHER      -> s[1] + s[2] + s[3]

\* One to three writes, none of length 0.
Writes(s) == Len(s) \in 1..3 /\ \A i \in 1..Len(s) : s[i] > 0

\* A reply begun with room keeps it: what it still owes fits in the queue.
RoomInv ==
  "crowded" \notin seen =>
     /\ "truncated" \notin seen
     /\ pc = "write" => Writes(segs) /\ oq + Owed(segs) <= OutCap

\* Only the empty sequence has length 0.
LEMMA EmptySequence ==
  ASSUME NEW s \in Seq(Nat), Len(s) = 0
  PROVE  s = << >>
OBVIOUS

\* A byte that is queued is owed no longer.
LEMMA AfterByteOwed ==
  ASSUME NEW s \in Seq(Nat), Writes(s)
  PROVE  /\ Owed(s) \in Nat /\ Owed(s) > 0
         /\ AfterByte(s) # << >> =>
              Writes(AfterByte(s)) /\ Owed(AfterByte(s)) = Owed(s) - 1
<1>1. Len(s) \in {1, 2, 3} /\ \A i \in 1..Len(s) : s[i] \in Nat /\ s[i] > 0
  BY DEF Writes
<1>2. Head(s) = s[1] /\ s[1] \in Nat /\ s[1] > 0
  BY <1>1
<1>3. Owed(s) \in Nat /\ Owed(s) > 0
  <2>1. CASE Len(s) = 1
    BY <1>1, <2>1 DEF Owed
  <2>2. CASE Len(s) = 2
    BY <1>1, <2>2 DEF Owed
  <2>3. CASE Len(s) = 3
    BY <1>1, <2>3 DEF Owed
  <2> QED
    BY <1>1, <2>1, <2>2, <2>3
<1>4. CASE s[1] = 1
  <2> DEFINE t == Tail(s)
  <2>1. AfterByte(s) = t
    BY <1>2, <1>4 DEF AfterByte
  <2>2. t \in Seq(Nat) /\ Len(t) = Len(s) - 1 /\ \A i \in 1..(Len(s) - 1) : t[i] = s[i + 1]
    BY <1>1
  <2>3. Len(s) = 1 => t = << >>
    <3>1. ASSUME Len(t) = 0 PROVE t = << >>
      BY <2>2, <3>1, EmptySequence
    <3> QED
      BY <2>2, <3>1
  <2> HIDE DEF t
  <2>4. CASE Len(s) = 1
    BY <1>3, <2>1, <2>3, <2>4
  <2>5. CASE Len(s) = 2
    <3>1. Len(t) = 1 /\ t[1] = s[2] /\ s[2] \in Nat /\ s[2] > 0
      BY <1>1, <2>2, <2>5
    <3>2. Writes(t)
      BY <3>1 DEF Writes
    <3>3. Owed(t) = s[2] /\ Owed(s) = s[1] + s[2]
      BY <2>5, <3>1 DEF Owed
    <3> QED
      BY <1>3, <1>4, <2>1, <3>1, <3>2, <3>3
  <2>6. CASE Len(s) = 3
    <3>1. Len(t) = 2 /\ t[1] = s[2] /\ t[2] = s[3] /\ s[2] \in Nat /\ s[3] \in Nat /\ s[2] > 0 /\ s[3] > 0
      BY <1>1, <2>2, <2>6
    <3>2. Writes(t)
      BY <3>1 DEF Writes
    <3>3. Owed(t) = s[2] + s[3] /\ Owed(s) = s[1] + s[2] + s[3]
      BY <2>6, <3>1 DEF Owed
    <3>4. Owed(t) = Owed(s) - 1
      BY <1>4, <3>1, <3>3
    <3> QED
      BY <1>3, <2>1, <3>2, <3>4
  <2> QED
    BY <1>1, <2>4, <2>5, <2>6
<1>5. CASE s[1] # 1
  <2> DEFINE r == <<s[1] - 1>> \o Tail(s)
  <2>1. AfterByte(s) = r
    BY <1>2, <1>5 DEF AfterByte
  <2>2. s[1] - 1 \in Nat /\ s[1] - 1 > 0
    BY <1>2, <1>5
  <2>3. Len(r) = Len(s) /\ r[1] = s[1] - 1 /\ \A i \in 2..Len(s) : r[i] = s[i]
    BY <1>1, <2>2
  <2> HIDE DEF r
  <2>4. Writes(r)
    BY <1>1, <2>2, <2>3 DEF Writes
  <2>5. Owed(r) = Owed(s) - 1
    <3>1. CASE Len(s) = 1
      BY <1>1, <2>3, <3>1 DEF Owed
    <3>2. CASE Len(s) = 2
      BY <1>1, <2>3, <3>2 DEF Owed
    <3>3. CASE Len(s) = 3
      BY <1>1, <2>3, <3>3 DEF Owed
    <3> QED
      BY <1>1, <3>1, <3>2, <3>3
  <2> QED
    BY <1>3, <2>1, <2>4, <2>5
<1> QED
  BY <1>4, <1>5

\* A reply whose total is given rightly, begun with room, owes what fits.
LEMMA ReplyRoom ==
  ASSUME RoomInv, NEW lengths \in Seq(Nat), Len(lengths) \in 1..3,
         Reply(lengths, Owed(lengths)), oq' = oq, TypeOK
  PROVE  RoomInv'
<1> SUFFICES ASSUME "crowded" \notin seen'
             PROVE  /\ "truncated" \notin seen'
                    /\ pc' = "write" => Writes(segs') /\ oq' + Owed(segs') <= OutCap
  BY Zenon DEF RoomInv
<1>1. segs' = lengths
  BY DEF Reply
<1>2. ~(oq + Owed(lengths) > OutCap) /\ \A i \in DOMAIN lengths : lengths[i] # 0
  BY DEF Reply
<1>3. seen' = seen \/ seen' = seen \cup {"crowded"}
  BY DEF Reply
<1>4. "truncated" \notin seen'
  BY <1>3 DEF RoomInv
<1>5. DOMAIN lengths = 1..Len(lengths) /\ \A i \in 1..Len(lengths) : lengths[i] \in Nat
  OBVIOUS
<1>6. Writes(lengths)
  BY <1>2, <1>5 DEF Writes
<1>7. oq \in Nat /\ OutCap \in Nat /\ Owed(lengths) \in Nat
  BY <1>6, AfterByteOwed, CapAssumption DEF TypeOK, DriverTypeOK
<1>8. oq' + Owed(lengths) <= OutCap
  BY <1>2, <1>7
<1> QED
  BY <1>1, <1>4, <1>6, <1>8

\* What the replies of UART_Reply_Status and UART_Reply_Data owe.
LEMMA ReplyTotals ==
  /\ <<6>> \in Seq(Nat) /\ Len(<<6>>) \in 1..3 /\ Owed(<<6>>) = 6
  /\ \A n \in Nat : /\ <<6, n, 2>> \in Seq(Nat) /\ Len(<<6, n, 2>>) \in 1..3
                    /\ Owed(<<6, n, 2>>) = 8 + n
<1>1. Owed(<<6>>) = 6
  BY DEF Owed
<1>2. ASSUME NEW n \in Nat
      PROVE  Owed(<<6, n, 2>>) = 8 + n
  <2>1. Len(<<6, n, 2>>) = 3
    OBVIOUS
  <2>2. Owed(<<6, n, 2>>) = 6 + n + 2
    BY <2>1 DEF Owed
  <2> QED
    BY <2>2
<1> QED
  BY <1>1, <1>2

\* Every step keeps the room a reply was begun with.
LEMMA RoomPreserved ==
  ASSUME TypeOK, Control, RoomInv, [Next]_vars
  PROVE  RoomInv'
<1>1. ASSUME UNCHANGED <<pc, segs>>, oq' = oq \/ oq' = oq - 1,
             "crowded" \in seen => "crowded" \in seen',
             "truncated" \in seen' => "truncated" \in seen
      PROVE  RoomInv'
  <2> SUFFICES ASSUME "crowded" \notin seen'
               PROVE  /\ "truncated" \notin seen'
                      /\ pc' = "write" => Writes(segs') /\ oq' + Owed(segs') <= OutCap
    BY Zenon DEF RoomInv
  <2>1. "truncated" \notin seen'
    BY <1>1 DEF RoomInv
  <2>2. CASE pc = "write"
    <3>1. Writes(segs) /\ oq + Owed(segs) <= OutCap
      BY <1>1, <2>2 DEF RoomInv
    <3>2. Owed(segs) \in Nat /\ oq \in Nat /\ OutCap \in Nat
      BY <3>1, AfterByteOwed, CapAssumption DEF TypeOK, DriverTypeOK
    <3>3. oq' + Owed(segs) <= OutCap
      BY <1>1, <3>1, <3>2
    <3> QED
      BY <1>1, <2>1, <3>1, <3>3
  <2> QED
    BY <1>1, <2>1, <2>2
<1>2. ASSUME oq' = oq, pc' # "write", "crowded" \in seen => "crowded" \in seen',
             "truncated" \in seen' => "truncated" \in seen
      PROVE  RoomInv'
  BY <1>2 DEF RoomInv
<1>3. CASE Ihu \/ Camera \/ UNCHANGED vars
  <2>1. UNCHANGED <<pc, segs, oq, seen>>
    BY <1>3 DEF Ihu, IhuSend, Camera, vars, driverVars, threadVars, historyVars
  <2> QED
    BY <1>1, <2>1
<1>4. CASE RxByte \/ RxError
  <2>1. UNCHANGED <<pc, segs, oq>> /\ Received
    BY <1>4 DEF RxByte, RxError, Received, sdIncomingDataI, ReceiveDamaged, ReceiveLost,
                threadVars
  <2>2. /\ "crowded" \in seen => "crowded" \in seen'
        /\ "truncated" \in seen' => "truncated" \in seen
    BY <2>1 DEF Received
  <2> QED
    BY <1>1, <2>1, <2>2
<1>5. CASE TxInterrupt
  <2>1. UNCHANGED <<pc, segs, seen>> /\ (oq' = oq \/ oq' = oq - 1)
    BY <1>5 DEF TxInterrupt, TxByte, TxEmpty, TxEnd, threadVars, historyVars
  <2> QED
    BY <1>1, <2>1
<1>6. CASE ThreadStart \/ WaitEvent
  <2>1. UNCHANGED <<oq, seen>> /\ pc' # "write"
    BY <1>6 DEF ThreadStart, Register, WaitEvent, WaitOne, historyVars
  <2> QED
    BY <1>2, <2>1
<1>7. CASE ReadByte
  <2>1. PICK b \in Byte :
          /\ sdReadByte(b)
          /\ \/ UNCHANGED <<pc, segs, seen>>
             \/ Dispatch(Append(buf, b))
    BY <1>7 DEF ReadByte
  <2>2. oq' = oq /\ pc = "read"
    BY <1>7, <2>1 DEF ReadByte, sdReadByte
  <2>3. CASE UNCHANGED <<pc, segs, seen>>
    BY <1>1, <2>2, <2>3
  <2>4. CASE Dispatch(Append(buf, b))
    <3>1. \/ pc' = "wait" /\ seen' = seen \cup {"silent"}
          \/ Reply(<<6>>, 6)
          \/ pc' \in {"status", "line"} /\ UNCHANGED seen
      BY <2>4 DEF Dispatch
    <3>2. CASE Reply(<<6>>, 6)
      BY <2>2, <3>2, ReplyRoom, ReplyTotals
    <3> QED
      BY <1>2, <2>2, <3>1, <3>2
  <2> QED
    BY <2>1, <2>3, <2>4
<1>8. CASE ReadyQuery
  <2>1. Reply(<<6>>, 6) /\ oq' = oq
    BY <1>8 DEF ReadyQuery, UART_Reply_Status, driverVars
  <2> QED
    BY <2>1, ReplyRoom, ReplyTotals
<1>9. CASE TransmitLine
  <2>1. oq' = oq /\ \E n \in LineLens : IF n = 0 THEN Reply(<<6>>, 6) ELSE UART_Reply_Data(n)
    BY <1>9 DEF TransmitLine, driverVars
  <2>2. CASE Reply(<<6>>, 6)
    BY <2>1, <2>2, ReplyRoom, ReplyTotals
  <2>3. ASSUME NEW n \in LineLens, UART_Reply_Data(n)
        PROVE  RoomInv'
    <3> DEFINE k == n % LenField
    <3>1. k \in Nat
      BY UartAssumption
    <3>2. Reply(<<6, k, 2>>, 8 + k)
      BY <2>3 DEF UART_Reply_Data
    <3> HIDE DEF k
    <3>3. /\ <<6, k, 2>> \in Seq(Nat) /\ Len(<<6, k, 2>>) \in 1..3
          /\ Owed(<<6, k, 2>>) = 8 + k
      BY <3>1, ReplyTotals
    <3>4. Reply(<<6, k, 2>>, Owed(<<6, k, 2>>))
      BY <3>2, <3>3
    <3> QED
      BY <2>1, <3>3, <3>4, ReplyRoom
  <2> QED
    BY <2>1, <2>2, <2>3
<1>10. CASE WriteByte
  <2>1. pc = "write" /\ segs \in Seq(Nat) /\ pc' = IF segs' = << >> THEN "wait" ELSE "write"
    BY <1>10 DEF WriteByte, TypeOK
  <2> SUFFICES ASSUME "crowded" \notin seen'
               PROVE  /\ "truncated" \notin seen'
                      /\ pc' = "write" => Writes(segs') /\ oq' + Owed(segs') <= OutCap
    BY Zenon DEF RoomInv
  <2>2. "crowded" \notin seen
    BY <1>10 DEF WriteByte
  <2>3. "truncated" \notin seen /\ Writes(segs) /\ oq + Owed(segs) <= OutCap
    BY <2>1, <2>2 DEF RoomInv
  <2>4. Owed(segs) \in Nat /\ Owed(segs) > 0 /\ oq \in Nat /\ OutCap \in Nat
    BY <2>1, <2>3, AfterByteOwed, CapAssumption DEF TypeOK, DriverTypeOK
  <2>5. oq # OutCap
    BY <2>3, <2>4
  <2>6. sdQueueByte /\ segs' = AfterByte(segs) /\ UNCHANGED seen
    BY <1>10, <2>5 DEF WriteByte
  <2>7. oq' = oq + 1
    BY <2>6 DEF sdQueueByte
  <2>8. ASSUME pc' = "write"
        PROVE  Writes(segs') /\ oq' + Owed(segs') <= OutCap
    <3>1. Writes(segs') /\ Owed(segs') = Owed(segs) - 1
      BY <2>1, <2>3, <2>6, <2>8, AfterByteOwed
    <3> QED
      BY <2>3, <2>4, <2>7, <3>1
  <2> QED
    BY <2>3, <2>6, <2>8
<1> QED
  BY <1>3, <1>4, <1>5, <1>6, <1>7, <1>8, <1>9, <1>10 DEF Next, Thread

\* The writes of a reply are not blocking and their results are ignored, and yet
\* no byte of a reply is left out as long as every reply was begun with room for
\* all of it in the output queue and without a write of length 0.
THEOREM RepliesComplete == Spec => []RepliesWhole
<1>1. Init => RoomInv
  BY DEF Init, RoomInv
<1>2. TypeOK /\ Control /\ RoomInv /\ [Next]_vars => RoomInv'
  BY RoomPreserved
<1>3. IInv => TypeOK /\ Control
  BY DEF IInv
<1>4. RoomInv => RepliesWhole
  BY DEF RoomInv, RepliesWhole
<1> QED
  BY <1>1, <1>2, <1>3, <1>4, Inductive, PTL DEF Spec

-----------------------------------------------------------------------------
\* What the IHU has sent and UART_Thread has not parsed yet, in order.
Stream == (buf \o iq) \o wire

\* The six bytes of s after the first 6 * k are a frame of the command c.
FrameAt(s, k, c) == \A j \in 1..6 : s[6 * k + j] = Frame(c)[j]

\* s is made of whole frames.
Framed(s) ==
  \E n \in Nat : Len(s) = 6 * n /\ \A k \in 0..(n - 1) : \E c \in Cmds : FrameAt(s, k, c)

\* Clean traffic of known commands.
Clean == Cmds \subseteq {"R", "T"} /\ errors = 0 /\ "dropped" \notin seen

FramingInv == Clean => Framed(Stream) /\ "silent" \notin seen

\* Taking the first element of v from behind u changes nothing of what they hold.
LEMMA Passed ==
  ASSUME NEW S, NEW u \in Seq(S), NEW v \in Seq(S), v # << >>
  PROVE  Append(u, Head(v)) \o Tail(v) = u \o v
<1> DEFINE l == Append(u, Head(v)) \o Tail(v)
           r == u \o v
<1>1. Head(v) \in S /\ Head(v) = v[1] /\ Tail(v) \in Seq(S) /\ Len(Tail(v)) = Len(v) - 1
      /\ Len(v) \in Nat \ {0} /\ \A i \in 1 .. Len(Tail(v)) : Tail(v)[i] = v[i + 1]
  BY HeadTailProperties, EmptySeq
<1>2. /\ Append(u, Head(v)) \in Seq(S) /\ Len(Append(u, Head(v))) = Len(u) + 1
      /\ \A i \in 1..Len(u) : Append(u, Head(v))[i] = u[i]
      /\ Append(u, Head(v))[Len(u) + 1] = Head(v) /\ Len(u) \in Nat
  BY <1>1
<1>3. /\ l \in Seq(S) /\ Len(l) = (Len(u) + 1) + (Len(v) - 1)
      /\ \A i \in 1 .. ((Len(u) + 1) + (Len(v) - 1)) :
           l[i] = IF i <= Len(u) + 1 THEN Append(u, Head(v))[i] ELSE Tail(v)[i - (Len(u) + 1)]
  <2>1. Append(u, Head(v)) \in Seq(S)
    BY <1>2
  <2> QED
    BY <1>1, <1>2, <2>1, ConcatProperties
<1>4. /\ r \in Seq(S) /\ Len(r) = Len(u) + Len(v)
      /\ \A i \in 1 .. (Len(u) + Len(v)) : r[i] = IF i <= Len(u) THEN u[i] ELSE v[i - Len(u)]
  BY ConcatProperties
<1> HIDE DEF l, r
<1>5. ASSUME NEW i \in 1..Len(l) PROVE l[i] = r[i]
  <2>0. i \in Nat /\ i > 0 /\ i <= Len(u) + Len(v) /\ Len(l) = Len(u) + Len(v)
    BY <1>1, <1>2, <1>3
  <2>1. CASE i <= Len(u)
    BY <1>1, <1>2, <1>3, <1>4, <2>0, <2>1
  <2>2. CASE i = Len(u) + 1
    BY <1>1, <1>2, <1>3, <1>4, <2>0, <2>2
  <2>3. CASE i > Len(u) + 1
    <3>1. i - (Len(u) + 1) \in 1 .. Len(Tail(v)) /\ (i - (Len(u) + 1)) + 1 = i - Len(u)
      BY <1>1, <1>2, <2>0, <2>3
    <3>2. l[i] = Tail(v)[i - (Len(u) + 1)] /\ r[i] = v[i - Len(u)]
      BY <1>2, <1>3, <1>4, <2>0, <2>3
    <3> QED
      BY <1>1, <3>1, <3>2
  <2> QED
    BY <1>2, <2>0, <2>1, <2>2, <2>3
<1>6. Len(l) = Len(r)
  BY <1>1, <1>2, <1>3, <1>4
<1>7. l = r
  BY <1>3, <1>4, <1>5, <1>6, SeqEqual
<1> QED
  BY <1>7 DEF l, r

\* A frame has six bytes.
LEMMA FrameBytes ==
  ASSUME NEW c \in Cmds
  PROVE  Frame(c) \in Seq(Byte) /\ Len(Frame(c)) = 6
<1>1. {"ver0", "ver1", "build", c} \subseteq Byte
  BY UartAssumption
<1> QED
  BY <1>1 DEF Frame

\* A frame sent behind whole frames.
LEMMA FramedSend ==
  ASSUME NEW s \in Seq(Byte), Framed(s), NEW c \in Cmds
  PROVE  Framed(s \o Frame(c))
<1> DEFINE t == s \o Frame(c)
<1>1. PICK n \in Nat : Len(s) = 6 * n /\ \A k \in 0..(n - 1) : \E d \in Cmds : FrameAt(s, k, d)
  BY DEF Framed
<1>2. Frame(c) \in Seq(Byte) /\ Len(Frame(c)) = 6
  BY FrameBytes
<1>3. /\ Len(t) = 6 * n + 6
      /\ \A i \in 1 .. (6 * n + 6) : t[i] = IF i <= 6 * n THEN s[i] ELSE Frame(c)[i - 6 * n]
  <2>1. /\ Len(t) = Len(s) + Len(Frame(c))
        /\ \A i \in 1 .. (Len(s) + Len(Frame(c))) :
             t[i] = IF i <= Len(s) THEN s[i] ELSE Frame(c)[i - Len(s)]
    BY <1>2, ConcatProperties
  <2> HIDE DEF t
  <2> QED
    BY <1>1, <1>2, <2>1
<1> HIDE DEF t
<1>4. Len(t) = 6 * (n + 1) /\ n + 1 \in Nat
  BY <1>3
<1>5. ASSUME NEW k \in 0..n PROVE \E d \in Cmds : FrameAt(t, k, d)
  <2>1. CASE k < n
    <3>1. PICK d \in Cmds : FrameAt(s, k, d)
      BY <1>1, <2>1
    <3>2. ASSUME NEW j \in 1..6 PROVE t[6 * k + j] = Frame(d)[j]
      <4>1. 6 * k + j \in 1 .. (6 * n + 6) /\ 6 * k + j <= 6 * n
        BY <2>1
      <4> QED
        BY <1>3, <3>1, <4>1 DEF FrameAt
    <3> QED
      BY <3>2 DEF FrameAt
  <2>2. CASE k = n
    <3>1. ASSUME NEW j \in 1..6 PROVE t[6 * k + j] = Frame(c)[j]
      <4>1. 6 * k + j \in 1 .. (6 * n + 6) /\ ~(6 * k + j <= 6 * n) /\ (6 * k + j) - 6 * n = j
        BY <2>2
      <4> QED
        BY <1>3, <4>1
    <3> QED
      BY <3>1 DEF FrameAt
  <2> QED
    BY <2>1, <2>2
<1>6. \A k \in 0..((n + 1) - 1) : \E d \in Cmds : FrameAt(t, k, d)
  BY <1>5
<1>7. Framed(t)
  BY <1>4, <1>6 DEF Framed
<1> QED
  BY <1>7 DEF t

\* The first six bytes of whole frames are a frame, and whole frames remain.
LEMMA FramedTake ==
  ASSUME NEW f \in Seq(Byte), Len(f) = 6, NEW t \in Seq(Byte), Framed(f \o t)
  PROVE  Framed(t) /\ \E c \in Cmds : \A j \in 1..6 : f[j] = Frame(c)[j]
<1> DEFINE s == f \o t
<1>1. PICK n \in Nat : Len(s) = 6 * n /\ \A k \in 0..(n - 1) : \E d \in Cmds : FrameAt(s, k, d)
  BY DEF Framed
<1>2. /\ Len(s) = 6 + Len(t) /\ Len(t) \in Nat
      /\ \A i \in 1 .. (6 + Len(t)) : s[i] = IF i <= 6 THEN f[i] ELSE t[i - 6]
  <2>1. /\ Len(s) = Len(f) + Len(t)
        /\ \A i \in 1 .. (Len(f) + Len(t)) : s[i] = IF i <= Len(f) THEN f[i] ELSE t[i - Len(f)]
    BY ConcatProperties
  <2>2. Len(t) \in Nat
    BY LenProperties
  <2> HIDE DEF s
  <2> QED
    BY <2>1, <2>2
<1> HIDE DEF s
<1>3. n - 1 \in Nat /\ Len(t) = 6 * (n - 1)
  BY <1>1, <1>2
<1>4. PICK c \in Cmds : FrameAt(s, 0, c)
  BY <1>1, <1>3
<1>5. ASSUME NEW j \in 1..6 PROVE f[j] = Frame(c)[j]
  <2>1. 6 * 0 + j = j /\ j \in 1 .. (6 + Len(t)) /\ j <= 6
    BY <1>2
  <2> QED
    BY <1>2, <1>4, <2>1 DEF FrameAt
<1>6. ASSUME NEW k \in 0..((n - 1) - 1) PROVE \E d \in Cmds : FrameAt(t, k, d)
  <2>1. k + 1 \in 0..(n - 1)
    BY <1>3
  <2>2. PICK d \in Cmds : FrameAt(s, k + 1, d)
    BY <1>1, <2>1
  <2>3. ASSUME NEW j \in 1..6 PROVE t[6 * k + j] = Frame(d)[j]
    <3>1. /\ 6 * (k + 1) + j \in 1 .. (6 + Len(t)) /\ ~(6 * (k + 1) + j <= 6)
          /\ (6 * (k + 1) + j) - 6 = 6 * k + j
      BY <1>3
    <3> QED
      BY <1>2, <2>2, <3>1 DEF FrameAt
  <2> QED
    BY <2>3 DEF FrameAt
<1>7. Framed(t)
  BY <1>3, <1>6 DEF Framed
<1> QED
  BY <1>5, <1>7

\* The bytes on the line, in the queue and in read_buffer stay whole frames, and
\* UART_Thread finds each frame well formed.
LEMMA FramingPreserved ==
  ASSUME TypeOK, FramingInv, [Next]_vars
  PROVE  FramingInv'
<1>0. buf \in Seq(Byte) /\ iq \in Seq(Byte) /\ wire \in Seq(Byte) /\ errors \in Nat
      /\ buf \o iq \in Seq(Byte) /\ Stream \in Seq(Byte) /\ Len(iq) <= InCap /\ InCap \in Nat
      /\ Len(buf) < 6
  <2>1. buf \in Seq(Byte) /\ iq \in Seq(Byte) /\ wire \in Seq(Byte) /\ errors \in Nat
        /\ Len(iq) <= InCap /\ Len(buf) < 6 /\ InCap \in Nat
    BY UartAssumption, CapAssumption DEF TypeOK, DriverTypeOK, MESSAGE_CMD_SIZE
  <2>2. buf \o iq \in Seq(Byte)
    BY <2>1, ConcatProperties
  <2>3. Stream \in Seq(Byte)
    BY <2>1, <2>2, ConcatProperties DEF Stream
  <2> QED
    BY <2>1, <2>2, <2>3
<1>1. ASSUME Stream' = Stream, errors' = errors,
             "dropped" \in seen => "dropped" \in seen',
             "silent" \in seen' => "silent" \in seen
      PROVE  FramingInv'
  <2>1. Clean' => Clean
    BY <1>1 DEF Clean
  <2>2. Framed(Stream)' = Framed(Stream)
    BY <1>1 DEF Framed, FrameAt
  <2> QED
    BY <1>1, <2>1, <2>2 DEF FramingInv
<1>2. CASE Ihu
  <2>1. PICK c \in Cmds : IhuSend(c)
    BY <1>2 DEF Ihu
  <2>2. wire = << >> /\ wire' = Frame(c) /\ UNCHANGED <<buf, iq, errors, seen>>
    BY <2>1 DEF IhuSend, driverVars, threadVars, historyVars
  <2>3. Stream = buf \o iq /\ Stream' = (buf \o iq) \o Frame(c)
    <3>1. (buf \o iq) \o << >> = buf \o iq
      BY <1>0, ConcatEmptySeq
    <3> QED
      BY <2>2, <3>1 DEF Stream
  <2>4. Framed(Stream) => Framed(Stream')
    BY <1>0, <2>3, FramedSend
  <2>5. Framed(Stream)' <=> Framed(Stream')
    BY DEF Framed, FrameAt
  <2> QED
    BY <2>2, <2>4, <2>5 DEF FramingInv, Clean
<1>3. CASE RxByte
  <2>1. wire # << >> /\ sdIncomingDataI(Head(wire)) /\ Received /\ errors' = errors
    BY <1>3 DEF RxByte
  <2>2. CASE Len(iq) >= InCap
    BY <2>1, <2>2 DEF Received, FramingInv, Clean
  <2>3. CASE ~(Len(iq) >= InCap)
    <3>1. iq' = Append(iq, Head(wire)) /\ wire' = Tail(wire) /\ buf' = buf
      BY <1>0, <2>1, <2>3 DEF sdIncomingDataI, Received, threadVars
    <3>2. Head(wire) \in Byte /\ Tail(wire) \in Seq(Byte)
      BY <1>0, <2>1, HeadTailProperties
    <3>3. buf \o Append(iq, Head(wire)) = Append(buf \o iq, Head(wire))
      BY <1>0, <3>2
    <3>4. Append(buf \o iq, Head(wire)) \o Tail(wire) = Stream
      BY <1>0, <2>1, Passed DEF Stream
    <3>5. Stream' = Stream
      BY <3>1, <3>3, <3>4 DEF Stream
    <3>6. /\ "dropped" \in seen => "dropped" \in seen'
          /\ "silent" \in seen' => "silent" \in seen
      BY <2>1 DEF Received
    <3> QED
      BY <1>1, <2>1, <3>5, <3>6
  <2> QED
    BY <2>2, <2>3
<1>4. CASE RxError
  <2>1. errors' = errors + 1
    BY <1>4 DEF RxError
  <2>2. errors' # 0
    BY <1>0, <2>1
  <2> QED
    BY <2>2 DEF FramingInv, Clean
<1>5. CASE TxInterrupt \/ Camera \/ ThreadStart \/ WaitEvent \/ UNCHANGED vars
  <2>1. UNCHANGED <<buf, iq, wire, errors, seen>>
    BY <1>5 DEF TxInterrupt, TxByte, TxEmpty, TxEnd, Camera, ThreadStart, Register, WaitEvent,
                WaitOne, vars, driverVars, threadVars, lineVars, historyVars
  <2> QED
    BY <1>1, <2>1 DEF Stream
<1>6. CASE ReadyQuery \/ TransmitLine \/ WriteByte
  <2>1. UNCHANGED <<buf, iq, wire, errors>>
    BY <1>6 DEF ReadyQuery, TransmitLine, WriteByte, sdQueueByte, driverVars, lineVars
  <2>2. /\ "dropped" \in seen => "dropped" \in seen'
        /\ "silent" \in seen' => "silent" \in seen
    <3>1. ASSUME NEW l, NEW n, Reply(l, n)
          PROVE  /\ "dropped" \in seen => "dropped" \in seen'
                 /\ "silent" \in seen' => "silent" \in seen
      BY <3>1 DEF Reply
    <3>2. CASE ReadyQuery
      BY <3>1, <3>2 DEF ReadyQuery, UART_Reply_Status
    <3>3. CASE TransmitLine
      <4>1. PICK n \in LineLens : Reply(<<6>>, 6) \/ UART_Reply_Data(n)
        BY <3>3 DEF TransmitLine
      <4>2. Reply(<<6>>, 6) \/ Reply(<<6, n % LenField, 2>>, 8 + (n % LenField))
        BY <4>1 DEF UART_Reply_Data
      <4> QED
        BY <3>1, <4>2
    <3>4. CASE WriteByte
      BY <3>4 DEF WriteByte
    <3> QED
      BY <1>6, <3>2, <3>3, <3>4
  <2> QED
    BY <1>1, <2>1, <2>2 DEF Stream
<1>7. CASE ReadByte
  <2>1. PICK b \in Byte :
          /\ sdReadByte(b)
          /\ IF Len(buf) + 1 < MESSAGE_CMD_SIZE
               THEN /\ buf' = Append(buf, b)
                    /\ UNCHANGED <<pc, segs, replied, told, seen>>
               ELSE /\ buf' = << >>
                    /\ Dispatch(Append(buf, b))
    BY <1>7 DEF ReadByte
  <2>2. iq # << >> /\ b = Head(iq) /\ iq' = Tail(iq) /\ UNCHANGED <<wire, errors>>
    BY <1>7, <2>1 DEF ReadByte, sdReadByte, lineVars
  <2>3. Tail(iq) \in Seq(Byte) /\ Append(buf, b) \in Seq(Byte)
        /\ Len(Append(buf, b)) = Len(buf) + 1
    BY <1>0, <2>2, HeadTailProperties
  <2>4. Append(buf, b) \o Tail(iq) = buf \o iq
    BY <1>0, <2>2, Passed
  <2>5. CASE Len(buf) + 1 < MESSAGE_CMD_SIZE
    BY <1>1, <2>1, <2>2, <2>4, <2>5 DEF Stream
  <2>6. CASE ~(Len(buf) + 1 < MESSAGE_CMD_SIZE)
    <3> DEFINE f == Append(buf, b)
               t == Tail(iq) \o wire
    <3>1. buf' = << >> /\ Dispatch(f) /\ Len(f) = 6 /\ f \in Seq(Byte)
      BY <1>0, <2>1, <2>3, <2>6 DEF MESSAGE_CMD_SIZE
    <3>2. t \in Seq(Byte) /\ Stream = f \o t
      <4>1. (f \o Tail(iq)) \o wire = f \o (Tail(iq) \o wire)
        <5>1. f \in Seq(Byte) /\ Tail(iq) \in Seq(Byte) /\ wire \in Seq(Byte)
          BY <1>0, <2>3
        <5> QED
          BY ONLY <5>1, ConcatAssociative
      <4>2. t \in Seq(Byte)
        BY <1>0, <2>3, ConcatProperties
      <4> QED
        BY <2>4, <4>1, <4>2 DEF Stream
    <3>3. Stream' = t
      <4>1. << >> \o Tail(iq) = Tail(iq)
        BY <2>3, ConcatEmptySeq
      <4> QED
        BY <2>2, <3>1, <4>1 DEF Stream
    <3> HIDE DEF f, t
    <3>4. Framed(Stream)' <=> Framed(t)
      BY <3>3 DEF Framed, FrameAt
    <3> SUFFICES ASSUME Clean' PROVE Framed(t) /\ "silent" \notin seen'
      BY <3>4 DEF FramingInv
    <3>5. "dropped" \in seen => "dropped" \in seen'
      BY <3>1 DEF Dispatch, Reply
    <3>6. Clean /\ Framed(f \o t) /\ "silent" \notin seen
      BY <2>2, <3>2, <3>5 DEF FramingInv, Clean
    <3>7. Framed(t) /\ \E c \in Cmds : \A j \in 1..6 : f[j] = Frame(c)[j]
      BY <3>1, <3>2, <3>6, FramedTake
    <3>8. WellFormed(f) /\ f[5] \in {"R", "T"}
      <4>1. PICK c \in Cmds : \A j \in 1..6 : f[j] = Frame(c)[j]
        BY <3>7
      <4>2. f[1] = "ver0" /\ f[2] = "ver1" /\ f[5] = c /\ f[6] = c
        BY <4>1 DEF Frame
      <4>3. c \in {"R", "T"}
        BY <3>6 DEF Clean
      <4> QED
        BY <4>2, <4>3 DEF WellFormed
    <3>9. "silent" \notin seen'
      BY <3>1, <3>6, <3>8 DEF Dispatch, Reply
    <3> QED
      BY <3>7, <3>9
  <2> QED
    BY <2>5, <2>6
<1> QED
  BY <1>2, <1>3, <1>4, <1>5, <1>6, <1>7 DEF Next, Thread

\* Without a damaged, lost or dropped byte the 6-byte reads of UART_Thread never
\* leave the frame boundaries: no frame of a known command is discarded.
THEOREM FramesAligned == Spec => []FramingKept
<1>1. Init => FramingInv
  <2> SUFFICES ASSUME Init PROVE Framed(Stream) /\ "silent" \notin seen
    BY DEF FramingInv
  <2>1. Stream = << >> /\ seen = {}
    BY DEF Init, DriverInit, Stream
  <2>2. Len(Stream) = 6 * 0 /\ 0..(0 - 1) = {}
    BY <2>1
  <2>3. Framed(Stream)
    BY <2>2 DEF Framed
  <2> QED
    BY <2>1, <2>3
<1>2. TypeOK /\ FramingInv /\ [Next]_vars => FramingInv'
  BY FramingPreserved
<1>3. FramingInv => FramingKept
  BY DEF FramingInv, FramingKept, Clean
<1> QED
  BY <1>1, <1>2, <1>3, TypeCorrect, PTL DEF Spec

=============================================================================
