---------------------------- MODULE SerialDriver ----------------------------
(***************************************************************************)
(* The ChibiOS serial driver SD3 between the IHU line and UART_Thread: the *)
(* input queue, the output queue, the USART transmit interrupts and the    *)
(* event flags the driver broadcasts to the one registered listener.       *)
(*                                                                         *)
(* Operators here are actions on the driver's variables only; UartThread   *)
(* composes them with the thread, the line and the camera flags.  Each one *)
(* is atomic because the code runs it between chSysLock and chSysUnlock    *)
(* (or in the interrupt handler).                                          *)
(***************************************************************************)
EXTENDS Integers, Sequences

CONSTANTS
  InCap,      \* size of the input queue   (SERIAL_BUFFERS_SIZE, 128)
  OutCap,     \* size of the output queue  (SERIAL_BUFFERS_SIZE, 128)
  Byte        \* what one received byte can be

ASSUME CapAssumption == InCap \in Nat \ {0} /\ OutCap \in Nat \ {0}

VARIABLES
  iq,         \* bytes in the input queue, oldest first
  oq,         \* number of bytes in the output queue
  irq,        \* which transmit interrupts are enabled, a subset of TxIrq
  events,     \* pending event bits of UART_Thread (p_epending)
  listener    \* the thread chEvtRegisterMask put on the event source, if any

driverVars == <<iq, oq, irq, events, listener>>

TxIrq == {"TXEIE", "TCIE"}

\* CHN_INPUT_AVAILABLE (4), CHN_OUTPUT_EMPTY (8), SD_OVERRUN_ERROR (128).
myUART_events == {"IN", "OUT", "OVR"}

DriverTypeOK ==
  /\ iq \in Seq(Byte) /\ Len(iq) <= InCap
  /\ oq \in 0..OutCap
  /\ irq \in SUBSET TxIrq
  /\ events \in SUBSET myUART_events
  /\ listener \in {"none", "UART_Thread"}

\* sdStart, before any thread registers for the events.
DriverInit ==
  iq = << >> /\ oq = 0 /\ irq = {} /\ events = {} /\ listener = "none"

-----------------------------------------------------------------------------
(* Events *)

\* chnAddFlagsI -> chEvtBroadcastFlagsI.  A listener is signalled with the mask
\* it registered, whatever the flags are: every broadcast makes all three bits
\* of the thread pending.  With no listener the broadcast has no effect.
Broadcast == events' = IF listener # "none" THEN myUART_events ELSE events

\* chEvtRegisterMask
Register ==
  /\ listener' = "UART_Thread"
  /\ UNCHANGED <<iq, oq, irq, events>>

\* The pending bit with the lowest number: m & -m.
Lowest(set) == IF "IN" \in set THEN "IN" ELSE IF "OUT" \in set THEN "OUT" ELSE "OVR"

\* chEvtWaitOne returns the bit e and clears only that one.
WaitOne(e) ==
  /\ events # {}
  /\ e = Lowest(events)
  /\ events' = events \ {e}
  /\ UNCHANGED <<iq, oq, irq, listener>>

-----------------------------------------------------------------------------
(* Receiving *)

\* sdIncomingDataI: the input event is raised only for the byte that finds the
\* queue empty; a byte that finds it full is dropped and raises the overrun.
sdIncomingDataI(b) ==
  /\ IF Len(iq) < InCap THEN iq' = Append(iq, b) ELSE UNCHANGED iq
  /\ IF iq = << >> \/ Len(iq) >= InCap THEN Broadcast ELSE UNCHANGED events
  /\ UNCHANGED <<oq, irq, listener>>

\* set_error, and sdIncomingDataI for the damaged byte b (framing, noise or
\* parity error: RXNE is set as well).
ReceiveDamaged(b) ==
  /\ IF Len(iq) < InCap THEN iq' = Append(iq, b) ELSE UNCHANGED iq
  /\ Broadcast
  /\ UNCHANGED <<oq, irq, listener>>

\* set_error for a byte the hardware lost (ORE).
ReceiveLost ==
  /\ Broadcast
  /\ UNCHANGED <<iq, oq, irq, listener>>

\* One turn of chIQReadTimeout(TIME_INFINITE): blocks while the queue is empty.
sdReadByte(b) ==
  /\ iq # << >>
  /\ b = Head(iq)
  /\ iq' = Tail(iq)
  /\ UNCHANGED <<oq, irq, events, listener>>

-----------------------------------------------------------------------------
(* Transmitting *)

\* One byte of chOQWriteTimeout: queued, and notify3 enables the interrupt.
QueueUnchecked ==                                  \* mutant: no test for a full queue
  /\ oq' = oq + 1
  /\ irq' = irq \cup {"TXEIE"}
  /\ UNCHANGED <<iq, events, listener>>

sdQueueByte ==
  /\ oq < OutCap
  /\ oq' = oq + 1
  /\ irq' = irq \cup {"TXEIE"}
  /\ UNCHANGED <<iq, events, listener>>

\* serve_interrupt handles TXE and then TC, from values of SR and CR1 read once.
\* When the handler was late the transmission has ended already: TC is handled
\* too, and CR1 is written back from the old value, so TXEIE stays enabled.
LateEnd ==
  /\ irq' = irq \ {"TCIE"}
  /\ Broadcast

\* serve_interrupt, TXE with a byte to send.
TxByte ==
  /\ "TXEIE" \in irq
  /\ oq > 0
  /\ oq' = oq - 1
  /\ LateEnd \/ UNCHANGED <<irq, events>>
  /\ UNCHANGED <<iq, listener>>

\* serve_interrupt, TXE with the output queue empty: CHN_OUTPUT_EMPTY.
TxEmptyNoEvent ==                                  \* mutant: no event
  /\ "TXEIE" \in irq
  /\ oq = 0
  /\ irq' = (irq \ {"TXEIE"}) \cup {"TCIE"}
  /\ UNCHANGED <<iq, oq, events, listener>>

TxEmpty ==
  /\ "TXEIE" \in irq
  /\ oq = 0
  /\ LateEnd \/ (irq' = (irq \ {"TXEIE"}) \cup {"TCIE"} /\ Broadcast)
  /\ UNCHANGED <<iq, oq, listener>>

\* serve_interrupt, TC: CHN_TRANSMISSION_END.
TxEnd ==
  /\ "TCIE" \in irq
  /\ irq' = irq \ {"TCIE"}
  /\ Broadcast
  /\ UNCHANGED <<iq, oq, listener>>

=============================================================================
