----------------------------- MODULE IhuSystem ------------------------------
(***************************************************************************)
(* The IHU simulator (IHU_Simulator: main.c, cmd_api.c) talking to the     *)
(* board.  The board answers each command with the bytes that UART_Thread  *)
(* sends for it (uart_iface.c); they arrive one after another, and a read  *)
(* of the simulator returns those that are there, up to what it asked for. *)
(*                                                                         *)
(* A byte is a record of its value and, in the payload of a line, its      *)
(* place in the image.  Only values that the simulator looks at are given. *)
(* What the C code leaves undefined (the rest of a buffer that a short     *)
(* read did not fill) may have any value.                                  *)
(***************************************************************************)
EXTENDS CameraFlags, Integers, SequencesExt

CONSTANTS
  Base,            \* values of a byte (256)
  Letters,         \* [Y, N, F |-> values of the answers' letters]
  Lines,           \* lines of an image (60)
  Lengths,         \* values readLineFromSPI may return
  Filler,          \* value of a payload byte
  MaxLines,        \* bound: lines the board sends
  MaxFaults        \* bound: reads cut short, and reads and writes that fail

ASSUME IhuAssumption ==
  /\ Base \in Nat /\ Base % 8 = 0 /\ Base > 0 /\ Lines \in Nat /\ Filler \in 0..Base-1
  /\ Letters \in [Y : 0..Base-1, N : 0..Base-1, F : 0..Base-1]
  /\ Lengths \subseteq 0..4*Base-1
  /\ MaxLines \in Nat /\ MaxFaults \in Nat

VARIABLES
  line,            \* the board: number of the next line
  lens,            \* and the lengths of the lines sent
  cmds,            \* commands on their way to the board
  tty,             \* bytes on their way to the simulator
  pc, i, size,     \* the simulator; i and payloadsize of get_IMG
  linenum,         \* the line number it decoded last
  output,          \* what get_IMG has written to output.dat, from its start
  faults, upset    \* history: the faults so far; what the simulator does not expect

boardVars == <<line, lens>>
ihuVars == <<pc, i, size, linenum, output, faults, upset>>
vars == <<boardVars, cmds, tty, ihuVars, flagVars>>

\* "short": a read returned less than it asked for; "error": a read or a write returned
\* -1; "long": a line of which the length needs more than seven bits; "failed": Failed
\* instead of a line.
Upsets == {"short", "error", "long", "failed"}

Half == Base \div 2

-----------------------------------------------------------------------------
(* The board *)

Byte(v) == [v |-> v, line |-> -1, pos |-> 0]

Header(b4, b5) == <<Byte(0), Byte(0), Byte(0), Byte(0), Byte(b4), Byte(b5)>>

Payload(l, n) == [k \in 1..n |-> [v |-> Filler, line |-> l, pos |-> k]]

UART_Reply_Data(l, n) ==
  Header(n % Base, (4 * l + ((n \div Base) % 4)) % Base)
    \o Payload(l, n % (4 * Base)) \o <<Byte(Filler), Byte(Filler)>>

Status(letter) == Header(letter, letter)

ReadyQuery ==
  /\ cmds # << >> /\ Head(cmds) = "R" /\ cmds' = Tail(cmds)
  /\ tty' = tty \o Status(IF cameraHealth = "FAILED" THEN Letters.F
                          ELSE IF cameraThreadDone = "BUSY" THEN Letters.N ELSE Letters.Y)
  /\ UNCHANGED <<boardVars, ihuVars, flagVars>>

TransmitLine ==
  /\ cmds # << >> /\ Head(cmds) = "T" /\ cmds' = Tail(cmds)
  /\ line < MaxLines
  /\ \/ /\ cameraHealth = "FAILED"
        /\ tty' = tty \o Status(Letters.F) /\ upset' = upset \cup {"failed"}
        /\ UNCHANGED boardVars
     \/ /\ cameraHealth = "HEALTHY"
        /\ \E n \in Lengths :
             /\ tty' = tty \o IF n = 0 THEN Status(Letters.F) ELSE UART_Reply_Data(line, n)
             /\ upset' = upset \cup {u \in {"failed"} : n = 0} \cup {u \in {"long"} : n >= Half}
             /\ lens' = Append(lens, n)
        /\ line' = line + 1
  /\ UNCHANGED <<pc, i, size, linenum, output, faults, flagVars>>

Camera == FlagsNext /\ UNCHANGED <<boardVars, cmds, tty, ihuVars>>

-----------------------------------------------------------------------------
(* The simulator *)

SendNothing(c) == UNCHANGED cmds                   \* mutant: the write fails
send_CMD(c) == cmds' = Append(cmds, c)

Take(got) == IsPrefix(got, tty) /\ tty' = SubSeq(tty, Len(got) + 1, Len(tty))

\* read(ser, ..., n) returns got, the first n bytes or fewer if no more have arrived.
read(n, got) ==
  /\ Take(got)
  /\ Len(got) = n \/ (Len(got) \in 1..n-1 /\ faults < MaxFaults)
  /\ faults' = IF Len(got) < n THEN faults + 1 ELSE faults
  /\ upset' = upset \cup {u \in {"short"} : Len(got) < n}
Arrived(n) == {SubSeq(tty, 1, k) : k \in 0..(IF n < Len(tty) THEN n ELSE Len(tty))}

\* read or write returns -1, and what all but the read of the checksum do then.
Fails == faults < MaxFaults /\ faults' = faults + 1 /\ upset' = upset \cup {"error"}
Exit == Fails /\ pc' = "exited"

\* main: get_REPLY, and the command that its result calls for.  Bytes that were not
\* read may make any answer.
get_REPLY ==
  /\ pc = "reply"
  /\ \/ Exit /\ UNCHANGED <<tty, cmds, i, output>>
     \/ \E got \in Arrived(6), answer \in {Letters.Y, Letters.N} :
          /\ read(6, got)
          /\ Len(got) = 6 => (answer = Letters.Y <=> got[5].v = Letters.Y /\ got[6].v = Letters.Y)
          /\ IF answer = Letters.Y
               THEN /\ send_CMD("T")               \* get_IMG
                    /\ pc' = "header" /\ i' = 0 /\ output' = << >>
               ELSE /\ send_CMD("R")
                    /\ UNCHANGED <<pc, i, output>>
  /\ UNCHANGED <<boardVars, size, linenum, flagVars>>

\* y << 2 | b for the two bits y.
ShiftOr(y, b) ==
  LET or(k) == IF (y \div k) % 2 = 1 \/ (b \div (4 * k)) % 2 = 1 THEN 4 * k ELSE 0
  IN  16 * (b \div 16) + or(2) + or(1) + (b % 4)

\* payloadsize of a header; a char is signed.
SizeHalved(b4, b5) == ShiftOr(b5 % 4, b4 \div 2)   \* mutant: the length is shifted too
Size(b4, b5) == IF b4 < Half THEN ShiftOr(b5 % 4, b4) ELSE -1

LineOfShort(b5) == b5 \div 2                       \* mutant: shifted by one
LineOf(b5) == (b5 \div 4) % (Base \div 4)

\* get_IMG up to the payload: it exits after a failed or a short read, and closes the
\* device after a negative size, so that the next get_REPLY exits.
ReadHeader ==
  /\ pc = "header"
  /\ \/ Exit /\ UNCHANGED <<tty, size, linenum>>
     \/ \E got \in Arrived(6) :
          /\ read(6, got)
          /\ IF Len(got) < 6 \/ Size(got[5].v, got[6].v) < 0
               THEN pc' = "exited" /\ UNCHANGED <<size, linenum>>
               ELSE /\ pc' = "payload"
                    /\ size' = Size(got[5].v, got[6].v)
                    /\ linenum' = LineOf(got[6].v)
  /\ UNCHANGED <<boardVars, cmds, i, output, flagVars>>

\* All of the buffer is written, whatever was read.  It exits if the read fails, and
\* with the bytes read but not written if the write fails.
ReadPayload ==
  /\ pc = "payload"
  /\ \E got \in Arrived(size) :
       \/ Exit /\ Take(got) /\ UNCHANGED output
       \/ /\ read(size, got)
          /\ output' = output \o got \o [k \in 1..(size - Len(got)) |-> Byte(0)]
          /\ pc' = "chksum"
  /\ UNCHANGED <<boardVars, cmds, i, size, linenum, flagVars>>

\* The loop over the bytes of the payload uses the i of the loop over the lines.
AskNext ==
  /\ i' = size + 1
  /\ IF i' < Lines
       THEN send_CMD("T") /\ pc' = "header"
       ELSE pc' = "reply" /\ UNCHANGED cmds
  /\ UNCHANGED <<boardVars, size, linenum, output, flagVars>>

ReadChksumHalf ==                                  \* mutant: one byte of the checksum
  pc = "chksum" /\ (\E got \in Arrived(1) : read(1, got)) /\ AskNext

\* The result of this read is not looked at.
ReadChksum ==
  /\ pc = "chksum"
  /\ \/ Fails /\ UNCHANGED tty
     \/ \E got \in Arrived(2) : read(2, got)
  /\ AskNext

-----------------------------------------------------------------------------
Board == ReadyQuery \/ TransmitLine
Ihu == get_REPLY \/ ReadHeader \/ ReadPayload \/ ReadChksum

Init ==
  /\ InitFlags
  /\ line = 0 /\ lens = << >>
  /\ cmds = <<"R">> /\ tty = << >>
  /\ pc = "reply" /\ i = 0 /\ size = 0 /\ linenum = 0 /\ output = << >>
  /\ faults = 0 /\ upset = {}

Next == Board \/ Camera \/ Ihu

Spec == Init /\ [][Next]_vars

(* UART_Thread answers, and a read returns once its bytes have arrived. *)
FairSpec == Spec /\ WF_vars(Board) /\ WF_vars(Ihu /\ faults' = faults)

-----------------------------------------------------------------------------
(* Properties *)

\* As long as nothing upsets the simulator, output.dat is the lines the board has sent,
\* whole, once each, in order; the line being received may be missing.
FirstLines(k) == FlattenSeq([l \in 1..k |-> Payload(l - 1, lens[l])])

OutputIsLines ==
  upset = {} =>
    output = FirstLines(IF pc = "payload" \/ (pc = "header" /\ tty # << >>)
                          THEN line - 1 ELSE line)

\* And the line number it prints is the one of the line, modulo 64.
LineNumberRight ==
  upset = {} /\ pc \in {"payload", "chksum"} => linenum = (line - 1) % (Base \div 4)

\* And it has read all of a reply before it sends the next command: the habit that
\* UART_Thread needs of it.
WaitsForReply == upset = {} /\ cmds # << >> => Len(cmds) = 1 /\ tty = << >>

\* It exits only when something upset it, and leaves get_IMG at the first line of
\* Lines - 1 bytes or more, however many lines are left: then it waits for a reply to a
\* command that it did not send, and so does the board.  This is why SixtyMessages
\* fails.
EndsAtLongLine ==
  /\ pc = "exited" => upset # {}
  /\ upset = {} /\ line > 0 =>
       /\ \A l \in 1..line-1 : lens[l] < Lines - 1
       /\ pc = "reply" => lens[line] >= Lines - 1 /\ cmds = << >> /\ tty = << >>

\* "There should be 60 messages" (cmd_api.c): when get_IMG returns and nothing has
\* upset it, the board has sent as many lines as the image has.
SixtyMessages == upset = {} /\ pc = "reply" /\ line > 0 => line = Lines

\* A line that was asked for gets into the file, unless something upsets the simulator.
EveryLineArrives ==
  \A n \in 1..MaxLines :
    (pc = "header" /\ tty = << >> /\ line = n - 1)
      ~> (upset # {} \/ (line >= n /\ Len(output) >= Len(FirstLines(n))))

=============================================================================
