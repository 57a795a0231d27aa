------------------------- MODULE CameraThread_proofs ------------------------
(***************************************************************************)
(* CameraThread for every number of row groups in a frame: its type, the   *)
(* image it encodes, and the protocol of its status flags; and what is     *)
(* true of the thread or of the bus alone is true of the two together.     *)
(***************************************************************************)
EXTENDS CameraSystem, TLAPS

\* A window is set, and the camera configured, while a half image is captured.
Capture == {"resetRead", "waitLow1", "wenOn", "waitHigh1", "waitLow2", "waitHigh2",
            "waitLow3", "wenOff", "grab", "encode"}

\* Where the thread is tells the window, the pointers and the write enable.
ThreadInv ==
  /\ pc \in Capture \cup {"setup"} => segment \in {0, 1} /\ success = "RDY_OK"
  /\ pc \in Capture => win = segment
  /\ pc \in Capture \ {"resetRead", "grab", "encode"} => rp = 0
  /\ pc = "grab" => rp = bulk_reads
  /\ pc = "encode" => rp = bulk_reads + 1
  /\ wen = "set" <=> pc \in {"waitHigh1", "waitLow2", "waitHigh2", "waitLow3", "wenOff"}

\* The rows of the frame being sent are in the FIFO, the thread having seen the
\* pause before it.
RowsIn(k) == \A i \in 1..k : fifo[i] = [frame |-> frame, win |-> win, row |-> i]

\* The FIFO holds a whole frame of the window.
WholeFrame ==
  \A i \in 1..NUM_READS : fifo[i] = [frame |-> fifo[1].frame, win |-> win, row |-> i]

FifoInv ==
  /\ vsync = "low" => wp = 0
  /\ pc \in {"waitHigh2", "waitLow3"} /\ vsync = "high" => wp = row /\ RowsIn(row)
  /\ pc = "waitLow3" /\ vsync = "low" => RowsIn(NUM_READS)
  /\ pc = "wenOff" => vsync = "low" /\ RowsIn(NUM_READS)
  /\ pc \in {"grab", "encode"} => WholeFrame
  /\ pc = "encode" => pixelData = fifo[rp]

\* The row groups encoded so far.
Encoded == IF segment = 0 THEN 0 ELSE IF segment = 1 THEN NUM_READS ELSE 2 * NUM_READS

LengthInv ==
  /\ pc \in {"start", "configure"} => image = << >>
  /\ success = "255" => image = << >>
  /\ pc \in {"grab", "encode"} => Len(image) = Encoded + bulk_reads
  /\ pc = "encode" => bulk_reads < NUM_READS
  /\ pc \in (Capture \ {"grab", "encode"}) \cup {"segment", "setup"} /\ success = "RDY_OK"
       => Len(image) = Encoded
  /\ Len(image) <= 2 * NUM_READS

\* Line l is of half image Half(l).
Half(l) == IF l < NUM_READS THEN 0 ELSE 1

ImageInv ==
  \A k \in 1..Len(image) :
    /\ image[k].line = k - 1
    /\ image[k].data \in Group
    /\ image[k].data.win = Half(k - 1)
    /\ image[k].data.row = k - NUM_READS * Half(k - 1)
    /\ \A j \in 1..Len(image) :
         Half(j - 1) = Half(k - 1) => image[j].data.frame = image[k].data.frame
    /\ pc \in {"grab", "encode"} /\ Half(k - 1) = segment
         => image[k].data.frame = fifo[1].frame

\* Failed until the end, and done only at the end unless failed.
FlagsInv ==
  /\ pc = "failed" => cameraHealth = "FAILED" /\ success = "RDY_OK"
  /\ cameraHealth = "FAILED" => pc \in {"failed", "close", "done", "end"}
  /\ cameraThreadDone = "DONE" => pc \in {"close", "done", "end"}
  /\ cameraThreadDone = "DONE" /\ pc # "end" => cameraHealth = "FAILED"
  /\ pc = "end" => cameraThreadDone = "DONE"
  /\ pc \in {"close", "done", "end"} /\ cameraHealth = "HEALTHY" /\ success = "RDY_OK"
       => Len(image) = 2 * NUM_READS
  /\ pc \in {"done", "end"} => closed = "yes"

\* Holds whenever WEN is cleared.
\* Holds whenever WEN is cleared.
\* Holds whenever WEN is cleared.
\* Holds whenever WEN is cleared.
\* Holds whenever WEN is cleared.
\* Holds whenever WEN is cleared.
\* Holds whenever WEN is cleared.
\* Holds whenever WEN is cleared.
IInv == TypeOK /\ ThreadInv /\ LengthInv /\ FlagsInv

\* Holds if it is cleared before the next frame starts.
FrameInv == FifoInv /\ ImageInv

-----------------------------------------------------------------------------
LEMMA Positive == NUM_READS \in Nat /\ NUM_READS >= 1
  BY CameraAssumption

LEMMA InitInv == Init => IInv
  BY Positive DEF Init, IInv, TypeOK, Group, NoGroup, Segments, ThreadInv, Capture, LengthInv,
                  Encoded, FlagsInv

LEMMA InitFrameInv == Init => FrameInv
  BY DEF Init, FrameInv, FifoInv, ImageInv

LEMMA TypeNext == IInv /\ [Next]_vars => TypeOK'
<1> SUFFICES ASSUME IInv, [Next]_vars
             PROVE  TypeOK'
  OBVIOUS
<1> USE Positive DEF IInv, Goto, cameraVars, threadVars, flagVars
<1>1. CASE UNCHANGED vars
  BY <1>1 DEF vars, TypeOK, Group, NoGroup, Segments
<1>2. CASE FrameStart
  BY <1>2 DEF FrameStart, TypeOK, Group, NoGroup, Segments
<1>3. CASE SendRows
  <2>1. [frame |-> frame, win |-> win, row |-> row + 1] \in Group /\ wp + 1 \in Int
    BY <1>3 DEF SendRows, TypeOK, Group
  <2>2. fifo' \in [1..NUM_READS -> Group \cup {NoGroup}] /\ wp' \in 0..NUM_READS
    BY <1>3, <2>1 DEF SendRows, TypeOK
  <2> QED
    BY <1>3, <2>2 DEF SendRows, TypeOK
<1>4. CASE FrameEnd
  BY <1>4 DEF FrameEnd, TypeOK, Group, NoGroup, Segments
<1>5. CASE Start
  BY <1>5 DEF Start, TypeOK, Group, NoGroup, Segments
<1>6. CASE Configure
  BY <1>6 DEF Configure, TypeOK, Group, NoGroup, Segments
<1>7. CASE NextSegment
  BY <1>7 DEF NextSegment, TypeOK, Group, NoGroup, Segments
<1>8. CASE setupSegment
  BY <1>8 DEF setupSegment, TypeOK, ThreadInv, Segments
<1>9. CASE Failed
  BY <1>9 DEF Failed, TypeOK, Group, NoGroup, Segments
<1>10. CASE resetReadPointer
  BY <1>10 DEF resetReadPointer, TypeOK, Group, NoGroup, Segments
<1>11. CASE PollVSYNC
  BY <1>11 DEF PollVSYNC, TypeOK, Group, NoGroup, Segments
<1>12. CASE EnableWEN
  BY <1>12 DEF EnableWEN, TypeOK, Group, NoGroup, Segments
<1>13. CASE DisableWEN
  BY <1>13 DEF DisableWEN, TypeOK, Group, NoGroup, Segments
<1>14. CASE GrabBytes
  <2>1. pixelData' \in Group \cup {NoGroup} /\ rp' \in 0..NUM_READS
    BY <1>14 DEF GrabBytes, TypeOK
  <2>2. segment' \in 0..2 /\ pc' \in {"encode", "segment"}
    BY <1>14 DEF GrabBytes, TypeOK, ThreadInv, Capture
  <2> QED
    BY <1>14, <2>1, <2>2 DEF GrabBytes, TypeOK
<1>15. CASE encode_line_yuv
  <2>1. bulk_reads \in 0..NUM_READS-1 /\ segment \in {0, 1}
    BY <1>15 DEF encode_line_yuv, TypeOK, ThreadInv, LengthInv, Capture
  <2>2. NUM_READS * 0 = 0 /\ NUM_READS * 1 = NUM_READS
    OBVIOUS
  <2>3. bulk_reads + NUM_READS * segment \in 0..2*NUM_READS-1
    BY <2>1, <2>2
  <2>4. image' \in Seq([line : 0..2*NUM_READS-1, data : Group \cup {NoGroup}])
    BY <1>15, <2>3 DEF encode_line_yuv, TypeOK
  <2> QED
    BY <1>15, <2>1, <2>4 DEF encode_line_yuv, TypeOK
<1>16. CASE jpeg_close
  BY <1>16 DEF jpeg_close, TypeOK, Group, NoGroup, Segments
<1>17. CASE SetDone
  BY <1>17 DEF SetDone, TypeOK, Group, NoGroup, Segments
<1> QED
  BY <1>1, <1>2, <1>3, <1>4, <1>5, <1>6, <1>7, <1>8, <1>9, <1>10, <1>11, <1>12, <1>13, <1>14, <1>15, <1>16, <1>17 DEF Next, Hardware, Thread

LEMMA ThreadNext == IInv /\ [Next]_vars => ThreadInv'
<1> SUFFICES ASSUME IInv, [Next]_vars
             PROVE  ThreadInv'
  OBVIOUS
<1> USE Positive DEF IInv, Goto, cameraVars, threadVars, flagVars
<1>1. CASE UNCHANGED vars
  BY <1>1 DEF vars, TypeOK, ThreadInv, Capture
<1>2. CASE FrameStart
  BY <1>2 DEF FrameStart, TypeOK, ThreadInv, Capture
<1>3. CASE SendRows
  BY <1>3 DEF SendRows, TypeOK, ThreadInv, Capture
<1>4. CASE FrameEnd
  BY <1>4 DEF FrameEnd, TypeOK, ThreadInv, Capture
<1>5. CASE Start
  BY <1>5 DEF Start, TypeOK, ThreadInv, Capture
<1>6. CASE Configure
  BY <1>6 DEF Configure, TypeOK, ThreadInv, Capture
<1>7. CASE NextSegment
  BY <1>7 DEF NextSegment, TypeOK, ThreadInv, Capture
<1>8. CASE setupSegment
  BY <1>8 DEF setupSegment, TypeOK, ThreadInv, Capture
<1>9. CASE Failed
  BY <1>9 DEF Failed, TypeOK, ThreadInv, Capture
<1>10. CASE resetReadPointer
  BY <1>10 DEF resetReadPointer, TypeOK, ThreadInv, Capture
<1>11. CASE PollVSYNC
  BY <1>11 DEF PollVSYNC, TypeOK, ThreadInv, Capture
<1>12. CASE EnableWEN
  BY <1>12 DEF EnableWEN, TypeOK, ThreadInv, Capture
<1>13. CASE DisableWEN
  BY <1>13 DEF DisableWEN, TypeOK, ThreadInv, Capture
<1>14. CASE GrabBytes
  BY <1>14 DEF GrabBytes, TypeOK, ThreadInv, LengthInv, Capture
<1>15. CASE encode_line_yuv
  BY <1>15 DEF encode_line_yuv, TypeOK, ThreadInv, LengthInv, Capture
<1>16. CASE jpeg_close
  BY <1>16 DEF jpeg_close, TypeOK, ThreadInv, Capture
<1>17. CASE SetDone
  BY <1>17 DEF SetDone, TypeOK, ThreadInv, Capture
<1> QED
  BY <1>1, <1>2, <1>3, <1>4, <1>5, <1>6, <1>7, <1>8, <1>9, <1>10, <1>11, <1>12, <1>13, <1>14, <1>15, <1>16, <1>17 DEF Next, Hardware, Thread

LEMMA LengthNext == IInv /\ [Next]_vars => LengthInv'
<1> SUFFICES ASSUME IInv, [Next]_vars
             PROVE  LengthInv'
  OBVIOUS
<1> USE Positive DEF IInv, Goto, cameraVars, threadVars, flagVars
<1>1. CASE UNCHANGED vars
  BY <1>1 DEF vars, TypeOK, ThreadInv, LengthInv, Capture, Encoded, FlagsInv
<1>2. CASE FrameStart
  BY <1>2 DEF FrameStart, TypeOK, ThreadInv, LengthInv, Capture, Encoded, FlagsInv
<1>3. CASE SendRows
  BY <1>3 DEF SendRows, TypeOK, ThreadInv, LengthInv, Capture, Encoded, FlagsInv
<1>4. CASE FrameEnd
  BY <1>4 DEF FrameEnd, TypeOK, ThreadInv, LengthInv, Capture, Encoded, FlagsInv
<1>5. CASE Start
  BY <1>5 DEF Start, TypeOK, ThreadInv, LengthInv, Capture, Encoded, FlagsInv
<1>6. CASE Configure
  BY <1>6 DEF Configure, TypeOK, ThreadInv, LengthInv, Capture, Encoded, FlagsInv
<1>7. CASE NextSegment
  BY <1>7 DEF NextSegment, TypeOK, ThreadInv, LengthInv, Capture, Encoded, FlagsInv
<1>8. CASE setupSegment
  BY <1>8 DEF setupSegment, TypeOK, ThreadInv, LengthInv, Capture, Encoded, FlagsInv
<1>9. CASE Failed
  BY <1>9 DEF Failed, TypeOK, ThreadInv, LengthInv, Capture, Encoded, FlagsInv
<1>10. CASE resetReadPointer
  BY <1>10 DEF resetReadPointer, TypeOK, ThreadInv, LengthInv, Capture, Encoded, FlagsInv
<1>11. CASE PollVSYNC
  BY <1>11 DEF PollVSYNC, TypeOK, ThreadInv, LengthInv, Capture, Encoded, FlagsInv
<1>12. CASE EnableWEN
  BY <1>12 DEF EnableWEN, TypeOK, ThreadInv, LengthInv, Capture, Encoded, FlagsInv
<1>13. CASE DisableWEN
  BY <1>13 DEF DisableWEN, TypeOK, ThreadInv, LengthInv, Capture, Encoded, FlagsInv
<1>14. CASE GrabBytes
  BY <1>14 DEF GrabBytes, TypeOK, ThreadInv, LengthInv, Capture, Encoded, FlagsInv
<1>15. CASE encode_line_yuv
  BY <1>15 DEF encode_line_yuv, TypeOK, ThreadInv, LengthInv, Capture, Encoded, FlagsInv
<1>16. CASE jpeg_close
  BY <1>16 DEF jpeg_close, TypeOK, ThreadInv, LengthInv, Capture, Encoded, FlagsInv
<1>17. CASE SetDone
  BY <1>17 DEF SetDone, TypeOK, ThreadInv, LengthInv, Capture, Encoded, FlagsInv
<1> QED
  BY <1>1, <1>2, <1>3, <1>4, <1>5, <1>6, <1>7, <1>8, <1>9, <1>10, <1>11, <1>12, <1>13, <1>14, <1>15, <1>16, <1>17 DEF Next, Hardware, Thread

LEMMA FlagsNext == IInv /\ [Next]_vars => FlagsInv'
<1> SUFFICES ASSUME IInv, [Next]_vars
             PROVE  FlagsInv'
  OBVIOUS
<1> USE Positive DEF IInv, Goto, cameraVars, threadVars, flagVars
<1>1. CASE UNCHANGED vars
  BY <1>1 DEF vars, TypeOK, ThreadInv, LengthInv, FlagsInv, Capture, Encoded
<1>2. CASE FrameStart
  BY <1>2 DEF FrameStart, TypeOK, ThreadInv, LengthInv, FlagsInv, Capture, Encoded
<1>3. CASE SendRows
  BY <1>3 DEF SendRows, TypeOK, ThreadInv, LengthInv, FlagsInv, Capture, Encoded
<1>4. CASE FrameEnd
  BY <1>4 DEF FrameEnd, TypeOK, ThreadInv, LengthInv, FlagsInv, Capture, Encoded
<1>5. CASE Start
  BY <1>5 DEF Start, TypeOK, ThreadInv, LengthInv, FlagsInv, Capture, Encoded
<1>6. CASE Configure
  BY <1>6 DEF Configure, TypeOK, ThreadInv, LengthInv, FlagsInv, Capture, Encoded
<1>7. CASE NextSegment
  BY <1>7 DEF NextSegment, TypeOK, ThreadInv, LengthInv, FlagsInv, Capture, Encoded
<1>8. CASE setupSegment
  BY <1>8 DEF setupSegment, TypeOK, ThreadInv, LengthInv, FlagsInv, Capture, Encoded
<1>9. CASE Failed
  BY <1>9 DEF Failed, TypeOK, ThreadInv, LengthInv, FlagsInv, Capture, Encoded
<1>10. CASE resetReadPointer
  BY <1>10 DEF resetReadPointer, TypeOK, ThreadInv, LengthInv, FlagsInv, Capture, Encoded
<1>11. CASE PollVSYNC
  BY <1>11 DEF PollVSYNC, TypeOK, ThreadInv, LengthInv, FlagsInv, Capture, Encoded
<1>12. CASE EnableWEN
  BY <1>12 DEF EnableWEN, TypeOK, ThreadInv, LengthInv, FlagsInv, Capture, Encoded
<1>13. CASE DisableWEN
  BY <1>13 DEF DisableWEN, TypeOK, ThreadInv, LengthInv, FlagsInv, Capture, Encoded
<1>14. CASE GrabBytes
  BY <1>14 DEF GrabBytes, TypeOK, ThreadInv, LengthInv, FlagsInv, Capture, Encoded
<1>15. CASE encode_line_yuv
  BY <1>15 DEF encode_line_yuv, TypeOK, ThreadInv, LengthInv, FlagsInv, Capture, Encoded
<1>16. CASE jpeg_close
  BY <1>16 DEF jpeg_close, TypeOK, ThreadInv, LengthInv, FlagsInv, Capture, Encoded
<1>17. CASE SetDone
  BY <1>17 DEF SetDone, TypeOK, ThreadInv, LengthInv, FlagsInv, Capture, Encoded
<1> QED
  BY <1>1, <1>2, <1>3, <1>4, <1>5, <1>6, <1>7, <1>8, <1>9, <1>10, <1>11, <1>12, <1>13, <1>14, <1>15, <1>16, <1>17 DEF Next, Hardware, Thread

LEMMA Invariance == Spec => []IInv
<1>1. IInv /\ [Next]_vars => IInv'
  BY TypeNext, ThreadNext, LengthNext, FlagsNext DEF IInv
<1> QED
  BY InitInv, <1>1, PTL DEF Spec

LEMMA FifoNext == PromptWEN /\ IInv /\ FifoInv /\ [Next]_vars => FifoInv'
<1> SUFFICES ASSUME PromptWEN /\ IInv /\ FifoInv, [Next]_vars
             PROVE  FifoInv'
  OBVIOUS
<1> USE Positive DEF IInv, Goto, cameraVars, threadVars, flagVars
<1>1. CASE UNCHANGED vars
  BY <1>1 DEF vars, TypeOK, ThreadInv, LengthInv, FifoInv, Capture, RowsIn, WholeFrame
<1>2. CASE FrameStart
  BY <1>2 DEF FrameStart, TypeOK, ThreadInv, LengthInv, FifoInv, Capture, RowsIn, WholeFrame
<1>3. CASE SendRows
  <2>1. wen # "set" => UNCHANGED <<fifo, wp>>
    BY <1>3 DEF SendRows
  <2>2. CASE pc \in {"waitHigh2", "waitLow3"}
    <3>1. wp = row /\ RowsIn(row) /\ wen = "set" /\ row < NUM_READS
      BY <1>3, <2>2 DEF SendRows, FifoInv, ThreadInv
    <3>2. /\ fifo' = [fifo EXCEPT ![row + 1] = [frame |-> frame, win |-> win, row |-> row + 1]]
          /\ wp' = row + 1 /\ row' = row + 1 /\ UNCHANGED <<frame, win>>
      BY <1>3, <3>1 DEF SendRows
    <3>3. RowsIn(row)'
      BY <3>1, <3>2 DEF RowsIn, TypeOK
    <3> QED
      BY <1>3, <2>2, <3>2, <3>3 DEF SendRows, FifoInv, RowsIn
  <2>3. CASE pc \in {"grab", "encode"}
    BY <1>3, <2>1, <2>3 DEF SendRows, FifoInv, ThreadInv, WholeFrame
  <2> QED
    BY <1>3, <2>2, <2>3 DEF SendRows, FifoInv
<1>4. CASE FrameEnd
  BY <1>4 DEF FrameEnd, TypeOK, ThreadInv, LengthInv, FifoInv, Capture, RowsIn, WholeFrame
<1>5. CASE Start
  BY <1>5 DEF Start, TypeOK, ThreadInv, LengthInv, FifoInv, Capture, RowsIn, WholeFrame
<1>6. CASE Configure
  BY <1>6 DEF Configure, TypeOK, ThreadInv, LengthInv, FifoInv, Capture, RowsIn, WholeFrame
<1>7. CASE NextSegment
  BY <1>7 DEF NextSegment, TypeOK, ThreadInv, LengthInv, FifoInv, Capture, RowsIn, WholeFrame
<1>8. CASE setupSegment
  BY <1>8 DEF setupSegment, TypeOK, ThreadInv, LengthInv, FifoInv, Capture, RowsIn, WholeFrame
<1>9. CASE Failed
  BY <1>9 DEF Failed, TypeOK, ThreadInv, LengthInv, FifoInv, Capture, RowsIn, WholeFrame
<1>10. CASE resetReadPointer
  BY <1>10 DEF resetReadPointer, TypeOK, ThreadInv, LengthInv, FifoInv, Capture, RowsIn, WholeFrame
<1>11. CASE PollVSYNC
  BY <1>11 DEF PollVSYNC, TypeOK, ThreadInv, LengthInv, FifoInv, Capture, RowsIn, WholeFrame
<1>12. CASE EnableWEN
  BY <1>12 DEF EnableWEN, TypeOK, ThreadInv, LengthInv, FifoInv, Capture, RowsIn, WholeFrame
<1>13. CASE DisableWEN
  BY <1>13 DEF DisableWEN, TypeOK, ThreadInv, LengthInv, FifoInv, Capture, RowsIn, WholeFrame
<1>14. CASE GrabBytes
  BY <1>14 DEF GrabBytes, TypeOK, ThreadInv, LengthInv, FifoInv, Capture, RowsIn, WholeFrame
<1>15. CASE encode_line_yuv
  BY <1>15 DEF encode_line_yuv, TypeOK, ThreadInv, LengthInv, FifoInv, Capture, RowsIn, WholeFrame
<1>16. CASE jpeg_close
  BY <1>16 DEF jpeg_close, TypeOK, ThreadInv, LengthInv, FifoInv, Capture, RowsIn, WholeFrame
<1>17. CASE SetDone
  BY <1>17 DEF SetDone, TypeOK, ThreadInv, LengthInv, FifoInv, Capture, RowsIn, WholeFrame
<1> QED
  BY <1>1, <1>2, <1>3, <1>4, <1>5, <1>6, <1>7, <1>8, <1>9, <1>10, <1>11, <1>12, <1>13, <1>14, <1>15, <1>16, <1>17 DEF Next, Hardware, Thread

LEMMA ImageNext == IInv /\ FifoInv /\ ImageInv /\ [Next]_vars => ImageInv'
<1> SUFFICES ASSUME IInv /\ FifoInv /\ ImageInv, [Next]_vars
             PROVE  ImageInv'
  OBVIOUS
<1> USE Positive DEF IInv, Goto, cameraVars, threadVars, flagVars
<1>1. CASE UNCHANGED vars
  BY <1>1 DEF vars, ImageInv
<1>2. CASE FrameStart
  BY <1>2 DEF FrameStart, TypeOK, ThreadInv, ImageInv
<1>3. CASE SendRows
  <2>1. pc \in {"grab", "encode"} => fifo' = fifo
    BY <1>3 DEF SendRows, ThreadInv, Capture, TypeOK
  <2>2. UNCHANGED <<pc, image, segment>>
    BY <1>3 DEF SendRows
  <2> QED
    BY <2>1, <2>2 DEF ImageInv
<1>4. CASE FrameEnd
  BY <1>4 DEF FrameEnd, TypeOK, ThreadInv, ImageInv
<1>5. CASE Start
  BY <1>5 DEF Start, TypeOK, ThreadInv, ImageInv
<1>6. CASE Configure
  BY <1>6 DEF Configure, TypeOK, ThreadInv, ImageInv
<1>7. CASE NextSegment
  BY <1>7 DEF NextSegment, TypeOK, ThreadInv, ImageInv
<1>8. CASE setupSegment
  BY <1>8 DEF setupSegment, TypeOK, ThreadInv, ImageInv
<1>9. CASE Failed
  BY <1>9 DEF Failed, TypeOK, ThreadInv, ImageInv
<1>10. CASE resetReadPointer
  BY <1>10 DEF resetReadPointer, TypeOK, ThreadInv, ImageInv
<1>11. CASE PollVSYNC
  BY <1>11 DEF PollVSYNC, TypeOK, ThreadInv, ImageInv
<1>12. CASE EnableWEN
  BY <1>12 DEF EnableWEN, TypeOK, ThreadInv, ImageInv
<1>13. CASE DisableWEN
  <2>1. segment \in {0, 1} /\ Len(image) = Encoded /\ UNCHANGED <<image, segment, fifo>>
    BY <1>13 DEF DisableWEN, ThreadInv, LengthInv, Capture
  <2>2. \A k \in 1..Len(image) : Half(k - 1) # segment
    BY <2>1 DEF Encoded, Half
  <2> QED
    BY <2>1, <2>2 DEF ImageInv
<1>14. CASE GrabBytes
  BY <1>14 DEF GrabBytes, TypeOK, ThreadInv, ImageInv
<1>15. CASE encode_line_yuv
  <2> DEFINE l == bulk_reads + NUM_READS * segment
             f == fifo[1].frame
             e == [line |-> l, data |-> pixelData]
  <2>1. /\ segment \in {0, 1} /\ bulk_reads \in 0..NUM_READS-1 /\ rp = bulk_reads + 1
        /\ Len(image) = Encoded + bulk_reads /\ win = segment
    BY <1>15 DEF encode_line_yuv, TypeOK, ThreadInv, LengthInv, Capture
  <2>2. NUM_READS * 0 = 0 /\ NUM_READS * 1 = NUM_READS
    OBVIOUS
  <2>3. l = Len(image) /\ l \in 0..2*NUM_READS-1 /\ Half(l) = segment
        /\ rp = l + 1 - NUM_READS * Half(l)
    BY <2>1, <2>2 DEF Encoded, Half
  <2>4. pixelData = [frame |-> f, win |-> segment, row |-> rp]
    <3>1. WholeFrame /\ pixelData = fifo[rp]
      BY <1>15 DEF encode_line_yuv, FifoInv
    <3>2. rp \in 1..NUM_READS
      BY <2>1
    <3> QED
      BY <2>1, <3>1, <3>2 DEF WholeFrame
  <2>5. f \in 0..2 /\ pixelData \in Group
    <3>1. fifo[1] \in Group \cup {NoGroup}
      BY DEF TypeOK
    <3>2. f \in 0..2
      BY <3>1 DEF Group, NoGroup
    <3> QED
      BY <2>1, <2>4, <3>2 DEF Group, Segments
  <2>6. /\ image' = Append(image, e) /\ pc' = "grab"
        /\ UNCHANGED <<segment, fifo>> /\ pc = "encode"
    BY <1>15 DEF encode_line_yuv
  <2>7. image \in Seq([line : 0..2*NUM_READS-1, data : Group \cup {NoGroup}])
    BY DEF TypeOK
  <2> HIDE DEF l, f
  <2>8. /\ Len(image') = l + 1 /\ image'[l + 1] = e
        /\ \A k \in 1..l : image'[k] = image[k]
    BY <2>3, <2>6, <2>7
  <2>9. \A k \in 1..(l+1) : /\ image'[k].line = k - 1 /\ image'[k].data \in Group
                             /\ image'[k].data.win = Half(k - 1)
                             /\ image'[k].data.row = k - NUM_READS * Half(k - 1)
    <3>1. \A k \in 1..l : /\ image'[k].line = k - 1 /\ image'[k].data \in Group
                          /\ image'[k].data.win = Half(k - 1)
                          /\ image'[k].data.row = k - NUM_READS * Half(k - 1)
      BY <2>3, <2>8 DEF ImageInv
    <3>2. e.line = l /\ e.data = pixelData
      OBVIOUS
    <3>3. /\ image'[l + 1].line = l /\ image'[l + 1].data \in Group
          /\ image'[l + 1].data.win = Half(l)
          /\ image'[l + 1].data.row = l + 1 - NUM_READS * Half(l)
      BY <2>3, <2>4, <2>5, <2>8, <3>2
    <3>4. l + 1 - 1 = l /\ \A k \in 1..(l+1) : k \in 1..l \/ k = l + 1
      BY <2>3
    <3>5. SUFFICES ASSUME NEW k \in 1..(l+1)
                   PROVE  /\ image'[k].line = k - 1 /\ image'[k].data \in Group
                          /\ image'[k].data.win = Half(k - 1)
                          /\ image'[k].data.row = k - NUM_READS * Half(k - 1)
      OBVIOUS
    <3>6. CASE k \in 1..l
      BY <3>1, <3>6
    <3>7. CASE k = l + 1
      <4>1. k - 1 = l
        BY <2>3, <3>7
      <4>2. Half(k - 1) = Half(l)
        BY <4>1
      <4>3. k - NUM_READS * Half(k - 1) = l + 1 - NUM_READS * Half(l)
        <5>1. NUM_READS * Half(k - 1) = NUM_READS * Half(l)
          BY <4>2
        <5>2. NUM_READS * Half(l) \in Int
          BY DEF Half
        <5> QED
          BY <2>3, <3>7, <5>1, <5>2
      <4>4. image'[k] = image'[l + 1]
        BY <3>7
      <4> QED
        BY <3>3, <4>1, <4>2, <4>3, <4>4, Zenon
    <3> QED
      BY <3>4, <3>6, <3>7
  <2>10. \A k \in 1..(l+1) : Half(k - 1) = segment => image'[k].data.frame = f
    <3>1. \A k \in 1..l : Half(k - 1) = segment => image'[k].data.frame = f
      BY <2>3, <2>6, <2>8 DEF ImageInv, f
    <3>2. image'[l + 1].data.frame = f
      BY <2>4, <2>8
    <3>3. \A k \in 1..(l+1) : k \in 1..l \/ k = l + 1
      BY <2>3
    <3> QED
      BY <3>1, <3>2, <3>3
  <2>11. \A k \in 1..(l+1) : \A j \in 1..(l+1) :
            Half(j - 1) = Half(k - 1) => image'[j].data.frame = image'[k].data.frame
    <3> SUFFICES ASSUME NEW k \in 1..(l+1), NEW j \in 1..(l+1), Half(j - 1) = Half(k - 1)
                 PROVE  image'[j].data.frame = image'[k].data.frame
      OBVIOUS
    <3>1. CASE Half(k - 1) = segment
      BY <2>10, <3>1
    <3>2. CASE Half(k - 1) # segment
      <4>1. l + 1 - 1 = l
        BY <2>3
      <4>2. k # l + 1 /\ j # l + 1
        BY <2>3, <3>2, <4>1
      <4>3. k \in 1..l /\ j \in 1..l
        BY <2>3, <4>2
      <4> QED
        BY <2>3, <2>8, <4>3 DEF ImageInv
    <3> QED
      BY <3>1, <3>2
  <2> QED
    BY <2>6, <2>8, <2>9, <2>10, <2>11 DEF ImageInv, f
<1>16. CASE jpeg_close
  BY <1>16 DEF jpeg_close, TypeOK, ThreadInv, ImageInv
<1>17. CASE SetDone
  BY <1>17 DEF SetDone, TypeOK, ThreadInv, ImageInv
<1> QED
  BY <1>1, <1>2, <1>3, <1>4, <1>5, <1>6, <1>7, <1>8, <1>9, <1>10, <1>11, <1>12, <1>13, <1>14, <1>15, <1>16, <1>17 DEF Next, Hardware, Thread

-----------------------------------------------------------------------------
(* Theorems *)

\* Types: also every line number is one of the image, and no read passes the end of
\* the FIFO.
THEOREM TypeCorrect == Spec => []TypeOK
<1>1. IInv => TypeOK
  BY DEF IInv
<1> QED
  BY <1>1, Invariance, PTL

\* A healthy camera that was configured and is done has a whole image, closed with
\* its end marker.
THEOREM DoneImage == Spec => []DoneMeansImage
<1>1. IInv => DoneMeansImage
  BY DEF IInv, TypeOK, FlagsInv, DoneMeansImage
<1> QED
  BY <1>1, Invariance, PTL

\* Where a line of the image is.
LEMMA LineFacts ==
  ASSUME NEW l \in 0..2*NUM_READS-1
  PROVE  l \div NUM_READS = Half(l) /\ l % NUM_READS = l - NUM_READS * Half(l)
<1>1. NUM_READS \in Nat /\ NUM_READS >= 1 /\ l \in Int
  BY Positive
<1>2. CASE l < NUM_READS
  BY <1>1, <1>2 DEF Half
<1>3. CASE l >= NUM_READS
  BY <1>1, <1>3 DEF Half
<1> QED
  BY <1>1, <1>2, <1>3

\* If WEN is cleared in the pause after a frame, the image has every line, once, in
\* order, and those of a half image from one and the same frame of the camera.
THEOREM ImageLines ==
  ASSUME PromptWEN
  PROVE  Spec => []ImageLinesRight
<1>1. FrameInv /\ IInv /\ [Next]_vars => FrameInv'
  BY FifoNext, ImageNext DEF FrameInv
<1>2. FrameInv /\ IInv => ImageLinesRight
  <2> SUFFICES ASSUME FrameInv, IInv, NEW k \in 1..Len(image)
               PROVE  LET e == image[k] IN
                      /\ e.line = k - 1
                      /\ e.data # NoGroup
                      /\ e.data.win = e.line \div NUM_READS
                      /\ e.data.row = (e.line % NUM_READS) + 1
                      /\ \A j \in 1..Len(image) :
                           image[j].line \div NUM_READS = e.line \div NUM_READS
                             => image[j].data.frame = e.data.frame
    BY DEF ImageLinesRight
  <2>1. \A j \in 1..Len(image) : j - 1 \in 0..2*NUM_READS-1 /\ image[j].line = j - 1
    BY Positive DEF FrameInv, ImageInv, IInv, TypeOK, LengthInv
  <2>2. \A j \in 1..Len(image) : image[j].line \div NUM_READS = Half(j - 1)
    BY <2>1, LineFacts
  <2>3. image[k].data \in Group /\ NoGroup \notin Group
    BY DEF FrameInv, ImageInv, Group, NoGroup, Segments
  <2>4. image[k].data.row = ((k - 1) % NUM_READS) + 1
    <3>1. (k - 1) % NUM_READS = k - 1 - NUM_READS * Half(k - 1)
      BY <2>1, LineFacts
    <3>2. image[k].data.row = k - NUM_READS * Half(k - 1)
      BY DEF FrameInv, ImageInv
    <3>3. NUM_READS * Half(k - 1) \in Int
      BY Positive DEF Half
    <3> QED
      BY <3>1, <3>2, <3>3
  <2> QED
    BY <2>1, <2>2, <2>3, <2>4 DEF FrameInv, ImageInv
<1> QED
  BY InitFrameInv, Invariance, <1>1, <1>2, PTL DEF Spec

\* The camera thread keeps the protocol of the two status flags that UART_Thread
\* reads.
THEOREM FlagsProtocol == Spec => ImplementsFlags
<1>1. Init => Flags!InitFlags
  BY DEF Init, Flags!InitFlags, cam
<1>2. IInv /\ [Next]_vars => [Flags!FlagsNext]_(Flags!flagVars)
  <2> SUFFICES ASSUME IInv, [Next]_vars
               PROVE  [Flags!FlagsNext]_(Flags!flagVars)
    OBVIOUS
  <2> USE DEF IInv, Goto, flagVars
  <2>1. CASE Start
    BY <2>1 DEF Start, Flags!FlagsNext, Flags!CamStart, cam, FlagsInv, TypeOK
  <2>2. CASE setupSegment
    <3>1. pc = "setup" /\ cameraThreadDone = "BUSY" /\ cameraHealth = "HEALTHY"
      BY <2>2 DEF setupSegment, FlagsInv, TypeOK
    <3> QED
      BY <2>2, <3>1 DEF setupSegment, Flags!FlagsNext, Flags!CamFail, Flags!flagVars, cam
  <2>3. CASE Failed
    <3>1. cameraThreadDone = "BUSY"
      BY <2>3 DEF Failed, FlagsInv, TypeOK
    <3> QED
      BY <2>3, <3>1 DEF Failed, Flags!FlagsNext, Flags!CamDone, cam
  <2>4. CASE SetDone
    BY <2>4 DEF SetDone, Flags!FlagsNext, Flags!CamDone, Flags!flagVars, cam, TypeOK
  <2>5. ASSUME UNCHANGED <<cameraHealth, cameraThreadDone>>, pc # "start", pc' # "start",
               pc # "failed", pc' # "failed"
        PROVE  UNCHANGED Flags!flagVars
    BY <2>5 DEF Flags!flagVars, cam
  <2>6. CASE UNCHANGED vars
    BY <2>6 DEF vars, threadVars, Flags!flagVars, cam
  <2>7. CASE Hardware
    BY <2>7 DEF Hardware, FrameStart, SendRows, FrameEnd, threadVars, Flags!flagVars, cam
  <2>8. CASE \/ Configure \/ NextSegment \/ resetReadPointer \/ PollVSYNC \/ EnableWEN
             \/ DisableWEN \/ GrabBytes \/ encode_line_yuv \/ jpeg_close
    <3>1. UNCHANGED <<cameraHealth, cameraThreadDone>>
      BY <2>8 DEF Configure, NextSegment, resetReadPointer, PollVSYNC, EnableWEN, DisableWEN,
                  GrabBytes, encode_line_yuv, jpeg_close
    <3>2. pc \notin {"start", "failed"} /\ pc' \notin {"start", "failed"}
      BY <2>8 DEF Configure, NextSegment, resetReadPointer, PollVSYNC, EnableWEN, DisableWEN,
                  GrabBytes, encode_line_yuv, jpeg_close
    <3> QED
      BY <2>5, <3>1, <3>2
  <2> QED
    BY <2>1, <2>2, <2>3, <2>4, <2>6, <2>7, <2>8 DEF Next, Thread
<1> QED
  BY <1>1, <1>2, Invariance, PTL DEF Spec, ImplementsFlags, Flags!FlagsSpec

\* The thread that configures the camera cycle by cycle does what CameraThread does, and
\* drives the bus as Sccb does: the theorems about each hold for CameraSystem.
THEOREM PartsHold == SystemSpec => Spec /\ BusSpec
<1>1. SystemInit => Init /\ BusInit
  BY DEF SystemInit
<1>2. [SystemNext]_systemVars => [Next]_vars /\ [BusNext]_busVars
  <2> SUFFICES ASSUME [SystemNext]_systemVars PROVE [Next]_vars /\ [BusNext]_busVars
    OBVIOUS
  <2>1. CASE Frames
    BY <2>1 DEF Frames, Next
  <2>2. CASE configureCam
    BY <2>2 DEF configureCam
  <2>3. CASE ControlThread
    BY <2>3 DEF ControlThread, Next
  <2>4. CASE UNCHANGED systemVars
    BY <2>4 DEF systemVars
  <2> QED
    BY <2>1, <2>2, <2>3, <2>4 DEF SystemNext
<1> QED
  BY <1>1, <1>2, PTL DEF SystemSpec, Spec, BusSpec

=============================================================================
