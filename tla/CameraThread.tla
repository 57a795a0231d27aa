---------------------------- MODULE CameraThread ----------------------------
(***************************************************************************)
(* cameraControlThread (camera_iface.c) with the camera and its frame FIFO *)
(* as a second process.  The camera sends frames all the time: VSYNC is    *)
(* high while the rows of a frame are sent, and low between frames, when   *)
(* it also resets the FIFO's write pointer.  Rows are written to the FIFO  *)
(* while WEN is set.  The thread sets the window of each half image,       *)
(* captures a frame, and encodes it in groups of 8 rows.                   *)
(*                                                                         *)
(* A row group is the record of the frame, the window and the place in the *)
(* frame it came from; the pixels are left out.                            *)
(***************************************************************************)
EXTENDS Integers, Sequences

CONSTANTS
  NUM_READS,    \* row groups in a frame (30)
  PromptWEN     \* WEN is cleared before the next frame starts: the thread runs
                \* at HIGHPRIO, and the gap between frames is longer than an ISR

ASSUME CameraAssumption == NUM_READS \in Nat \ {0} /\ PromptWEN \in BOOLEAN

VARIABLES
  pc, segment, bulk_reads,
  success,             \* what configureCam returned: "RDY_OK" or "255"
  cameraHealth, cameraThreadDone,
  pixelData,           \* the row group read last
  wen, rp,             \* FIFO write enable and read pointer
  win,                 \* the window the camera's registers select
  vsync, frame, row,   \* the camera: frame number modulo 3, rows sent
  fifo, wp,            \* FIFO memory and write pointer
  image,               \* calls of encode_line_yuv: [line, data]
  closed               \* jpeg_close has run

cameraVars == <<vsync, frame, row, fifo, wp>>
flagVars == <<cameraHealth, cameraThreadDone>>
threadVars == <<pc, segment, bulk_reads, success, flagVars, pixelData, wen, rp, win,
                image, closed>>
vars == <<threadVars, cameraVars>>

Segments == {0, 1}
Group == [frame : 0..2, win : Segments, row : 1..NUM_READS]
NoGroup == [frame |-> 0, win |-> 0, row |-> 0]     \* what a FIFO never written holds

TypeOK ==
  /\ pc \in {"start", "configure", "segment", "setup", "failed", "resetRead", "waitLow1",
             "wenOn", "waitHigh1", "waitLow2", "waitHigh2", "waitLow3", "wenOff", "grab",
             "encode", "close", "done", "end"}
  /\ segment \in 0..2 /\ bulk_reads \in 0..NUM_READS
  /\ success \in {"RDY_OK", "255"}
  /\ cameraHealth \in {"HEALTHY", "FAILED"} /\ cameraThreadDone \in {"BUSY", "DONE"}
  /\ pixelData \in Group \cup {NoGroup}
  /\ wen \in {"set", "clear"} /\ rp \in 0..NUM_READS /\ win \in Segments
  /\ vsync \in {"low", "high"} /\ frame \in 0..2 /\ row \in 0..NUM_READS
  /\ fifo \in [1..NUM_READS -> Group \cup {NoGroup}] /\ wp \in 0..NUM_READS
  /\ image \in Seq([line : 0..2*NUM_READS-1, data : Group \cup {NoGroup}])
  /\ closed \in {"no", "yes"}

Init ==
  /\ pc = "start" /\ segment = 0 /\ bulk_reads = 0 /\ success = "RDY_OK"
  /\ cameraHealth = "HEALTHY" /\ cameraThreadDone = "BUSY"
  /\ pixelData = NoGroup /\ wen = "clear" /\ rp = 0 /\ win = 0
  /\ vsync = "low" /\ frame = 0 /\ row = 0
  /\ fifo = [i \in 1..NUM_READS |-> NoGroup] /\ wp = 0
  /\ image = << >> /\ closed = "no"

-----------------------------------------------------------------------------
(* The camera and the FIFO *)

FrameStart ==
  /\ vsync = "low"
  /\ PromptWEN => pc # "wenOff"
  /\ vsync' = "high" /\ row' = 0 /\ frame' = (frame + 1) % 3
  /\ UNCHANGED <<threadVars, fifo, wp>>

SendRows ==
  /\ vsync = "high" /\ row < NUM_READS
  /\ row' = row + 1
  /\ IF wen = "set" /\ wp < NUM_READS
       THEN /\ fifo' = [fifo EXCEPT ![wp + 1] = [frame |-> frame, win |-> win, row |-> row + 1]]
            /\ wp' = wp + 1
       ELSE UNCHANGED <<fifo, wp>>
  /\ UNCHANGED <<threadVars, vsync, frame>>

\* VSYNC low resets the write pointer (WRST).
FrameEnd ==
  /\ vsync = "high" /\ row = NUM_READS
  /\ vsync' = "low" /\ wp' = 0
  /\ UNCHANGED <<threadVars, frame, row, fifo>>

-----------------------------------------------------------------------------
(* cameraControlThread *)

Goto(from, to) == pc = from /\ pc' = to

Start ==
  /\ Goto("start", "configure")
  /\ cameraThreadDone' = "BUSY" /\ cameraHealth' = "HEALTHY"
  /\ wen' = "clear"                                \* setupCamPort
  /\ UNCHANGED <<segment, bulk_reads, success, pixelData, rp, win, image, closed, cameraVars>>

\* configureCam: the read-back of some register may differ (-1, kept in a uint8_t).
\* CAM_COM7 = 0x80 resets the registers, the window too.
Configure ==
  /\ Goto("configure", "segment")
  /\ success' \in {"RDY_OK", "255"}
  /\ segment' = 0
  /\ win' = 0
  /\ UNCHANGED <<bulk_reads, flagVars, pixelData, wen, rp, image, closed, cameraVars>>

\* The head of the loop over the segments; a failed configuration skips both.
NextSegmentStuck ==                                \* mutant: waits for a good configuration
  /\ pc = "segment"
  /\ IF segment < 2
       THEN success = "RDY_OK" /\ pc' = "setup"
       ELSE pc' = "close"
  /\ UNCHANGED <<segment, bulk_reads, success, flagVars, pixelData, wen, rp, win, image, closed,
                 cameraVars>>

NextSegment ==
  /\ pc = "segment"
  /\ IF segment < 2
       THEN IF success = "RDY_OK" THEN pc' = "setup" /\ UNCHANGED segment
                                  ELSE segment' = segment + 1 /\ UNCHANGED pc
       ELSE pc' = "close" /\ UNCHANGED segment
  /\ UNCHANGED <<bulk_reads, success, flagVars, pixelData, wen, rp, win, image, closed, cameraVars>>

\* setupSegment: the three window registers are written and read back.
setupSegment ==
  /\ pc = "setup"
  /\ \/ win' = segment /\ pc' = "resetRead" /\ UNCHANGED cameraHealth
     \/ win' \in {win, segment} /\ pc' = "failed" /\ cameraHealth' = "FAILED"
  /\ UNCHANGED <<segment, bulk_reads, success, cameraThreadDone, pixelData, wen, rp, image,
                 closed, cameraVars>>

\* The failed branch: done after failed, and out of the loop.
Failed ==
  /\ Goto("failed", "close")
  /\ cameraThreadDone' = "DONE"
  /\ UNCHANGED <<segment, bulk_reads, success, cameraHealth, pixelData, wen, rp, win, image,
                 closed, cameraVars>>

resetReadPointer ==
  /\ Goto("resetRead", "waitLow1")
  /\ rp' = 0
  /\ UNCHANGED <<segment, bulk_reads, success, flagVars, pixelData, wen, win, image, closed,
                 cameraVars>>

\* The polls of VSYNC, and WEN set after the first.
PollOneFrame ==                                    \* mutant: waits for one frame only
  /\ \/ Goto("waitLow1", "wenOn") /\ vsync = "low"
     \/ Goto("waitHigh1", "waitLow3") /\ vsync = "high"
     \/ Goto("waitLow3", "wenOff") /\ vsync = "low"
  /\ UNCHANGED <<segment, bulk_reads, success, flagVars, pixelData, wen, rp, win, image,
                 closed, cameraVars>>

PollVSYNC ==
  /\ \/ Goto("waitLow1", "wenOn") /\ vsync = "low"
     \/ Goto("waitHigh1", "waitLow2") /\ vsync = "high"
     \/ Goto("waitLow2", "waitHigh2") /\ vsync = "low"
     \/ Goto("waitHigh2", "waitLow3") /\ vsync = "high"
     \/ Goto("waitLow3", "wenOff") /\ vsync = "low"
  /\ UNCHANGED <<segment, bulk_reads, success, flagVars, pixelData, wen, rp, win, image,
                 closed, cameraVars>>

EnableWEN ==
  /\ Goto("wenOn", "waitHigh1")
  /\ wen' = "set"
  /\ UNCHANGED <<segment, bulk_reads, success, flagVars, pixelData, rp, win, image, closed,
                 cameraVars>>

DisableWEN ==
  /\ Goto("wenOff", "grab")
  /\ wen' = "clear"
  /\ bulk_reads' = 0
  /\ UNCHANGED <<segment, success, flagVars, pixelData, rp, win, image, closed, cameraVars>>

\* The loop over the row groups: fifoGrabBytes, then encode_line_yuv.
GrabBytesExtra ==                                  \* mutant: one row group too many
  /\ pc = "grab"
  /\ IF bulk_reads <= NUM_READS
       THEN /\ pixelData' = IF rp < NUM_READS THEN fifo[rp + 1] ELSE NoGroup
            /\ rp' = IF rp < NUM_READS THEN rp + 1 ELSE rp
            /\ pc' = "encode"
            /\ UNCHANGED segment
       ELSE /\ pc' = "segment"
            /\ segment' = segment + 1
            /\ UNCHANGED <<pixelData, rp>>
  /\ UNCHANGED <<bulk_reads, success, flagVars, wen, win, image, closed, cameraVars>>

GrabBytes ==
  /\ pc = "grab"
  /\ IF bulk_reads < NUM_READS
       THEN /\ pixelData' = IF rp < NUM_READS THEN fifo[rp + 1] ELSE NoGroup
            /\ rp' = IF rp < NUM_READS THEN rp + 1 ELSE rp
            /\ pc' = "encode"
            /\ UNCHANGED segment
       ELSE /\ pc' = "segment"
            /\ segment' = segment + 1
            /\ UNCHANGED <<pixelData, rp>>
  /\ UNCHANGED <<bulk_reads, success, flagVars, wen, win, image, closed, cameraVars>>

encode_line_yuv ==
  /\ Goto("encode", "grab")
  /\ image' = Append(image, [line |-> bulk_reads + NUM_READS * segment, data |-> pixelData])
  /\ bulk_reads' = bulk_reads + 1
  /\ UNCHANGED <<segment, success, flagVars, pixelData, wen, rp, win, closed, cameraVars>>

DoneFirst ==                                       \* mutant: done before the image is closed
  /\ Goto("close", "done")
  /\ cameraThreadDone' = "DONE"
  /\ UNCHANGED <<segment, bulk_reads, success, cameraHealth, pixelData, wen, rp, win, image,
                 closed, cameraVars>>

jpeg_close ==
  /\ Goto("close", "done")
  /\ closed' = "yes"
  /\ UNCHANGED <<segment, bulk_reads, success, flagVars, pixelData, wen, rp, win, image,
                 cameraVars>>

SetDoneHealthy ==                                  \* mutant: forgets the failure
  /\ Goto("done", "end")
  /\ cameraThreadDone' = "DONE" /\ cameraHealth' = "HEALTHY"
  /\ UNCHANGED <<segment, bulk_reads, success, pixelData, wen, rp, win, image,
                 closed, cameraVars>>

SetDone ==
  /\ Goto("done", "end")
  /\ cameraThreadDone' = "DONE"
  /\ UNCHANGED <<segment, bulk_reads, success, cameraHealth, pixelData, wen, rp, win, image,
                 closed, cameraVars>>

-----------------------------------------------------------------------------
Hardware == FrameStart \/ SendRows \/ FrameEnd
Thread ==
  \/ Start \/ Configure \/ NextSegment \/ setupSegment \/ Failed \/ resetReadPointer
  \/ PollVSYNC \/ EnableWEN \/ DisableWEN \/ GrabBytes \/ encode_line_yuv
  \/ jpeg_close \/ SetDone

Next == Hardware \/ Thread

(* The camera keeps sending frames.  The thread has the highest priority of  *)
(* the board, so it runs whenever it can, and a poll that is true again and  *)
(* again is seen: a VSYNC phase is much longer than a turn of the poll loop. *)
Spec == Init /\ [][Next]_vars
FairSpec == Spec /\ WF_vars(Hardware) /\ SF_vars(Thread)

-----------------------------------------------------------------------------
(* Properties *)

\* Each call of encode_line_yuv gets the row group its line number says, from the
\* window of its half image, in order, and all groups of one half come from one
\* frame: the wait over two frames keeps partial frames out of the FIFO reads.
ImageLinesRight ==
  \A k \in 1..Len(image) :
    LET e == image[k] IN
    /\ e.line = k - 1
    /\ e.data # NoGroup
    /\ e.data.win = e.line \div NUM_READS
    /\ e.data.row = (e.line % NUM_READS) + 1
    /\ \A j \in 1..Len(image) :
         image[j].line \div NUM_READS = e.line \div NUM_READS
           => image[j].data.frame = e.data.frame

\* If the camera was configured, done and healthy together mean that both halves
\* are encoded and the end marker is written.
DoneMeansImage ==
  (cameraThreadDone = "DONE" /\ cameraHealth = "HEALTHY" /\ success = "RDY_OK")
    => closed = "yes" /\ Len(image) = 2 * NUM_READS

\* CameraFlags, as seen through the thread's progress.
cam ==
  CASE pc = "start"  -> "new"
    [] cameraThreadDone = "DONE" -> "done"
    [] pc = "failed" -> "failing"
    [] OTHER -> "busy"

Flags == INSTANCE CameraFlags WITH cam <- cam

\* The thread's writes to the flags are those CameraFlags allows, which is all
\* that UART_Thread relies on.
ImplementsFlags == Flags!FlagsSpec

\* The thread gives the processor back for good.
Terminates == <>(pc = "end")

\* UART_Thread answers ready for a camera that is done and healthy: then there is
\* an image.
ReadyMeansImage ==
  cameraThreadDone = "DONE" /\ cameraHealth = "HEALTHY" => Len(image) = 2 * NUM_READS

=============================================================================
