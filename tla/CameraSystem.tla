---------------------------- MODULE CameraSystem ----------------------------
(***************************************************************************)
(* The camera thread with the bus through which it configures the camera:  *)
(* configureCam is any sequence of whole read and write cycles of Sccb,    *)
(* and the thread goes on between two of them.                             *)
(*                                                                         *)
(* The cycles of setupSegment are the same and stay one step, as in        *)
(* CameraThread.  Frames begin with the configuration: earlier ones are    *)
(* not written to the FIFO, as WEN is clear.                               *)
(***************************************************************************)
EXTENDS CameraThread, Sccb

systemVars == <<vars, busVars>>

SystemInit == Init /\ BusInit

Frames == pc \notin {"start", "configure"} /\ Hardware /\ UNCHANGED busVars

configureCam == pc = "configure" /\ BusNext /\ UNCHANGED vars

\* cameraControlThread, which runs only when a cycle has returned.
ControlThread == call = NoCall /\ Thread /\ UNCHANGED busVars

SystemNext == Frames \/ configureCam \/ ControlThread

(* As for the parts; the operations on the pads are the thread's own. *)
SystemSpec ==
  /\ SystemInit /\ [][SystemNext]_systemVars
  /\ WF_systemVars(Frames) /\ WF_systemVars(configureCam) /\ SF_systemVars(ControlThread)

=============================================================================
