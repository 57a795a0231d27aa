---------------------------- MODULE CameraFlags ----------------------------
(***************************************************************************)
(* What the camera thread promises to the readers of its two status flags: *)
(* it starts busy and healthy, it may declare itself failed once, while    *)
(* busy, and it is done once and for good.  UartThread relies on this;     *)
(* CameraThread implements it.                                             *)
(***************************************************************************)
VARIABLES
  cameraHealth, cameraThreadDone,   \* the globals of main.c
  cam                               \* progress of the camera thread

flagVars == <<cameraHealth, cameraThreadDone, cam>>

FlagsTypeOK ==
  /\ cameraHealth \in {"HEALTHY", "FAILED"}
  /\ cameraThreadDone \in {"BUSY", "DONE"}
  /\ cam \in {"new", "busy", "failing", "done"}

\* The initial values of the globals in main.c.
InitFlagsDone ==                                   \* mutant: done at boot
  cameraHealth = "HEALTHY" /\ cameraThreadDone = "DONE" /\ cam = "new"

InitFlags ==
  cameraHealth = "HEALTHY" /\ cameraThreadDone = "BUSY" /\ cam = "new"

\* The thread begins: both flags are written again.
CamStart ==
  /\ cam = "new"
  /\ cam' = "busy"
  /\ cameraThreadDone' = "BUSY" /\ cameraHealth' = "HEALTHY"

\* setupSegment failed: the health flag first, the done flag in a later step.
CamFail ==
  /\ cam = "busy"
  /\ cam' = "failing"
  /\ cameraHealth' = "FAILED"
  /\ UNCHANGED cameraThreadDone

CamDone ==
  /\ cam \in {"busy", "failing"}
  /\ cam' = "done"
  /\ cameraThreadDone' = "DONE"
  /\ UNCHANGED cameraHealth

FlagsNext == CamStart \/ CamFail \/ CamDone

FlagsSpec == InitFlags /\ [][FlagsNext]_flagVars

=============================================================================
