---------------------------- MODULE MCUartThread ----------------------------
(* UartThread on small instances. *)
EXTENDS UartThread

MCByte == {"ver0", "ver1", "build", "noise", "R", "T", "?"}
=============================================================================
