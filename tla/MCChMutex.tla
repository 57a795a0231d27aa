------------------------------ MODULE MCChMutex -----------------------------
(* ChMutex with two threads of equal priority and two above them. *)
EXTENDS ChMutex

CONSTANTS idle, uart, main, timer, camera

MCThreads == {idle, uart, main, timer, camera}
MCRealPrio ==
  [t \in MCThreads |-> CASE t = idle -> 0 [] t = timer -> 2 [] t = camera -> 3 [] OTHER -> 1]
=============================================================================
