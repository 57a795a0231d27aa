-------------------------- MODULE CameraRegisters --------------------------
(***************************************************************************)
(* What the read and write cycles of camera_iface.c are used for: the      *)
(* camera is a file of registers.  A cycle in which the level of the data  *)
(* line is in dispute (see Sccb) may be lost: a write then changes         *)
(* nothing, and a read then finds the line released.  It never changes     *)
(* another register or writes another value.                               *)
(***************************************************************************)
CONSTANTS
  Calls,      \* the cycles: [op, reg, value]
  NoCall,
  Reset,      \* what the registers hold at first
  Released    \* what a read returns from a line nobody drives

VARIABLES
  regs,       \* the registers of the camera
  call,       \* the cycle under way, or NoCall
  stored,     \* its value is in the register: "no" or "yes"
  disputed,   \* its level was in dispute: "no" or "yes"
  result      \* what the last read cycle returned

regVars == <<regs, call, stored, disputed, result>>

RegInit ==
  /\ regs = Reset /\ call = NoCall
  /\ stored = "no" /\ disputed = "no" /\ result = Released

Begin ==
  /\ call = NoCall
  /\ call' \in Calls
  /\ stored' = "no" /\ disputed' = "no"
  /\ UNCHANGED <<regs, result>>

Dispute ==
  /\ call # NoCall
  /\ disputed' = "yes"
  /\ UNCHANGED <<regs, call, stored, result>>

Store ==
  /\ call # NoCall /\ call.op = "write" /\ stored = "no"
  /\ regs' = [regs EXCEPT ![call.reg] = call.value]
  /\ stored' = "yes"
  /\ UNCHANGED <<call, disputed, result>>

Finish ==
  /\ call # NoCall
  /\ call' = NoCall
  /\ IF call.op = "write"
       THEN (stored = "yes" \/ disputed = "yes") /\ UNCHANGED result
       ELSE \/ result' = regs[call.reg]
            \/ disputed = "yes" /\ result' = Released
  /\ UNCHANGED <<regs, stored, disputed>>

RegNext == Begin \/ Dispute \/ Store \/ Finish

RegSpec == RegInit /\ [][RegNext]_regVars

=============================================================================
