---------------------------- MODULE MCIhuSystem -----------------------------
(***************************************************************************)
(* IhuSystem with bytes of three bits, of which a line number has one:     *)
(* lines of one and two bytes, an empty one, one of which the length has   *)
(* the sign bit, and one that needs both header bytes.                     *)
(***************************************************************************)
EXTENDS IhuSystem, Bitwise
MCLetters == [Y |-> 3, N |-> 2, F |-> 1]

\* ShiftOr is the operation of the C code, for all that a header can hold.
ASSUME OrAssumption == \A y \in 0..3, b \in 0..255 : ShiftOr(y, b) = (4 * y) | b
=============================================================================
