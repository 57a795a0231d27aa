---------------------------- MODULE MCJpegWriter ----------------------------
(* JpegWriter on 2-bit bytes. *)
EXTENDS JpegWriter

MCPow2 == [k \in 0..4*W |-> 2^k]
MCRst == [k \in 0..RstCount-1 |-> 1]
MCWords ==
  {[bits |-> 0, len |-> 1], [bits |-> 1, len |-> 1], [bits |-> 7, len |-> 3],
   [bits |-> 4, len |-> 3], [bits |-> 15, len |-> 4], [bits |-> 0, len |-> 0]}
=============================================================================
