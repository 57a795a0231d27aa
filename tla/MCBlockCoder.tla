---------------------------- MODULE MCBlockCoder ----------------------------
(* BlockCoder on extreme and middling coefficients: levels of every magnitude that the
   quantisers leave possible. *)
EXTENDS BlockCoder

MCPow2 == [n \in 0..16 |-> 2^n]

MCDcData == [Y |-> {-1024, 1023}, Cb |-> {-1024, 1023}, Cr |-> {-700}]
MCAcData == [Y  |-> {-1024, -998, -333, -70, -20, -4, 0, 20, 150, 700, 1023},
             Cb |-> {-1024, -150, -40, 0, 4, 333, 700},
             Cr |-> {0, 333}]
=============================================================================
