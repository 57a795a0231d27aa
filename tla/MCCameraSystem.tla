--------------------------- MODULE MCCameraSystem ---------------------------
(***************************************************************************)
(* CameraSystem with bytes on the bus of two bits: one register with an    *)
(* even and one with an odd address, and every value.                      *)
(***************************************************************************)
EXTENDS CameraSystem

MCAddrW == <<1, 0>>
MCAddrR == <<1, 1>>
Even == <<0, 0>>
Odd == <<0, 1>>
MCReset == [r \in {Even, Odd} |-> <<0, 0>>]
MCCalls ==
  [op : {"write"}, reg : {Even, Odd}, value : Byte]
    \cup [op : {"read"}, reg : {Even, Odd}, value : {Ones}]
=============================================================================
