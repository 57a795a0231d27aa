---------------------------- MODULE MCSpiFlash -----------------------------
(* SpiFlash on a memory of MemSize bytes and a few overlapping requests, one of
   them with an address that does not fit. *)
EXTENDS SpiFlash, FiniteSets

Req(op, addr, data) == [op |-> op, addr |-> addr, n |-> Cardinality(DOMAIN data), data |-> data]
Buffer(n, b) == [i \in 0..n-1 |-> b]

MCRequests ==
  {Req("flashWriteBytes", 1, Buffer(2, 1)), Req("flashWriteBytes", 2, Buffer(2, 2)),
   Req("flashWriteBytes", 1, Buffer(1, 2)), Req("flashWriteByte", 2, Buffer(1, 1)),
   Req("flashReadBytes", 4, Buffer(2, 0)),  Req("flashReadByte", 0, Buffer(1, 0))}
=============================================================================
