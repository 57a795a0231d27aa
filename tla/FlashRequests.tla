--------------------------- MODULE FlashRequests ---------------------------
(***************************************************************************)
(* The calls of spi_flash.c that access the MRAM, and what each does to    *)
(* the memory as a whole.                                                  *)
(***************************************************************************)
EXTENDS Integers

CONSTANTS
  MemSize,    \* 2^17: the address bits that are sent to the MRAM
  HighAddr,   \* FLASH_HIGH_ADDR, 2^20
  Byte,
  Requests    \* [op, addr, n, data]: data is the caller's buffer of n bytes, one for
              \* the functions on bytes; the functions that read fill it

Ops == {"flashWriteByte", "flashWriteBytes", "flashReadByte", "flashReadBytes"}
Writes(r) == r.op \in {"flashWriteByte", "flashWriteBytes"}

ASSUME FlashAssumption ==
  /\ MemSize \in Nat \ {0} /\ HighAddr \in Nat
  /\ \A r \in Requests :
       /\ r.op \in Ops /\ r.addr \in 0..HighAddr /\ r.n \in 1..MemSize
       /\ r.data \in [0..r.n-1 -> Byte]

\* The cell of byte i of a request: the MRAM counts up in 17 bits.
Cell(r, i) == (r.addr + i) % MemSize

\* The memory after all of r is written, and the buffer after all of r is read.
Stored(m, r) ==
  [a \in 0..MemSize-1 |->
     IF \E i \in 0..r.n-1 : Cell(r, i) = a
       THEN r.data[CHOOSE i \in 0..r.n-1 : Cell(r, i) = a]
       ELSE m[a]]
Loaded(m, r) == [i \in 0..r.n-1 |-> m[Cell(r, i)]]

=============================================================================
