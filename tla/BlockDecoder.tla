---------------------------- MODULE BlockDecoder ----------------------------
(***************************************************************************)
(* What a baseline JPEG decoder makes of the coded blocks: it knows only   *)
(* the header that huffman_start writes (in which Huffman tables are       *)
(* numbers of codes by length and symbols by rising code) and the bits.    *)
(*                                                                         *)
(* A decoder is a record: the block of the MCU and the coefficient it is   *)
(* at, the bits it could not use yet, its predictors, and the coefficient  *)
(* that the last bits gave, 0 if they gave none.                           *)
(***************************************************************************)
EXTENDS JpegTables, Integers, Sequences, FiniteSetsExt

CONSTANT Pow2      \* powers of two, a function on 0..16

ASSUME Pow2Assumption ==
  /\ Pow2 \in [0..16 -> Nat \ {0}]
  /\ Pow2[0] = 1 /\ \A k \in 0..15 : Pow2[k + 1] = 2 * Pow2[k]

Components == {"Y", "Cb", "Cr"}
Mcu == <<"Y", "Y", "Cb", "Cr">>     \* write_SOF0info: the blocks of an MCU

\* The code of the first symbol of each length, and the number of symbols before it.
Codes(nr, values) ==
  LET first[n \in 1..16] == IF n = 1 THEN 0 ELSE 2 * (first[n - 1] + nr[n - 1])
      before[n \in 1..16] == IF n = 1 THEN 0 ELSE before[n - 1] + nr[n - 1]
  IN  [first |-> [n \in 1..16 |-> first[n]], before |-> [n \in 1..16 |-> before[n]],
       nr |-> nr, values |-> values]

DcLuminance == Codes(std_dc_luminance_nrcodes, std_dc_values)
DcChrominance == Codes(std_dc_chrominance_nrcodes, std_dc_values)
AcLuminance == Codes(std_ac_luminance_nrcodes, std_ac_luminance_values)
AcChrominance == Codes(std_ac_chrominance_nrcodes, std_ac_chrominance_values)

\* write_SOSinfo: which tables a component uses.
DcCodes(c) == IF c = "Y" THEN DcLuminance ELSE DcChrominance
AcCodes(c) == IF c = "Y" THEN AcLuminance ELSE AcChrominance

\* write_DQTinfo: the quantiser of coefficient k, in the order of the scan.
Quantiser(c, k) == (IF c = "Y" THEN qtable_0_lum ELSE qtable_0_chrom)[zig[k + 1] + 1]

\* The number that a sequence of bits stands for.
Number(s) ==
  LET number[n \in 0..Len(s)] == IF n = 0 THEN 0 ELSE 2 * number[n - 1] + s[n]
  IN  number[Len(s)]

\* A number given by its lowest bits, a negative one less 1 (EXTEND).
Extend(n, size) == IF size > 0 /\ n < Pow2[size - 1] THEN n - Pow2[size] + 1 ELSE n

Start == [block |-> 1, k |-> 0, rest |-> << >>, pred |-> [c \in Components |-> 0], coef |-> 0]

\* d after the coefficient k, of which it has read the level, and with new predictors.
Behind(d, k, level, used, pred) ==
  [block |-> IF k = 63 THEN (d.block % 4) + 1 ELSE d.block,
   k     |-> IF k = 63 THEN 0 ELSE k + 1,
   rest  |-> SubSeq(d.rest, used + 1, Len(d.rest)),
   pred  |-> pred,
   coef  |-> level * Quantiser(Mcu[d.block], k)]

\* d behind a code for zeros up to coefficient k.
Skipped(d, k, used) ==
  [block |-> d.block, k |-> k, rest |-> SubSeq(d.rest, used + 1, Len(d.rest)),
   pred |-> d.pred, coef |-> d.coef]

\* d when more bits have come.
Fed(d, s) ==
  [block |-> d.block, k |-> d.k, rest |-> d.rest \o s, pred |-> d.pred, coef |-> 0]

\* The lengths at which the bits s can begin with a code of t; the shortest is meant.
CodeLengths(t, s) ==
  {n \in 1..Min({16, Len(s)}) : Number(SubSeq(s, 1, n)) < t.first[n] + t.nr[n]}

\* The symbol of the code of length n with which s begins.
Symbol(t, s, n) == t.values[t.before[n] + Number(SubSeq(s, 1, n)) - t.first[n] + 1]

\* d after a symbol with a code of n bits and what follows it; d if not all is there.
After(d, n, symbol) ==
  LET c == Mcu[d.block]
      size == symbol % 16
      run == symbol \div 16
      level == Extend(Number(SubSeq(d.rest, n + 1, n + size)), size)
  IN  CASE Len(d.rest) < n + size -> d
        [] d.k = 0 ->
             LET dc == d.pred[c] + level
             IN  Behind(d, 0, dc, n + size, [d.pred EXCEPT ![c] = dc])
        [] d.k > 0 /\ size > 0 /\ d.k + run <= 63 ->
             Behind(d, d.k + run, level, n + size, d.pred)
        [] symbol = 240 /\ d.k + 16 <= 63 -> Skipped(d, d.k + 16, n)
        [] d.k > 0 /\ symbol = 0 -> [Behind(d, 63, 0, n, d.pred) EXCEPT !.coef = d.coef]
        [] OTHER -> d

ReadSymbol(d) ==
  LET c == Mcu[d.block]
      t == IF d.k = 0 THEN DcCodes(c) ELSE AcCodes(c)
      lengths == CodeLengths(t, d.rest)
  IN  IF lengths = {} THEN d ELSE After(d, Min(lengths), Symbol(t, d.rest, Min(lengths)))

\* All whole symbols of the bits s; a step of the encoder writes no more than five.
Read(d, s) ==
  LET read[n \in 0..5] ==
        IF n = 0 THEN Fed(d, s) ELSE ReadSymbol(read[n - 1])
  IN  read[5]

\* A restart marker.
Restart(d) == [d EXCEPT !.pred = Start.pred]

=============================================================================
