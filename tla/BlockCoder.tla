----------------------------- MODULE BlockCoder -----------------------------
(***************************************************************************)
(* huffman_encode (jpegenc.c): the transformed blocks of a line are        *)
(* quantised, taken in zigzag order, and written as code words, with the   *)
(* differences of the first coefficients and with runs of zeros.           *)
(*                                                                         *)
(* One action codes one coefficient, and the last one of a block also its  *)
(* end.  What writebits does with the words is in JpegWriter; here they go *)
(* straight to a decoder that has read the header.                         *)
(***************************************************************************)
EXTENDS BlockDecoder

CONSTANTS
  DcData,     \* by component: first coefficients that dct may give
  AcData,     \* by component: other coefficients
  NumBlocks   \* num_blocks: MCUs in a line (40)

Coefficients == -1024..1023     \* what dct gives for pixels of eight bits

ASSUME CoderAssumption ==
  /\ DcData \in [Components -> SUBSET Coefficients]
  /\ AcData \in [Components -> SUBSET Coefficients]
  /\ NumBlocks \in Nat \ {0}

VARIABLES
  mcu, block, i,   \* the MCU of the line, its block, the next coefficient
  zerorun,
  dc,              \* huffman_ctx[].dc, by component
  last,            \* the coefficient coded last: [c, i, data]
  decoder          \* a decoder that reads the words as they are written

vars == <<mcu, block, i, zerorun, dc, last, decoder>>

c == Mcu[block]

Init ==
  /\ mcu = 1 /\ block = 1 /\ i = 0 /\ zerorun = 0
  /\ dc = [x \in Components |-> 0]
  /\ last = [c |-> "Y", i |-> 0, data |-> 0]
  /\ decoder = Start

-----------------------------------------------------------------------------
(* Data -> words *)

Reciprocal(x, k) == (IF x = "Y" THEN qtable_lum ELSE qtable_chrom)[k + 1]

quantizeDown(data, qt) == (data * qt) \div 1024    \* mutant: no half is added

\* data >> 15 is -1 for a negative number.
quantize(data, qt) == (data * qt + (IF data < 0 THEN 1 ELSE 0) + 511) \div 1024

huffman_magnitude(value) ==
  LET x == IF value < 0 THEN -value ELSE value
  IN  CHOOSE m \in 0..16 : x \div Pow2[m] = 0 /\ (m > 0 => x \div Pow2[m - 1] > 0)

huffman_bitsPlain(value) == value                  \* mutant: negative numbers as they are

huffman_bits(value) == IF value < 0 THEN value - 1 ELSE value

\* writebits(bits, nbits): the nbits lowest bits.
writebits(bits, nbits) == [n \in 1..nbits |-> (bits \div Pow2[nbits - n]) % 2]

DcWord(x, magn) ==
  IF x = "Y" THEN writebits(HYDCbits[magn + 1], HYDClen[magn + 1])
             ELSE writebits(HCDCbits[magn + 1], HCDClen[magn + 1])

AcWord(x, run, magn) ==
  IF x = "Y" THEN writebits(HYACbits[run + 1][magn + 1], HYAClen[run + 1][magn + 1])
             ELSE writebits(HCACbits[run + 1][magn + 1], HCAClen[run + 1][magn + 1])

Value(value) == writebits(huffman_bits(value), huffman_magnitude(value))

\* The words of a level behind run zeros: first one for every 16 of them.
LevelWords(run, level) ==
  LET zrl == AcWord(c, 15, 0)
  IN  << << >>, zrl, zrl \o zrl, zrl \o zrl \o zrl >>[run \div 16 + 1]
        \o AcWord(c, run % 16, huffman_magnitude(level)) \o Value(level)

-----------------------------------------------------------------------------
(* What the tables must fit to *)

\* A decoder with the codes t reads the word as the symbol, and no beginning of it.
Fits(t, word, symbol) ==
  /\ word \in Seq({0, 1})
  /\ CodeLengths(t, word) = {Len(word)}
  /\ Symbol(t, word, Len(word)) = symbol

\* The largest magnitudes that the quantisers leave, of differences and of levels.
DcTop(x) == IF x = "Y" THEN 9 ELSE 8
AcTop(x) == IF x = "Y" THEN 8 ELSE 7

ASSUME TablesFit ==
  \A x \in Components :
    /\ \A m \in 0..DcTop(x) : Fits(DcCodes(x), DcWord(x, m), m)
    /\ \A run \in 0..15, m \in 1..AcTop(x) : Fits(AcCodes(x), AcWord(x, run, m), 16 * run + m)
    /\ Fits(AcCodes(x), AcWord(x, 15, 0), 240) /\ Fits(AcCodes(x), AcWord(x, 0, 0), 0)
    /\ \A k \in 0..63 :
         LET q == Quantiser(x, k)
             r == Reciprocal(x, zig[k + 1])
         IN  /\ q \in Nat \ {0} /\ r \in Nat
             /\ 2 * (q * r - 1024) \in -q..q
             /\ IF k = 0 THEN 2 * r < Pow2[DcTop(x)] ELSE r < Pow2[AcTop(x)]
    /\ zig[1] = 0

-----------------------------------------------------------------------------
(* huffman_encode *)

EncodeDC ==
  /\ i = 0 /\ mcu <= NumBlocks
  /\ \E data \in DcData[c] :
       LET level == quantize(data, Reciprocal(c, 0))
           diff  == level - dc[c]
       IN  /\ dc' = [dc EXCEPT ![c] = level]
           /\ decoder' = Read(decoder, DcWord(c, huffman_magnitude(diff)) \o Value(diff))
           /\ last' = [c |-> c, i |-> 0, data |-> data]
  /\ i' = 1 /\ zerorun' = 0
  /\ UNCHANGED <<mcu, block>>

\* What the coefficient writes, with the end of the block if zeros are left over.
Words(level) ==
  LET coded == IF level = 0 THEN << >> ELSE LevelWords(zerorun, level)
  IN  IF i = 63 /\ level = 0 THEN coded \o AcWord(c, 0, 0) ELSE coded

EncodeAC ==
  /\ i > 0
  /\ \E data \in AcData[c] :
       LET level == quantize(data, Reciprocal(c, zig[i + 1]))
       IN  /\ decoder' = Read(decoder, Words(level))
           /\ zerorun' = IF level = 0 /\ i < 63 THEN zerorun + 1 ELSE 0
           /\ last' = [c |-> c, i |-> i, data |-> data]
  /\ i' = (i + 1) % 64
  /\ block' = IF i = 63 THEN (block % 4) + 1 ELSE block
  /\ mcu' = IF i = 63 /\ block = 4 THEN mcu + 1 ELSE mcu
  /\ UNCHANGED dc

\* write_RSI: huffman_resetdc, and the marker.
write_RSI ==
  /\ mcu = NumBlocks + 1
  /\ mcu' = 1
  /\ dc' = [x \in Components |-> 0]
  /\ decoder' = Restart(decoder)
  /\ UNCHANGED <<block, i, zerorun, last>>

Next == EncodeDC \/ EncodeAC \/ write_RSI

Spec == Init /\ [][Next]_vars

-----------------------------------------------------------------------------
(* Properties *)

\* The decoder keeps step: after every coefficient it has used up all bits, is at
\* the same block, behind the last level that is not 0, and has the same predictors.
\* The code words are those of the header's tables, no two of the words in use are
\* confused, and run lengths, ends of blocks and restarts are understood.
DecoderFollows ==
  /\ decoder.rest = << >>
  /\ decoder.block = block
  /\ decoder.k = i - zerorun
  /\ decoder.pred = dc

\* And each coefficient it gets is less than one step of its quantiser from the one
\* that was coded, though the encoder multiplies by rounded reciprocals.
CoefficientsNear ==
  decoder.coef - last.data \in -Quantiser(last.c, last.i)+1 .. Quantiser(last.c, last.i)-1

=============================================================================
