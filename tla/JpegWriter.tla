----------------------------- MODULE JpegWriter -----------------------------
(***************************************************************************)
(* The output side of the JPEG encoder: the bit buffer, byte stuffing, the *)
(* byte buffer, restart and end markers (jpegenc.c), write_jpeg and its    *)
(* address pointer (encoder.c), and flashWriteBytes as one atomic step.    *)
(*                                                                         *)
(* Which Huffman code words and amplitudes an image block produces is      *)
(* data: huffman_encode is "writebits of some word of Words, repeatedly".  *)
(* A byte has W bits (8 in the code) and the bit buffer 4*W (32).          *)
(***************************************************************************)
EXTENDS Integers, SequencesExt

CONSTANTS
  W,           \* bits in a byte
  Pow2,        \* powers of two, a function on 0..4*W
  Words,       \* [bits, len] records given to writebits
  BUFFSIZE,    \* size of jpgbuff
  Rst, Eoi,    \* second byte of the restart markers 0.. and of the end marker
  RstCount,    \* number of restart markers (8)
  Start,       \* IMAGE_DATA_START
  DevSize,     \* bytes the MRAM really has (17 address bits are sent to it)
  HighAddr,    \* FLASH_HIGH_ADDR
  Old,         \* what a never written MRAM cell holds
  MaxWords,    \* bound: words in one line
  MaxLines     \* bound: lines in the image (60)

FF == Pow2[W] - 1
ByteVals == 0..FF

ASSUME WriterAssumption ==
  /\ W \in Nat \ {0, 1}
  /\ Pow2 \in [0..4*W -> Nat \ {0}]
  /\ Pow2[0] = 1 /\ \A k \in 0..4*W-1 : Pow2[k + 1] = 2 * Pow2[k]
  /\ Words \subseteq [bits : Nat, len : 0..2*W]
  /\ BUFFSIZE \in Nat \ {0, 1}
  /\ RstCount \in Nat \ {0}
  /\ Rst \in [0..RstCount-1 -> (1..FF-1) \ {Eoi}]
  /\ Eoi \in 1..FF-1
  /\ Start \in Nat /\ DevSize \in Nat \ {0} /\ HighAddr \in Nat
  /\ Start + BUFFSIZE <= DevSize /\ DevSize <= HighAddr
  /\ MaxWords \in Nat /\ MaxLines \in Nat

VARIABLES
  pc,            \* where in the call chain the encoder is
  ret,           \* where writebits returns to
  marker,        \* second byte of the marker being written
  buf, n,        \* bitbuf
  jpgbuff,       \* the filled part of jpgbuff; jpgn is its length
  file_addr_ptr,
  flash,         \* contents of the MRAM
  dc,            \* the DC predictors: "zero", or "used" by some block
  line,          \* lines finished
  \* History:
  words,         \* words written in the current line
  stream,        \* every byte given to writebyte, in order
  marks,         \* positions in stream of the second bytes of markers
  holes          \* positions in stream of bytes flashWriteBytes ignored

bufferVars == <<jpgbuff, file_addr_ptr, flash, stream, holes>>
vars == <<pc, ret, marker, buf, n, bufferVars, dc, line, words, marks>>

jpgn == Len(jpgbuff)

TypeOK ==
  /\ pc \in {"idle", "flush", "stuff", "mark1", "mark2", "send", "closed"}
  /\ ret \in {"idle", "mark1"}
  /\ marker \in 1..FF-1
  /\ buf \in Nat
  /\ n \in 0..3*W
  /\ jpgbuff \in Seq(ByteVals) /\ Len(jpgbuff) < BUFFSIZE
  /\ file_addr_ptr \in Nat
  /\ flash \in [0..DevSize-1 -> ByteVals \cup {Old}]
  /\ dc \in {"zero", "used"}
  /\ line \in 0..MaxLines
  /\ words \in Seq(Words) /\ Len(words) <= MaxWords
  /\ stream \in Seq(ByteVals)
  /\ marks \in SUBSET Nat
  /\ holes \in SUBSET Nat

\* After jpeg_init.
Init ==
  /\ pc = "idle" /\ ret = "idle" /\ marker = Eoi
  /\ buf = 0 /\ n = 0
  /\ jpgbuff = << >>
  /\ file_addr_ptr = Start
  /\ flash = [a \in 0..DevSize-1 |-> Old]
  /\ dc = "zero"
  /\ line = 0
  /\ words = << >> /\ stream = << >> /\ marks = {} /\ holes = {}

-----------------------------------------------------------------------------
(* Bytes *)

\* flashWriteBytes ignores a write that does not fit below FLASH_HIGH_ADDR, and
\* one of fewer than two bytes.  (FLASH_HIGH_ADDR - addr is unsigned in the code;
\* 60 lines stay far below FLASH_HIGH_ADDR, so it does not go below zero.)
IgnoredTwo(addr, size) == size > HighAddr - addr \/ size < 3   \* mutant: < 3

Ignored(addr, size) == size > HighAddr - addr \/ size < 2

\* The MRAM after flashWriteBytes(addr, data): 17 bits of the address are sent
\* and the device counts on from there, modulo its size.
flashWriteBytes(addr, data) ==
  IF Ignored(addr, Len(data)) THEN flash
  ELSE [a \in DOMAIN flash |->
          LET i == ((a - addr) % DevSize) + 1
          IN  IF i \in 1..Len(data) THEN data[i] ELSE flash[a]]

\* write_jpeg: the pointer advances whatever flashWriteBytes did.  The last
\* Len(data) bytes of s, the bytes written so far, are the ones in data.
AdvanceIfWritten(data, s) ==                    \* mutant: pointer kept on a refused write
  /\ flash' = flashWriteBytes(file_addr_ptr, data)
  /\ file_addr_ptr' = IF Ignored(file_addr_ptr, Len(data)) THEN file_addr_ptr
                      ELSE file_addr_ptr + Len(data)
  /\ UNCHANGED holes

write_jpeg(data, s) ==
  /\ flash' = flashWriteBytes(file_addr_ptr, data)
  /\ file_addr_ptr' = file_addr_ptr + Len(data)
  /\ holes' = IF Ignored(file_addr_ptr, Len(data))
              THEN holes \cup (Len(s) - Len(data) + 1 .. Len(s))
              ELSE holes

writebyteLate(b) ==                             \* mutant: flushed one byte too late
  LET data == Append(jpgbuff, b)
  IN  /\ stream' = Append(stream, b)
      /\ IF Len(data) = BUFFSIZE + 1
           THEN write_jpeg(data, Append(stream, b)) /\ jpgbuff' = << >>
           ELSE jpgbuff' = data /\ UNCHANGED <<file_addr_ptr, flash, holes>>

writebyte(b) ==
  LET data == Append(jpgbuff, b)
  IN  /\ stream' = Append(stream, b)
      /\ IF Len(data) = BUFFSIZE
           THEN write_jpeg(data, Append(stream, b)) /\ jpgbuff' = << >>
           ELSE jpgbuff' = data /\ UNCHANGED <<file_addr_ptr, flash, holes>>

-----------------------------------------------------------------------------
(* Bits *)

\* writebits up to its loop: shift in the low len bits; buf has 4*W bits.
ShiftIn(bits, len) ==
  /\ buf' = ((buf * Pow2[len]) + (bits % Pow2[len])) % Pow2[4*W]
  /\ n' = n + len

\* One writebits of huffman_encode, for some block of the current line.
WriteWord(w) ==
  /\ pc = "idle"
  /\ line < MaxLines
  /\ Len(words) < MaxWords
  /\ ShiftIn(w.bits, w.len)
  /\ pc' = "flush" /\ ret' = "idle"
  /\ dc' = "used"
  /\ words' = Append(words, w)
  /\ UNCHANGED <<marker, bufferVars, line, marks>>

\* The loop of writebits: one whole byte, or the return.
FlushByteNoStuff ==                             \* mutant: no 0x00 after 0xFF
  /\ pc = "flush"
  /\ IF n >= W
       THEN /\ n' = n - W
            /\ writebyte((buf \div Pow2[n - W]) % Pow2[W])
            /\ UNCHANGED pc
       ELSE pc' = ret /\ UNCHANGED <<n, bufferVars>>
  /\ UNCHANGED <<ret, marker, buf, dc, line, words, marks>>

FlushByteLow ==                                 \* mutant: takes the low bits
  /\ pc = "flush"
  /\ IF n >= W
       THEN LET b == buf % Pow2[W]
            IN  /\ n' = n - W
                /\ writebyte(b)
                /\ pc' = IF b = FF THEN "stuff" ELSE "flush"
       ELSE pc' = ret /\ UNCHANGED <<n, bufferVars>>
  /\ UNCHANGED <<ret, marker, buf, dc, line, words, marks>>

FlushByte ==
  /\ pc = "flush"
  /\ IF n >= W
       THEN LET b == (buf \div Pow2[n - W]) % Pow2[W]
            IN  /\ n' = n - W
                /\ writebyte(b)
                /\ pc' = IF b = FF THEN "stuff" ELSE "flush"
       ELSE pc' = ret /\ UNCHANGED <<n, bufferVars>>
  /\ UNCHANGED <<ret, marker, buf, dc, line, words, marks>>

\* writebits: 0x00 after 0xFF.
StuffByte ==
  /\ pc = "stuff"
  /\ writebyte(0)
  /\ pc' = "flush"
  /\ UNCHANGED <<ret, marker, buf, n, dc, line, words, marks>>

\* flushbits: fill an incomplete byte with ones.
flushbits ==
  IF n > 0
    THEN ShiftIn(FF, W - n) /\ pc' = "flush" /\ ret' = "mark1"
    ELSE pc' = "mark1" /\ UNCHANGED <<buf, n, ret>>

-----------------------------------------------------------------------------
(* Markers *)

\* write_RSI at the end of encode_line_yuv, and huffman_stop after any line (the
\* camera thread also closes an image it gave up).  A line has some block.
EndLine ==
  /\ pc = "idle"
  /\ words # << >>
  /\ marker' = Rst[line % RstCount]
  /\ flushbits
  /\ UNCHANGED <<bufferVars, dc, line, words, marks>>

Close ==
  /\ pc = "idle"
  /\ words = << >>
  /\ marker' = Eoi
  /\ flushbits
  /\ UNCHANGED <<bufferVars, dc, line, words, marks>>

\* writeword(0xFFD0 | _rsi) or writeword(0xFFD9).
MarkFirst ==
  /\ pc = "mark1"
  /\ writebyte(FF)
  /\ pc' = "mark2"
  /\ UNCHANGED <<ret, marker, buf, n, dc, line, words, marks>>

MarkSecond ==
  /\ pc = "mark2"
  /\ writebyte(marker)
  /\ marks' = marks \cup {Len(stream) + 1}
  /\ pc' = "send"
  /\ UNCHANGED <<ret, marker, buf, n, dc, line, words>>

\* The end of write_RSI or huffman_stop: write_jpeg, jpgn = 0, and for write_RSI
\* huffman_resetdc.
SendNoReset ==                                  \* mutant: jpgn and dc are not reset
  /\ pc = "send"
  /\ write_jpeg(jpgbuff, stream)
  /\ jpgbuff' = << >>
  /\ IF marker = Eoi
       THEN pc' = "closed" /\ UNCHANGED <<dc, line, words>>
       ELSE pc' = "idle" /\ line' = line + 1 /\ words' = << >> /\ UNCHANGED dc
  /\ UNCHANGED <<ret, marker, buf, n, stream, marks>>

Send ==
  /\ pc = "send"
  /\ write_jpeg(jpgbuff, stream)
  /\ jpgbuff' = << >>
  /\ IF marker = Eoi
       THEN pc' = "closed" /\ UNCHANGED <<dc, line, words>>
       ELSE pc' = "idle" /\ line' = line + 1 /\ dc' = "zero" /\ words' = << >>
  /\ UNCHANGED <<ret, marker, buf, n, stream, marks>>

Next ==
  \/ \E w \in Words : WriteWord(w)
  \/ FlushByte \/ StuffByte
  \/ EndLine \/ Close
  \/ MarkFirst \/ MarkSecond \/ Send

Spec == Init /\ [][Next]_vars

-----------------------------------------------------------------------------
(* Properties *)

\* The image fits the MRAM.
Fits == Start + Len(stream) <= DevSize

\* While the image fits the MRAM, every byte the encoder has handed to write_jpeg
\* is in the MRAM at the place its position in the stream gives it, except for
\* the one-byte writes that flashWriteBytes ignores; and each of those is the
\* second byte of a marker, never a byte of coded data.
FlashHoldsStream ==
  Fits =>
    \A i \in 1..(file_addr_ptr - Start) :
      IF i \in holes THEN i \in marks ELSE flash[Start + i - 1] = stream[i]

\* In the byte stream 0xFF is followed by the stuffed 0x00, or by the second byte
\* of a marker the encoder meant to write, which is not 0x00.
Unambiguous ==
  \A i \in 1..Len(stream)-1 :
    stream[i] = FF => IF i + 1 \in marks THEN stream[i + 1] # 0 ELSE stream[i + 1] = 0

\* Every restart interval can be decoded alone: when a line begins no bit and no
\* byte of the line before is pending and the predictors are reset.
LineIndependent ==
  pc = "idle" /\ words = << >> => n = 0 /\ jpgbuff = << >> /\ dc = "zero"

\* The end marker is never one of the ignored bytes: it is written from an empty
\* buffer, because every line before it was flushed.  generateLineIndex has no
\* other way to stop.
EndMarkerWritten ==
  Fits /\ pc = "closed" => flash[Start + Len(stream) - 1] = Eoi

\* The low len bits of x, most significant first.
BitsOf(x, len) == [i \in 1..len |-> (x \div Pow2[len - i]) % 2]

\* The bits the code words of the line ask for.
WantedBits == FlattenSeq([k \in 1..Len(words) |-> BitsOf(words[k].bits, words[k].len)])

\* The bytes behind the last marker, a decoder's view, of which it drops each 0x00
\* that follows 0xFF.
InLine(i) == i \in 1..Len(stream) /\ \A m \in marks : m < i
Stuffed(i) == InLine(i - 1) /\ stream[i - 1] = FF /\ stream[i] = 0
LineBits ==
  FlattenSeq([i \in 1..Len(stream) |->
                IF InLine(i) /\ ~Stuffed(i) THEN BitsOf(stream[i], W) ELSE << >>])

\* A decoder recovers exactly the bits that were given to writebits: during a
\* line the bytes written and the bits still in bitbuf are the wanted bits, and
\* when the marker is written less than a byte of ones has been added to them.
\* This is writebits and flushbits against their definition, the uncleared high
\* bits of the 32-bit buffer and the stuffed bytes included.
BitsRecovered ==
  LET got == LineBits \o BitsOf(buf, n)
  IN  /\ pc = "idle" \/ (pc \in {"flush", "stuff"} /\ ret = "idle") => got = WantedBits
      /\ pc = "mark1" =>
           n = 0 /\ \E fill \in 0..W-1 : got = WantedBits \o [i \in 1..fill |-> 1]

\* flashWriteBytes: "n bytes are written from data beginning at the address that
\* data points to".
AllBytesWritten == Fits => holes = {}

=============================================================================
