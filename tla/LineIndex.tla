----------------------------- MODULE LineIndex ------------------------------
(***************************************************************************)
(* generateLineIndex and readLineFromSPI (spi_flash.c): the scan of the    *)
(* coded image in the MRAM that finds the restart markers and writes one   *)
(* line_data entry per line, and the lookup UART_Thread makes of a line.   *)
(*                                                                         *)
(* An image is what JpegWriter leaves in the MRAM: its bytes, the places   *)
(* where the second bytes of its markers belong, and the lines whose       *)
(* marker lost that byte (a write of one byte is ignored).                 *)
(***************************************************************************)
EXTENDS Integers, Sequences

CONSTANTS
  Images,       \* [data, ends, lost] records, each with ImageOK
  RstCount,     \* number of restart markers (8: rst = word & 0x7)
  Start,        \* IMAGE_DATA_START
  Slots,        \* line_data entries between SYSTEM_DATA_ADDR and IMAGE_DATA_START (64)
  OldEntry      \* an entry of an earlier image, left in the nonvolatile MRAM

FF == 255
EOI == 217      \* 0xD9
RST0 == 208     \* 0xD0

\* (word & 0xFFD8) == 0xFFD0 leaves bit 5 open: 0xD0.. and 0xF0..
RstBytes == (RST0 .. RST0 + RstCount - 1) \cup (240 .. 240 + RstCount - 1)

Lines(im) == Len(im.ends) - 1

\* What JpegWriter promises (Unambiguous, FlashHoldsStream): 0xFF begins a marker
\* or is followed by 0x00; a marker is whole or has lost its second byte, the end
\* marker is whole; and fewer than RstCount neighbours have lost theirs.
ImageOK(im) ==
  LET last == Lines(im) + 1
      size == Len(im.data)
  IN  /\ Len(im.ends) > 0
      /\ im.ends[1] >= 2 /\ im.ends[last] = size
      /\ \A j, k \in 1..last : j < k => im.ends[j] + 2 <= im.ends[k]
      /\ \A k \in 1..last : im.data[im.ends[k] - 1] = FF
      /\ im.data[size] = EOI
      /\ im.lost \subseteq 1..last-1
      /\ \A k \in 1..last-1 :
           IF k \in im.lost THEN im.data[im.ends[k]] \notin RstBytes \cup {EOI, FF}
                            ELSE im.data[im.ends[k]] = RST0 + ((k - 1) % RstCount)
      /\ \A i \in 1..size-1 :
           im.data[i] = FF => im.data[i + 1] = 0 \/ \E k \in 1..last : im.ends[k] = i + 1
      /\ \A k \in 1..last-RstCount : ~(k..k+RstCount-1 \subseteq im.lost)

ASSUME IndexAssumption ==
  /\ RstCount \in {1, 2, 4, 8}
  /\ Start \in Nat
  /\ Slots \in Nat
  /\ \A im \in Images : im.data \in Seq(0..FF) /\ im.ends \in Seq(Nat) /\ ImageOK(im)
  /\ \A im \in Images : Lines(im) < Slots
  /\ OldEntry \in [start_addr : Nat, end_addr : Nat]

VARIABLES
  image,                    \* the image in the MRAM; never changes
  phase,                    \* "scan" until the loop breaks
  lineend, linestart, line, \* the locals of generateLineIndex
  index                     \* the line_data entries in the MRAM, by slot

indexVars == <<image, phase, lineend, linestart, line, index>>

Entry == [start_addr : Nat, end_addr : Nat]

IndexTypeOK ==
  /\ phase \in {"scan", "done"}
  /\ lineend \in Nat /\ linestart \in Nat
  /\ line \in 0..Slots-1
  /\ index \in [0..Slots-1 -> Entry]

IndexInit ==
  /\ image \in Images
  /\ phase = "scan"
  /\ lineend = Start /\ linestart = Start /\ line = 0
  /\ index = [s \in 0..Slots-1 |-> OldEntry]

-----------------------------------------------------------------------------
\* A byte of the MRAM; past the image lies whatever was there, never a marker.
Mem(a) == IF a - Start + 1 \in 1..Len(image.data) THEN image.data[a - Start + 1] ELSE 0

\* flashReadBytes(lineend++, spibuff, 2): the two bytes at lineend.
IsEnd == Mem(lineend) = FF /\ Mem(lineend + 1) = EOI
IsRst == Mem(lineend) = FF /\ Mem(lineend + 1) \in RstBytes

\* The entry written for line l: ends at the marker's second byte, lineend after
\* the increment.
WriteEntry(l) ==
  index' = [index EXCEPT ![l] = [start_addr |-> linestart, end_addr |-> lineend + 1]]

\* The line a restart marker ends: line, or if its number differs the next line
\* that has it.
MarkedLineNoWrap ==                                \* mutant: no step to the next eight
  (line \div RstCount) * RstCount + (Mem(lineend + 1) % RstCount)

MarkedLineSkip ==                                  \* mutant: < for <=
  LET rst  == Mem(lineend + 1) % RstCount
      base == (line \div RstCount) * RstCount
  IN  IF line % RstCount < rst THEN base + rst ELSE base + rst + RstCount

MarkedLine ==
  LET rst  == Mem(lineend + 1) % RstCount
      base == (line \div RstCount) * RstCount
  IN  IF line % RstCount <= rst THEN base + rst ELSE base + rst + RstCount

\* One turn of the loop.
EndOfImageAgain ==                                 \* mutant: no break, the address wraps
  /\ phase = "scan" /\ IsEnd
  /\ WriteEntry(line)
  /\ lineend' = Start /\ linestart' = Start /\ line' = 0
  /\ UNCHANGED <<image, phase>>

EndOfImage ==
  /\ phase = "scan" /\ IsEnd
  /\ WriteEntry(line)
  /\ lineend' = lineend + 1
  /\ phase' = "done"
  /\ UNCHANGED <<image, linestart, line>>

EndOfLineStay ==                                   \* mutant: lines counted, not numbered
  /\ phase = "scan" /\ ~IsEnd /\ IsRst
  /\ WriteEntry(line)
  /\ line' = line + 1
  /\ lineend' = lineend + 1
  /\ linestart' = lineend + 2
  /\ UNCHANGED <<image, phase>>

EndOfLine ==
  /\ phase = "scan" /\ ~IsEnd /\ IsRst
  /\ WriteEntry(MarkedLine)
  /\ line' = MarkedLine + 1
  /\ lineend' = lineend + 1
  /\ linestart' = lineend + 2
  /\ UNCHANGED <<image, phase>>

NoMarker ==
  /\ phase = "scan" /\ ~IsEnd /\ ~IsRst
  /\ lineend' = lineend + 1
  /\ UNCHANGED <<image, phase, linestart, line, index>>

IndexNext == EndOfImage \/ EndOfLine \/ NoMarker

IndexSpec == IndexInit /\ [][IndexNext]_indexVars

(* The caller runs the loop to its end. *)
IndexFairSpec == IndexSpec /\ WF_indexVars(IndexNext)

-----------------------------------------------------------------------------
(* What readLineFromSPI(l) returns and copies: no check of any kind *)

readLineLength(l) == index[l].end_addr - index[l].start_addr + 1
readLineFromSPI(l) == [i \in 1..readLineLength(l) |-> Mem(index[l].start_addr + i - 1)]

-----------------------------------------------------------------------------
(* Properties *)

\* Of the lines before line l (counted from 1), the last one whose marker is
\* whole; 0 if there is none.
LastWhole(l) ==
  LET whole == {k \in 1..l-1 : k \notin image.lost}
  IN  IF whole = {} THEN 0 ELSE CHOOSE k \in whole : \A j \in whole : j <= k

\* The bytes from behind the marker of line k to the marker of line l.
Between(k, l) == SubSeq(image.data, IF k = 0 THEN 1 ELSE image.ends[k] + 1, image.ends[l])

\* After the scan every line whose marker is whole is found under its own number,
\* whatever was lost before it: readLineFromSPI gives exactly its bytes, behind
\* those of the lines directly before it that lost their marker.  The end marker
\* closes the entry after the last whole line.
IndexRight ==
  phase = "done" =>
    /\ \A l \in 1..Lines(image) \ image.lost :
         readLineFromSPI(l - 1) = Between(LastWhole(l), l)
    /\ LET l == Lines(image) + 1
       IN  readLineFromSPI(LastWhole(l)) = Between(LastWhole(l), l)

\* A lost line has no entry of its own image: only the slots of whole lines, and
\* the one the end marker closes, are written.
OnlyWholeLines ==
  \A s \in 0..Slots-1 :
    index[s] # OldEntry =>
      s + 1 \in 1..Lines(image) \ image.lost \/ s = LastWhole(Lines(image) + 1)

\* The scan comes to the end marker.
ScanEnds == <>(phase = "done")

=============================================================================
