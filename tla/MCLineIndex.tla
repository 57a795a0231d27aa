---------------------------- MODULE MCLineIndex -----------------------------
(***************************************************************************)
(* LineIndex on images of NumLines lines with four restart markers, built  *)
(* from line bodies that hold stuffed bytes and the second bytes of        *)
(* markers as data.                                                        *)
(***************************************************************************)
EXTENDS LineIndex, SequencesExt

CONSTANTS NumLines

Bodies == {<<5>>, <<FF, 0>>, <<208, 217>>}

LostSets ==
  {L \in SUBSET (1..NumLines) :
     \A k \in 1..NumLines+1-RstCount : ~(k..k+RstCount-1 \subseteq L)}

\* Line k with its marker, or with a byte of an earlier image in its place.
CodedLine(body, k, lost) ==
  body \o <<FF, IF k \in lost THEN 7 ELSE RST0 + ((k - 1) % RstCount)>>

MakeImage(bodies, lost) ==
  LET lines == [k \in 1..NumLines |-> CodedLine(bodies[k], k, lost)]
      step(acc, l) == [data |-> acc.data \o l, ends |-> Append(acc.ends, Len(acc.data) + Len(l))]
      done == FoldLeft(step, [data |-> << >>, ends |-> << >>], Append(lines, <<FF, EOI>>))
  IN  [data |-> done.data, ends |-> done.ends, lost |-> lost]

MCImages ==
  {MakeImage(bodies, lost) : bodies \in [1..NumLines -> Bodies], lost \in LostSets}

MCOldEntry == [start_addr |-> 2, end_addr |-> 5]
=============================================================================
