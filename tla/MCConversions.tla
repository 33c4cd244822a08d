---------------------------- MODULE MCConversions ----------------------------
(***************************************************************************)
(* An instance of Conversions for TLC, whose inputs lie around the ends of *)
(* what they are put into.                                                 *)
(***************************************************************************)
EXTENDS Conversions

\* The header leaves from 3 to 18 bytes, so that the end of the buffer falls
\* on every byte of a container with an element, of a pair and of a binary.
AllHeaders == {n \in 3 .. SIZE : n + 3 <= SIZE}

\* Up to four labels of six, seven, thirteen or fourteen characters ("person",
\* "bicycle", "baseball glove"), whose lists end on each side of the end of
\* ano_res.
UpToFour ==
  {d \in UNION {[1 .. n -> {6, 7, 13, 14}] : n \in 0 .. 4} : \A i \in 2 .. Len(d) : d[i - 1] >= d[i]}

=============================================================================
