---------------------------- MODULE MCJpegRestart ----------------------------
(***************************************************************************)
(* JpegRestart for TLC, with every file that one damage can make of a scan *)
(* of ten restart intervals, more than eight, so that the numbers of the   *)
(* markers come again.                                                     *)
(***************************************************************************)
EXTENDS JpegRestart

CONSTANT MaxSpan    \* bound: restart markers that one damage concerns

Last == Len(Encoded)
Concerns(i, j) == RSTs(j) - RSTs(i - 1)

Ranges == {<<i, j>> \in (1 .. Last) \X (1 .. Last) : i <= j /\ Concerns(i, j) <= MaxSpan}

\* Items get lost, up to the end of the file or to later ones ...
Cuts == {Damage(r[1] - 1, <<>>, r[2] + 1) : r \in Ranges}
\* ... whole intervals come twice ...
Repeats ==
  {Damage(r[2], <<>>, r[1]) :
     r \in {<<i, j>> \in Ranges : j < Len(Scan) /\ i % Period = 0 /\ (j + 1) % Period = 0}}
\* ... or a marker appears between two items: an invalid one, or a restart
\* marker that is ahead of the one that is due or behind it.
Invalids == {Damage(i, <<Invalid>>, i + 1) : i \in 1 .. Len(Scan) - 1}
Strays ==
  {Damage(i, <<RST(RSTs(i) + lead)>>, i + 1) : i \in 1 .. Len(Scan) - 1, lead \in -3 .. 4}

MCFiles == {Damage(Last, <<>>, Last + 1)} \cup Cuts \cup Repeats \cup Invalids \cup Strays
=============================================================================
