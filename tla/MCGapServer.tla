----------------------------- MODULE MCGapServer -----------------------------
(* Instances of GapServer for TLC: the paths the originals take.           *)
EXTENDS GapServer

MCAlternate == [s \in 0 .. GapCount - 1 |-> 1 + (s % 2)]

MCOnePath == [s \in 0 .. GapCount - 1 |-> 1]
==============================================================================
