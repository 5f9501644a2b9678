------------------------------- MODULE MCBio -------------------------------
(* Model values for TLC runs of Bio. *)
EXTENDS Bio, TLC

CONSTANTS p1, p2, p3, b1, b2, b3, d1, d2

TwoProcs == {p1, p2}
ThreeProcs == {p1, p2, p3}
ThreeBlocks == {b1, b2, b3}
OneDatum == {d1}
TwoData == {d1, d2}

Symmetry == Permutations(Procs) \cup Permutations(Blocks) \cup Permutations(Data)
=============================================================================
