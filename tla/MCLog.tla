------------------------------- MODULE MCLog -------------------------------
(* Model values and symmetry for TLC runs of Log. *)
EXTENDS Log, TLC

CONSTANTS p1, p2, p3, b1, b2, b3, b4, b5, d1, d2

TwoProcs == {p1, p2}
ThreeProcs == {p1, p2, p3}
ThreeBlocks == {b1, b2, b3}
FiveBlocks == {b1, b2, b3, b4, b5}
TwoData == {d1, d2}
OneDatum == {d1}

Symmetry == Permutations(Procs) \cup Permutations(Blocks) \cup Permutations(Data)
=============================================================================
