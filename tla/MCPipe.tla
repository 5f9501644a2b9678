------------------------------- MODULE MCPipe -------------------------------
(* Model values for TLC runs of Pipe. *)
EXTENDS Pipe, TLC

CONSTANTS r1, w1, w2

OneReader == {r1}
TwoWriters == {w1, w2}
OneOfEach == {r1, w1}
Bits == {0, 1}
=============================================================================
