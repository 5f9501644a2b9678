------------------------------- MODULE MCProc -------------------------------
(* Definitions for TLC runs of Proc. *)
EXTENDS Proc

\* Every pid but those of init and of free slots.
OtherPids == 2..MaxPid
=============================================================================
