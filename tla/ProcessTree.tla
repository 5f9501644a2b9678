---------------------------- MODULE ProcessTree ----------------------------
(***************************************************************************)
(* What fork, exit and wait promise: a tree of processes in which a fork,  *)
(* an exit with the adoption of the children, and a wait are each atomic.  *)
(***************************************************************************)
EXTENDS Naturals

CONSTANT Pids  \* 1 is init

VARIABLES status, parent

vars == <<status, parent>>

Init ==
  /\ status = [k \in Pids |-> IF k = 1 THEN "alive" ELSE "new"]
  /\ parent = [k \in Pids |-> 0]

Fork(p, c) ==
  /\ status[p] = "alive" /\ status[c] = "new"
  /\ status' = [status EXCEPT ![c] = "alive"]
  /\ parent' = [parent EXCEPT ![c] = p]

\* A fork that fails may use up a pid.
FailedFork(c) ==
  /\ status[c] = "new"
  /\ status' = [status EXCEPT ![c] = "gone"]
  /\ UNCHANGED parent

Exit(p) ==
  /\ p # 1 /\ status[p] = "alive"
  /\ status' = [status EXCEPT ![p] = "zombie"]
  /\ parent' = [k \in Pids |-> IF parent[k] = p THEN 1 ELSE parent[k]]

Reap(p, c) ==
  /\ status[p] = "alive" /\ status[c] = "zombie" /\ parent[c] = p
  /\ status' = [status EXCEPT ![c] = "gone"]
  /\ parent' = [parent EXCEPT ![c] = 0]

Next == \E p, c \in Pids : Fork(p, c) \/ FailedFork(c) \/ Exit(p) \/ Reap(p, c)

Spec == Init /\ [][Next]_vars
=============================================================================
