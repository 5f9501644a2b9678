----------------------------- MODULE AtomicDisk -----------------------------
(***************************************************************************)
(* What the log layer of xv6 (kernel/log.c) promises to the file system:   *)
(* a disk whose contents change only by whole groups of operations.        *)
(*                                                                         *)
(* The file system sees `mem', the contents every read returns.  After a   *)
(* crash it sees `durable' again.  `durable' catches up with `mem' only at *)
(* an instant at which no operation is in progress, so that a crash keeps  *)
(* all the writes of an operation or none of them.                         *)
(***************************************************************************)
CONSTANTS Procs,   \* the processes that execute file-system calls
          Blocks,  \* the home blocks of the file system
          Data     \* the contents a block can have

VARIABLES mem,     \* what a read of each block returns
          durable, \* what a read would return after a crash and a recovery
          active   \* the processes between begin_op() and end_op()

vars == <<mem, durable, active>>

TypeOK ==
  /\ mem \in [Blocks -> Data]
  /\ durable \in [Blocks -> Data]
  /\ active \subseteq Procs

Init ==
  /\ durable \in [Blocks -> Data]
  /\ mem = durable
  /\ active = {}

Begin(p) ==
  /\ p \notin active
  /\ active' = active \cup {p}
  /\ UNCHANGED <<mem, durable>>

Write(p, b, v) ==
  /\ p \in active
  /\ mem' = [mem EXCEPT ![b] = v]
  /\ UNCHANGED <<durable, active>>

End(p) ==
  /\ p \in active
  /\ active' = active \ {p}
  /\ UNCHANGED <<mem, durable>>

\* Everything finished so far becomes durable at once.
Commit ==
  /\ active = {}
  /\ durable' = mem
  /\ UNCHANGED <<mem, active>>

\* Everything since the last Commit is lost at once.
Crash ==
  /\ mem' = durable
  /\ active' = {}
  /\ UNCHANGED durable

Next ==
  \/ \E p \in Procs : Begin(p) \/ End(p)
  \/ \E p \in Procs, b \in Blocks, v \in Data : Write(p, b, v)
  \/ Commit
  \/ Crash

Spec == Init /\ [][Next]_vars
=============================================================================
