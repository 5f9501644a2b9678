------------------------------ MODULE Monitor ------------------------------
(***************************************************************************)
(* What sleep(chan, lk) and wakeup(chan) of kernel/proc.c promise their    *)
(* callers: releasing lk and falling asleep is one step, and a wakeup made *)
(* while holding lk reaches every process that fell asleep before.         *)
(***************************************************************************)
CONSTANTS Procs, NoProc

VARIABLES lock,    \* the process that holds lk, or NoProc
          asleep   \* the processes that sleep on chan

vars == <<lock, asleep>>

Init == lock = NoProc /\ asleep = {}

Acquire(p) == lock = NoProc /\ p \notin asleep /\ lock' = p /\ UNCHANGED asleep

Release(p) == lock = p /\ lock' = NoProc /\ UNCHANGED asleep

Sleep(p) == lock = p /\ lock' = NoProc /\ asleep' = asleep \cup {p}

WakeAll(p) == lock = p /\ asleep' = {} /\ UNCHANGED lock

\* kkill() wakes a process for another reason.
Spurious(p) == p \in asleep /\ asleep' = asleep \ {p} /\ UNCHANGED lock

Next == \E p \in Procs : Acquire(p) \/ Release(p) \/ Sleep(p) \/ WakeAll(p) \/ Spurious(p)

Spec == Init /\ [][Next]_vars
=============================================================================
