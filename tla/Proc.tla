-------------------------------- MODULE Proc --------------------------------
(***************************************************************************)
(* The life of processes in kernel/proc.c: kfork(), kexit(), kwait() and   *)
(* kkill() on a table of NPROC slots, with the system-call tracing of      *)
(* kernel/sysproc.c.                                                       *)
(*                                                                         *)
(* A critical section of one p->lock is one action.  The parent fields and *)
(* the step to ZOMBIE are protected by wait_lock, which is therefore a     *)
(* variable; sleep(p, &wait_lock) is atomic, see SleepWakeup.  An exiting  *)
(* process keeps its p->lock until it is off its kernel stack: that is its *)
(* label "switch", and nobody else takes its p->lock then.                 *)
(***************************************************************************)
EXTENDS Integers, FiniteSets

CONSTANTS NPROC,     \* size of the process table
          MaxPid,    \* bound on nextpid
          KillPids   \* the arguments of kill()

ASSUME ProcAssumption ==
  /\ NPROC \in Nat \ {0}
  /\ MaxPid \in Nat \ {0}
  /\ KillPids \subseteq 0..MaxPid

Slots == 1..NPROC
None == 0
InitProc == 1   \* initproc

VARIABLES
  state, pid, parent, killed, trace_mask,  \* fields of struct proc
  nextpid,
  wait_lock,  \* slot of the process that holds wait_lock
  pc,         \* where the kernel thread of each process is
  np,         \* the local of kfork()
  panic,      \* "init exiting"
  asked,      \* history: pids that a kill() found
  heir        \* history: processes that called trace(), or an ancestor before
              \* the fork

fields == <<state, pid, parent, killed, trace_mask>>
history == <<asked, heir>>
vars == <<fields, nextpid, wait_lock, pc, np, panic, history>>

\* "none": the slot has no kernel thread that could run.
Labels == {"none", "user", "fork_parent", "fork_run", "wait", "scan", "sleep",
           "asleep", "exit", "zombify", "switch"}

\* Types, and a slot has a pid exactly while it is in use.  RUNNABLE stands for
\* RUNNABLE, RUNNING and SLEEPING.
TypeOK ==
  /\ state \in [Slots -> {"UNUSED", "USED", "RUNNABLE", "ZOMBIE"}]
  /\ pid \in [Slots -> 0..MaxPid]
  /\ \A s \in Slots : pid[s] = 0 <=> state[s] = "UNUSED"
  /\ parent \in [Slots -> Slots \cup {None}]
  /\ killed \in [Slots -> BOOLEAN]
  /\ trace_mask \in [Slots -> BOOLEAN]
  /\ nextpid \in 1..MaxPid + 1
  /\ wait_lock \in Slots \cup {None}
  /\ pc \in [Slots -> Labels]
  /\ np \in [Slots -> Slots \cup {None}]
  /\ panic \in BOOLEAN
  /\ asked \subseteq 0..MaxPid
  /\ heir \subseteq Slots

\* procinit() and userinit()
Init ==
  /\ state = [s \in Slots |-> IF s = InitProc THEN "RUNNABLE" ELSE "UNUSED"]
  /\ pid = [s \in Slots |-> IF s = InitProc THEN 1 ELSE 0]
  /\ parent = [s \in Slots |-> None]
  /\ killed = [s \in Slots |-> FALSE]
  /\ trace_mask = [s \in Slots |-> FALSE]
  /\ nextpid = 2
  /\ wait_lock = None
  /\ pc = [s \in Slots |-> IF s = InitProc THEN "user" ELSE "none"]
  /\ np = [s \in Slots |-> None]
  /\ panic = FALSE
  /\ asked = {} /\ heir = {}

-----------------------------------------------------------------------------
At(p, l) == pc[p] = l /\ ~panic
Goto(p, l) == pc' = [pc EXCEPT ![p] = l]
Children(p) == {c \in Slots : parent[c] = p}

\* A system call starts in user space and, usertrap() sees to that, in a
\* process that is not killed.
Syscall(p) == At(p, "user") /\ ~killed[p]

\* Mutant: the wakeup is lost.
Wakeup_Lost(f, p) == f

\* wakeup(p) for a process p: only p itself sleeps on that channel.
Wakeup(f, p) == IF p # None /\ f[p] = "asleep" THEN [f EXCEPT ![p] = "wait"] ELSE f

-----------------------------------------------------------------------------
(* kfork()                                                                 *)

\* np->trace_mask = p->trace_mask
CopyMask(p, c) == [trace_mask EXCEPT ![c] = trace_mask[p]]

\* allocproc() and the copies, with np->lock held.
ForkAlloc(p) ==
  /\ Syscall(p)
  /\ nextpid <= MaxPid
  /\ \E c \in Slots :
       /\ state[c] = "UNUSED"
       /\ state' = [state EXCEPT ![c] = "USED"]
       /\ pid' = [pid EXCEPT ![c] = nextpid]
       /\ trace_mask' = CopyMask(p, c)
       /\ heir' = IF p \in heir THEN heir \cup {c} ELSE heir
       /\ np' = [np EXCEPT ![p] = c]
  /\ nextpid' = nextpid + 1
  /\ Goto(p, "fork_parent")
  /\ UNCHANGED <<parent, killed, wait_lock, panic, asked>>

\* Mutant: p->killed is not reset.
FreeProc_Killed(s) ==
  /\ state' = [state EXCEPT ![s] = "UNUSED"]
  /\ pid' = [pid EXCEPT ![s] = 0]
  /\ parent' = [parent EXCEPT ![s] = None]
  /\ heir' = heir \ {s}
  /\ UNCHANGED <<killed, trace_mask>>

\* freeproc(): trace_mask is left alone.
FreeProc(s) ==
  /\ state' = [state EXCEPT ![s] = "UNUSED"]
  /\ pid' = [pid EXCEPT ![s] = 0]
  /\ parent' = [parent EXCEPT ![s] = None]
  /\ killed' = [killed EXCEPT ![s] = FALSE]
  /\ heir' = heir \ {s}
  /\ UNCHANGED trace_mask

\* Out of memory: allocproc() or kfork() frees the slot again, in the same
\* critical section.  The pid is used up.
ForkFails(p) ==
  /\ Syscall(p)
  /\ nextpid <= MaxPid
  /\ \E c \in Slots : state[c] = "UNUSED" /\ FreeProc(c)
  /\ nextpid' = nextpid + 1
  /\ UNCHANGED <<wait_lock, pc, np, panic, asked>>

\* np->parent = p, under wait_lock
ForkParent(p) ==
  /\ At(p, "fork_parent")
  /\ wait_lock = None
  /\ parent' = [parent EXCEPT ![np[p]] = p]
  /\ Goto(p, "fork_run")
  /\ UNCHANGED <<state, pid, killed, trace_mask, nextpid, wait_lock, np, panic, history>>

\* np->state = RUNNABLE
ForkRun(p) ==
  /\ At(p, "fork_run")
  /\ state' = [state EXCEPT ![np[p]] = "RUNNABLE"]
  /\ pc' = [pc EXCEPT ![p] = "user", ![np[p]] = "user"]
  /\ np' = [np EXCEPT ![p] = None]
  /\ UNCHANGED <<pid, parent, killed, trace_mask, nextpid, wait_lock, panic, history>>

-----------------------------------------------------------------------------
(* kexit()                                                                 *)

\* exit(), or usertrap() of a killed process.
Exit(p) ==
  /\ At(p, "user")
  /\ \/ /\ p = InitProc
        /\ panic' = TRUE
        /\ UNCHANGED pc
     \/ /\ p # InitProc
        /\ Goto(p, "exit")
        /\ UNCHANGED panic
  /\ UNCHANGED <<fields, nextpid, wait_lock, np, history>>

\* Mutant: the children keep their parent.
Reparent_Kept(p) == parent

\* reparent(): the children go to init, which is woken if it gets one.
Reparent(p) == [s \in Slots |-> IF parent[s] = p THEN InitProc ELSE parent[s]]
WakeInit(f, p) == IF Children(p) # {} THEN Wakeup(f, InitProc) ELSE f

\* acquire(&wait_lock), reparent(p), wakeup(p->parent)
ExitReparent(p) ==
  /\ At(p, "exit")
  /\ wait_lock = None
  /\ wait_lock' = p
  /\ parent' = Reparent(p)
  /\ pc' = [Wakeup(WakeInit(pc, p), parent[p]) EXCEPT ![p] = "zombify"]
  /\ UNCHANGED <<state, pid, killed, trace_mask, nextpid, np, panic, history>>

\* p->state = ZOMBIE with p->lock held; release(&wait_lock)
ExitZombie(p) ==
  /\ At(p, "zombify")
  /\ state' = [state EXCEPT ![p] = "ZOMBIE"]
  /\ wait_lock' = None
  /\ Goto(p, "switch")
  /\ UNCHANGED <<pid, parent, killed, trace_mask, nextpid, np, panic, history>>

\* sched(): the scheduler releases p->lock.
ExitSwitch(p) ==
  /\ At(p, "switch")
  /\ Goto(p, "none")
  /\ UNCHANGED <<fields, nextpid, wait_lock, np, panic, history>>

-----------------------------------------------------------------------------
(* kwait()                                                                 *)

Wait(p) ==
  /\ Syscall(p)
  /\ Goto(p, "wait")
  /\ UNCHANGED <<fields, nextpid, wait_lock, np, panic, history>>

\* acquire(&wait_lock), on entry and at the end of sleep()
WaitAcquire(p) ==
  /\ At(p, "wait")
  /\ wait_lock = None
  /\ wait_lock' = p
  /\ Goto(p, "scan")
  /\ UNCHANGED <<fields, nextpid, np, panic, history>>

Zombies(p) == {c \in Children(p) : state[c] = "ZOMBIE"}

\* Mutant: pp->lock is not acquired.
CanReap_NoLock(c) == TRUE

\* acquire(&pp->lock): the child is not in kexit() or swtch() any more.
CanReap(c) == pc[c] # "switch"

\* One round of the scan.  No other process changes a parent field or becomes
\* a ZOMBIE during the scan, so it finds the first ZOMBIE, if there is one.
\* It frees it, or fails to copy out its status.
WaitReap(p) ==
  /\ At(p, "scan")
  /\ \E c \in Zombies(p) :
       /\ \A z \in Zombies(p) : c <= z
       /\ CanReap(c)
       /\ FreeProc(c) \/ UNCHANGED <<fields, heir>>
  /\ wait_lock' = None
  /\ Goto(p, "user")
  /\ UNCHANGED <<nextpid, np, panic, asked>>

\* Nothing to reap: return -1, or go on to sleep.
WaitNone(p) ==
  /\ At(p, "scan")
  /\ Zombies(p) = {}
  /\ \/ /\ Children(p) = {} \/ killed[p]
        /\ wait_lock' = None
        /\ Goto(p, "user")
     \/ /\ Children(p) # {} /\ ~killed[p]
        /\ Goto(p, "sleep")
        /\ UNCHANGED wait_lock
  /\ UNCHANGED <<fields, nextpid, np, panic, history>>

\* sleep(p, &wait_lock)
WaitSleep(p) ==
  /\ At(p, "sleep")
  /\ wait_lock' = None
  /\ Goto(p, "asleep")
  /\ UNCHANGED <<fields, nextpid, np, panic, history>>

-----------------------------------------------------------------------------
(* kkill() and sys_trace().                                                *)

\* kkill(k) hits slot s, which it looks for by pid alone.
Kill(p, s) ==
  /\ Syscall(p)
  /\ pid[s] \in KillPids /\ pc[s] # "switch"
  /\ killed' = [killed EXCEPT ![s] = TRUE]
  /\ pc' = Wakeup(pc, s)
  /\ asked' = asked \cup {pid[s]}
  /\ UNCHANGED <<state, pid, parent, trace_mask, nextpid, wait_lock, np, panic, heir>>

\* trace(mask)
Trace(p) ==
  /\ Syscall(p)
  /\ trace_mask' = [trace_mask EXCEPT ![p] = ~@]
  /\ heir' = heir \cup {p}
  /\ UNCHANGED <<state, pid, parent, killed, nextpid, wait_lock, pc, np, panic, asked>>

-----------------------------------------------------------------------------
\* Steps inside the kernel.
Kernel(p) == \/ ForkParent(p) \/ ForkRun(p)
             \/ ExitReparent(p) \/ ExitZombie(p) \/ ExitSwitch(p)
             \/ WaitAcquire(p) \/ WaitReap(p) \/ WaitNone(p) \/ WaitSleep(p)

User(p) == ForkAlloc(p) \/ ForkFails(p) \/ Exit(p) \/ Wait(p) \/ Trace(p)

Next == \E p \in Slots : \/ Kernel(p) \/ User(p)
                         \/ \E s \in Slots : Kill(p, s)

Spec == Init /\ [][Next]_vars

\* Processes in the kernel make progress and get wait_lock if it is free
\* again and again.  init calls wait() again and again, with a status pointer
\* that is null (init.c), so the copyout does not fail for ever.
Fairness ==
  /\ \A p \in Slots : SF_vars(Kernel(p))
  /\ SF_vars(WaitReap(InitProc) /\ state' # state)
  /\ WF_vars(Wait(InitProc))

FairSpec == Spec /\ Fairness

-----------------------------------------------------------------------------
(* Properties.                                                             *)

\* A parent that sleeps in kwait() has no ZOMBIE child: kexit() wakes it, and
\* reparent() wakes init, before they let go of wait_lock (proc.c:348-360).
NoMissedExit == \A p \in Slots : pc[p] = "asleep" => Zombies(p) = {}

\* A slot is freed, and given to a new process, only when no kernel thread is
\* left on its stack (proc.c:382, "make sure the child isn't still in exit()
\* or swtch()").
FreedNotRunning ==
  \A s \in Slots : state[s] \in {"UNUSED", "USED"} => pc[s] = "none"

\* Only a process whose own pid was passed to kill() is killed (proc.c:588,
\* "Kill the process with the given pid"): no kill outlives its victim in the
\* slot.
KilledWasAsked ==
  \A s \in Slots : state[s] # "UNUSED" /\ killed[s] => pid[s] \in asked

\* "The mask should only affect the calling process and its children"
\* (partE.design.txt): a slot hands no mask on to its next owner.
TraceInherited ==
  \A s \in Slots : state[s] # "UNUSED" /\ trace_mask[s] => s \in heir

\* fork, exit and wait are atomic operations on a tree of processes.  A child
\* exists from RUNNABLE on; a process is a zombie from reparent() on, which
\* nobody can tell before wait_lock is released.
SlotOf(k) == {s \in Slots : pid[s] = k /\ state[s] # "USED"}

Status == [k \in 1..MaxPid |->
  IF SlotOf(k) # {}
  THEN IF \E s \in SlotOf(k) : state[s] = "ZOMBIE" \/ pc[s] = "zombify" THEN "zombie" ELSE "alive"
  ELSE IF k >= nextpid \/ \E s \in Slots : pid[s] = k THEN "new" ELSE "gone"]

ParentPid == [k \in 1..MaxPid |->
  IF \E s \in SlotOf(k) : parent[s] # None
  THEN pid[parent[CHOOSE s \in SlotOf(k) : TRUE]] ELSE 0]

PT == INSTANCE ProcessTree WITH Pids <- 1..MaxPid, status <- Status, parent <- ParentPid

ForkExitWait == PT!Spec

\* A zombie that init has adopted, or that is its own child, is reaped as long
\* as init does its duty.
OrphansReaped ==
  [](~panic /\ ~killed[InitProc]) =>
    \A s \in Slots : (state[s] = "ZOMBIE" /\ parent[s] = InitProc) ~> state[s] = "UNUSED"
=============================================================================
