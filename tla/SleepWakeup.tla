----------------------------- MODULE SleepWakeup -----------------------------
(***************************************************************************)
(* sleep(), wakeup(), sched(), yield(), scheduler() and kkill() of         *)
(* kernel/proc.c, with the sleep-locks of kernel/sleeplock.c as their      *)
(* client.  Every process takes and releases one sleep-lock in a loop.     *)
(*                                                                         *)
(* A spinlock is held by a CPU, as in lk->cpu: a process that enters       *)
(* sched() leaves its p->lock to the scheduler thread of the same CPU,     *)
(* which releases it, and a process that is scheduled releases the p->lock *)
(* that the scheduler acquired.  An action is what happens between two     *)
(* acquires or releases; a critical section of p->lock that takes no other *)
(* lock is one action.                                                     *)
(***************************************************************************)
EXTENDS Integers, FiniteSets

CONSTANTS NPROC,   \* size of the process table
          CPUs,
          NoCPU    \* "the spinlock is free"

ASSUME SleepAssumption ==
  /\ NPROC \in Nat
  /\ NoCPU \notin CPUs

Procs == 1..NPROC
NoProc == 0

VARIABLES
  lk,      \* CPU that holds the spinlock lk->lk of the sleep-lock
  locked,  \* lk->locked
  plock,   \* CPU that holds each p->lock
  pstate,  \* p->state
  chan,    \* p->chan = lk, the sleep-lock's channel
  curr,    \* c->proc: the process whose kernel thread is on the CPU
  phase,   \* "exec", in sched() on the way out, or swtch()ed in again
  pc,      \* where the kernel thread of each process is
  idx      \* the loop index of wakeup()

vars == <<lk, locked, plock, pstate, chan, curr, phase, pc, idx>>

\* Where interrupts are on: a process that holds a spinlock, or spins in
\* acquire() for one, has turned them off.
Preemptible == {"out", "woken", "cs"}
Labels == Preemptible \cup {"acquire", "release", "test", "sleep", "unlock", "park", "asleep", "clear",
                            "wakeup"}

TypeOK ==
  /\ lk \in CPUs \cup {NoCPU}
  /\ locked \in BOOLEAN
  /\ plock \in [Procs -> CPUs \cup {NoCPU}]
  /\ pstate \in [Procs -> {"RUNNABLE", "RUNNING", "SLEEPING"}]
  /\ chan \in [Procs -> BOOLEAN]
  /\ curr \in [CPUs -> Procs \cup {NoProc}]
  /\ phase \in [CPUs -> {"exec", "sched", "resume"}]
  /\ pc \in [Procs -> Labels]
  /\ idx \in 1..NPROC + 1

Init ==
  /\ lk = NoCPU
  /\ locked = FALSE
  /\ plock = [p \in Procs |-> NoCPU]
  /\ pstate = [p \in Procs |-> "RUNNABLE"]
  /\ chan = [p \in Procs |-> FALSE]
  /\ curr = [c \in CPUs |-> NoProc]
  /\ phase = [c \in CPUs |-> "exec"]
  /\ pc = [p \in Procs |-> "out"]
  /\ idx = 1

\* CPU c executes process p, which is at label l.
Exec(c, p, l) == curr[c] = p /\ phase[c] = "exec" /\ pc[p] = l
Goto(p, l) == pc' = [pc EXCEPT ![p] = l]

-----------------------------------------------------------------------------
(* scheduler(), sched() and yield().                                       *)

\* Mutant: the process that is given the CPU stays RUNNABLE.
Schedule_StaysRunnable(c, p) ==
  /\ curr[c] = NoProc /\ plock[p] = NoCPU /\ pstate[p] = "RUNNABLE"
  /\ plock' = [plock EXCEPT ![p] = c]
  /\ curr' = [curr EXCEPT ![c] = p]
  /\ phase' = [phase EXCEPT ![c] = "resume"]
  /\ UNCHANGED <<lk, locked, pstate, chan, pc, idx>>

\* The scheduler of an idle CPU takes a RUNNABLE process.
Schedule(c, p) ==
  /\ curr[c] = NoProc
  /\ plock[p] = NoCPU
  /\ pstate[p] = "RUNNABLE"
  /\ plock' = [plock EXCEPT ![p] = c]
  /\ pstate' = [pstate EXCEPT ![p] = "RUNNING"]
  /\ curr' = [curr EXCEPT ![c] = p]
  /\ phase' = [phase EXCEPT ![c] = "resume"]
  /\ UNCHANGED <<lk, locked, chan, pc, idx>>

\* The process returns from sched() into yield() or sleep(), which release
\* p->lock; sleep() is about to reacquire lk.
Resume(c, p) ==
  /\ curr[c] = p
  /\ phase[c] = "resume"
  /\ phase' = [phase EXCEPT ![c] = "exec"]
  /\ plock' = [plock EXCEPT ![p] = NoCPU]
  /\ chan' = [chan EXCEPT ![p] = IF pc[p] = "asleep" THEN FALSE ELSE @]
  /\ pc' = [pc EXCEPT ![p] = IF @ = "asleep" THEN "woken" ELSE @]
  /\ UNCHANGED <<lk, locked, pstate, curr, idx>>

\* The conditions on which sched() panics.
SchedPanics(c, p) ==
  \/ plock[p] # c
  \/ lk = c \/ \E q \in Procs \ {p} : plock[q] = c
  \/ pstate[p] = "RUNNING"

\* swtch() to the scheduler of this CPU, which releases p->lock.
Sched(c, p) ==
  /\ curr[c] = p
  /\ phase[c] = "sched"
  /\ ~SchedPanics(c, p)
  /\ curr' = [curr EXCEPT ![c] = NoProc]
  /\ phase' = [phase EXCEPT ![c] = "exec"]
  /\ plock' = [plock EXCEPT ![p] = NoCPU]
  /\ UNCHANGED <<lk, locked, pstate, chan, pc, idx>>

\* A timer interrupt: yield().
Yield(c, p) ==
  /\ curr[c] = p
  /\ phase[c] = "exec"
  /\ pc[p] \in Preemptible
  /\ plock[p] = NoCPU
  /\ plock' = [plock EXCEPT ![p] = c]
  /\ pstate' = [pstate EXCEPT ![p] = "RUNNABLE"]
  /\ phase' = [phase EXCEPT ![c] = "sched"]
  /\ UNCHANGED <<lk, locked, chan, curr, pc, idx>>

-----------------------------------------------------------------------------
(* acquiresleep(), and sleep() inside it.                                  *)

\* push_off() in acquire(&lk->lk): the caller wants the sleep-lock, is awake
\* again in sleep(), or is done with the sleep-lock.
Call(c, p) ==
  /\ \/ Exec(c, p, "out") /\ Goto(p, "acquire")
     \/ Exec(c, p, "woken") /\ Goto(p, "acquire")
     \/ Exec(c, p, "cs") /\ Goto(p, "release")
  /\ UNCHANGED <<lk, locked, plock, pstate, chan, curr, phase, idx>>

\* acquire(&lk->lk), in acquiresleep(), at the end of sleep() and in
\* releasesleep().
AcquireLk(c, p) ==
  /\ lk = NoCPU
  /\ lk' = c
  /\ \/ Exec(c, p, "acquire") /\ Goto(p, "test")
     \/ Exec(c, p, "release") /\ Goto(p, "clear")
  /\ UNCHANGED <<locked, plock, pstate, chan, curr, phase, idx>>

\* Mutant: the sleep-lock is taken without looking at locked.
Test_NoCheck(c, p) ==
  /\ Exec(c, p, "test")
  /\ locked' = TRUE
  /\ lk' = NoCPU
  /\ Goto(p, "cs")
  /\ UNCHANGED <<plock, pstate, chan, curr, phase, idx>>

\* while(lk->locked) sleep(lk, &lk->lk), or take the sleep-lock.
Test(c, p) ==
  /\ Exec(c, p, "test")
  /\ \/ /\ locked
        /\ Goto(p, "sleep")
        /\ UNCHANGED <<lk, locked>>
     \/ /\ ~locked
        /\ locked' = TRUE
        /\ lk' = NoCPU
        /\ Goto(p, "cs")
  /\ UNCHANGED <<plock, pstate, chan, curr, phase, idx>>

\* Mutant: lk is released before p->lock is acquired.
SleepAcquire_Late(c, p) ==
  /\ Exec(c, p, "sleep")
  /\ lk' = NoCPU
  /\ Goto(p, "park")
  /\ UNCHANGED <<locked, plock, pstate, chan, curr, phase, idx>>

\* sleep(): acquire(&p->lock), before lk is released.
SleepAcquire(c, p) ==
  /\ Exec(c, p, "sleep")
  /\ plock[p] = NoCPU
  /\ plock' = [plock EXCEPT ![p] = c]
  /\ Goto(p, "unlock")
  /\ UNCHANGED <<lk, locked, pstate, chan, curr, phase, idx>>

\* sleep(): release(lk)
SleepRelease(c, p) ==
  /\ Exec(c, p, "unlock")
  /\ lk' = NoCPU
  /\ Goto(p, "park")
  /\ UNCHANGED <<locked, plock, pstate, chan, curr, phase, idx>>

\* sleep(): p->chan = chan; p->state = SLEEPING; sched()
Park(c, p) ==
  /\ Exec(c, p, "park")
  /\ chan' = [chan EXCEPT ![p] = TRUE]
  /\ pstate' = [pstate EXCEPT ![p] = "SLEEPING"]
  /\ phase' = [phase EXCEPT ![c] = "sched"]
  /\ Goto(p, "asleep")
  /\ UNCHANGED <<lk, locked, plock, curr, idx>>

-----------------------------------------------------------------------------
(* releasesleep(), wakeup() inside it, and kkill().                        *)

\* lk->locked = 0; wakeup(lk) starts.
ReleaseSleep(c, p) ==
  /\ Exec(c, p, "clear")
  /\ locked' = FALSE
  /\ idx' = 1
  /\ Goto(p, "wakeup")
  /\ UNCHANGED <<lk, plock, pstate, chan, curr, phase>>

\* Mutant: the channels are compared the wrong way round.
Woken_WrongChan(q) == pstate[q] = "SLEEPING" /\ ~chan[q]

\* Whether wakeup() makes q RUNNABLE.
Woken(q) == pstate[q] = "SLEEPING" /\ chan[q]

\* One iteration of the loop of wakeup(), which skips the caller itself.
WakeupStep(c, p) ==
  /\ Exec(c, p, "wakeup")
  /\ idx <= NPROC
  /\ idx = p \/ plock[idx] = NoCPU
  /\ pstate' = [pstate EXCEPT ![idx] = IF idx # p /\ Woken(idx) THEN "RUNNABLE" ELSE @]
  /\ idx' = idx + 1
  /\ UNCHANGED <<lk, locked, plock, chan, curr, phase, pc>>

\* release(&lk->lk)
ReleaseLk(c, p) ==
  /\ Exec(c, p, "wakeup")
  /\ idx = NPROC + 1
  /\ lk' = NoCPU
  /\ idx' = 1
  /\ Goto(p, "out")
  /\ UNCHANGED <<locked, plock, pstate, chan, curr, phase>>

\* kkill() by any process that runs: the victim leaves sleep().  Its killed
\* flag is not read by acquiresleep().
Kill(c, q) ==
  /\ curr[c] # NoProc /\ curr[c] # q
  /\ phase[c] = "exec" /\ pc[curr[c]] = "out"
  /\ plock[q] = NoCPU
  /\ pstate[q] = "SLEEPING"
  /\ pstate' = [pstate EXCEPT ![q] = "RUNNABLE"]
  /\ UNCHANGED <<lk, locked, plock, chan, curr, phase, pc, idx>>

-----------------------------------------------------------------------------
Switch(c, p) == Resume(c, p) \/ Sched(c, p)
Work(c, p) == \/ AcquireLk(c, p) \/ Test(c, p)
              \/ SleepAcquire(c, p) \/ SleepRelease(c, p) \/ Park(c, p)
              \/ ReleaseSleep(c, p) \/ WakeupStep(c, p) \/ ReleaseLk(c, p)

Next == \E c \in CPUs, p \in Procs :
          Schedule(c, p) \/ Yield(c, p) \/ Switch(c, p) \/ Call(c, p) \/ Work(c, p)
          \/ Kill(c, p)

Spec == Init /\ [][Next]_vars

\* The scan of the process table reaches every RUNNABLE process again and
\* again, and the timer interrupts a process that keeps its CPU.  A process
\* that is given the CPU again and again makes progress (a time slice is longer
\* than an instruction), gets a spinlock that is free again and again, and
\* leaves the critical section of the sleep-lock.  Nothing is assumed of Kill
\* or of a process outside.
Fairness ==
  \A p \in Procs :
    /\ SF_vars(\E c \in CPUs : Schedule(c, p))
    /\ \A c \in CPUs : WF_vars(Switch(c, p)) /\ WF_vars(Yield(c, p))
    /\ SF_vars(\E c \in CPUs : Work(c, p))
    /\ SF_vars(pc[p] # "out" /\ \E c \in CPUs : Call(c, p))

FairSpec == Spec /\ Fairness

-----------------------------------------------------------------------------
(* Properties.                                                             *)

\* No process executes on two CPUs: p->lock is kept across swtch(), so that no
\* other CPU runs p on a kernel stack that is still in use (proc.c:443-449), and
\* every way into sched() keeps to it, with the state changed and no other
\* spinlock held, so that it never panics (proc.c:476-483).
OneCpu ==
  /\ \A c, d \in CPUs : c # d /\ curr[c] # NoProc => curr[c] # curr[d]
  /\ \A c \in CPUs, p \in Procs :
       curr[c] = p /\ phase[c] = "sched" => ~SchedPanics(c, p)

\* A sleep-lock has at most one holder, and locked says whether it has one
\* (sleeplock.c:27).
Holders == {p \in Procs : pc[p] \in {"cs", "release", "clear"}}
SleepLockExclusive ==
  /\ Cardinality(Holders) <= 1
  /\ locked <=> Holders # {}

\* No lost wakeup: a process sleeps on the sleep-lock only while the lock is
\* held or while the wakeup() of its release has yet to reach it
\* (proc.c:546-551).
NoLostWakeup ==
  \A q \in Procs : pstate[q] = "SLEEPING" =>
    locked \/ \E p \in Procs : pc[p] = "wakeup" /\ idx <= q

\* What the monitor sees: a process is asleep from the release of lk on, and
\* awake from the start of the wakeup() that will reach it on.
HoldsLk == {"test", "sleep", "unlock", "clear", "wakeup"}
LkHolder == IF \E p \in Procs : pc[p] \in HoldsLk
            THEN CHOOSE p \in Procs : pc[p] \in HoldsLk
            ELSE NoProc
Asleep == IF \E p \in Procs : pc[p] = "wakeup" THEN {}
          ELSE {p \in Procs : pc[p] = "park"
                              \/ (pc[p] = "asleep" /\ pstate[p] = "SLEEPING")}

Mon == INSTANCE Monitor WITH lock <- LkHolder, asleep <- Asleep

\* sleep() and wakeup() implement a monitor whose sleep is atomic, which is how
\* Log, Pipe, Proc and VirtioDisk use them.
AtomicSleep == Mon!Spec

\* As long as someone wants the sleep-lock, someone gets it.
SomeoneEnters ==
  (\E p \in Procs : pc[p] = "acquire") ~> (\E p \in Procs : pc[p] = "cs")
=============================================================================
