---------------------------- MODULE SleepProofs ----------------------------
(***************************************************************************)
(* Proofs about SleepWakeup for every NPROC and every set of CPUs.         *)
(***************************************************************************)
EXTENDS SleepWakeup, FiniteSetTheorems, TLAPS

\* Where a kernel thread may be when it is not executing on a CPU.
OffLabels == Preemptible \cup {"asleep"}

\* Which kernel thread is on which CPU, and the p->lock that swtch() is done
\* under.
CpuInv ==
  /\ \A c, d \in CPUs : curr[c] # NoProc /\ curr[c] = curr[d] => c = d
  /\ \A c \in CPUs : phase[c] # "exec" =>
       /\ curr[c] # NoProc
       /\ plock[curr[c]] = c
       /\ pc[curr[c]] \in OffLabels
       /\ phase[c] = "resume" <=> pstate[curr[c]] = "RUNNING"
  /\ \A c \in CPUs : phase[c] = "exec" /\ curr[c] # NoProc =>
       pstate[curr[c]] = "RUNNING" /\ pc[curr[c]] # "asleep"

\* A process that is on no CPU is not RUNNING and waits at a label where sched()
\* may be called; a process sleeps only inside sleep().
StateInv ==
  /\ \A p \in Procs : pstate[p] = "RUNNING" \/ pc[p] \notin OffLabels =>
       \E c \in CPUs : curr[c] = p
  /\ \A p \in Procs : pstate[p] = "SLEEPING" => pc[p] = "asleep"
  /\ \A p \in Procs : pc[p] = "asleep" => chan[p]

\* p->lock is held by the CPU that p is on, and only inside sched() or at the
\* end of sleep().
PlockInv ==
  /\ \A p \in Procs, c \in CPUs : plock[p] = c =>
       curr[c] = p /\ (phase[c] # "exec" \/ pc[p] \in {"unlock", "park"})
  /\ \A p \in Procs, c \in CPUs : curr[c] = p /\ pc[p] \in {"unlock", "park"} => plock[p] = c

\* lk->lk is held by the CPU of the process that is in its critical section.
LkInv == \A c \in CPUs : lk = c <=> curr[c] # NoProc /\ pc[curr[c]] \in HoldsLk

\* The sleep-lock, without counting its holders.
HolderInv ==
  /\ \A p, q \in Holders : p = q
  /\ locked <=> Holders # {}

\* A process that is about to sleep has seen the sleep-lock held and still holds
\* lk or p->lock; wakeup() has yet to reach every process that is left to wake.
WaitInv ==
  /\ \A q \in Procs : pc[q] \in {"sleep", "unlock"} => locked
  /\ \A q \in Procs : pc[q] = "park" \/ pstate[q] = "SLEEPING" =>
       locked \/ \E p \in Procs : pc[p] = "wakeup"
  /\ \A p, q \in Procs : pc[p] = "wakeup" /\ (pc[q] = "park" \/ pstate[q] = "SLEEPING") =>
       idx <= q

IInv == TypeOK /\ CpuInv /\ StateInv /\ PlockInv /\ LkInv /\ HolderInv /\ WaitInv

-----------------------------------------------------------------------------

\* main() has started: every process is RUNNABLE and no CPU runs one.
LEMMA InitHolds == Init => IInv
<1> SUFFICES ASSUME Init PROVE IInv
  OBVIOUS
<1> USE SleepAssumption DEF Init, OffLabels, Preemptible, Labels, HoldsLk, Holders, Procs, NoProc
<1>1. TypeOK
  <2>1. idx \in 1..NPROC + 1
    OBVIOUS
  <2>2. chan \in [Procs -> BOOLEAN] /\ locked \in BOOLEAN
    OBVIOUS
  <2>3. pc \in [Procs -> Labels]
    OBVIOUS
  <2> QED  BY <2>1, <2>2, <2>3 DEF TypeOK
<1>2. CpuInv  BY DEF CpuInv
<1>3. StateInv  BY DEF StateInv
<1>4. PlockInv  BY DEF PlockInv
<1>5. LkInv  BY DEF LkInv
<1>6. HolderInv  BY DEF HolderInv
<1>7. WaitInv  BY DEF WaitInv
<1> QED  BY <1>1, <1>2, <1>3, <1>4, <1>5, <1>6, <1>7 DEF IInv

\* At most one process is in a critical section of lk->lk.
LEMMA LkUnique ==
  ASSUME IInv, NEW p \in Procs, NEW q \in Procs, pc[p] \in HoldsLk, pc[q] \in HoldsLk
  PROVE  p = q
<1> USE SleepAssumption DEF IInv, TypeOK, CpuInv, StateInv, LkInv, OffLabels, Preemptible, HoldsLk,
      Procs, NoProc
<1>1. PICK c \in CPUs : curr[c] = p
  OBVIOUS
<1>2. PICK d \in CPUs : curr[d] = q
  OBVIOUS
<1>3. lk = c /\ lk = d
  BY <1>1, <1>2
<1> QED  BY <1>1, <1>2, <1>3

\* The scheduler gives an idle CPU to a process that no CPU runs.
LEMMA ScheduleKeeps == ASSUME IInv, NEW c \in CPUs, NEW p \in Procs, Schedule(c, p) PROVE IInv'
<1> USE SleepAssumption DEF IInv, TypeOK, CpuInv, StateInv, PlockInv, LkInv, HolderInv, WaitInv,
      OffLabels, Preemptible, Labels, HoldsLk, Holders, Procs, NoProc, Schedule
<1>1. TypeOK'  OBVIOUS
<1>2. CpuInv'  OBVIOUS
<1>3. StateInv'  OBVIOUS
<1>4. PlockInv'  OBVIOUS
<1>5. LkInv'
  <2>1. \A d \in CPUs : curr[d] # p
    OBVIOUS
  <2>2. pc[p] \in OffLabels /\ lk # c
    BY <2>1
  <2> QED  BY <2>2
<1>6. HolderInv'  OBVIOUS
<1>7. WaitInv'  OBVIOUS
<1> QED  BY <1>1, <1>2, <1>3, <1>4, <1>5, <1>6, <1>7

\* A process leaves sched() with the p->lock the scheduler took.
LEMMA ResumeKeeps == ASSUME IInv, NEW c \in CPUs, NEW p \in Procs, Resume(c, p) PROVE IInv'
<1> USE SleepAssumption DEF IInv, TypeOK, CpuInv, StateInv, PlockInv, LkInv, HolderInv, WaitInv,
      OffLabels, Preemptible, Labels, HoldsLk, Holders, Procs, NoProc, Resume
<1>1. TypeOK'
  <2>1. pc' \in [Procs -> Labels]
    OBVIOUS
  <2>2. chan' \in [Procs -> BOOLEAN]
    <3>1. chan \in [Procs -> BOOLEAN] /\ chan' = [chan EXCEPT ![p] = IF pc[p] = "asleep" THEN FALSE ELSE @]
      OBVIOUS
    <3>2. CASE pc[p] = "asleep"
      BY ONLY <3>1, <3>2
    <3>3. CASE pc[p] # "asleep"
      BY ONLY <3>1, <3>3, Zenon
    <3> QED  BY <3>2, <3>3
  <2> QED  BY <2>1, <2>2
<1>2. CpuInv'  OBVIOUS
<1>3. StateInv'  OBVIOUS
<1>4. PlockInv'
  <2>1. pc[p] \in OffLabels
    OBVIOUS
  <2>2. pc'[p] \notin {"unlock", "park"} /\ \A q \in Procs \ {p} : pc'[q] = pc[q]
    BY <2>1
  <2> QED  BY <2>2
<1>5. LkInv'  OBVIOUS
<1>6. HolderInv'  OBVIOUS
<1>7. WaitInv'  OBVIOUS
<1> QED  BY <1>1, <1>2, <1>3, <1>4, <1>5, <1>6, <1>7

\* sched() hands the CPU back; the process stays where it may be resumed.
LEMMA SchedKeeps == ASSUME IInv, NEW c \in CPUs, NEW p \in Procs, Sched(c, p) PROVE IInv'
<1> USE SleepAssumption DEF IInv, TypeOK, CpuInv, StateInv, PlockInv, LkInv, HolderInv, WaitInv,
      OffLabels, Preemptible, Labels, HoldsLk, Holders, Procs, NoProc, Sched, SchedPanics
<1>1. TypeOK'  OBVIOUS
<1>2. CpuInv'  OBVIOUS
<1>3. StateInv'  OBVIOUS
<1>4. PlockInv'  OBVIOUS
<1>5. LkInv'  OBVIOUS
<1>6. HolderInv'  OBVIOUS
<1>7. WaitInv'  OBVIOUS
<1> QED  BY <1>1, <1>2, <1>3, <1>4, <1>5, <1>6, <1>7

\* yield() is called with no spinlock held.
LEMMA YieldKeeps == ASSUME IInv, NEW c \in CPUs, NEW p \in Procs, Yield(c, p) PROVE IInv'
<1> USE SleepAssumption DEF IInv, TypeOK, CpuInv, StateInv, PlockInv, LkInv, HolderInv, WaitInv,
      OffLabels, Preemptible, Labels, HoldsLk, Holders, Procs, NoProc, Yield
<1>1. TypeOK'  OBVIOUS
<1>2. CpuInv'  OBVIOUS
<1>3. StateInv'  OBVIOUS
<1>4. PlockInv'  OBVIOUS
<1>5. LkInv'  OBVIOUS
<1>6. HolderInv'  OBVIOUS
<1>7. WaitInv'  OBVIOUS
<1> QED  BY <1>1, <1>2, <1>3, <1>4, <1>5, <1>6, <1>7

\* acquire() turns interrupts off.
LEMMA CallKeeps == ASSUME IInv, NEW c \in CPUs, NEW p \in Procs, Call(c, p) PROVE IInv'
<1> USE SleepAssumption DEF IInv, TypeOK, CpuInv, StateInv, PlockInv, LkInv, HolderInv, WaitInv,
      OffLabels, Preemptible, Labels, HoldsLk, Holders, Procs, NoProc, Call, Exec, Goto
<1>1. TypeOK'
  <2>1. pc' \in [Procs -> Labels]
    OBVIOUS
  <2>2. UNCHANGED <<lk, locked, plock, pstate, chan, curr, phase, idx>>
    OBVIOUS
  <2> HIDE DEF Labels, Procs, Call, Exec, Goto, CpuInv, StateInv, PlockInv, LkInv, HolderInv, WaitInv
  <2> QED  BY <2>1, <2>2
<1>2. CpuInv'  OBVIOUS
<1>3. StateInv'
  <2>1. \A q \in Procs \ {p} : pc'[q] = pc[q]
    OBVIOUS
  <2>2. pc'[p] # "asleep" /\ pstate[p] # "SLEEPING"
    OBVIOUS
  <2> QED  BY <2>1, <2>2
<1>4. PlockInv'  OBVIOUS
<1>5. LkInv'  OBVIOUS
<1>6. HolderInv'
  <2>1. Holders' = Holders
    OBVIOUS
  <2>2. locked' = locked
    OBVIOUS
  <2> HIDE DEF Holders, Call
  <2> QED  BY <2>1, <2>2
<1>7. WaitInv'  OBVIOUS
<1> QED  BY <1>1, <1>2, <1>3, <1>4, <1>5, <1>6, <1>7

\* lk->lk is taken by the CPU that runs the caller.
LEMMA AcquireLkKeeps == ASSUME IInv, NEW c \in CPUs, NEW p \in Procs, AcquireLk(c, p) PROVE IInv'
<1> USE SleepAssumption DEF IInv, TypeOK, CpuInv, StateInv, PlockInv, LkInv, HolderInv, WaitInv,
      OffLabels, Preemptible, Labels, HoldsLk, Holders, Procs, NoProc, AcquireLk, Exec, Goto
<1>1. TypeOK'  OBVIOUS
<1>2. CpuInv'  OBVIOUS
<1>3. StateInv'  OBVIOUS
<1>4. PlockInv'  OBVIOUS
<1>5. LkInv'  OBVIOUS
<1>6. HolderInv'  OBVIOUS
<1>7. WaitInv'
  <2>1. \A q \in Procs : pc'[q] = pc[q] \/ (q = p /\ pc'[p] \in {"test", "clear"})
    OBVIOUS
  <2>2. \A q \in Procs : pc[q] = "wakeup" => pc'[q] = "wakeup"
    OBVIOUS
  <2> QED  BY <2>1, <2>2
<1> QED  BY <1>1, <1>2, <1>3, <1>4, <1>5, <1>6, <1>7

\* The sleep-lock is taken only when nobody holds it.
LEMMA TestKeeps == ASSUME IInv, NEW c \in CPUs, NEW p \in Procs, Test(c, p) PROVE IInv'
<1> USE SleepAssumption DEF IInv, TypeOK, CpuInv, StateInv, PlockInv, LkInv, HolderInv, WaitInv,
      OffLabels, Preemptible, Labels, HoldsLk, Holders, Procs, NoProc, Test, Exec, Goto
<1>1. TypeOK'
  <2>1. pc' \in [Procs -> Labels]
    OBVIOUS
  <2>2. lk' \in CPUs \cup {NoCPU} /\ locked' \in BOOLEAN
    <3>1. CASE locked
      <4>1. locked' = locked /\ lk' = lk
        BY <3>1
      <4> QED  BY <4>1
    <3>2. CASE ~locked
      <4>1. locked' = TRUE /\ lk' = NoCPU
        BY <3>2
      <4> QED  BY <4>1
    <3> QED  BY <3>1, <3>2
  <2> QED  BY <2>1, <2>2
<1>2. CpuInv'  OBVIOUS
<1>3. StateInv'  OBVIOUS
<1>4. PlockInv'  OBVIOUS
<1>5. LkInv'  OBVIOUS
<1>6. HolderInv'
  <2>1. CASE locked
    <3>1. Holders' = Holders /\ locked' = locked
      BY <2>1
    <3> QED  BY <3>1, SMTT(20)
  <2>2. CASE ~locked
    <3>1. Holders = {} /\ locked' = TRUE
      BY <2>2
    <3>2. pc'[p] = "cs" /\ \A q \in Procs \ {p} : pc'[q] = pc[q]
      BY <2>2
    <3>3. \A q \in Procs \ {p} : q \notin Holders'
      <4> SUFFICES ASSUME NEW q \in Procs \ {p} PROVE pc'[q] \notin {"cs", "release", "clear"}
        OBVIOUS
      <4>1. pc'[q] = pc[q] /\ q \notin Holders
        BY <3>1, <3>2
      <4> QED  BY <4>1
    <3>4. p \in Holders'
      BY <3>2
    <3>5. Holders' = {p}
      BY <3>3, <3>4
    <3> QED  BY <3>1, <3>5
  <2> QED  BY <2>1, <2>2
<1>7. WaitInv'  OBVIOUS
<1> QED  BY <1>1, <1>2, <1>3, <1>4, <1>5, <1>6, <1>7

\* sleep() takes p->lock while it holds lk.
LEMMA SleepAcquireKeeps == ASSUME IInv, NEW c \in CPUs, NEW p \in Procs, SleepAcquire(c, p) PROVE IInv'
<1> USE SleepAssumption DEF IInv, TypeOK, CpuInv, StateInv, PlockInv, LkInv, HolderInv, WaitInv,
      OffLabels, Preemptible, Labels, HoldsLk, Holders, Procs, NoProc, SleepAcquire, Exec, Goto
<1>1. TypeOK'  OBVIOUS
<1>2. CpuInv'  OBVIOUS
<1>3. StateInv'  OBVIOUS
<1>4. PlockInv'  OBVIOUS
<1>5. LkInv'  OBVIOUS
<1>6. HolderInv'  OBVIOUS
<1>7. WaitInv'  OBVIOUS
<1> QED  BY <1>1, <1>2, <1>3, <1>4, <1>5, <1>6, <1>7

\* sleep() releases lk; the sleep-lock is held at that moment.
LEMMA SleepReleaseKeeps == ASSUME IInv, NEW c \in CPUs, NEW p \in Procs, SleepRelease(c, p) PROVE IInv'
<1> USE SleepAssumption DEF IInv, TypeOK, CpuInv, StateInv, PlockInv, LkInv, HolderInv, WaitInv,
      OffLabels, Preemptible, Labels, HoldsLk, Holders, Procs, NoProc, SleepRelease, Exec, Goto
<1>1. TypeOK'  OBVIOUS
<1>2. CpuInv'  OBVIOUS
<1>3. StateInv'  OBVIOUS
<1>4. PlockInv'  OBVIOUS
<1>5. LkInv'  OBVIOUS
<1>6. HolderInv'  OBVIOUS
<1>7. WaitInv'
  <2>1. locked /\ locked' = locked
    OBVIOUS
  <2>2. \A q \in Procs : pc[q] # "wakeup"
    BY LkUnique
  <2>3. \A q \in Procs : pc'[q] # "wakeup"
    BY <2>2
  <2> QED  BY <2>1, <2>3
<1> QED  BY <1>1, <1>2, <1>3, <1>4, <1>5, <1>6, <1>7

\* sleep() becomes SLEEPING under p->lock.
LEMMA ParkKeeps == ASSUME IInv, NEW c \in CPUs, NEW p \in Procs, Park(c, p) PROVE IInv'
<1> USE SleepAssumption DEF IInv, TypeOK, CpuInv, StateInv, PlockInv, LkInv, HolderInv, WaitInv,
      OffLabels, Preemptible, Labels, HoldsLk, Holders, Procs, NoProc, Park, Exec, Goto
<1>1. TypeOK'  OBVIOUS
<1>2. CpuInv'  OBVIOUS
<1>3. StateInv'  OBVIOUS
<1>4. PlockInv'  OBVIOUS
<1>5. LkInv'  OBVIOUS
<1>6. HolderInv'  OBVIOUS
<1>7. WaitInv'  OBVIOUS
<1> QED  BY <1>1, <1>2, <1>3, <1>4, <1>5, <1>6, <1>7

\* releasesleep() clears locked and starts wakeup() at the first slot.
LEMMA ReleaseSleepKeeps == ASSUME IInv, NEW c \in CPUs, NEW p \in Procs, ReleaseSleep(c, p) PROVE IInv'
<1> USE SleepAssumption DEF IInv, TypeOK, CpuInv, StateInv, PlockInv, LkInv, HolderInv, WaitInv,
      OffLabels, Preemptible, Labels, HoldsLk, Holders, Procs, NoProc, ReleaseSleep, Exec, Goto
<1>1. TypeOK'
  <2>1. pc' \in [Procs -> Labels] /\ 1 \in 1..NPROC + 1
    OBVIOUS
  <2> QED  BY <2>1
<1>2. CpuInv'  OBVIOUS
<1>3. StateInv'  OBVIOUS
<1>4. PlockInv'  OBVIOUS
<1>5. LkInv'  OBVIOUS
<1>6. HolderInv'  OBVIOUS
<1>7. WaitInv'
  <2>1. \A q \in Procs : q # p => pc[q] \notin {"sleep", "unlock"}
    BY LkUnique
  <2>2. pc'[p] = "wakeup" /\ idx' = 1 /\ \A q \in Procs \ {p} : pc'[q] = pc[q]
    OBVIOUS
  <2> QED  BY <2>1, <2>2
<1> QED  BY <1>1, <1>2, <1>3, <1>4, <1>5, <1>6, <1>7

\* wakeup() passes a slot only when its p->lock is free, so no process in it is about to sleep.
LEMMA WakeupStepKeeps == ASSUME IInv, NEW c \in CPUs, NEW p \in Procs, WakeupStep(c, p) PROVE IInv'
<1> USE SleepAssumption DEF IInv, TypeOK, CpuInv, StateInv, PlockInv, LkInv, HolderInv, WaitInv,
      OffLabels, Preemptible, Labels, HoldsLk, Holders, Procs, NoProc, WakeupStep, Exec, Woken
<1>1. TypeOK'  OBVIOUS
<1>2. CpuInv'  OBVIOUS
<1>3. StateInv'  OBVIOUS
<1>4. PlockInv'  OBVIOUS
<1>5. LkInv'  OBVIOUS
<1>6. HolderInv'  OBVIOUS
<1>7. WaitInv'
  <2>1. \A q \in Procs : pc[q] = "wakeup" => q = p
    BY LkUnique
  <2>2. \A q \in Procs : pc[q] = "park" => q # idx
    <3> SUFFICES ASSUME NEW q \in Procs, pc[q] = "park", q = idx PROVE FALSE
      OBVIOUS
    <3>1. pc[q] \notin OffLabels
      OBVIOUS
    <3>2. PICK d \in CPUs : curr[d] = q
      BY <3>1, SMTT(20)
    <3>3. plock[q] = d
      BY <3>2
    <3> QED  BY <3>3
  <2>3. idx \in Procs /\ pstate'[idx] # "SLEEPING"
    OBVIOUS
  <2>4. \A q \in Procs \ {idx} : pstate'[q] = pstate[q]
    OBVIOUS
  <2> QED  BY <2>1, <2>2, <2>3, <2>4
<1> QED  BY <1>1, <1>2, <1>3, <1>4, <1>5, <1>6, <1>7

\* wakeup() has passed every slot when lk is released.
LEMMA ReleaseLkKeeps == ASSUME IInv, NEW c \in CPUs, NEW p \in Procs, ReleaseLk(c, p) PROVE IInv'
<1> USE SleepAssumption DEF IInv, TypeOK, CpuInv, StateInv, PlockInv, LkInv, HolderInv, WaitInv,
      OffLabels, Preemptible, Labels, HoldsLk, Holders, Procs, NoProc, ReleaseLk, Exec, Goto
<1>1. TypeOK'  OBVIOUS
<1>2. CpuInv'  OBVIOUS
<1>3. StateInv'  OBVIOUS
<1>4. PlockInv'  OBVIOUS
<1>5. LkInv'  OBVIOUS
<1>6. HolderInv'  OBVIOUS
<1>7. WaitInv'  OBVIOUS
<1> QED  BY <1>1, <1>2, <1>3, <1>4, <1>5, <1>6, <1>7

\* kkill() makes a sleeping process RUNNABLE that is on no CPU.
LEMMA KillKeeps == ASSUME IInv, NEW c \in CPUs, NEW q \in Procs, Kill(c, q) PROVE IInv'
<1> USE SleepAssumption DEF IInv, TypeOK, CpuInv, StateInv, PlockInv, LkInv, HolderInv, WaitInv,
      OffLabels, Preemptible, Labels, HoldsLk, Holders, Procs, NoProc, Kill
<1>1. TypeOK'  OBVIOUS
<1>2. CpuInv'  OBVIOUS
<1>3. StateInv'  OBVIOUS
<1>4. PlockInv'  OBVIOUS
<1>5. LkInv'  OBVIOUS
<1>6. HolderInv'  OBVIOUS
<1>7. WaitInv'  OBVIOUS
<1> QED  BY <1>1, <1>2, <1>3, <1>4, <1>5, <1>6, <1>7

-----------------------------------------------------------------------------

\* Every step of the kernel keeps the invariant.
LEMMA NextKeeps == IInv /\ [Next]_vars => IInv'
<1> SUFFICES ASSUME IInv, [Next]_vars PROVE IInv'
  OBVIOUS
<1>1. CASE UNCHANGED vars
  BY <1>1 DEF vars, IInv, TypeOK, CpuInv, StateInv, PlockInv, LkInv, HolderInv, Holders, WaitInv
<1>2. CASE Next
  <2>1. PICK c \in CPUs, p \in Procs :
          Schedule(c, p) \/ Yield(c, p) \/ Switch(c, p) \/ Call(c, p) \/ Work(c, p) \/ Kill(c, p)
    BY <1>2 DEF Next
  <2> QED
    BY <2>1, ScheduleKeeps, ResumeKeeps, SchedKeeps, YieldKeeps, CallKeeps, AcquireLkKeeps,
       TestKeeps, SleepAcquireKeeps, SleepReleaseKeeps, ParkKeeps, ReleaseSleepKeeps,
       WakeupStepKeeps, ReleaseLkKeeps, KillKeeps
    DEF Switch, Work
<1> QED  BY <1>1, <1>2

\* The inductive invariant holds of every reachable state.
THEOREM Inductive == Spec => []IInv
  BY InitHolds, NextKeeps, PTL DEF Spec

\* The state of sleep(), wakeup() and the scheduler keeps its types.
THEOREM SleepTypes == Spec => []TypeOK
<1>1. IInv => TypeOK
  BY DEF IInv
<1> QED  BY <1>1, Inductive, PTL

\* No kernel thread runs on two CPUs, and sched() never panics (proc.c:476-483).
THEOREM EachProcessOnOneCpu == Spec => []OneCpu
<1>1. IInv => OneCpu
  <2> USE SleepAssumption DEF IInv, TypeOK, CpuInv, PlockInv, LkInv, Procs, NoProc
  <2> SUFFICES ASSUME IInv PROVE OneCpu
    OBVIOUS
  <2>1. ASSUME NEW c \in CPUs, NEW p \in Procs, curr[c] = p, phase[c] = "sched"
        PROVE  ~SchedPanics(c, p)
    <3>1. plock[p] = c /\ pstate[p] # "RUNNING"
      BY <2>1
    <3>2. lk # c
      BY <2>1 DEF OffLabels, Preemptible, HoldsLk
    <3>3. \A q \in Procs \ {p} : plock[q] # c
      BY <2>1
    <3> QED  BY <3>1, <3>2, <3>3 DEF SchedPanics
  <2>2. \A c, d \in CPUs : c # d /\ curr[c] # NoProc => curr[c] # curr[d]
    OBVIOUS
  <2> QED  BY <2>1, <2>2 DEF OneCpu
<1> QED  BY <1>1, Inductive, PTL

\* The sleep-lock excludes: at most one process is between acquiresleep() and
\* the clearing of locked (sleeplock.c:27).
THEOREM SleepLockExcludes == Spec => []SleepLockExclusive
<1>1. IInv => SleepLockExclusive
  <2> SUFFICES ASSUME IInv PROVE SleepLockExclusive
    OBVIOUS
  <2>1. Cardinality(Holders) <= 1
    <3>1. CASE Holders = {}
      BY <3>1, FS_EmptySet
    <3>2. CASE Holders # {}
      <4>1. PICK p \in Holders : TRUE
        BY <3>2
      <4>2. Holders = {p}
        BY <4>1 DEF IInv, HolderInv
      <4> QED  BY <4>2, FS_Singleton
    <3> QED  BY <3>1, <3>2
  <2>2. locked <=> Holders # {}
    BY DEF IInv, HolderInv
  <2> QED  BY <2>1, <2>2 DEF SleepLockExclusive
<1> QED  BY <1>1, Inductive, PTL

\* No wakeup is lost (proc.c:546-551).
THEOREM WakeupReaches == Spec => []NoLostWakeup
<1>1. IInv => NoLostWakeup
  BY DEF IInv, WaitInv, NoLostWakeup
<1> QED  BY <1>1, Inductive, PTL

-----------------------------------------------------------------------------
(* sleep() and wakeup() implement the monitor.                             *)

\* The holder of lk->lk that the refinement mapping chooses is the only one.
LEMMA ChooseHolder ==
  ASSUME NEW f, NEW p \in Procs, f[p] \in HoldsLk, \A q \in Procs : f[q] \in HoldsLk => q = p
  PROVE  (CHOOSE q \in Procs : f[q] \in HoldsLk) = p
  OBVIOUS

\* A step in which the labels stay in or out of the critical section of lk does
\* not change the monitor's lock.
LEMMA SameHolder ==
  ASSUME IInv, IInv', \A q \in Procs : pc[q] \in HoldsLk <=> pc'[q] \in HoldsLk
  PROVE  LkHolder' = LkHolder
<1>1. CASE \E p \in Procs : pc[p] \in HoldsLk
  <2>1. PICK p \in Procs : pc[p] \in HoldsLk
    BY <1>1
  <2>2. \A q \in Procs : pc[q] \in HoldsLk => q = p
    BY <2>1, LkUnique
  <2>3. pc'[p] \in HoldsLk /\ \A q \in Procs : pc'[q] \in HoldsLk => q = p
    BY <2>1, <2>2
  <2>4. LkHolder = p
    BY <2>1, <2>2, ChooseHolder DEF LkHolder
  <2>5. LkHolder' = p
    BY <2>3, ChooseHolder DEF LkHolder
  <2> QED  BY <2>4, <2>5
<1>2. CASE ~\E p \in Procs : pc[p] \in HoldsLk
  BY <1>2 DEF LkHolder
<1> QED  BY <1>1, <1>2

\* What the monitor's lock is before a step of its holder.
LEMMA HolderBefore ==
  ASSUME IInv, NEW p \in Procs, pc[p] \in HoldsLk
  PROVE  LkHolder = p
<1>1. \A q \in Procs : pc[q] \in HoldsLk => q = p
  BY LkUnique
<1> QED  BY <1>1, ChooseHolder DEF LkHolder

\* The monitor's lock is free after its only holder has left.
LEMMA HolderAfter ==
  ASSUME IInv, NEW p \in Procs, pc[p] \in HoldsLk,
         \A q \in Procs \ {p} : pc'[q] = pc[q], pc'[p] \notin HoldsLk
  PROVE  LkHolder' = NoProc
<1>1. \A q \in Procs : pc[q] \in HoldsLk => q = p
  BY LkUnique
<1>2. \A q \in Procs : pc'[q] \notin HoldsLk
  BY <1>1
<1> QED  BY <1>2 DEF LkHolder

\* The kernel boots with lk free and nobody asleep.
LEMMA InitMonitor == Init => Mon!Init
<1> SUFFICES ASSUME Init PROVE Mon!Init
  OBVIOUS
<1>1. \A p \in Procs : pc[p] = "out"
  BY DEF Init
<1>2. LkHolder = NoProc
  BY <1>1 DEF LkHolder, HoldsLk
<1>3. Asleep = {}
  BY <1>1 DEF Asleep
<1> QED  BY <1>2, <1>3 DEF Mon!Init

\* A step that neither starts nor ends a wakeup() and moves nobody in or out of
\* sleep() does not change who is asleep.
LEMMA SameAsleep ==
  ASSUME \A q \in Procs : pc[q] = "wakeup" <=> pc'[q] = "wakeup",
         \A q \in Procs : (pc[q] = "park" \/ (pc[q] = "asleep" /\ pstate[q] = "SLEEPING"))
                      <=> (pc'[q] = "park" \/ (pc'[q] = "asleep" /\ pstate'[q] = "SLEEPING"))
  PROVE  Asleep' = Asleep
  BY DEF Asleep

\* Scheduling, and the steps of sleep() under lk and under p->lock, are not seen
\* by the monitor.
LEMMA SchedulingHidden ==
  ASSUME IInv, IInv', NEW c \in CPUs, NEW p \in Procs,
         \/ Schedule(c, p) \/ Resume(c, p) \/ Sched(c, p) \/ Yield(c, p) \/ Call(c, p)
         \/ SleepAcquire(c, p) \/ Park(c, p) \/ WakeupStep(c, p)
  PROVE  UNCHANGED Mon!vars
<1>0. pc \in [Procs -> Labels] /\ pstate \in [Procs -> {"RUNNABLE", "RUNNING", "SLEEPING"}]
  BY DEF IInv, TypeOK
<1>1. CASE Schedule(c, p)
  <2>1. /\ pc' = pc
        /\ \A q \in Procs : pstate'[q] = pstate[q] \/ (pstate[q] # "SLEEPING" /\ pstate'[q] # "SLEEPING")
    BY <1>0, <1>1 DEF Schedule
  <2>2. LkHolder' = LkHolder
    BY <2>1, SameHolder DEF HoldsLk
  <2>3. Asleep' = Asleep
    BY <2>1, SameAsleep
  <2> QED  BY <2>2, <2>3 DEF Mon!vars
<1>2. CASE Resume(c, p)
  <2>1. pstate[p] = "RUNNING" /\ pstate' = pstate
    BY <1>2 DEF Resume, IInv, CpuInv, StateInv, Procs, NoProc
  <2>2. \A q \in Procs : pc'[q] = pc[q] \/ (q = p /\ pc[q] = "asleep" /\ pc'[q] = "woken")
    BY <1>0, <1>2 DEF Resume, Goto
  <2>3. LkHolder' = LkHolder
    BY <2>2, SameHolder DEF HoldsLk
  <2>4. Asleep' = Asleep
    BY <2>1, <2>2, SameAsleep
  <2> QED  BY <2>3, <2>4 DEF Mon!vars
<1>3. CASE Sched(c, p)
  <2>1. pc' = pc /\ pstate' = pstate
    BY <1>0, <1>3 DEF Sched
  <2>2. LkHolder' = LkHolder
    BY <2>1, SameHolder DEF HoldsLk
  <2>3. Asleep' = Asleep
    BY <2>1, SameAsleep
  <2> QED  BY <2>2, <2>3 DEF Mon!vars
<1>4. CASE Yield(c, p)
  <2>1. pc' = pc /\ \A q \in Procs : pstate'[q] = pstate[q] \/ pc[q] # "asleep"
    BY <1>0, <1>4 DEF Yield, Preemptible
  <2>2. LkHolder' = LkHolder
    BY <2>1, SameHolder DEF HoldsLk
  <2>3. Asleep' = Asleep
    BY <2>1, SameAsleep
  <2> QED  BY <2>2, <2>3 DEF Mon!vars
<1>5. CASE Call(c, p)
  <2>1. /\ pstate' = pstate
        /\ \A q \in Procs : \/ pc'[q] = pc[q]
                            \/ pc[q] \in Preemptible /\ pc'[q] \in {"acquire", "release"}
    BY <1>0, <1>5 DEF Call, Exec, Goto, Preemptible
  <2>2. LkHolder' = LkHolder
    BY <2>1, SameHolder DEF HoldsLk, Preemptible
  <2>3. Asleep' = Asleep
    BY <2>1, SameAsleep DEF Preemptible
  <2> QED  BY <2>2, <2>3 DEF Mon!vars
<1>6. CASE SleepAcquire(c, p)
  <2>1. /\ pstate' = pstate
        /\ \A q \in Procs : pc'[q] = pc[q] \/ (pc[q] = "sleep" /\ pc'[q] = "unlock")
    BY <1>0, <1>6 DEF SleepAcquire, Exec, Goto
  <2>2. LkHolder' = LkHolder
    BY <2>1, SameHolder DEF HoldsLk
  <2>3. Asleep' = Asleep
    BY <2>1, SameAsleep
  <2> QED  BY <2>2, <2>3 DEF Mon!vars
<1>7. CASE Park(c, p)
  <2>1. \A q \in Procs : \/ pc'[q] = pc[q] /\ pstate'[q] = pstate[q]
                         \/ pc[q] = "park" /\ pc'[q] = "asleep" /\ pstate'[q] = "SLEEPING"
    BY <1>0, <1>7 DEF Park, Exec, Goto
  <2>2. LkHolder' = LkHolder
    BY <2>1, SameHolder DEF HoldsLk
  <2>3. Asleep' = Asleep
    BY <2>1, SameAsleep
  <2> QED  BY <2>2, <2>3 DEF Mon!vars
<1>8. CASE WakeupStep(c, p)
  <2>1. pc[p] = "wakeup" /\ pc' = pc
    BY <1>8 DEF WakeupStep, Exec
  <2>2. LkHolder' = LkHolder
    BY <2>1, SameHolder
  <2>3. Asleep = {} /\ Asleep' = {}
    BY <2>1 DEF Asleep
  <2> QED  BY <2>2, <2>3 DEF Mon!vars
<1> QED  BY <1>1, <1>2, <1>3, <1>4, <1>5, <1>6, <1>7, <1>8

\* acquire(&lk->lk) is the monitor's Acquire.
LEMMA AcquireLkRefines ==
  ASSUME IInv, IInv', NEW c \in CPUs, NEW p \in Procs, AcquireLk(c, p)
  PROVE  Mon!Acquire(p)
<1> USE SleepAssumption DEF IInv, TypeOK, CpuInv, StateInv, LkInv, OffLabels, Preemptible,
      HoldsLk, Procs, NoProc, AcquireLk, Exec, Goto
<1>1. \A q \in Procs : pc[q] \notin HoldsLk
  <2> SUFFICES ASSUME NEW q \in Procs, pc[q] \in HoldsLk PROVE FALSE
    OBVIOUS
  <2>1. PICK d \in CPUs : curr[d] = q
    OBVIOUS
  <2>2. lk = d
    BY <2>1
  <2> QED  BY <2>2
<1>2. pc'[p] \in HoldsLk /\ \A q \in Procs : pc'[q] \in HoldsLk => q = p
  BY <1>1
<1>3. LkHolder = NoProc
  BY <1>1 DEF LkHolder
<1>4. LkHolder' = p
  BY <1>2, ChooseHolder DEF LkHolder
<1>5. Asleep' = Asleep
  BY SameAsleep
<1>6. p \notin Asleep
  BY DEF Asleep
<1> QED  BY <1>3, <1>4, <1>5, <1>6 DEF Mon!Acquire

\* acquiresleep() that takes the sleep-lock releases the monitor; the test that
\* fails is not seen.
LEMMA TestRefines ==
  ASSUME IInv, IInv', NEW c \in CPUs, NEW p \in Procs, Test(c, p)
  PROVE  Mon!Release(p) \/ UNCHANGED Mon!vars
<1> USE SleepAssumption DEF IInv, TypeOK, Procs, NoProc, HoldsLk, Test, Exec, Goto
<1>1. Asleep' = Asleep
  BY SameAsleep
<1>2. CASE locked
  BY <1>1, <1>2, SameHolder DEF Mon!vars
<1>3. CASE ~locked
  <2>1. LkHolder = p
    BY HolderBefore
  <2>2. pc'[p] \notin HoldsLk /\ \A q \in Procs \ {p} : pc'[q] = pc[q]
    BY <1>3
  <2>3. LkHolder' = NoProc
    BY <2>2, HolderAfter
  <2> QED  BY <1>1, <2>1, <2>3 DEF Mon!Release
<1> QED  BY <1>2, <1>3

\* The release of lk inside sleep() is the moment at which the caller falls
\* asleep for the monitor: no wakeup() is under way, and the next one needs lk.
LEMMA SleepReleaseRefines ==
  ASSUME IInv, IInv', NEW c \in CPUs, NEW p \in Procs, SleepRelease(c, p)
  PROVE  Mon!Sleep(p)
<1> USE SleepAssumption DEF IInv, TypeOK, Procs, NoProc, HoldsLk, SleepRelease, Exec, Goto
<1>1. LkHolder = p /\ LkHolder' = NoProc
  BY HolderBefore, HolderAfter
<1>2. \A q \in Procs : pc[q] # "wakeup" /\ pc'[q] # "wakeup"
  BY LkUnique
<1>3. Asleep' = Asleep \cup {p}
  BY <1>2 DEF Asleep
<1> QED  BY <1>1, <1>3 DEF Mon!Sleep

\* The start of wakeup() wakes every sleeper of the monitor at once.
LEMMA ReleaseSleepRefines ==
  ASSUME IInv, IInv', NEW c \in CPUs, NEW p \in Procs, ReleaseSleep(c, p)
  PROVE  Mon!WakeAll(p)
<1> USE SleepAssumption DEF IInv, TypeOK, Procs, NoProc, HoldsLk, ReleaseSleep, Exec, Goto
<1>1. LkHolder = p /\ LkHolder' = LkHolder
  BY HolderBefore, SameHolder
<1>2. Asleep' = {}
  BY DEF Asleep
<1> QED  BY <1>1, <1>2 DEF Mon!WakeAll

\* When wakeup() is over nobody is left asleep or about to sleep.
LEMMA ReleaseLkRefines ==
  ASSUME IInv, IInv', NEW c \in CPUs, NEW p \in Procs, ReleaseLk(c, p)
  PROVE  Mon!Release(p)
<1> USE SleepAssumption DEF IInv, TypeOK, Procs, NoProc, HoldsLk, ReleaseLk, Exec, Goto
<1>1. LkHolder = p /\ LkHolder' = NoProc
  BY HolderBefore, HolderAfter
<1>2. \A q \in Procs : pc[q] # "park" /\ pstate[q] # "SLEEPING"
  BY DEF WaitInv
<1>3. Asleep = {} /\ Asleep' = {}
  BY <1>2 DEF Asleep
<1> QED  BY <1>1, <1>3 DEF Mon!Release

\* kkill() wakes one sleeper, unless a wakeup() under way already has.
LEMMA KillRefines ==
  ASSUME IInv, IInv', NEW c \in CPUs, NEW p \in Procs, Kill(c, p)
  PROVE  Mon!Spurious(p) \/ UNCHANGED Mon!vars
<1> USE SleepAssumption DEF IInv, TypeOK, StateInv, Procs, NoProc, Kill
<1>1. LkHolder' = LkHolder
  BY SameHolder
<1>2. CASE \E q \in Procs : pc[q] = "wakeup"
  <2>1. Asleep = {} /\ Asleep' = {}
    BY <1>2 DEF Asleep
  <2> QED  BY <1>1, <2>1 DEF Mon!vars
<1>3. CASE ~\E q \in Procs : pc[q] = "wakeup"
  <2>1. p \in Asleep /\ Asleep' = Asleep \ {p}
    BY <1>3 DEF Asleep
  <2> QED  BY <1>1, <2>1 DEF Mon!Spurious
<1> QED  BY <1>2, <1>3

\* Every step is a step of the monitor or is not seen by it.
LEMMA StepMonitor == IInv /\ IInv' /\ [Next]_vars => [Mon!Next]_(Mon!vars)
<1> SUFFICES ASSUME IInv, IInv', [Next]_vars PROVE [Mon!Next]_(Mon!vars)
  OBVIOUS
<1>1. CASE UNCHANGED vars
  BY <1>1, SameHolder, SameAsleep DEF vars, Mon!vars
<1>2. CASE Next
  <2>1. PICK c \in CPUs, p \in Procs :
          Schedule(c, p) \/ Yield(c, p) \/ Switch(c, p) \/ Call(c, p) \/ Work(c, p) \/ Kill(c, p)
    BY <1>2 DEF Next
  <2>2. \/ Mon!Acquire(p) \/ Mon!Release(p) \/ Mon!Sleep(p) \/ Mon!WakeAll(p) \/ Mon!Spurious(p)
        \/ UNCHANGED Mon!vars
    BY <2>1, SchedulingHidden, AcquireLkRefines, TestRefines, SleepReleaseRefines,
       ReleaseSleepRefines, ReleaseLkRefines, KillRefines
    DEF Switch, Work
  <2> QED  BY <2>2 DEF Mon!Next
<1> QED  BY <1>1, <1>2

\* sleep() and wakeup() implement the monitor whose sleep is atomic.
THEOREM MonitorImplemented == Spec => AtomicSleep
  BY Inductive, InitMonitor, StepMonitor, PTL DEF Spec, AtomicSleep, Mon!Spec
=============================================================================
