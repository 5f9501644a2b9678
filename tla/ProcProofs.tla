----------------------------- MODULE ProcProofs -----------------------------
(***************************************************************************)
(* Proofs about Proc for every NPROC and every bound on the pids.          *)
(***************************************************************************)
EXTENDS Proc, TLAPS

\* wait_lock is held by the process that is in one of its critical sections.
LockInv == \A p \in Slots : wait_lock = p <=> pc[p] \in {"scan", "sleep", "zombify"}

\* Which slots have a kernel thread.
StateInv ==
  \A s \in Slots :
    /\ state[s] \in {"UNUSED", "USED"} => pc[s] = "none"
    /\ state[s] = "RUNNABLE" => pc[s] \notin {"none", "switch"}
    /\ state[s] = "ZOMBIE" => pc[s] \in {"none", "switch"}

\* A process in kfork() owns the new slot.
ForkInv ==
  \A p \in Slots : pc[p] \in {"fork_parent", "fork_run"} =>
    /\ np[p] \in Slots
    /\ state[np[p]] = "USED"
    /\ \A q \in Slots \ {p} : pc[q] \in {"fork_parent", "fork_run"} => np[q] # np[p]

\* init never gets into kexit().
InitInv == state[InitProc] = "RUNNABLE" /\ pc[InitProc] \notin {"exit", "zombify"}

\* A process asleep in kwait(), or about to fall asleep, has no ZOMBIE child,
\* and none that is about to become one without having woken it.
ExitInv ==
  \A p, c \in Slots : pc[p] \in {"sleep", "asleep"} /\ parent[c] = p =>
    state[c] # "ZOMBIE" /\ pc[c] # "zombify"

IInv == TypeOK /\ LockInv /\ StateInv /\ ForkInv /\ InitInv /\ ExitInv

-----------------------------------------------------------------------------

\* userinit(): only init exists.
LEMMA InitHolds == Init => IInv
<1> SUFFICES ASSUME Init PROVE IInv
  OBVIOUS
<1>1. InitProc \in Slots /\ 1 \in 0..MaxPid /\ 2 \in 1..MaxPid + 1
  BY ProcAssumption DEF Slots, InitProc
<1>2. TypeOK
  <2>1. /\ state \in [Slots -> {"UNUSED", "USED", "RUNNABLE", "ZOMBIE"}]
        /\ pid \in [Slots -> 0..MaxPid]
        /\ \A s \in Slots : pid[s] = 0 <=> state[s] = "UNUSED"
    BY <1>1, ProcAssumption DEF Init
  <2>2. parent \in [Slots -> Slots \cup {None}] /\ np \in [Slots -> Slots \cup {None}]
    BY DEF Init
  <2>3. pc \in [Slots -> Labels]
    BY DEF Init, Labels
  <2>4. killed \in [Slots -> BOOLEAN] /\ trace_mask \in [Slots -> BOOLEAN] /\ panic \in BOOLEAN
    BY DEF Init
  <2>5. /\ nextpid \in 1..MaxPid + 1
        /\ wait_lock \in Slots \cup {None}
        /\ asked \subseteq 0..MaxPid /\ heir \subseteq Slots
    BY <1>1 DEF Init
  <2> QED  BY <2>1, <2>2, <2>3, <2>4, <2>5 DEF TypeOK
<1>3. LockInv /\ StateInv /\ ForkInv /\ InitInv /\ ExitInv
  BY <1>1 DEF Init, LockInv, StateInv, ForkInv, InitInv, ExitInv, Slots, None
<1> QED  BY <1>2, <1>3 DEF IInv

\* wakeup(p) moves p and only p, and p does not stay asleep.
LEMMA WakeupMoves ==
  ASSUME NEW f \in [Slots -> Labels], NEW p \in Slots \cup {None}
  PROVE  /\ Wakeup(f, p) \in [Slots -> Labels]
         /\ \A q \in Slots : \/ Wakeup(f, p)[q] = f[q]
                             \/ f[q] = "asleep" /\ Wakeup(f, p)[q] = "wait"
         /\ p \in Slots => Wakeup(f, p)[p] # "asleep"
  BY DEF Wakeup, Labels, Slots, None

\* allocproc() in kfork(): a free slot has no kernel thread, so nothing sleeps on it.
LEMMA ForkAllocKeeps == ASSUME IInv, NEW p \in Slots, ForkAlloc(p) PROVE IInv'
<1> USE ProcAssumption DEF IInv, TypeOK, LockInv, StateInv, ForkInv, InitInv, ExitInv,
      ForkAlloc, CopyMask, Syscall, At, Goto, fields, history, Slots, None, InitProc,
      Labels
<1>1. TypeOK'  OBVIOUS
<1>2. LockInv'  OBVIOUS
<1>3. StateInv'  OBVIOUS
<1>4. ForkInv'  OBVIOUS
<1>5. InitInv'  OBVIOUS
<1>6. ExitInv'  OBVIOUS
<1> QED  BY <1>1, <1>2, <1>3, <1>4, <1>5, <1>6

\* A fork that runs out of memory leaves the slot free.
LEMMA ForkFailsKeeps == ASSUME IInv, NEW p \in Slots, ForkFails(p) PROVE IInv'
<1> USE ProcAssumption DEF IInv, TypeOK, LockInv, StateInv, ForkInv, InitInv, ExitInv,
      ForkFails, FreeProc, Syscall, At, Goto, fields, history, Slots, None, InitProc,
      Labels
<1>1. TypeOK'  OBVIOUS
<1>2. LockInv'  OBVIOUS
<1>3. StateInv'  OBVIOUS
<1>4. ForkInv'  OBVIOUS
<1>5. InitInv'  OBVIOUS
<1>6. ExitInv'  OBVIOUS
<1> QED  BY <1>1, <1>2, <1>3, <1>4, <1>5, <1>6

\* kfork() sets the parent of a slot that is not a ZOMBIE.
LEMMA ForkParentKeeps == ASSUME IInv, NEW p \in Slots, ForkParent(p) PROVE IInv'
<1> USE ProcAssumption DEF IInv, TypeOK, LockInv, StateInv, ForkInv, InitInv, ExitInv,
      ForkParent, At, Goto, fields, history, Slots, None, InitProc, Labels
<1>1. TypeOK'  OBVIOUS
<1>2. LockInv'  OBVIOUS
<1>3. StateInv'  OBVIOUS
<1>4. ForkInv'  OBVIOUS
<1>5. InitInv'  OBVIOUS
<1>6. ExitInv'  OBVIOUS
<1> QED  BY <1>1, <1>2, <1>3, <1>4, <1>5, <1>6

\* kfork() makes the child runnable; no other kfork() owns the slot.
LEMMA ForkRunKeeps == ASSUME IInv, NEW p \in Slots, ForkRun(p) PROVE IInv'
<1> USE ProcAssumption DEF IInv, TypeOK, LockInv, StateInv, ForkInv, InitInv, ExitInv,
      ForkRun, At, Goto, fields, history, Slots, None, InitProc, Labels
<1>1. TypeOK'
  <2>1. np[p] \in Slots /\ state[np[p]] = "USED" /\ p # np[p]
    OBVIOUS
  <2>2. state' \in [Slots -> {"UNUSED", "USED", "RUNNABLE", "ZOMBIE"}]
    BY <2>1
  <2>3. \A s \in Slots : pid'[s] = 0 <=> state'[s] = "UNUSED"
    BY <2>1
  <2>4. pc' \in [Slots -> Labels] /\ np' \in [Slots -> Slots \cup {None}]
    BY <2>1
  <2> QED  BY <2>2, <2>3, <2>4
<1>2. LockInv'  OBVIOUS
<1>3. StateInv'  OBVIOUS
<1>4. ForkInv'  OBVIOUS
<1>5. InitInv'  OBVIOUS
<1>6. ExitInv'  OBVIOUS
<1> QED  BY <1>1, <1>2, <1>3, <1>4, <1>5, <1>6

\* A step of a live process that leaves every state alone and moves only its own pc,
\* to a point where it still runs, keeps pc and state in agreement.
LEMMA StateFrame ==
  ASSUME StateInv, NEW p \in Slots, state' = state,
         state[p] \notin {"UNUSED", "USED", "ZOMBIE"}, pc'[p] \notin {"none", "switch"},
         \A q \in Slots \ {p} : pc'[q] = pc[q]
  PROVE  StateInv'
<1> SUFFICES ASSUME NEW s \in Slots
             PROVE  /\ state[s] \in {"UNUSED", "USED"} => pc'[s] = "none"
                    /\ state[s] = "RUNNABLE" => pc'[s] \notin {"none", "switch"}
                    /\ state[s] = "ZOMBIE" => pc'[s] \in {"none", "switch"}
  BY DEF StateInv
<1>1. CASE s = p  BY <1>1
<1>2. CASE s # p
  <2>1. pc'[s] = pc[s]  BY <1>2
  <2> QED  BY <2>1 DEF StateInv
<1> QED  BY <1>1, <1>2

\* kexit() of init panics, so init keeps running.
LEMMA ExitKeeps == ASSUME IInv, NEW p \in Slots, Exit(p) PROVE IInv'
<1> USE ProcAssumption DEF IInv, TypeOK, LockInv, StateInv, ForkInv, InitInv, ExitInv,
      Exit, At, Goto, fields, history, Slots, None, InitProc, Labels
<1>1. TypeOK'
  <2>1. pc' \in [Slots -> Labels]
    OBVIOUS
  <2>2. panic' \in BOOLEAN
    BY Zenon
  <2> QED  BY <2>1, <2>2
<1>2. LockInv'  OBVIOUS
<1>3. StateInv'
  <2>1. pc[p] = "user" /\ pc'[p] \in {"user", "exit"} /\ \A q \in Slots \ {p} : pc'[q] = pc[q]
    OBVIOUS
  <2>2. state' = state /\ state[p] \notin {"UNUSED", "USED", "ZOMBIE"}
    BY <2>1
  <2> QED  BY <2>1, <2>2, StateFrame
<1>4. ForkInv'  BY SMTT(20)
<1>5. InitInv'  OBVIOUS
<1>6. ExitInv'  OBVIOUS
<1> QED  BY <1>1, <1>2, <1>3, <1>4, <1>5, <1>6

\* kexit() becomes a ZOMBIE after its parent was woken.
LEMMA ExitZombieKeeps == ASSUME IInv, NEW p \in Slots, ExitZombie(p) PROVE IInv'
<1> USE ProcAssumption DEF IInv, TypeOK, LockInv, StateInv, ForkInv, InitInv, ExitInv,
      ExitZombie, At, Goto, fields, history, Slots, None, InitProc, Labels
<1>1. TypeOK'  OBVIOUS
<1>2. LockInv'  OBVIOUS
<1>3. StateInv'  OBVIOUS
<1>4. ForkInv'  OBVIOUS
<1>5. InitInv'  OBVIOUS
<1>6. ExitInv'  OBVIOUS
<1> QED  BY <1>1, <1>2, <1>3, <1>4, <1>5, <1>6

\* kexit() leaves its kernel stack.
LEMMA ExitSwitchKeeps == ASSUME IInv, NEW p \in Slots, ExitSwitch(p) PROVE IInv'
<1> USE ProcAssumption DEF IInv, TypeOK, LockInv, StateInv, ForkInv, InitInv, ExitInv,
      ExitSwitch, At, Goto, fields, history, Slots, None, InitProc, Labels
<1>1. TypeOK'  OBVIOUS
<1>2. LockInv'  OBVIOUS
<1>3. StateInv'  OBVIOUS
<1>4. ForkInv'  OBVIOUS
<1>5. InitInv'  OBVIOUS
<1>6. ExitInv'  OBVIOUS
<1> QED  BY <1>1, <1>2, <1>3, <1>4, <1>5, <1>6

\* kwait() starts.
LEMMA WaitKeeps == ASSUME IInv, NEW p \in Slots, Wait(p) PROVE IInv'
<1> USE ProcAssumption DEF IInv, TypeOK, LockInv, StateInv, ForkInv, InitInv, ExitInv,
      Wait, Syscall, At, Goto, fields, history, Slots, None, InitProc, Labels
<1>1. TypeOK'  OBVIOUS
<1>2. LockInv'  OBVIOUS
<1>3. StateInv'  OBVIOUS
<1>4. ForkInv'  OBVIOUS
<1>5. InitInv'  OBVIOUS
<1>6. ExitInv'  OBVIOUS
<1> QED  BY <1>1, <1>2, <1>3, <1>4, <1>5, <1>6

\* kwait() takes wait_lock.
LEMMA WaitAcquireKeeps == ASSUME IInv, NEW p \in Slots, WaitAcquire(p) PROVE IInv'
<1> USE ProcAssumption DEF IInv, TypeOK, LockInv, StateInv, ForkInv, InitInv, ExitInv,
      WaitAcquire, At, Goto, fields, history, Slots, None, InitProc, Labels
<1>1. TypeOK'  OBVIOUS
<1>2. LockInv'  OBVIOUS
<1>3. StateInv'  OBVIOUS
<1>4. ForkInv'  OBVIOUS
<1>5. InitInv'  OBVIOUS
<1>6. ExitInv'  OBVIOUS
<1> QED  BY <1>1, <1>2, <1>3, <1>4, <1>5, <1>6

\* kwait() frees a ZOMBIE that has left its stack.
LEMMA WaitReapKeeps == ASSUME IInv, NEW p \in Slots, WaitReap(p) PROVE IInv'
<1> USE ProcAssumption DEF IInv, TypeOK, LockInv, StateInv, ForkInv, InitInv, ExitInv,
      WaitReap, FreeProc, Zombies, Children, CanReap, At, Goto, fields, history,
      Slots, None, InitProc, Labels
<1>1. TypeOK'
  <2>1. pc' \in [Slots -> Labels] /\ wait_lock' \in Slots \cup {None}
    OBVIOUS
  <2>2. PICK c \in Slots : FreeProc(c) \/ UNCHANGED <<fields, heir>>
    OBVIOUS
  <2>3. CASE FreeProc(c)
    BY SMTT(20), <2>1, <2>2, <2>3
  <2>4. CASE UNCHANGED <<fields, heir>>
    BY <2>1, <2>4
  <2> QED  BY <2>2, <2>3, <2>4
<1>2. LockInv'  OBVIOUS
<1>3. StateInv'  BY SMTT(20)
<1>4. ForkInv'  OBVIOUS
<1>5. InitInv'  OBVIOUS
<1>6. ExitInv'  BY SMTT(20)
<1> QED  BY <1>1, <1>2, <1>3, <1>4, <1>5, <1>6

\* kwait() decides to sleep only after a scan without a ZOMBIE.
LEMMA WaitNoneKeeps == ASSUME IInv, NEW p \in Slots, WaitNone(p) PROVE IInv'
<1> USE ProcAssumption DEF IInv, TypeOK, LockInv, StateInv, ForkInv, InitInv, ExitInv,
      WaitNone, Zombies, Children, At, Goto, fields, history, Slots, None, InitProc,
      Labels
<1>1. TypeOK'
  <2>1. pc' \in [Slots -> Labels]
    OBVIOUS
  <2>2. wait_lock' \in Slots \cup {None}
    OBVIOUS
  <2> QED  BY <2>1, <2>2
<1>2. LockInv'
  <2>1. wait_lock = p /\ \A q \in Slots \ {p} : pc[q] \notin {"scan", "sleep", "zombify"}
    OBVIOUS
  <2>2. \A q \in Slots \ {p} : pc'[q] = pc[q]
    OBVIOUS
  <2>3. CASE wait_lock' = None /\ pc' = [pc EXCEPT ![p] = "user"]
    <3>1. pc'[p] = "user"
      BY <2>3
    <3> QED  BY <2>1, <2>2, <2>3, <3>1
  <2>4. CASE wait_lock' = wait_lock /\ pc' = [pc EXCEPT ![p] = "sleep"]
    <3>1. pc'[p] = "sleep"
      BY <2>4
    <3> QED  BY <2>1, <2>2, <2>4, <3>1
  <2> QED  BY <2>3, <2>4
<1>3. StateInv'
  <2>1. pc'[p] \in {"user", "sleep"} /\ \A q \in Slots \ {p} : pc'[q] = pc[q]
    OBVIOUS
  <2>2. state' = state /\ state[p] \notin {"UNUSED", "USED", "ZOMBIE"}
    OBVIOUS
  <2> QED  BY <2>1, <2>2, StateFrame
<1>4. ForkInv'
  <2>1. \A q \in Slots : pc'[q] \in {"fork_parent", "fork_run"} => pc[q] = pc'[q]
    OBVIOUS
  <2> QED  BY <2>1
<1>5. InitInv'  OBVIOUS
<1>6. ExitInv'
  <2> SUFFICES ASSUME NEW q \in Slots, NEW c \in Slots,
                      pc'[q] \in {"sleep", "asleep"}, parent'[c] = q
               PROVE  state'[c] # "ZOMBIE" /\ pc'[c] # "zombify"
    OBVIOUS
  <2>1. pc'[c] # "zombify" /\ state'[c] = state[c] /\ parent[c] = q
    OBVIOUS
  <2>2. CASE q = p
    <3>1. c \in Children(p)
      BY <2>1, <2>2
    <3>2. state[c] # "ZOMBIE"
      BY <3>1
    <3> QED  BY <2>1, <3>2
  <2>3. CASE q # p
    BY <2>1, <2>3
  <2> QED  BY <2>2, <2>3
<1> QED  BY <1>1, <1>2, <1>3, <1>4, <1>5, <1>6

\* sleep(p, &wait_lock) in kwait().
LEMMA WaitSleepKeeps == ASSUME IInv, NEW p \in Slots, WaitSleep(p) PROVE IInv'
<1> USE ProcAssumption DEF IInv, TypeOK, LockInv, StateInv, ForkInv, InitInv, ExitInv,
      WaitSleep, At, Goto, fields, history, Slots, None, InitProc, Labels
<1>1. TypeOK'
  <2>1. pc' \in [Slots -> Labels] /\ wait_lock' \in Slots \cup {None}
    OBVIOUS
  <2> QED  BY <2>1
<1>2. LockInv'  OBVIOUS
<1>3. StateInv'
  <2>1. pc[p] = "sleep" /\ pc'[p] = "asleep" /\ \A q \in Slots \ {p} : pc'[q] = pc[q]
    OBVIOUS
  <2>2. state' = state /\ state[p] \notin {"UNUSED", "USED", "ZOMBIE"}
    BY <2>1
  <2> QED  BY <2>1, <2>2, StateFrame
<1>4. ForkInv'  OBVIOUS
<1>5. InitInv'  OBVIOUS
<1>6. ExitInv'  OBVIOUS
<1> QED  BY <1>1, <1>2, <1>3, <1>4, <1>5, <1>6

\* sys_trace() changes the mask only.
LEMMA TraceKeeps == ASSUME IInv, NEW p \in Slots, Trace(p) PROVE IInv'
<1> USE ProcAssumption DEF IInv, TypeOK, LockInv, StateInv, ForkInv, InitInv, ExitInv,
      Trace, Syscall, At, Goto, fields, history, Slots, None, InitProc, Labels
<1>1. TypeOK'  OBVIOUS
<1>2. LockInv'  OBVIOUS
<1>3. StateInv'  OBVIOUS
<1>4. ForkInv'  OBVIOUS
<1>5. InitInv'  OBVIOUS
<1>6. ExitInv'  OBVIOUS
<1> QED  BY <1>1, <1>2, <1>3, <1>4, <1>5, <1>6

\* reparent() in kexit(): init and the parent are woken, and nobody sleeps on a
\* process that is about to become a ZOMBIE.
LEMMA ExitReparentKeeps == ASSUME IInv, NEW p \in Slots, ExitReparent(p) PROVE IInv'
<1> DEFINE f == WakeInit(pc, p)
           g == Wakeup(f, parent[p])
<1>1. /\ pc[p] = "exit" /\ wait_lock = None /\ wait_lock' = p
      /\ parent' = [s \in Slots |-> IF parent[s] = p THEN InitProc ELSE parent[s]]
      /\ pc' = [g EXCEPT ![p] = "zombify"]
      /\ UNCHANGED <<state, pid, killed, trace_mask, nextpid, np, panic, history>>
  BY DEF ExitReparent, Reparent, At
<1>2. InitProc \in Slots /\ None \notin Slots /\ p # InitProc
  BY ProcAssumption, <1>1 DEF IInv, InitInv, Slots, None, InitProc
<1>3. pc \in [Slots -> Labels] /\ parent \in [Slots -> Slots \cup {None}]
  BY DEF IInv, TypeOK
<1>4. /\ f \in [Slots -> Labels]
      /\ \A q \in Slots : f[q] = pc[q] \/ (pc[q] = "asleep" /\ f[q] = "wait")
      /\ (\E c \in Slots : parent[c] = p) => f[InitProc] # "asleep"
  BY <1>2, <1>3, WakeupMoves DEF WakeInit, Children
<1>5. /\ g \in [Slots -> Labels]
      /\ \A q \in Slots : g[q] = f[q] \/ (f[q] = "asleep" /\ g[q] = "wait")
      /\ parent[p] \in Slots => g[parent[p]] # "asleep"
  BY <1>3, <1>4, WakeupMoves
<1> HIDE DEF f, g
<1>6. \A q \in Slots \ {p} : pc'[q] = pc[q] \/ (pc[q] = "asleep" /\ pc'[q] = "wait")
  BY <1>1, <1>4, <1>5
<1>7. pc' \in [Slots -> Labels] /\ pc'[p] = "zombify"
  BY <1>1, <1>5 DEF Labels
<1>8. TypeOK'
  BY <1>1, <1>2, <1>7 DEF IInv, TypeOK, history
<1>9. LockInv'
  BY <1>1, <1>2, <1>6, <1>7 DEF IInv, LockInv
<1>10. StateInv'
  BY <1>1, <1>6, <1>7 DEF IInv, StateInv
<1>11. ForkInv'
  BY <1>1, <1>6, <1>7 DEF IInv, ForkInv
<1>12. InitInv'
  BY <1>1, <1>2, <1>6 DEF IInv, InitInv
<1>13. ExitInv'
  <2> SUFFICES ASSUME NEW q \in Slots, NEW c \in Slots,
                      pc'[q] \in {"sleep", "asleep"}, parent'[c] = q
               PROVE  state[c] # "ZOMBIE" /\ pc'[c] # "zombify"
    BY <1>1 DEF ExitInv
  <2>1. q # p /\ pc'[q] = pc[q] /\ g[q] = pc[q]
    BY <1>1, <1>5, <1>6, <1>7, <1>4
  <2>2. pc[q] = "asleep"
    BY <2>1, <1>1, <1>2 DEF IInv, LockInv
  <2>3. parent[c] # p
    BY <2>1, <2>2, <1>1, <1>2, <1>4, <1>5
  <2>4. parent[c] = q
    BY <2>3, <1>1
  <2>5. c # p
    BY <2>1, <2>2, <2>4, <1>5
  <2> QED  BY <2>2, <2>4, <2>5, <1>6 DEF IInv, ExitInv
<1> QED  BY <1>8, <1>9, <1>10, <1>11, <1>12, <1>13 DEF IInv

\* kkill() wakes its victim, and changes nothing else that the invariant reads.
LEMMA KillKeeps == ASSUME IInv, NEW p \in Slots, NEW s \in Slots, Kill(p, s) PROVE IInv'
<1>1. pc \in [Slots -> Labels] /\ pc' = Wakeup(pc, s)
  BY DEF IInv, TypeOK, Kill
<1>2. /\ pc' \in [Slots -> Labels]
      /\ \A q \in Slots : pc'[q] = pc[q] \/ (pc[q] = "asleep" /\ pc'[q] = "wait")
  BY <1>1, WakeupMoves
<1>3. /\ UNCHANGED <<state, pid, parent, trace_mask, nextpid, wait_lock, np, panic, heir>>
      /\ killed' = [killed EXCEPT ![s] = TRUE]
      /\ asked' = asked \cup {pid[s]}
  BY DEF Kill
<1>4. TypeOK'
  BY <1>2, <1>3 DEF IInv, TypeOK
<1>5. LockInv' /\ StateInv' /\ ForkInv'
  BY <1>2, <1>3 DEF IInv, LockInv, StateInv, ForkInv
<1>6. InitInv' /\ ExitInv'
  BY ProcAssumption, <1>2, <1>3 DEF IInv, InitInv, ExitInv, Slots, InitProc
<1> QED  BY <1>4, <1>5, <1>6 DEF IInv

-----------------------------------------------------------------------------
\* Every step keeps the invariant.
LEMMA NextKeeps == IInv /\ [Next]_vars => IInv'
<1> SUFFICES ASSUME IInv, [Next]_vars PROVE IInv'
  OBVIOUS
<1>1. CASE UNCHANGED vars
  BY <1>1 DEF IInv, TypeOK, LockInv, StateInv, ForkInv, InitInv, ExitInv, vars, fields, history
<1>2. ASSUME NEW p \in Slots, Kernel(p) PROVE IInv'
  BY <1>2, ForkParentKeeps, ForkRunKeeps, ExitReparentKeeps, ExitZombieKeeps,
     ExitSwitchKeeps, WaitAcquireKeeps, WaitReapKeeps, WaitNoneKeeps, WaitSleepKeeps
     DEF Kernel
<1>3. ASSUME NEW p \in Slots, User(p) PROVE IInv'
  BY <1>3, ForkAllocKeeps, ForkFailsKeeps, ExitKeeps, WaitKeeps, TraceKeeps DEF User
<1>4. ASSUME NEW p \in Slots, NEW s \in Slots, Kill(p, s) PROVE IInv'
  BY <1>4, KillKeeps
<1> QED  BY <1>1, <1>2, <1>3, <1>4 DEF Next

\* The inductive invariant of kfork(), kexit(), kwait() and kkill().
THEOREM ProcIInv == Spec => []IInv
  BY InitHolds, NextKeeps, PTL DEF Spec

\* The type invariant: in particular a slot has a pid exactly while it is used.
THEOREM ProcTypeOK == Spec => []TypeOK
<1>1. IInv => TypeOK
  BY DEF IInv
<1> QED  BY <1>1, ProcIInv, PTL

\* However large the table and however deep the tree of processes, nobody
\* sleeps in kwait() with a ZOMBIE child.
THEOREM NoMissedExitHolds == Spec => []NoMissedExit
<1>1. IInv => NoMissedExit
  BY DEF IInv, ExitInv, NoMissedExit, Zombies, Children
<1> QED  BY <1>1, ProcIInv, PTL

\* kwait() never frees a slot, and kfork() never takes one, while a kernel
\* thread is on its stack.
THEOREM FreedNotRunningHolds == Spec => []FreedNotRunning
<1>1. IInv => FreedNotRunning
  BY DEF IInv, StateInv, FreedNotRunning
<1> QED  BY <1>1, ProcIInv, PTL

\* A free slot that is not marked killed, and no kill without a request: what
\* makes KilledWasAsked inductive when kill(0) is not called.
KillInv ==
  /\ KilledWasAsked
  /\ \A s \in Slots : state[s] = "UNUSED" => ~killed[s]

\* If nobody calls kill(0), only processes that were named in a kill() are
\* killed.  kill(0) would mark a free slot, and so its next owner.
THEOREM KilledWasAskedHolds == ASSUME 0 \notin KillPids PROVE Spec => []KilledWasAsked
<1>1. Init => KillInv
  BY DEF Init, KillInv, KilledWasAsked
<1>2. IInv /\ KillInv /\ [Next]_vars => KillInv'
  <2> SUFFICES ASSUME IInv, KillInv, [Next]_vars PROVE KillInv'
    OBVIOUS
  <2> USE DEF KillInv, KilledWasAsked
  <2>0. /\ killed \in [Slots -> BOOLEAN] /\ state \in [Slots -> {"UNUSED", "USED", "RUNNABLE", "ZOMBIE"}]
        /\ pid \in [Slots -> 0..MaxPid]
        /\ \A s \in Slots : pid[s] = 0 <=> state[s] = "UNUSED"
    BY DEF IInv, TypeOK
  <2>1. CASE UNCHANGED <<state, pid, killed, asked>>
    BY <2>1
  <2>2. ASSUME NEW p \in Slots, ForkAlloc(p) PROVE KillInv'
    BY <2>0, <2>2 DEF ForkAlloc
  <2>3. ASSUME NEW s \in Slots, FreeProc(s), UNCHANGED asked PROVE KillInv'
    BY <2>0, <2>3 DEF FreeProc
  <2>4. ASSUME NEW p \in Slots, ForkRun(p) PROVE KillInv'
    <3>1. np[p] \in Slots /\ state[np[p]] = "USED"
      BY <2>4 DEF IInv, ForkInv, ForkRun, At
    <3> QED  BY <2>0, <2>4, <3>1 DEF ForkRun, history
  <2>5. ASSUME NEW p \in Slots, ExitZombie(p) PROVE KillInv'
    <3>1. state[p] = "RUNNABLE"
      BY <2>0, <2>5 DEF IInv, StateInv, ExitZombie, At
    <3> QED  BY <2>0, <2>5, <3>1 DEF ExitZombie, history
  <2>6. ASSUME NEW p \in Slots, NEW s \in Slots, Kill(p, s) PROVE KillInv'
    BY <2>0, <2>6 DEF Kill
  <2>7. ASSUME NEW p \in Slots, Kernel(p) PROVE KillInv'
    <3>1. CASE WaitReap(p)
      BY <2>1, <2>3, <3>1 DEF WaitReap, fields, Zombies, Children
    <3>2. CASE ForkParent(p) \/ ExitReparent(p) \/ ExitSwitch(p) \/ WaitAcquire(p)
               \/ WaitNone(p) \/ WaitSleep(p)
      BY <2>1, <3>2 DEF ForkParent, ExitReparent, ExitSwitch, WaitAcquire, WaitNone,
         WaitSleep, fields, history
    <3> QED  BY <2>4, <2>5, <2>7, <3>1, <3>2 DEF Kernel
  <2>8. ASSUME NEW p \in Slots, User(p) PROVE KillInv'
    <3>1. CASE ForkFails(p)
      BY <2>3, <3>1 DEF ForkFails
    <3>2. CASE Exit(p) \/ Wait(p) \/ Trace(p)
      BY <2>1, <3>2 DEF Exit, Wait, Trace, fields, history
    <3> QED  BY <2>2, <2>8, <3>1, <3>2 DEF User
  <2> QED  BY <2>1, <2>6, <2>7, <2>8 DEF Next, vars, fields, history
<1>3. KillInv => KilledWasAsked
  BY DEF KillInv
<1> QED  BY <1>1, <1>2, <1>3, ProcIInv, PTL DEF Spec

\* trace_mask is never inherited from the last owner of a slot: freeproc() does
\* not clear it, but kfork() always overwrites it.
THEOREM TraceInheritedHolds == Spec => []TraceInherited
<1>1. Init => TraceInherited
  BY DEF Init, TraceInherited
<1>2. IInv /\ TraceInherited /\ [Next]_vars => TraceInherited'
  <2> SUFFICES ASSUME IInv, TraceInherited, [Next]_vars PROVE TraceInherited'
    OBVIOUS
  <2> USE DEF TraceInherited
  <2>0. /\ trace_mask \in [Slots -> BOOLEAN]
        /\ state \in [Slots -> {"UNUSED", "USED", "RUNNABLE", "ZOMBIE"}]
        /\ heir \subseteq Slots
    BY DEF IInv, TypeOK
  <2>1. CASE UNCHANGED <<state, trace_mask, heir>>
    BY <2>1
  <2>2. ASSUME NEW p \in Slots, ForkAlloc(p) PROVE TraceInherited'
    <3>1. state[p] = "RUNNABLE"
      BY <2>0, <2>2 DEF IInv, StateInv, ForkAlloc, Syscall, At
    <3> QED  BY <2>0, <2>2, <3>1 DEF ForkAlloc, CopyMask
  <2>3. ASSUME NEW s \in Slots, FreeProc(s) PROVE TraceInherited'
    BY <2>0, <2>3 DEF FreeProc
  <2>4. ASSUME NEW p \in Slots, ForkRun(p) PROVE TraceInherited'
    <3>1. np[p] \in Slots /\ state[np[p]] = "USED"
      BY <2>4 DEF IInv, ForkInv, ForkRun, At
    <3> QED  BY <2>0, <2>4, <3>1 DEF ForkRun, history
  <2>5. ASSUME NEW p \in Slots, ExitZombie(p) PROVE TraceInherited'
    <3>1. state[p] = "RUNNABLE"
      BY <2>0, <2>5 DEF IInv, StateInv, ExitZombie, At
    <3> QED  BY <2>0, <2>5, <3>1 DEF ExitZombie, history
  <2>6. ASSUME NEW p \in Slots, Trace(p) PROVE TraceInherited'
    BY <2>0, <2>6 DEF Trace
  <2>7. ASSUME NEW p \in Slots, Kernel(p) PROVE TraceInherited'
    <3>1. CASE WaitReap(p)
      BY <2>1, <2>3, <3>1 DEF WaitReap, fields, Zombies, Children
    <3>2. CASE ForkParent(p) \/ ExitReparent(p) \/ ExitSwitch(p) \/ WaitAcquire(p)
               \/ WaitNone(p) \/ WaitSleep(p)
      BY <2>1, <3>2 DEF ForkParent, ExitReparent, ExitSwitch, WaitAcquire, WaitNone,
         WaitSleep, fields, history
    <3> QED  BY <2>4, <2>5, <2>7, <3>1, <3>2 DEF Kernel
  <2>8. ASSUME NEW p \in Slots, User(p) PROVE TraceInherited'
    <3>1. CASE ForkFails(p)
      BY <2>3, <3>1 DEF ForkFails
    <3>2. CASE Exit(p) \/ Wait(p)
      BY <2>1, <3>2 DEF Exit, Wait, fields, history
    <3> QED  BY <2>2, <2>6, <2>8, <3>1, <3>2 DEF User
  <2>9. ASSUME NEW p \in Slots, NEW s \in Slots, Kill(p, s) PROVE TraceInherited'
    BY <2>1, <2>9 DEF Kill
  <2> QED  BY <2>1, <2>7, <2>8, <2>9 DEF Next, vars, fields, history
<1> QED  BY <1>1, <1>2, ProcIInv, PTL DEF Spec
-----------------------------------------------------------------------------
(* Proc implements ProcessTree.                                            *)

\* Pids are never used again, and a free slot belongs to nobody.
PidInv ==
  /\ \A s \in Slots : pid[s] < nextpid /\ (state[s] = "UNUSED" => parent[s] = None)
  /\ \A s, t \in Slots : pid[s] # 0 /\ pid[s] = pid[t] => s = t
  /\ pid[InitProc] = 1 /\ parent[InitProc] = None

\* A process that is somebody's parent has not passed reparent() in kexit(), and
\* kfork() makes the caller the parent before the child can run.
ParentInv ==
  /\ \A s \in Slots : parent[s] # None =>
       state[parent[s]] = "RUNNABLE" /\ pc[parent[s]] # "zombify"
  /\ \A p \in Slots : pc[p] = "fork_run" => parent[np[p]] = p

TreeInv == PidInv /\ ParentInv

\* The status and the parent of the process in slot s, and of a pid that no
\* process has.
SlotStatus(s) == IF state[s] = "ZOMBIE" \/ pc[s] = "zombify" THEN "zombie" ELSE "alive"
SlotParent(s) == IF parent[s] # None THEN pid[parent[s]] ELSE 0
Exists(s) == state[s] \notin {"UNUSED", "USED"}

\* What the refinement mapping gives for each pid.
Mapping ==
  /\ \A s \in Slots : Exists(s) => /\ pid[s] \in 1..MaxPid
                                   /\ Status[pid[s]] = SlotStatus(s)
                                   /\ ParentPid[pid[s]] = SlotParent(s)
  /\ \A k \in 1..MaxPid : (\A s \in Slots : Exists(s) => pid[s] # k) =>
       /\ Status[k] = IF k >= nextpid \/ \E s \in Slots : pid[s] = k THEN "new" ELSE "gone"
       /\ ParentPid[k] = 0

LEMMA MappingHolds == IInv /\ TreeInv => Mapping
<1> SUFFICES ASSUME IInv, TreeInv PROVE Mapping
  OBVIOUS
<1>1. /\ pid \in [Slots -> 0..MaxPid] /\ \A s \in Slots : pid[s] = 0 <=> state[s] = "UNUSED"
      /\ MaxPid \in Nat
  BY ProcAssumption DEF IInv, TypeOK
<1>2. ASSUME NEW s \in Slots, Exists(s)
      PROVE  /\ pid[s] \in 1..MaxPid
             /\ Status[pid[s]] = SlotStatus(s)
             /\ ParentPid[pid[s]] = SlotParent(s)
  <2>1. pid[s] \in 1..MaxPid
    BY <1>1, <1>2 DEF Exists
  <2>2. SlotOf(pid[s]) = {s}
    BY <1>2, <2>1 DEF SlotOf, Exists, TreeInv, PidInv
  <2>3. Status[pid[s]] = SlotStatus(s)
    BY <2>1, <2>2 DEF Status, SlotStatus
  <2>4. (CHOOSE t \in {s} : TRUE) = s
    OBVIOUS
  <2>5. ParentPid[pid[s]] = SlotParent(s)
    BY <2>1, <2>2, <2>4 DEF ParentPid, SlotParent
  <2> QED  BY <2>1, <2>3, <2>5
<1>3. ASSUME NEW k \in 1..MaxPid, \A s \in Slots : Exists(s) => pid[s] # k
      PROVE  /\ Status[k] = IF k >= nextpid \/ \E s \in Slots : pid[s] = k THEN "new" ELSE "gone"
             /\ ParentPid[k] = 0
  <2>1. SlotOf(k) = {}
    BY <1>1, <1>3 DEF SlotOf, Exists
  <2> QED  BY <2>1 DEF Status, ParentPid
<1> QED  BY <1>2, <1>3 DEF Mapping

LEMMA MappingHoldsAfter == IInv' /\ TreeInv' => Mapping'
  BY MappingHolds, PTL

\* A step that leaves alone the parents of the processes in the table, and their
\* pids, does not change the tree.
LEMMA SameParents ==
  ASSUME TreeInv, \A k \in 1..MaxPid : SlotOf(k)' = SlotOf(k),
         \A k \in 1..MaxPid : \A s \in SlotOf(k) :
           parent'[s] = parent[s] /\ (parent[s] # None => pid'[parent[s]] = pid[parent[s]])
  PROVE  ParentPid' = ParentPid
<1> SUFFICES ASSUME NEW k \in 1..MaxPid
             PROVE  (IF \E s \in SlotOf(k)' : parent'[s] # None
                     THEN pid'[parent'[CHOOSE s \in SlotOf(k)' : TRUE]] ELSE 0)
                  = (IF \E s \in SlotOf(k) : parent[s] # None
                     THEN pid[parent[CHOOSE s \in SlotOf(k) : TRUE]] ELSE 0)
  BY DEF ParentPid
<1> DEFINE Z == SlotOf(k)
           c(S) == CHOOSE s \in S : TRUE
<1>1. /\ SlotOf(k)' = Z
      /\ \A s \in Z : parent'[s] = parent[s] /\ (parent[s] # None => pid'[parent[s]] = pid[parent[s]])
  OBVIOUS
<1>2. Z # {} => c(Z) \in Z
  OBVIOUS
<1>3. Z # {} => \A s \in Z : s = c(Z)
  BY <1>2 DEF SlotOf, TreeInv, PidInv
<1> HIDE DEF Z
<1>4. (\E s \in Z : parent'[s] # None) <=> (\E s \in Z : parent[s] # None)
  BY <1>1
<1>5. (\E s \in Z : parent[s] # None) => pid'[parent'[c(Z)]] = pid[parent[c(Z)]]
  BY <1>1, <1>2, <1>3
<1> HIDE DEF c
<1>6. (IF \E s \in Z : parent'[s] # None THEN pid'[parent'[c(Z)]] ELSE 0)
    = (IF \E s \in Z : parent[s] # None THEN pid[parent[c(Z)]] ELSE 0)
  BY <1>4, <1>5
<1> QED  BY <1>1, <1>6 DEF Z, c

\* A step that changes nothing of what the processes in the table are is not seen.
LEMMA SameTree ==
  ASSUME IInv, TreeInv, pid' = pid, nextpid' = nextpid,
         \A s \in Slots : /\ (state'[s] = "USED" <=> state[s] = "USED")
                          /\ SlotStatus(s)' = SlotStatus(s)
                          /\ state[s] # "USED" => parent'[s] = parent[s]
  PROVE  UNCHANGED PT!vars
<1>1. \A k \in 1..MaxPid : SlotOf(k)' = SlotOf(k)
  BY DEF SlotOf
<1>2. \A s \in Slots : (state'[s] = "ZOMBIE" \/ pc'[s] = "zombify") <=> (state[s] = "ZOMBIE" \/ pc[s] = "zombify")
  BY DEF SlotStatus
<1>3. \A k \in 1..MaxPid : \A s \in SlotOf(k) : s \in Slots /\ parent'[s] = parent[s]
  BY DEF SlotOf
<1>4. Status' = Status
  BY <1>1, <1>2, <1>3 DEF Status
<1>5. ParentPid' = ParentPid
  BY <1>1, <1>3, SameParents
<1> QED  BY <1>4, <1>5 DEF PT!vars

\* userinit(): init has pid 1 and no parent.
LEMMA InitTree == Init => TreeInv
<1> SUFFICES ASSUME Init PROVE TreeInv
  OBVIOUS
<1>1. InitProc \in Slots
  BY ProcAssumption DEF Slots, InitProc
<1>2. PidInv
  BY <1>1 DEF Init, PidInv
<1>3. ParentInv
  BY DEF Init, ParentInv
<1> QED  BY <1>2, <1>3 DEF TreeInv

\* A step that leaves pids and parents alone, and in which no parent exits, keeps
\* the tree.
LEMMA TreeFrame ==
  ASSUME IInv, TreeInv, pid' = pid, nextpid' = nextpid, parent' = parent, np' = np,
         \A s \in Slots : /\ state'[s] = state[s]
                          /\ pc'[s] = pc[s] \/ pc'[s] \notin {"zombify", "fork_run"}
  PROVE  TreeInv'
<1>1. PidInv'
  BY DEF TreeInv, PidInv
<1>2. ParentInv'
  <2>1. \A s \in Slots : parent[s] # None => parent[s] \in Slots
    BY DEF IInv, TypeOK
  <2> QED  BY <2>1 DEF TreeInv, ParentInv
<1> QED  BY <1>1, <1>2 DEF TreeInv

\* The types that the proofs below use.
LEMMA ProcTypes ==
  ASSUME IInv
  PROVE  /\ state \in [Slots -> {"UNUSED", "USED", "RUNNABLE", "ZOMBIE"}]
         /\ pid \in [Slots -> 0..MaxPid]
         /\ \A s \in Slots : pid[s] = 0 <=> state[s] = "UNUSED"
         /\ parent \in [Slots -> Slots \cup {None}] /\ np \in [Slots -> Slots \cup {None}]
         /\ pc \in [Slots -> Labels] /\ nextpid \in Nat /\ nextpid >= 1 /\ MaxPid \in Nat
         /\ None \notin Slots /\ InitProc \in Slots /\ \A s \in Slots : pid[s] \in Nat
  BY ProcAssumption DEF IInv, TypeOK, Slots, None, InitProc

\* allocproc() gives out a new pid.
LEMMA ForkAllocTree ==
  ASSUME IInv, TreeInv, NEW p \in Slots, ForkAlloc(p)
  PROVE  TreeInv' /\ UNCHANGED PT!vars
<1>1. PICK c \in Slots :
        /\ state[c] = "UNUSED" /\ state' = [state EXCEPT ![c] = "USED"]
        /\ pid' = [pid EXCEPT ![c] = nextpid] /\ np' = [np EXCEPT ![p] = c]
  BY DEF ForkAlloc
<1>2. /\ nextpid' = nextpid + 1 /\ pc' = [pc EXCEPT ![p] = "fork_parent"] /\ parent' = parent
      /\ nextpid <= MaxPid /\ pc[p] = "user"
  BY DEF ForkAlloc, Goto, Syscall, At
<1>3. c # InitProc /\ c # p /\ \A s \in Slots : parent[s] # c
  BY <1>1, <1>2, ProcTypes DEF IInv, InitInv, StateInv, TreeInv, ParentInv
<1>4. PidInv'
  BY <1>1, <1>2, <1>3, ProcTypes DEF TreeInv, PidInv
<1>5. ParentInv'
  <2>1. ASSUME NEW s \in Slots, parent[s] # None
        PROVE  state'[parent[s]] = "RUNNABLE" /\ pc'[parent[s]] # "zombify"
    BY <1>1, <1>2, <1>3, <2>1, ProcTypes DEF TreeInv, ParentInv
  <2>2. ASSUME NEW q \in Slots, pc'[q] = "fork_run" PROVE parent[np'[q]] = q
    BY <1>1, <1>2, <2>2, ProcTypes DEF TreeInv, ParentInv
  <2> QED  BY <1>2, <2>1, <2>2 DEF ParentInv
<1>6. \A k \in 1..MaxPid : SlotOf(k)' = SlotOf(k)
  BY <1>1, ProcTypes DEF SlotOf
<1>7. \A k \in 1..MaxPid : (k >= nextpid \/ \E s \in Slots : pid[s] = k)
                       <=> (k >= nextpid' \/ \E s \in Slots : pid'[s] = k)
  BY <1>1, <1>2, ProcTypes
<1>8. \A k \in 1..MaxPid : \A s \in SlotOf(k) :
        (state'[s] = "ZOMBIE" \/ pc'[s] = "zombify") <=> (state[s] = "ZOMBIE" \/ pc[s] = "zombify")
  BY <1>1, <1>2, ProcTypes DEF SlotOf
<1>9. Status' = Status
  BY <1>6, <1>7, <1>8 DEF Status
<1>10. ParentPid' = ParentPid
  <2>1. \A k \in 1..MaxPid : \A s \in SlotOf(k) : parent[s] # None => pid'[parent[s]] = pid[parent[s]]
    BY <1>1, <1>3, ProcTypes DEF SlotOf
  <2> QED  BY <1>2, <1>6, <2>1, SameParents
<1> QED  BY <1>4, <1>5, <1>9, <1>10 DEF TreeInv, PT!vars

\* A fork without memory uses up a pid.
LEMMA ForkFailsTree ==
  ASSUME IInv, IInv', TreeInv, NEW p \in Slots, ForkFails(p)
  PROVE  TreeInv' /\ \E k \in 1..MaxPid : PT!FailedFork(k)
<1>1. PICK c \in Slots : state[c] = "UNUSED" /\ FreeProc(c)
  BY DEF ForkFails
<1>2. parent[c] = None /\ pid[c] = 0
  BY <1>1, ProcTypes DEF TreeInv, PidInv
<1>3. state' = state /\ pid' = pid /\ parent' = parent
  BY <1>1, <1>2, ProcTypes DEF FreeProc
<1>4. nextpid' = nextpid + 1 /\ pc' = pc /\ np' = np /\ nextpid \in 1..MaxPid
  BY ProcTypes DEF ForkFails
<1>5. TreeInv'
  BY <1>3, <1>4, ProcTypes DEF TreeInv, PidInv, ParentInv
<1> DEFINE k == nextpid
<1>6. \A j \in 1..MaxPid : SlotOf(j)' = SlotOf(j)
  BY <1>3 DEF SlotOf
<1>7. \A s \in Slots : pid[s] # k
  BY ProcTypes DEF TreeInv, PidInv
<1>8. Status = [j \in 1..MaxPid |-> Status[j]] /\ Status' = [j \in 1..MaxPid |-> Status'[j]]
  BY DEF Status
<1>9. \A j \in 1..MaxPid : j # k => Status'[j] = Status[j]
  <2> SUFFICES ASSUME NEW j \in 1..MaxPid, j # k PROVE Status'[j] = Status[j]
    OBVIOUS
  <2>1. j >= nextpid' <=> j >= nextpid
    BY <1>4
  <2> QED  BY <1>3, <1>4, <1>6, <2>1 DEF Status
<1>10. SlotOf(k) = {}
  BY <1>7 DEF SlotOf
<1>11. Status[k] = "new" /\ Status'[k] = "gone"
  BY <1>3, <1>4, <1>6, <1>7, <1>10 DEF Status
<1>12. Status' = [Status EXCEPT ![k] = "gone"]
  BY <1>4, <1>8, <1>9, <1>11
<1>13. ParentPid' = ParentPid
  BY <1>3, <1>6, SameParents
<1>14. PT!FailedFork(k)
  BY <1>11, <1>12, <1>13 DEF PT!FailedFork
<1> QED  BY <1>4, <1>5, <1>14
\* kfork() sets the parent of a child that does not exist yet for others.
LEMMA ForkParentTree ==
  ASSUME IInv, TreeInv, NEW p \in Slots, ForkParent(p)
  PROVE  TreeInv' /\ UNCHANGED PT!vars
<1> DEFINE c == np[p]
<1>1. /\ pc[p] = "fork_parent" /\ c \in Slots /\ state[c] = "USED" /\ state[p] = "RUNNABLE"
      /\ \A q \in Slots \ {p} : pc[q] = "fork_run" => np[q] # c
  BY ProcTypes DEF ForkParent, At, IInv, ForkInv, StateInv
<1>2. /\ parent' = [parent EXCEPT ![c] = p] /\ pc' = [pc EXCEPT ![p] = "fork_run"]
      /\ UNCHANGED <<state, pid, nextpid, np>>
  BY DEF ForkParent, Goto
<1>3. c # InitProc
  BY <1>1 DEF IInv, InitInv
<1> HIDE DEF c
<1>4. PidInv'
  BY <1>1, <1>2, <1>3, ProcTypes DEF TreeInv, PidInv
<1>5. ParentInv'
  <2>1. ASSUME NEW s \in Slots, parent'[s] # None
        PROVE  state'[parent'[s]] = "RUNNABLE" /\ pc'[parent'[s]] # "zombify"
    BY <1>1, <1>2, <2>1, ProcTypes DEF TreeInv, ParentInv
  <2>2. ASSUME NEW q \in Slots, pc'[q] = "fork_run" PROVE parent'[np'[q]] = q
    <3>1. CASE q = p
      BY <1>1, <1>2, <3>1, ProcTypes DEF c
    <3>2. CASE q # p
      BY <1>1, <1>2, <2>2, <3>2, ProcTypes DEF TreeInv, ParentInv
    <3> QED  BY <3>1, <3>2
  <2> QED  BY <2>1, <2>2 DEF ParentInv
<1>6. UNCHANGED PT!vars
  <2>1. \A s \in Slots : /\ (state'[s] = "USED" <=> state[s] = "USED")
                         /\ SlotStatus(s)' = SlotStatus(s)
                         /\ state[s] # "USED" => parent'[s] = parent[s]
    BY <1>1, <1>2, ProcTypes DEF SlotStatus
  <2> QED  BY <1>2, <2>1, SameTree
<1> QED  BY <1>4, <1>5, <1>6 DEF TreeInv

\* Two functions of the pids that the mapping gives agree if they agree on each.
LEMMA MappingFunctions ==
  /\ Status = [k \in 1..MaxPid |-> Status[k]] /\ ParentPid = [k \in 1..MaxPid |-> ParentPid[k]]
  /\ Status' = [k \in 1..MaxPid |-> Status'[k]]
  /\ ParentPid' = [k \in 1..MaxPid |-> ParentPid'[k]]
  BY DEF Status, ParentPid

\* The mapping gives the same for a pid whose process has not changed.
LEMMA SamePid ==
  ASSUME Mapping, Mapping', nextpid' = nextpid, NEW i \in 1..MaxPid,
         \A s \in Slots : pid'[s] = i <=> pid[s] = i,
         \A s \in Slots : pid[s] = i => (Exists(s)' <=> Exists(s)) /\ SlotStatus(s)' = SlotStatus(s)
  PROVE  /\ Status'[i] = Status[i]
         /\ (\A s \in Slots : pid[s] = i => SlotParent(s)' = SlotParent(s)) =>
              ParentPid'[i] = ParentPid[i]
<1>1. CASE \E s \in Slots : Exists(s) /\ pid[s] = i
  <2>1. PICK s \in Slots : Exists(s) /\ pid[s] = i
    BY <1>1
  <2>2. Exists(s)' /\ pid'[s] = i
    BY <2>1
  <2> QED  BY <2>1, <2>2 DEF Mapping
<1>2. CASE ~\E s \in Slots : Exists(s) /\ pid[s] = i
  <2>1. \A s \in Slots : (Exists(s) => pid[s] # i) /\ (Exists(s)' => pid'[s] # i)
    BY <1>2
  <2> QED  BY <2>1 DEF Mapping
<1> QED  BY <1>1, <1>2

\* kfork() lets the child run: it is a fork for everybody.
LEMMA ForkRunTree ==
  ASSUME IInv, IInv', TreeInv, NEW p \in Slots, ForkRun(p)
  PROVE  TreeInv' /\ \E k, j \in 1..MaxPid : PT!Fork(k, j)
<1>0. PICK c \in Slots : c = np[p]
  BY DEF ForkRun, At, IInv, ForkInv
<1>1. /\ pc[p] = "fork_run" /\ state[c] = "USED" /\ state[p] = "RUNNABLE"
      /\ pc[c] = "none" /\ parent[c] = p
  BY <1>0, ProcTypes DEF ForkRun, At, IInv, ForkInv, StateInv, TreeInv, ParentInv
<1>2. /\ state' = [state EXCEPT ![c] = "RUNNABLE"] /\ pc' = [pc EXCEPT ![p] = "user", ![c] = "user"]
      /\ np' = [np EXCEPT ![p] = None]
      /\ UNCHANGED <<pid, parent, nextpid>>
  BY <1>0 DEF ForkRun
<1>3. PidInv'
  BY <1>1, <1>2, ProcTypes DEF TreeInv, PidInv
<1>4. ParentInv'
  <2>1. ASSUME NEW s \in Slots, parent'[s] # None
        PROVE  state'[parent'[s]] = "RUNNABLE" /\ pc'[parent'[s]] # "zombify"
    BY <1>1, <1>2, <2>1, ProcTypes DEF TreeInv, ParentInv
  <2>2. ASSUME NEW q \in Slots, pc'[q] = "fork_run" PROVE parent'[np'[q]] = q
    BY <1>1, <1>2, <2>2, ProcTypes DEF TreeInv, ParentInv
  <2> QED  BY <2>1, <2>2 DEF ParentInv
<1>5. TreeInv'
  BY <1>3, <1>4 DEF TreeInv
<1>6. Mapping /\ Mapping'
  BY <1>5, MappingHolds, MappingHoldsAfter
<1> DEFINE k == pid[p]
           j == pid[c]
<1>7. /\ k \in 1..MaxPid /\ j \in 1..MaxPid /\ \A s \in Slots : pid[s] = j => s = c
  BY <1>1, ProcTypes DEF TreeInv, PidInv
<1>8. Status[k] = "alive"
  BY <1>1, <1>6 DEF Mapping, Exists, SlotStatus
<1>9. Status[j] = "new" /\ Status'[j] = "alive" /\ ParentPid'[j] = k
  <2>1. Status[j] = "new"
    BY <1>1, <1>6, <1>7 DEF Mapping, Exists
  <2>2. Exists(c)' /\ SlotStatus(c)' = "alive" /\ SlotParent(c)' = k
    BY <1>1, <1>2, ProcTypes DEF Exists, SlotStatus, SlotParent
  <2>3. pid'[c] = j
    BY <1>2
  <2> QED  BY <1>1, <1>6, <2>1, <2>2, <2>3 DEF Mapping
<1>10. \A i \in 1..MaxPid : i # j => Status'[i] = Status[i] /\ ParentPid'[i] = ParentPid[i]
  <2> SUFFICES ASSUME NEW i \in 1..MaxPid, i # j
               PROVE  Status'[i] = Status[i] /\ ParentPid'[i] = ParentPid[i]
    OBVIOUS
  <2>1. \A s \in Slots : pid[s] = i => /\ s # c /\ (Exists(s)' <=> Exists(s))
                                       /\ SlotStatus(s)' = SlotStatus(s)
                                       /\ SlotParent(s)' = SlotParent(s)
    BY <1>1, <1>2, ProcTypes DEF Exists, SlotStatus, SlotParent
  <2> QED  BY <1>2, <1>6, <2>1, SamePid
<1> HIDE DEF k, j
<1>11. Status' = [Status EXCEPT ![j] = "alive"] /\ ParentPid' = [ParentPid EXCEPT ![j] = k]
  BY <1>7, <1>9, <1>10, MappingFunctions
<1>12. PT!Fork(k, j)
  BY <1>8, <1>9, <1>11 DEF PT!Fork
<1> QED  BY <1>5, <1>7, <1>12
\* kwait() frees a child: it is a reap for everybody.
LEMMA ReapTree ==
  ASSUME IInv, IInv', TreeInv, NEW p \in Slots, NEW c \in Slots, pc[p] = "scan",
         state[c] = "ZOMBIE", parent[c] = p, FreeProc(c), Goto(p, "user"), UNCHANGED <<nextpid, np>>
  PROVE  TreeInv' /\ \E k, j \in 1..MaxPid : PT!Reap(k, j)
<1>1. /\ state' = [state EXCEPT ![c] = "UNUSED"] /\ pid' = [pid EXCEPT ![c] = 0]
      /\ parent' = [parent EXCEPT ![c] = None] /\ pc' = [pc EXCEPT ![p] = "user"]
  BY DEF FreeProc, Goto
<1>2. /\ state[p] = "RUNNABLE" /\ c # p /\ c # InitProc /\ \A s \in Slots : parent[s] # c
      /\ \A s \in Slots : pc[s] = "fork_run" => np[s] # c
  BY ProcTypes DEF IInv, InitInv, StateInv, ForkInv, TreeInv, ParentInv
<1>3. PidInv'
  BY <1>1, <1>2, ProcTypes DEF TreeInv, PidInv
<1>4. ParentInv'
  <2>1. ASSUME NEW s \in Slots, parent'[s] # None
        PROVE  state'[parent'[s]] = "RUNNABLE" /\ pc'[parent'[s]] # "zombify"
    BY <1>1, <1>2, <2>1, ProcTypes DEF TreeInv, ParentInv
  <2>2. ASSUME NEW q \in Slots, pc'[q] = "fork_run" PROVE parent'[np'[q]] = q
    <3>1. pc[q] = "fork_run" /\ np[q] \in Slots \ {c}
      BY <1>1, <1>2, <2>2, ProcTypes DEF IInv, ForkInv
    <3> QED  BY <1>1, <3>1, ProcTypes DEF TreeInv, ParentInv
  <2> QED  BY <2>1, <2>2 DEF ParentInv
<1>5. TreeInv'
  BY <1>3, <1>4 DEF TreeInv
<1>6. Mapping /\ Mapping'
  BY <1>5, MappingHolds, MappingHoldsAfter
<1>7. PICK k \in 1..MaxPid, j \in 1..MaxPid : k = pid[p] /\ j = pid[c]
  BY <1>2, ProcTypes
<1>8. /\ \A s \in Slots : pid[s] = j => s = c
      /\ j < nextpid
  BY <1>7, ProcTypes DEF TreeInv, PidInv
<1>9. Status[k] = "alive" /\ Status[j] = "zombie" /\ ParentPid[j] = k
  <2>1. Exists(p) /\ SlotStatus(p) = "alive" /\ Exists(c) /\ SlotStatus(c) = "zombie" /\ SlotParent(c) = k
    BY <1>2, <1>7, ProcTypes DEF Exists, SlotStatus, SlotParent
  <2> QED  BY <1>6, <1>7, <2>1 DEF Mapping
<1>10. Status'[j] = "gone" /\ ParentPid'[j] = 0
  <2>1. \A s \in Slots : pid'[s] # j
    BY <1>1, <1>7, <1>8, ProcTypes
  <2>2. ~(j >= nextpid')
    BY <1>8, ProcTypes
  <2> QED  BY <1>6, <2>1, <2>2 DEF Mapping
<1>11. \A i \in 1..MaxPid : i # j => Status'[i] = Status[i] /\ ParentPid'[i] = ParentPid[i]
  <2> SUFFICES ASSUME NEW i \in 1..MaxPid, i # j
               PROVE  Status'[i] = Status[i] /\ ParentPid'[i] = ParentPid[i]
    OBVIOUS
  <2>1. \A s \in Slots : pid'[s] = i <=> pid[s] = i
    BY <1>1, <1>7, ProcTypes
  <2>2. ASSUME NEW s \in Slots, pid[s] = i
        PROVE (Exists(s)' <=> Exists(s)) /\ SlotStatus(s)' = SlotStatus(s) /\ SlotParent(s)' = SlotParent(s)
    <3>1. s # c
      BY <1>7, <2>2
    <3>2. state'[s] = state[s] /\ parent'[s] = parent[s] /\ (pc'[s] = "zombify" <=> pc[s] = "zombify")
      BY <1>1, <3>1, ProcTypes
    <3>3. parent[s] # None => pid'[parent[s]] = pid[parent[s]]
      BY <1>1, <1>2, ProcTypes
    <3> QED  BY <3>2, <3>3 DEF Exists, SlotStatus, SlotParent
  <2> QED  BY <1>6, <2>1, <2>2, SamePid
<1>12. Status' = [Status EXCEPT ![j] = "gone"] /\ ParentPid' = [ParentPid EXCEPT ![j] = 0]
  BY <1>10, <1>11, MappingFunctions
<1>13. PT!Reap(k, j)
  BY <1>9, <1>12 DEF PT!Reap
<1> QED  BY <1>5, <1>13

\* reparent() in kexit(): for everybody the process exits here, since wait_lock is
\* held until it is a ZOMBIE.
LEMMA ExitReparentTree ==
  ASSUME IInv, IInv', TreeInv, NEW p \in Slots, ExitReparent(p)
  PROVE  TreeInv' /\ \E k \in 1..MaxPid : PT!Exit(k)
<1> DEFINE f == WakeInit(pc, p)
           g == Wakeup(f, parent[p])
<1>1. /\ pc[p] = "exit" /\ UNCHANGED <<state, pid, nextpid, np>>
      /\ parent' = [s \in Slots |-> IF parent[s] = p THEN InitProc ELSE parent[s]]
      /\ pc' = [g EXCEPT ![p] = "zombify"]
  BY DEF ExitReparent, Reparent, At
<1>2. f \in [Slots -> Labels] /\ \A q \in Slots : f[q] = pc[q] \/ (pc[q] = "asleep" /\ f[q] = "wait")
  BY ProcTypes, WakeupMoves DEF WakeInit, Children
<1>3. g \in [Slots -> Labels] /\ \A q \in Slots : g[q] = f[q] \/ (f[q] = "asleep" /\ g[q] = "wait")
  BY <1>2, ProcTypes, WakeupMoves
<1> HIDE DEF f, g
<1>4. /\ pc'[p] = "zombify" /\ state[p] = "RUNNABLE" /\ p # InitProc
      /\ \A q \in Slots \ {p} : pc'[q] = pc[q] \/ (pc[q] = "asleep" /\ pc'[q] = "wait")
  BY <1>1, <1>2, <1>3, ProcTypes DEF IInv, StateInv, InitInv
<1>5. PidInv'
  BY <1>1, <1>4, ProcTypes DEF TreeInv, PidInv
<1>6. ParentInv'
  <2>1. ASSUME NEW s \in Slots, parent'[s] # None
        PROVE  state'[parent'[s]] = "RUNNABLE" /\ pc'[parent'[s]] # "zombify"
    <3>1. CASE parent[s] = p
      BY <1>1, <1>4, <3>1, ProcTypes DEF IInv, InitInv
    <3>2. CASE parent[s] # p
      BY <1>1, <1>4, <2>1, <3>2, ProcTypes DEF TreeInv, ParentInv
    <3> QED  BY <3>1, <3>2
  <2>2. ASSUME NEW q \in Slots, pc'[q] = "fork_run" PROVE parent'[np'[q]] = q
    <3>1. q # p /\ pc[q] = "fork_run" /\ np[q] \in Slots /\ parent[np[q]] = q
      BY <1>1, <1>4, <2>2, ProcTypes DEF IInv, ForkInv, TreeInv, ParentInv
    <3> QED  BY <1>1, <3>1
  <2> QED  BY <2>1, <2>2 DEF ParentInv
<1>7. TreeInv'
  BY <1>5, <1>6 DEF TreeInv
<1>8. Mapping /\ Mapping'
  BY <1>7, MappingHolds, MappingHoldsAfter
<1>9. PICK k \in 1..MaxPid : k = pid[p]
  BY <1>4, ProcTypes
<1>10. k # 1 /\ pid[InitProc] = 1 /\ \A s \in Slots : pid[s] = k => s = p
  BY <1>4, <1>9, ProcTypes DEF TreeInv, PidInv
<1>11. Status[k] = "alive" /\ Status'[k] = "zombie"
  <2>1. Exists(p) /\ SlotStatus(p) = "alive" /\ Exists(p)' /\ SlotStatus(p)' = "zombie" /\ pid'[p] = k
    BY <1>1, <1>4, <1>9 DEF Exists, SlotStatus
  <2> QED  BY <1>8, <1>9, <2>1 DEF Mapping
<1>12. \A i \in 1..MaxPid : i # k => Status'[i] = Status[i]
  <2> SUFFICES ASSUME NEW i \in 1..MaxPid, i # k PROVE Status'[i] = Status[i]
    OBVIOUS
  <2>1. \A s \in Slots : pid[s] = i => (Exists(s)' <=> Exists(s)) /\ SlotStatus(s)' = SlotStatus(s)
    BY <1>1, <1>4, <1>9 DEF Exists, SlotStatus
  <2> QED  BY <1>1, <1>8, <2>1, SamePid
<1>13. \A i \in 1..MaxPid : ParentPid'[i] = IF ParentPid[i] = k THEN 1 ELSE ParentPid[i]
  <2> SUFFICES ASSUME NEW i \in 1..MaxPid
               PROVE  ParentPid'[i] = IF ParentPid[i] = k THEN 1 ELSE ParentPid[i]
    OBVIOUS
  <2>1. ASSUME NEW s \in Slots PROVE SlotParent(s)' = IF SlotParent(s) = k THEN 1 ELSE SlotParent(s)
    <3>1. CASE parent[s] = p
      BY <1>1, <1>9, <1>10, <3>1, ProcTypes DEF SlotParent
    <3>2. CASE parent[s] # p
      BY <1>1, <1>9, <1>10, <3>2, ProcTypes DEF SlotParent
    <3> QED  BY <3>1, <3>2
  <2>2. CASE \E s \in Slots : Exists(s) /\ pid[s] = i
    <3>1. PICK s \in Slots : Exists(s) /\ pid[s] = i
      BY <2>2
    <3>2. Exists(s)' /\ pid'[s] = i
      BY <1>1, <3>1 DEF Exists
    <3> QED  BY <1>8, <2>1, <3>1, <3>2 DEF Mapping
  <2>3. CASE ~\E s \in Slots : Exists(s) /\ pid[s] = i
    <3>1. \A s \in Slots : (Exists(s) => pid[s] # i) /\ (Exists(s)' => pid'[s] # i)
      BY <1>1, <2>3 DEF Exists
    <3>2. ParentPid[i] = 0 /\ ParentPid'[i] = 0
      BY <1>8, <3>1 DEF Mapping
    <3> QED  BY <3>2
  <2> QED  BY <2>2, <2>3
<1>14. /\ Status' = [Status EXCEPT ![k] = "zombie"]
       /\ ParentPid' = [i \in 1..MaxPid |-> IF ParentPid[i] = k THEN 1 ELSE ParentPid[i]]
  BY <1>11, <1>12, <1>13, MappingFunctions
<1>15. PT!Exit(k)
  BY <1>10, <1>11, <1>14 DEF PT!Exit
<1> QED  BY <1>7, <1>15

\* The other steps do not change the tree.
LEMMA OthersTree ==
  ASSUME IInv, TreeInv, NEW p \in Slots,
         \/ Exit(p) \/ ExitZombie(p) \/ ExitSwitch(p) \/ Wait(p) \/ WaitAcquire(p)
         \/ WaitNone(p) \/ WaitSleep(p) \/ Trace(p) \/ \E s \in Slots : Kill(p, s)
         \/ (WaitReap(p) /\ UNCHANGED fields)
  PROVE  TreeInv' /\ UNCHANGED PT!vars
<1>1. UNCHANGED <<pid, nextpid, parent, np>>
  BY DEF Exit, ExitZombie, ExitSwitch, Wait, WaitAcquire, WaitNone, WaitSleep, Trace, Kill, WaitReap, fields
<1>2. CASE ExitZombie(p)
  <2>1. /\ pc[p] = "zombify" /\ state' = [state EXCEPT ![p] = "ZOMBIE"]
        /\ pc' = [pc EXCEPT ![p] = "switch"] /\ state[p] # "USED"
    BY <1>2 DEF ExitZombie, At, Goto, IInv, StateInv
  <2>2. TreeInv'
    <3>1. \A s \in Slots : parent[s] # p /\ state[s] = "UNUSED" <=> state'[s] = "UNUSED" /\ parent[s] # p
      BY <2>1, ProcTypes DEF TreeInv, ParentInv, IInv, StateInv
    <3>2. PidInv'
      BY <1>1, <2>1, <3>1, ProcTypes DEF TreeInv, PidInv
    <3>3. ParentInv'
      BY <1>1, <2>1, ProcTypes DEF TreeInv, ParentInv
    <3> QED  BY <3>2, <3>3 DEF TreeInv
  <2>3. \A s \in Slots : (state'[s] = "USED" <=> state[s] = "USED") /\ SlotStatus(s)' = SlotStatus(s)
    BY <2>1, ProcTypes DEF SlotStatus
  <2> QED  BY <1>1, <2>2, <2>3, SameTree
<1>3. CASE ~ExitZombie(p)
  <2>1. state' = state
    BY <1>3 DEF Exit, ExitSwitch, Wait, WaitAcquire, WaitNone, WaitSleep, Trace, Kill, WaitReap, fields
  <2>2. \A s \in Slots : pc'[s] = pc[s] \/ (pc[s] # "zombify" /\ pc'[s] \notin {"zombify", "fork_run"})
    <3>1. CASE \E s \in Slots : Kill(p, s)
      <4>1. PICK s \in Slots : pc' = Wakeup(pc, s)
        BY <3>1 DEF Kill
      <4>2. \A q \in Slots : pc'[q] = pc[q] \/ (pc[q] = "asleep" /\ pc'[q] = "wait")
        BY <4>1, ProcTypes, WakeupMoves
      <4> QED  BY <4>2
    <3>2. CASE ~\E s \in Slots : Kill(p, s)
      BY <1>3, <3>2, ProcTypes DEF Exit, ExitSwitch, Wait, WaitAcquire, WaitNone, WaitSleep, Trace,
         WaitReap, Syscall, At, Goto
    <3> QED  BY <3>1, <3>2
  <2>3. TreeInv'
    BY <1>1, <2>1, <2>2, TreeFrame
  <2>4. \A s \in Slots : SlotStatus(s)' = SlotStatus(s)
    BY <2>1, <2>2 DEF SlotStatus
  <2> QED  BY <1>1, <2>1, <2>3, <2>4, SameTree
<1> QED  BY <1>2, <1>3

\* Every step is a step of the tree or is not seen.
LEMMA StepTree == IInv /\ IInv' /\ TreeInv /\ [Next]_vars => TreeInv' /\ [PT!Next]_(PT!vars)
<1> SUFFICES ASSUME IInv, IInv', TreeInv, [Next]_vars PROVE TreeInv' /\ [PT!Next]_(PT!vars)
  OBVIOUS
<1>1. CASE UNCHANGED vars
  <2>1. UNCHANGED <<state, pid, parent, nextpid, pc, np>>
    BY <1>1 DEF vars, fields
  <2>2. TreeInv'
    BY <2>1, TreeFrame
  <2> QED  BY <2>1, <2>2, SameTree DEF SlotStatus
<1>2. CASE Next
  <2>1. PICK p \in Slots : Kernel(p) \/ User(p) \/ \E s \in Slots : Kill(p, s)
    BY <1>2 DEF Next
  <2>2. CASE WaitReap(p)
    <3>1. PICK c \in Slots : /\ state[c] = "ZOMBIE" /\ parent[c] = p
                             /\ FreeProc(c) \/ UNCHANGED <<fields, heir>>
      BY <2>2 DEF WaitReap, Zombies, Children
    <3>2. CASE FreeProc(c)
      BY <2>2, <3>1, <3>2, ReapTree DEF WaitReap, At, PT!Next
    <3>3. CASE UNCHANGED <<fields, heir>>
      BY <2>2, <3>3, OthersTree
    <3> QED  BY <3>1, <3>2, <3>3
  <2>3. CASE ForkAlloc(p) \/ ForkParent(p)
    BY <2>3, ForkAllocTree, ForkParentTree
  <2>4. CASE ForkFails(p)
    BY <2>4, ForkFailsTree DEF PT!Next
  <2>5. CASE ForkRun(p)
    BY <2>5, ForkRunTree DEF PT!Next
  <2>6. CASE ExitReparent(p)
    BY <2>6, ExitReparentTree DEF PT!Next
  <2> QED  BY <2>1, <2>2, <2>3, <2>4, <2>5, <2>6, OthersTree DEF Kernel, User
<1> QED  BY <1>1, <1>2

\* fork, exit with the adoption of the children, and wait are atomic for the
\* processes, however their critical sections interleave and however often pids
\* and slots are used up: Proc implements ProcessTree.
THEOREM TreeImplemented == Spec => ForkExitWait
<1>1. Init => PT!Init
  <2> SUFFICES ASSUME Init PROVE PT!Init
    OBVIOUS
  <2>1. Mapping
    BY InitHolds, InitTree, MappingHolds
  <2>2. /\ \A s \in Slots : Exists(s) <=> s = InitProc
        /\ InitProc \in Slots /\ pid[InitProc] = 1 /\ \A s \in Slots : pid[s] \in {0, 1}
        /\ parent[InitProc] = None
        /\ \A s \in Slots : pid[s] = 1 => s = InitProc
        /\ SlotStatus(InitProc) = "alive" /\ nextpid = 2 /\ MaxPid \in Nat \ {0}
    BY ProcAssumption DEF Init, Exists, SlotStatus, Slots, InitProc
  <2>3. Status[1] = "alive" /\ ParentPid[1] = 0
    BY <2>1, <2>2 DEF Mapping, SlotParent
  <2>4. \A k \in 1..MaxPid : k # 1 => Status[k] = "new" /\ ParentPid[k] = 0
    BY <2>1, <2>2 DEF Mapping
  <2> QED  BY <2>3, <2>4, MappingFunctions DEF PT!Init
<1> QED  BY <1>1, InitTree, StepTree, ProcIInv, PTL DEF Spec, ForkExitWait, PT!Spec
=============================================================================
