-------------------------------- MODULE Pipe --------------------------------
(***************************************************************************)
(* kernel/pipe.c: one pipe shared by reading and writing processes, with   *)
(* the reference counting of its two struct files (kernel/file.c) and with *)
(* kkill().                                                                *)
(*                                                                         *)
(* An action is a step of one process that another process can notice:     *)
(* taking pi->lock, copying one byte, falling asleep                       *)
(* (sleep(chan, &pi->lock) is atomic, see SleepWakeup), returning.  Kill   *)
(* takes no pi->lock and can come between any two of them, in particular   *)
(* between the test of killed() and sleep().                               *)
(***************************************************************************)
EXTENDS Integers, Sequences

CONSTANTS Readers, Writers,  \* processes with a descriptor of each end
          Killable,          \* the processes that may be killed
          Bytes,
          PIPESIZE,
          UINT,              \* nread and nwrite count modulo UINT (2^32 in C)
          MaxN,              \* bound on the n of a read or write
          NoProc

Procs == Readers \cup Writers

ASSUME PipeAssumption ==
  /\ Readers \cap Writers = {}
  /\ Killable \subseteq Procs
  /\ NoProc \notin Procs
  /\ PIPESIZE \in Nat \ {0}
  /\ UINT \in Nat /\ UINT > PIPESIZE /\ UINT % PIPESIZE = 0
  /\ MaxN \in Nat

VARIABLES
  data, nread, nwrite, readopen, writeopen,  \* struct pipe
  freed,    \* kfree((char*)pi) was called
  lock,     \* the process that holds pi->lock
  pc,       \* where each process is
  i, n,     \* the locals of its piperead() or pipewrite()
  killed,   \* p->killed
  fd        \* whether the process still has its descriptor open

pipeVars == <<data, nread, nwrite, readopen, writeopen, freed>>
vars == <<pipeVars, lock, pc, i, n, killed, fd>>

Labels == {"idle", "acquire", "loop", "copy", "sleep", "asleep", "close"}

\* Types; no call copies more than the n bytes it was asked for.
TypeOK ==
  /\ data \in [0..PIPESIZE - 1 -> Bytes]
  /\ nread \in 0..UINT - 1 /\ nwrite \in 0..UINT - 1
  /\ readopen \in BOOLEAN /\ writeopen \in BOOLEAN /\ freed \in BOOLEAN
  /\ lock \in Procs \cup {NoProc}
  /\ pc \in [Procs -> Labels]
  /\ n \in [Procs -> 0..MaxN]
  /\ i \in [Procs -> 0..MaxN] /\ \A p \in Procs : i[p] <= n[p]
  /\ killed \in [Procs -> BOOLEAN]
  /\ fd \in [Procs -> BOOLEAN]

\* pipealloc(), and a fork() that gave everyone a descriptor.  kalloc() fills
\* the page with one junk byte.
Init ==
  /\ \E b \in Bytes : data = [k \in 0..PIPESIZE - 1 |-> b]
  /\ nread = 0 /\ nwrite = 0
  /\ readopen = TRUE /\ writeopen = TRUE /\ freed = FALSE
  /\ lock = NoProc
  /\ pc = [p \in Procs |-> "idle"]
  /\ i = [p \in Procs |-> 0] /\ n = [p \in Procs |-> 0]
  /\ killed = [p \in Procs |-> FALSE]
  /\ fd = [p \in Procs |-> TRUE]

-----------------------------------------------------------------------------
\* Mutant: one byte too many fits.
Full_OffByOne == nwrite = (nread + PIPESIZE + 1) % UINT

\* nwrite == nread + PIPESIZE, on unsigned counters that wrap.
Full == nwrite = (nread + PIPESIZE) % UINT
Empty == nread = nwrite
Inc(k) == (k + 1) % UINT

At(p, l) == pc[p] = l
Goto(p, l) == pc' = [pc EXCEPT ![p] = l]

\* Release pi->lock and return; f is the control state after the wakeups.
Return(p, f) ==
  /\ lock' = NoProc
  /\ pc' = [f EXCEPT ![p] = "idle"]
  /\ i' = [i EXCEPT ![p] = 0] /\ n' = [n EXCEPT ![p] = 0]

\* wakeup(&pi->nread) and wakeup(&pi->nwrite): only readers sleep on the one
\* and only writers on the other.  f is the control state to start from.
WakeEnd(f, end) == [p \in Procs |-> IF p \in end /\ f[p] = "asleep" THEN "acquire" ELSE f[p]]

\* Mutants: the wakeup is missing.
WakeReaders_Lost(f) == f
WakeWriters_Lost(f) == f

WakeReaders(f) == WakeEnd(f, Readers)
WakeWriters(f) == WakeEnd(f, Writers)

\* A process that is not to return to user space makes no further call.
Call(p) ==
  /\ At(p, "idle") /\ fd[p] /\ ~killed[p]
  /\ \E k \in 0..MaxN : n' = [n EXCEPT ![p] = k]
  /\ Goto(p, "acquire")
  /\ UNCHANGED <<pipeVars, lock, i, killed, fd>>

\* acquire(&pi->lock), on entry and at the end of sleep().
Acquire(p) ==
  /\ At(p, "acquire")
  /\ lock = NoProc
  /\ lock' = p
  /\ Goto(p, "loop")
  /\ UNCHANGED <<pipeVars, i, n, killed, fd>>

\* sleep(chan, &pi->lock); a writer wakes the readers before.
Sleep(p) ==
  /\ At(p, "sleep")
  /\ lock' = NoProc
  /\ pc' = [(IF p \in Writers THEN WakeReaders(pc) ELSE pc) EXCEPT ![p] = "asleep"]
  /\ UNCHANGED <<pipeVars, i, n, killed, fd>>

-----------------------------------------------------------------------------
(* pipewrite()                                                             *)

\* The loop ends: all is written, or the error return.
WriteReturn(p) ==
  /\ p \in Writers /\ At(p, "loop")
  /\ \/ i[p] = n[p] /\ Return(p, WakeReaders(pc))
     \/ i[p] < n[p] /\ (~readopen \/ killed[p]) /\ Return(p, pc)
  /\ UNCHANGED <<pipeVars, killed, fd>>

\* A round of the loop: wait because the pipe is full, store a byte, or break
\* because copyin() failed.
WriteLoop(p) ==
  /\ p \in Writers /\ At(p, "loop")
  /\ i[p] < n[p] /\ readopen /\ ~killed[p]
  /\ \/ /\ Full
        /\ Goto(p, "sleep")
        /\ UNCHANGED <<data, nwrite, lock, i, n>>
     \/ /\ ~Full
        /\ \E b \in Bytes : data' = [data EXCEPT ![nwrite % PIPESIZE] = b]
        /\ nwrite' = Inc(nwrite)
        /\ i' = [i EXCEPT ![p] = @ + 1]
        /\ UNCHANGED <<lock, pc, n>>
     \/ /\ ~Full
        /\ Return(p, WakeReaders(pc))
        /\ UNCHANGED <<data, nwrite>>
  /\ UNCHANGED <<nread, readopen, writeopen, freed, killed, fd>>

-----------------------------------------------------------------------------
(* piperead()                                                              *)

\* The first loop: wait while the pipe is empty and can still be written.
ReadLoop(p) ==
  /\ p \in Readers /\ At(p, "loop")
  /\ \/ /\ Empty /\ writeopen
        /\ killed[p]
        /\ Return(p, pc)
     \/ /\ Empty /\ writeopen
        /\ ~killed[p]
        /\ Goto(p, "sleep")
        /\ UNCHANGED <<lock, i, n>>
     \/ /\ ~(Empty /\ writeopen)
        /\ Goto(p, "copy")
        /\ UNCHANGED <<lock, i, n>>
  /\ UNCHANGED <<pipeVars, killed, fd>>

\* The second loop: take a byte and copy it out, lose it because copyout()
\* failed, or return.
ReadCopy(p) ==
  /\ p \in Readers /\ At(p, "copy")
  /\ \/ /\ i[p] < n[p] /\ ~Empty
        /\ nread' = Inc(nread)
        /\ i' = [i EXCEPT ![p] = @ + 1]
        /\ UNCHANGED <<lock, pc, n>>
     \/ /\ i[p] < n[p] /\ ~Empty
        /\ nread' = Inc(nread)
        /\ Return(p, WakeWriters(pc))
     \/ /\ i[p] = n[p] \/ Empty
        /\ Return(p, WakeWriters(pc))
        /\ UNCHANGED nread
  /\ UNCHANGED <<data, nwrite, readopen, writeopen, freed, killed, fd>>

-----------------------------------------------------------------------------
(* fileclose(), pipeclose() and kkill().                                   *)

\* Mutant: the first close already closes the end.
OthersOpen_Never(p) == FALSE

\* f->ref stays above 0: another process has this end open.
OthersOpen(p) == \E q \in (IF p \in Readers THEN Readers ELSE Writers) \ {p} : fd[q]

\* fileclose(): drop a reference; the last one calls pipeclose().
Close(p) ==
  /\ At(p, "idle") /\ fd[p]
  /\ fd' = [fd EXCEPT ![p] = FALSE]
  /\ Goto(p, IF OthersOpen(p) THEN "idle" ELSE "close")
  /\ UNCHANGED <<pipeVars, lock, i, n, killed>>

\* pipeclose()
PipeClose(p) ==
  /\ At(p, "close")
  /\ lock = NoProc
  /\ \/ /\ p \in Writers
        /\ writeopen' = FALSE
        /\ pc' = WakeReaders([pc EXCEPT ![p] = "idle"])
        /\ UNCHANGED readopen
     \/ /\ p \in Readers
        /\ readopen' = FALSE
        /\ pc' = WakeWriters([pc EXCEPT ![p] = "idle"])
        /\ UNCHANGED writeopen
  /\ freed' = (~readopen' /\ ~writeopen')
  /\ UNCHANGED <<data, nread, nwrite, lock, i, n, killed, fd>>

\* kkill() of p.
Kill(p) ==
  /\ p \in Killable
  /\ killed' = [killed EXCEPT ![p] = TRUE]
  /\ pc' = [pc EXCEPT ![p] = IF @ = "asleep" THEN "acquire" ELSE @]
  /\ UNCHANGED <<pipeVars, lock, i, n, fd>>

-----------------------------------------------------------------------------
Run(p) == \/ Acquire(p) \/ Sleep(p) \/ WriteReturn(p) \/ WriteLoop(p)
          \/ ReadLoop(p) \/ ReadCopy(p) \/ PipeClose(p)

Next == \E p \in Procs : Call(p) \/ Run(p) \/ Close(p) \/ Kill(p)

Spec == Init /\ [][Next]_vars

\* Processes inside the pipe code make progress and get the spinlock if it is
\* free again and again.  A killed process exits, which closes its files.  A
\* reader goes on reading, and not always zero bytes, as long as it has the
\* descriptor open.
Fairness ==
  \A p \in Procs : /\ SF_vars(Run(p))
                   /\ WF_vars(killed[p] /\ Close(p))
                   /\ p \in Readers => SF_vars(Call(p) /\ n'[p] > 0)

FairSpec == Spec /\ Fairness

-----------------------------------------------------------------------------
(* Properties.                                                             *)

\* The bytes in the pipe, oldest first.
Queue == [k \in 1..(nwrite - nread) % UINT |-> data[(nread + k - 1) % PIPESIZE]]

\* The ring buffer and its wrapping counters implement a bounded FIFO.
\* Several writers and readers, sleeps in the middle of a write and the wrap
\* of nread and nwrite neither lose, duplicate nor reorder a byte (a byte
\* whose copyout fails is consumed, as the code has it).
FIFO == INSTANCE Stream WITH queue <- Queue
PipeIsFifo == FIFO!Spec

\* pi->lock protects the pipe: at most one process is inside.
Inside == {p \in Procs : pc[p] \in {"loop", "copy", "sleep"}}

\* A reader sleeps only while the pipe is empty and can be written
\* (pipe.c:113, "pipe-empty"), while the writer that stores bytes has yet to
\* call wakeup(&pi->nread), or when a writer was killed half way: the error
\* return of pipewrite() (pipe.c:84-86) wakes nobody.
ReaderMissesOnlyKilled ==
  \A p \in Readers : pc[p] = "asleep" =>
    \/ Empty /\ writeopen
    \/ \E q \in Writers : q \in Inside \/ killed[q]

\* kfree(pi) comes after the last use of the pipe: no process is inside the
\* pipe, on its way in or asleep on it once it is freed (pipe.c:69-71).
FreedUnused == freed => \A p \in Procs : pc[p] = "idle" /\ ~fd[p]

\* A write returns when the readers keep reading or go away and the other
\* writers leave the space to it.
WriteReturns ==
  \A p \in Writers :
    <>[](\A q \in Writers \ {p} : pc[q] = "idle")
      => (pc[p] = "acquire" ~> pc[p] = "idle")
=============================================================================
