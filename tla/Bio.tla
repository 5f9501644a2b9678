-------------------------------- MODULE Bio --------------------------------
(***************************************************************************)
(* kernel/bio.c: the buffer cache, on top of the disk driver (VirtioDisk). *)
(*                                                                         *)
(* A step is a critical section of bcache.lock, the acquisition or release *)
(* of a buffer's sleep-lock (module SleepWakeup), or a step of the driver. *)
(* Each process runs rounds of bread(), changes to the data, bwrite(),     *)
(* bpin(), bunpin() and brelse() on one block; as in kernel/log.c a block  *)
(* is pinned once, and by a process that holds its buffer.                 *)
(***************************************************************************)
EXTENDS VirtioDisk

CONSTANTS NoData, NoProc,
          MaxPins   \* bound on the pinned blocks (LOGBLOCKS in kernel/log.c)

ASSUME BioAssumption == NoData \notin Data /\ NoProc \notin Procs /\ MaxPins \in Nat

VARIABLES
  blockno, valid, refcnt,  \* fields of struct buf
  lock,                    \* the holder of each buffer's sleep-lock
  lru,                     \* the list of buffers, most recently used first
  pc,                      \* where each process is
  mybuf,                   \* the buffer it got from bget()
  pinned                   \* the blocks with a bpin() and no bunpin() yet

bcacheVars == <<blockno, valid, refcnt, lru>>
vars == <<ioVars, panic, bcacheVars, lock, pc, mybuf, pinned>>

\* Types; reference counts do not go below 0.
TypeOK ==
  /\ DiskTypeOK
  /\ blockno \in [Bufs -> Blocks \cup {NoBlock}]
  /\ valid \in [Bufs -> BOOLEAN]
  /\ refcnt \in [Bufs -> Nat]
  /\ lock \in [Bufs -> Procs \cup {NoProc}]
  /\ lru \in [Bufs -> Bufs]
  /\ pc \in [Procs -> {"idle", "lock", "read", "hold", "write", "put"}]
  /\ mybuf \in [Procs -> 0..NBUF]
  /\ pinned \subseteq Blocks

\* binit(): each buffer goes to the front of the list.
Init ==
  /\ DiskInit
  /\ blockno = [k \in Bufs |-> NoBlock]
  /\ valid = [k \in Bufs |-> FALSE]
  /\ refcnt = [k \in Bufs |-> 0]
  /\ lock = [k \in Bufs |-> NoProc]
  /\ lru = [i \in Bufs |-> NBUF + 1 - i]
  /\ pc = [p \in Procs |-> "idle"]
  /\ mybuf = [p \in Procs |-> NoBuf]
  /\ pinned = {}

-----------------------------------------------------------------------------
Cached(b) == \E k \in Bufs : blockno[k] = b

\* The buffer bget() recycles: the last of the list with refcnt 0.
IsVictim(k) ==
  \E i \in Bufs :
    /\ lru[i] = k /\ refcnt[k] = 0
    /\ \A j \in Bufs : j > i => refcnt[lru[j]] # 0

\* bget() up to acquiresleep(): the block is cached ...
BgetHit(p, b) ==
  /\ pc[p] = "idle"
  /\ \E k \in Bufs :
       /\ blockno[k] = b
       /\ refcnt' = [refcnt EXCEPT ![k] = @ + 1]
       /\ mybuf' = [mybuf EXCEPT ![p] = k]
  /\ pc' = [pc EXCEPT ![p] = "lock"]
  /\ UNCHANGED <<ioVars, panic, blockno, valid, lru, lock, pinned>>

\* Mutant: the block was looked for in an earlier critical section.
BgetMiss_NoScan(p, b) ==
  /\ pc[p] = "idle"
  /\ \E k \in Bufs :
       /\ IsVictim(k)
       /\ blockno' = [blockno EXCEPT ![k] = b]
       /\ valid' = [valid EXCEPT ![k] = FALSE]
       /\ refcnt' = [refcnt EXCEPT ![k] = 1]
       /\ mybuf' = [mybuf EXCEPT ![p] = k]
  /\ pc' = [pc EXCEPT ![p] = "lock"]
  /\ UNCHANGED <<ioVars, panic, lru, lock, pinned>>

\* ... or a buffer is recycled for it ...
BgetMiss(p, b) ==
  /\ pc[p] = "idle" /\ ~Cached(b)
  /\ \E k \in Bufs :
       /\ IsVictim(k)
       /\ blockno' = [blockno EXCEPT ![k] = b]
       /\ valid' = [valid EXCEPT ![k] = FALSE]
       /\ refcnt' = [refcnt EXCEPT ![k] = 1]
       /\ mybuf' = [mybuf EXCEPT ![p] = k]
  /\ pc' = [pc EXCEPT ![p] = "lock"]
  /\ UNCHANGED <<ioVars, panic, lru, lock, pinned>>

\* ... or there is none.
BgetPanic(p, b) ==
  /\ pc[p] = "idle" /\ ~Cached(b)
  /\ \A k \in Bufs : refcnt[k] # 0
  /\ panic' = "no buffers"
  /\ UNCHANGED <<ioVars, bcacheVars, lock, pc, mybuf, pinned>>

\* acquiresleep() in bget(), then bread(): a valid buffer is returned, any
\* other is read from the disk first.
BreadLocked(p) ==
  LET k == mybuf[p] IN
  /\ pc[p] = "lock"
  /\ lock[k] = NoProc
  /\ lock' = [lock EXCEPT ![k] = p]
  /\ \/ /\ valid[k]
        /\ pc' = [pc EXCEPT ![p] = "hold"]
        /\ UNCHANGED <<ioVars, panic>>
     \/ /\ ~valid[k]
        /\ pc' = [pc EXCEPT ![p] = "read"]
        /\ RwCall(p, k, blockno[k], FALSE)
  /\ UNCHANGED <<bcacheVars, mybuf, pinned>>

\* virtio_disk_rw() returns to bread().
BreadDone(p) ==
  /\ pc[p] = "read"
  /\ RwReturn(p)
  /\ valid' = [valid EXCEPT ![mybuf[p]] = TRUE]
  /\ pc' = [pc EXCEPT ![p] = "hold"]
  /\ UNCHANGED <<blockno, refcnt, lru, lock, mybuf, pinned>>

\* The caller of bread() changes the data.
Modify(p, v) ==
  /\ pc[p] = "hold"
  /\ data' = [data EXCEPT ![mybuf[p]] = v]
  /\ UNCHANGED <<platter, driverVars, io, req, panic, bcacheVars, lock, pc, mybuf, pinned>>

Bwrite(p) ==
  /\ pc[p] = "hold"
  /\ RwCall(p, mybuf[p], blockno[mybuf[p]], TRUE)
  /\ pc' = [pc EXCEPT ![p] = "write"]
  /\ UNCHANGED <<bcacheVars, lock, mybuf, pinned>>

BwriteDone(p) ==
  /\ pc[p] = "write"
  /\ RwReturn(p)
  /\ pc' = [pc EXCEPT ![p] = "hold"]
  /\ UNCHANGED <<bcacheVars, lock, mybuf, pinned>>

\* bpin() from log_write() and bunpin() from install_trans().
Bpin(p) ==
  LET k == mybuf[p] IN
  /\ pc[p] = "hold"
  /\ blockno[k] \notin pinned /\ Cardinality(pinned) < MaxPins
  /\ pinned' = pinned \cup {blockno[k]}
  /\ refcnt' = [refcnt EXCEPT ![k] = @ + 1]
  /\ UNCHANGED <<ioVars, panic, blockno, valid, lru, lock, pc, mybuf>>

\* Mutant: the reference of the pin is kept.
Bunpin_Leak(p) ==
  /\ pc[p] = "hold"
  /\ blockno[mybuf[p]] \in pinned
  /\ pinned' = pinned \ {blockno[mybuf[p]]}
  /\ UNCHANGED <<ioVars, panic, bcacheVars, lock, pc, mybuf>>

Bunpin(p) ==
  LET k == mybuf[p] IN
  /\ pc[p] = "hold"
  /\ blockno[k] \in pinned
  /\ pinned' = pinned \ {blockno[k]}
  /\ refcnt' = [refcnt EXCEPT ![k] = @ - 1]
  /\ UNCHANGED <<ioVars, panic, blockno, valid, lru, lock, pc, mybuf>>

\* brelse(): first the sleep-lock ...
ReleaseSleep(p) ==
  /\ pc[p] = "hold"
  /\ lock' = [lock EXCEPT ![mybuf[p]] = NoProc]
  /\ pc' = [pc EXCEPT ![p] = "put"]
  /\ UNCHANGED <<ioVars, panic, bcacheVars, mybuf, pinned>>

\* The list with buffer k moved to the front.
MoveToFront(k) ==
  LET at == CHOOSE i \in Bufs : lru[i] = k
  IN  [i \in Bufs |-> IF i = 1 THEN k ELSE IF i <= at THEN lru[i - 1] ELSE lru[i]]

\* ... then, under bcache.lock, the reference.
Brelse(p) ==
  LET k == mybuf[p] IN
  /\ pc[p] = "put"
  /\ refcnt' = [refcnt EXCEPT ![k] = @ - 1]
  /\ lru' = IF refcnt'[k] = 0 THEN MoveToFront(k) ELSE lru
  /\ pc' = [pc EXCEPT ![p] = "idle"]
  /\ mybuf' = [mybuf EXCEPT ![p] = NoBuf]
  /\ UNCHANGED <<ioVars, panic, blockno, valid, lock, pinned>>

-----------------------------------------------------------------------------
Driver(A) == A /\ UNCHANGED <<bcacheVars, lock, pc, mybuf, pinned>>

Step(p) ==
  \/ \E b \in Blocks : BgetHit(p, b) \/ BgetMiss(p, b) \/ BgetPanic(p, b)
  \/ BreadLocked(p) \/ BreadDone(p)
  \/ \E v \in Data : Modify(p, v)
  \/ Bwrite(p) \/ BwriteDone(p)
  \/ Bpin(p) \/ Bunpin(p)
  \/ ReleaseSleep(p) \/ Brelse(p)
  \/ Driver(NoDescriptors(p)) \/ Driver(Submit(p)) \/ Driver(SleepAgain(p))
  \/ Driver(Kicked(p))

Device ==
  \/ \E i \in Descs : Driver(DeviceDone(i))
  \/ Driver(IntrAck) \/ Driver(IntrOne) \/ Driver(IntrEnd)

\* panic() never returns.
Halt == panic # "none" /\ UNCHANGED vars

Next ==
  \/ panic = "none" /\ (Device \/ \E p \in Procs : Step(p))
  \/ Halt

Spec == Init /\ [][Next]_vars

-----------------------------------------------------------------------------
\* A block is never in two buffers, although bget() looks for it and recycles a
\* buffer for it without the sleep-lock of either.
OneBuffer ==
  \A j, k \in Bufs : blockno[j] = blockno[k] /\ blockno[j] # NoBlock => j = k

\* The blocks that processes refer to or that are pinned.
Wanted == pinned \cup {blockno[mybuf[p]] : p \in {q \in Procs : mybuf[q] # NoBuf}}

\* bget() gives up only if all NBUF buffers really are wanted: no sequence of
\* bread, bpin, bunpin and brelse leaks a reference.
NoLeakedBuffer == panic = "no buffers" => Cardinality(Wanted) = NBUF

Contents(b) ==
  IF \E k \in Bufs : blockno[k] = b /\ valid[k]
  THEN data[CHOOSE k \in Bufs : blockno[k] = b /\ valid[k]]
  ELSE NoData

BC == INSTANCE BlockCache WITH
        disk <- platter,
        cache <- [b \in Blocks |-> Contents(b)],
        user <- [p \in Procs |-> IF pc[p] \in {"hold", "write"}
                                 THEN blockno[mybuf[p]] ELSE NoBlock]

\* The buffer cache and the driver together implement BlockCache: whatever the
\* order of completions, interrupts and spurious wakeups, bread() returns the
\* block's latest contents to one process at a time.
CacheIsStore == BC!Spec
=============================================================================
