-------------------------------- MODULE Log --------------------------------
(***************************************************************************)
(* The redo log of xv6: kernel/log.c, with what it needs of the buffer     *)
(* cache (kernel/bio.c) and of its callers in kernel/fs.c.                 *)
(*                                                                         *)
(* One action is one critical section of log.lock, or one bwrite(): the    *)
(* machine may crash between any two of them.  A write of one disk block   *)
(* is atomic.  A file-system operation is begin_op(), any number of        *)
(* bread/modify/log_write/brelse rounds on at most OpBlocks distinct       *)
(* blocks, and end_op().                                                   *)
(*                                                                         *)
(* sleep(&log, &log.lock) is one atomic step that releases the lock and    *)
(* suspends the process; module SleepWakeup shows that proc.c implements   *)
(* it that way.                                                            *)
(***************************************************************************)
EXTENDS Integers, Sequences, FiniteSets

CONSTANTS Procs,        \* the processes that execute file-system calls
          Blocks,       \* home blocks of the file system
          Data,         \* contents of a block
          NoData,       \* a block that is not in the buffer cache
          MAXOPBLOCKS,  \* what begin_op() reserves for an operation (param.h)
          LOGBLOCKS,    \* data blocks in the on-disk log (param.h)
          OpBlocks,     \* distinct blocks an operation really writes
          NoBlock       \* "holds no buffer"

ASSUME LogAssumption ==
  /\ IsFiniteSet(Procs)
  /\ IsFiniteSet(Blocks)
  /\ NoData \notin Data
  /\ NoBlock \notin Blocks
  /\ MAXOPBLOCKS \in Nat \ {0}
  /\ LOGBLOCKS \in Nat
  /\ MAXOPBLOCKS <= LOGBLOCKS
  /\ OpBlocks \in Nat
  /\ OpBlocks <= MAXOPBLOCKS

VARIABLES
  disk,         \* the home blocks on disk
  logblk,       \* the log's data blocks on disk
  hdr,          \* the log header block on disk
  cache,        \* the buffer cache: contents of the home blocks it holds
  pin,          \* references that log_write() took with bpin()
  lh,           \* log.lh, the header in memory
  outstanding,  \* log.outstanding
  committing,   \* log.committing
  machine,      \* "up", a phase of recovery, or "panic"
  tail,         \* the loop index of write_log() and install_trans()
  pc,           \* where each process is
  held,         \* the buffer a process has modified and not yet logged
  written       \* the blocks a process has logged in its current operation

diskVars == <<disk, logblk, hdr>>
vars == <<disk, logblk, hdr, cache, pin, lh, outstanding, committing, machine,
          tail, pc, held, written>>

-----------------------------------------------------------------------------
RunPC    == {"idle", "begin", "sleep", "op", "held"}
CommitPC == {"write_log", "write_head", "install", "clear_head", "finish"}

Entries(h) == {h[i] : i \in 1..Len(h)}

TypeOK ==
  /\ disk \in [Blocks -> Data]
  /\ logblk \in [1..LOGBLOCKS -> Data]
  /\ hdr \in Seq(Blocks)
  /\ cache \in [Blocks -> Data \cup {NoData}]
  /\ pin \in [Blocks -> Nat]
  /\ lh \in Seq(Blocks)
  /\ outstanding \in Nat
  /\ committing \in BOOLEAN
  /\ machine \in {"up", "read_head", "recover", "recovered", "panic"}
  /\ tail \in Nat
  /\ pc \in [Procs -> RunPC \cup CommitPC]
  /\ held \in [Procs -> Blocks \cup {NoBlock}]
  /\ written \in [Procs -> SUBSET Blocks]

\* mkfs leaves an empty header; the machine boots into initlog().
Init ==
  /\ disk \in [Blocks -> Data]
  /\ logblk \in [1..LOGBLOCKS -> Data]
  /\ hdr = <<>>
  /\ cache = [b \in Blocks |-> NoData]
  /\ pin = [b \in Blocks |-> 0]
  /\ lh = <<>>
  /\ outstanding = 0
  /\ committing = FALSE
  /\ machine = "read_head"
  /\ tail = 0
  /\ pc = [p \in Procs |-> "idle"]
  /\ held = [p \in Procs |-> NoBlock]
  /\ written = [p \in Procs |-> {}]

-----------------------------------------------------------------------------
(* The buffer cache, as the log uses it.                                   *)

\* What bread(b) returns: the cached copy, or the disk's.
Bread(b) == IF cache[b] = NoData THEN disk[b] ELSE cache[b]

Locked(b) == \E p \in Procs : held[p] = b

\* bget() recycles a buffer whose reference count is 0.
Evict(b) ==
  /\ cache[b] # NoData
  /\ pin[b] = 0
  /\ ~Locked(b)
  /\ cache' = [cache EXCEPT ![b] = NoData]
  /\ UNCHANGED <<diskVars, pin, lh, outstanding, committing, machine, tail,
                 pc, held, written>>

-----------------------------------------------------------------------------
(* File-system operations.                                                 *)

\* Mutant: the wakeup is forgotten.
Wakeup_Lost(f) == f

\* wakeup(&log)
Wakeup(f) == [p \in Procs |-> IF f[p] = "sleep" THEN "begin" ELSE f[p]]

MustWait_NoCommit == Len(lh) + (outstanding + 1) * MAXOPBLOCKS > LOGBLOCKS

MustWait == \/ committing
            \/ Len(lh) + (outstanding + 1) * MAXOPBLOCKS > LOGBLOCKS

\* One round of the loop in begin_op().
BeginOp(p) ==
  /\ machine = "up"
  /\ pc[p] \in {"idle", "begin"}
  /\ \/ /\ MustWait
        /\ pc' = [pc EXCEPT ![p] = "sleep"]
        /\ UNCHANGED outstanding
     \/ /\ ~MustWait
        /\ pc' = [pc EXCEPT ![p] = "op"]
        /\ outstanding' = outstanding + 1
  /\ UNCHANGED <<diskVars, cache, pin, lh, committing, machine, tail, held,
                 written>>

\* A caller: bp = bread(b); modify bp->data.  The buffer stays locked.
Modify(p, b, v) ==
  /\ machine = "up"
  /\ pc[p] = "op"
  /\ ~Locked(b)
  /\ Cardinality(written[p] \cup {b}) <= OpBlocks
  /\ cache' = [cache EXCEPT ![b] = v]
  /\ held' = [held EXCEPT ![p] = b]
  /\ pc' = [pc EXCEPT ![p] = "held"]
  /\ UNCHANGED <<diskVars, pin, lh, outstanding, committing, machine, tail,
                 written>>

\* The checks log_write() panics on.
LogWritePanics == \/ Len(lh) >= LOGBLOCKS     \* "too big a transaction"
                  \/ outstanding < 1          \* "log_write outside of trans"

\* Mutants: the absorbed block is pinned again; the new block is not pinned.
Record_PinTwice(b) ==
  /\ lh' = IF b \in Entries(lh) THEN lh ELSE Append(lh, b)
  /\ pin' = [pin EXCEPT ![b] = @ + 1]
\* Absorb a block the log already has, or append it and pin its buffer.
Record(b) ==
  \/ /\ b \in Entries(lh)
     /\ UNCHANGED <<lh, pin>>
  \/ /\ b \notin Entries(lh)
     /\ lh' = Append(lh, b)
     /\ pin' = [pin EXCEPT ![b] = @ + 1]

\* log_write(bp); brelse(bp).
LogWrite(p) ==
  /\ machine = "up"
  /\ pc[p] = "held"
  /\ \/ /\ LogWritePanics
        /\ machine' = "panic"
        /\ UNCHANGED <<lh, pin, pc, held, written>>
     \/ /\ ~LogWritePanics
        /\ Record(held[p])
        /\ written' = [written EXCEPT ![p] = @ \cup {held[p]}]
        /\ held' = [held EXCEPT ![p] = NoBlock]
        /\ pc' = [pc EXCEPT ![p] = "op"]
        /\ UNCHANGED machine
  /\ UNCHANGED <<diskVars, cache, outstanding, committing, tail>>

\* The first critical section of end_op().  Finding log.committing set is the
\* panic "log.committing".
EndOp(p) ==
  /\ machine = "up"
  /\ pc[p] = "op"
  /\ machine' = IF committing THEN "panic" ELSE "up"
  /\ outstanding' = outstanding - 1
  /\ written' = [written EXCEPT ![p] = {}]
  /\ \/ /\ outstanding = 1
        /\ committing' = TRUE
        /\ tail' = 0
        /\ pc' = [pc EXCEPT ![p] = IF Len(lh) > 0 THEN "write_log" ELSE "finish"]
     \/ /\ outstanding # 1
        /\ pc' = Wakeup([pc EXCEPT ![p] = "idle"])
        /\ UNCHANGED <<committing, tail>>
  /\ UNCHANGED <<diskVars, cache, pin, lh, held>>

-----------------------------------------------------------------------------
(* commit(), one disk write at a time, run by the process of the last      *)
(* end_op() without holding log.lock.                                      *)

At(p, l) == machine = "up" /\ pc[p] = l
Goto(p, l) == pc' = [pc EXCEPT ![p] = l]

\* One iteration of write_log(), or the end of its loop.
WriteLog(p) ==
  /\ At(p, "write_log")
  /\ \/ /\ tail < Len(lh)
        /\ logblk' = [logblk EXCEPT ![tail + 1] = Bread(lh[tail + 1])]
        /\ tail' = tail + 1
        /\ UNCHANGED pc
     \/ /\ tail >= Len(lh)
        /\ tail' = 0
        /\ Goto(p, "write_head")
        /\ UNCHANGED logblk
  /\ UNCHANGED <<disk, hdr, cache, pin, lh, outstanding, committing, machine,
                 held, written>>

\* Mutant: the first write_head() of commit() is left out.
WriteHead_Skip(p) ==
  /\ At(p, "write_head") /\ Goto(p, "install")
  /\ UNCHANGED <<diskVars, cache, pin, lh, outstanding, committing, machine,
                 tail, held, written>>

\* write_head(): the commit point.
WriteHead(p) ==
  /\ At(p, "write_head")
  /\ hdr' = lh
  /\ Goto(p, "install")
  /\ UNCHANGED <<disk, logblk, cache, pin, lh, outstanding, committing,
                 machine, tail, held, written>>

\* The body of install_trans()'s loop: copy a log block to its home.
CopyHome ==
  LET b == lh[tail + 1] IN
  /\ cache' = [cache EXCEPT ![b] = logblk[tail + 1]]
  /\ disk' = [disk EXCEPT ![b] = logblk[tail + 1]]
  /\ tail' = tail + 1

\* One iteration of install_trans(0), or the end of its loop.
Install(p) ==
  /\ At(p, "install")
  /\ \/ /\ tail < Len(lh)
        /\ CopyHome
        /\ pin' = [pin EXCEPT ![lh[tail + 1]] = @ - 1]
        /\ UNCHANGED pc
     \/ /\ tail >= Len(lh)
        /\ tail' = 0
        /\ Goto(p, "clear_head")
        /\ UNCHANGED <<disk, cache, pin>>
  /\ UNCHANGED <<logblk, hdr, lh, outstanding, committing, machine, held,
                 written>>

\* Mutant: the erased header is not written to the disk.
ClearHead_NoWrite(p) ==
  /\ At(p, "clear_head")
  /\ lh' = <<>>
  /\ Goto(p, "finish")
  /\ UNCHANGED <<diskVars, cache, pin, outstanding, committing, machine, tail,
                 held, written>>

\* log.lh.n = 0; write_head(): erase the transaction.
ClearHead(p) ==
  /\ At(p, "clear_head")
  /\ lh' = <<>>
  /\ hdr' = <<>>
  /\ Goto(p, "finish")
  /\ UNCHANGED <<disk, logblk, cache, pin, outstanding, committing, machine,
                 tail, held, written>>

\* The second critical section of end_op().
Finish(p) ==
  /\ At(p, "finish")
  /\ committing' = FALSE
  /\ pc' = Wakeup([pc EXCEPT ![p] = "idle"])
  /\ UNCHANGED <<diskVars, cache, pin, lh, outstanding, machine, tail, held,
                 written>>

-----------------------------------------------------------------------------
(* Crash, and recovery by initlog().                                       *)

\* Power failure, also during recovery or after a panic: memory is lost.
Crash ==
  /\ machine' = "read_head"
  /\ cache' = [b \in Blocks |-> NoData]
  /\ pin' = [b \in Blocks |-> 0]
  /\ lh' = <<>>
  /\ outstanding' = 0
  /\ committing' = FALSE
  /\ tail' = 0
  /\ pc' = [p \in Procs |-> "idle"]
  /\ held' = [p \in Procs |-> NoBlock]
  /\ written' = [p \in Procs |-> {}]
  /\ UNCHANGED diskVars

\* read_head()
ReadHead ==
  /\ machine = "read_head"
  /\ lh' = hdr
  /\ tail' = 0
  /\ machine' = "recover"
  /\ UNCHANGED <<diskVars, cache, pin, outstanding, committing, pc, held,
                 written>>

\* One iteration of install_trans(1), or the end of its loop.
Recover ==
  /\ machine = "recover"
  /\ \/ /\ tail < Len(lh)
        /\ CopyHome
        /\ UNCHANGED machine
     \/ /\ tail >= Len(lh)
        /\ tail' = 0
        /\ machine' = "recovered"
        /\ UNCHANGED <<disk, cache>>
  /\ UNCHANGED <<logblk, hdr, pin, lh, outstanding, committing, pc, held,
                 written>>

\* log.lh.n = 0; write_head(): recovery is over.
ClearLog ==
  /\ machine = "recovered"
  /\ lh' = <<>>
  /\ hdr' = <<>>
  /\ machine' = "up"
  /\ UNCHANGED <<disk, logblk, cache, pin, outstanding, committing, tail, pc,
                 held, written>>

-----------------------------------------------------------------------------
Committer(p) == WriteLog(p) \/ WriteHead(p) \/ Install(p) \/ ClearHead(p)
                \/ Finish(p)

Next ==
  \/ \E b \in Blocks : Evict(b)
  \/ \E p \in Procs :
       \/ BeginOp(p) \/ LogWrite(p) \/ EndOp(p)
       \/ \E b \in Blocks, v \in Data : Modify(p, b, v)
       \/ Committer(p)
  \/ ReadHead \/ Recover \/ ClearLog
  \/ Crash

Spec == Init /\ [][Next]_vars

\* The kernel schedules every runnable process and every commit runs to its
\* end.  A file-system call does a bounded amount of work, so that it reaches
\* end_op() although it may take locks again and again before (strong
\* fairness of EndOp).  Nothing is assumed of Crash.
Fairness ==
  /\ \A p \in Procs : /\ WF_vars(BeginOp(p))
                      /\ WF_vars(LogWrite(p))
                      /\ SF_vars(EndOp(p))
                      /\ WF_vars(Committer(p))
  /\ WF_vars(ReadHead \/ Recover \/ ClearLog)

FairSpec == Spec /\ Fairness

-----------------------------------------------------------------------------
(* Properties.                                                             *)

\* log_write() and end_op() never panic.  begin_op() admits an operation only
\* if the log has room for MAXOPBLOCKS blocks of every admitted operation, so
\* "too big a transaction" ought to be unreachable for operations that keep to
\* that limit.
NoPanic == machine # "panic"

\* The reservation of begin_op() suffices: a process that is about to log a
\* block the transaction does not have yet finds a free slot in log.lh.block
\* (log.c:232), and the array is never overrun.
LogSpace ==
  /\ Len(lh) <= LOGBLOCKS
  /\ \A p \in Procs : pc[p] = "held" /\ held[p] \notin Entries(lh)
                        => Len(lh) < LOGBLOCKS

\* "The logging system only commits when there are no FS system calls active"
\* (log.c:13): commit() reads log.lh without log.lock, which is safe only if
\* no other process is in an operation or in commit().
CommitAlone ==
  \A p \in Procs : pc[p] \in CommitPC =>
    /\ committing
    /\ outstanding = 0
    /\ \A q \in Procs \ {p} : pc[q] \in {"idle", "begin", "sleep"}

\* No process sleeps in begin_op() while there is room for it, and someone
\* who will call wakeup(&log) is still running (log.c:155-163, 172).
SleeperHasWaker ==
  \A p \in Procs : pc[p] = "sleep" =>
    /\ MustWait
    /\ committing \/ outstanding > 0

\* A buffer is pinned exactly once from the log_write() that adds it to the
\* transaction to the install_trans() that writes it home: a pin too few lets
\* bget() recycle the only copy of uncommitted data, a pin too many loses the
\* buffer for ever (bio.c:88, "bget: no buffers").
ToInstall == IF \E p \in Procs : pc[p] = "install"
             THEN {lh[i] : i \in tail + 1..Len(lh)}
             ELSE IF \E p \in Procs : pc[p] = "clear_head"
             THEN {} ELSE Entries(lh)

PinsMatchLog ==
  machine = "up" =>
    \A b \in Blocks : pin[b] = IF b \in ToInstall THEN 1 ELSE 0

\* The transaction that a header h and log blocks l describe, applied to the
\* home blocks d: what recover_from_log() makes of the disk.
RedoOf(h, l, d) == [b \in Blocks |->
                     IF b \in Entries(h)
                     THEN l[CHOOSE i \in 1..Len(h) : h[i] = b]
                     ELSE d[b]]
Redo == RedoOf(hdr, logblk, disk)

Active == {p \in Procs : pc[p] \in {"op", "held"}}

\* What reads return while the kernel runs, and will return once it has recovered.
View == IF machine \in {"up", "panic"} THEN [b \in Blocks |-> Bread(b)] ELSE Redo

AD == INSTANCE AtomicDisk WITH mem <- View, durable <- Redo, active <- Active

\* The log implements an atomic disk: each operation's writes survive a crash
\* all together or not at all, whatever the block write the crash follows,
\* a crash during recovery included.
CrashAtomic == AD!Spec

\* Once the machine stops crashing, a process that sleeps in begin_op() is
\* woken: the last end_op() or the end of the commit reaches it.
SleeperWakes ==
  <>[][~Crash]_vars => \A p \in Procs : pc[p] = "sleep" ~> pc[p] # "sleep"

\* Once the machine stops crashing, a transaction on disk is installed and
\* erased: the log never stays full.
LogEmpties == <>[][~Crash]_vars => (hdr # <<>> ~> hdr = <<>>)
=============================================================================
