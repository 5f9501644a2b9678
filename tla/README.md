# Verification of listlib-and-system-calls

TLA+ models of the programs in this repository: the xv6 kernel with its
system-call additions (`xv6-A1/`), the list library (`a1-phase2/`) and the
thread and process programs of part A (`a1-phase3/`).
`PROJECT.json` maps every definition to the lines it models.

Contents: 1 the system, 2 the modules, 3 the runs, 4 fairness, 5 the proofs,
6 findings, 7 what is not modelled, 8 plan.

## 1. The system

| part | state | operations | correct if |
|---|---|---|---|
| Redo log (`kernel/log.c`) | header in memory and on disk, log blocks, `outstanding`, `committing` | `begin_op`, `log_write`, `end_op`, `commit`, recovery | a crash keeps whole operations; the reservation suffices; nobody sleeps for ever |
| Buffer cache (`kernel/bio.c`) | buffers, reference counts, sleep-locks, LRU list | `bread`, `bwrite`, `brelse`, `bpin`, `bunpin` | one copy and one user of a block; no reference leaks |
| Disk driver (`kernel/virtio_disk.c`) | descriptors, rings, requests in flight | `virtio_disk_rw`, `virtio_disk_intr` | descriptors are neither lost nor shared; every request returns |
| Sleep, wakeup, scheduler (`kernel/proc.c`, `sleeplock.c`, `spinlock.c`) | process states, channels, per-CPU process, locks | `sleep`, `wakeup`, `sched`, `yield`, `scheduler`, `acquiresleep`, `releasesleep` | no lost wakeup; one CPU per process |
| Pipes (`kernel/pipe.c`) | ring, `nread`, `nwrite`, open flags | `pipewrite`, `piperead`, `pipeclose` | a bounded FIFO; no use after free |
| Process life cycle and tracing (`kernel/proc.c`, `sysproc.c`) | process table, parents, `killed`, `trace_mask` | `kfork`, `kexit`, `kwait`, `kkill`, `sys_trace` | no exit is missed; no slot is freed under its thread; marks stay with their process |
| Files, inodes, directories (`fs.c`, `file.c`, `sysfile.c`) | bitmap, inodes, inode table, file table, descriptors | `balloc`, `bmap`, `readi`, `writei`, `iget`..`iput`, `namex`, `ireclaim`; open, close, read, write, link, unlink, mkdir, chdir, ... | link and reference counts match, no block has two owners or none, no inode is freed in use, orphans go at boot, no lock cycle |
| Memory (`kalloc.c`, `vm.c`, `exec.c`) | free list, page tables, sizes | `kalloc`, `kfree`, `uvmalloc`, `uvmcopy`, `vmfault`, `copyout`, `kexec`, ... | a page has one owner on every failure path; a call happens whole or not at all; memory is private |
| Console (`console.c`, `uart.c`) | input ring, line edit | `consoleintr`, `consoleread` | no line is lost or split |
| List library (`a1-phase2/list_*.c`) | node and list pools, cursors | `ListCreate`, `ListAppend`, ..., `ListConcat` | nodes are conserved, lists are disjoint, chains are chains |
| Square programs (`a1-phase3/partA1.c`..`A4`) | shared counters, `keep_running`, signals | parent and children with a deadline | the printed counts are exact, the program ends |
| User programs (`user/`) | - | clients of the system calls | - |

How they interact: a file-system call runs between `begin_op()` and `end_op()`
and changes blocks through the buffer cache; the log pins buffers and writes
them through the driver, which waits for the device's interrupt.  fork, exit and
exec copy, drop and replace both the open files and the memory of a process.  Pipes, the
log, the driver, the sleep-locks and `kwait()` all wait with `sleep()` and are
woken with `wakeup()`, whose atomicity rests on the overlap of two spinlocks and
on `p->lock` being kept across `swtch()`.  `kkill()` wakes any sleeping process.
The list library is sequential and stands alone, and the Square programs use
only what their operating system gives them.

What is hard: several CPUs run kernel code at once; a crash can come between
any two disk writes; the device completes requests in any order; wakeups can be
spurious; sleepers depend on one particular wakeup; pools (log slots, buffers,
descriptors, process slots, inodes, blocks, pages, list nodes) run out in the
middle of a call, and what was done so far has to be undone.  `PROJECT.json` lists the
hazards at their lines.

## 2. The modules

    AtomicDisk   <- Log                     kernel/log.c
    BlockCache   <- Bio  EXTENDS VirtioDisk kernel/bio.c, kernel/virtio_disk.c
    Monitor      <- SleepWakeup             kernel/proc.c, sleeplock.c, spinlock.c
    Stream       <- Pipe                    kernel/pipe.c
    ProcessTree  <- Proc                    kernel/proc.c, sysproc.c
    AtomicDisk   .. Fs   EXTENDS Inode      kernel/fs.c, file.c, sysfile.c
                    FsTests                 user/usertests.c and small programs
    AddressSpace <- Vm                      kernel/kalloc.c, vm.c, exec.c
                    ListLib                 a1-phase2/list_*.c
                    Square                  a1-phase3/

On the left is what the component promises; the arrow is a refinement that a
run checks and a theorem states.  Fs is built on the promise of
AtomicDisk.  `MC*` modules name the values of constants.
The promises are also what the components assume of each other: Log reads,
evicts and pins blocks the way BlockCache does, and Log, Pipe, Proc and
VirtioDisk treat `sleep(chan, lk)` as the one step that Monitor describes.  Fs
keeps two disks, the one that reads see and the durable one, which is what
AtomicDisk offers to whoever uses the log.
Definitions named `X_Something` are altered forms of `X`, used to show that a
property notices the change.

**Log.** The disk is `disk` (home blocks), `logblk` and `hdr`; memory is
`cache`, `pin`, `lh`, `outstanding`, `committing`.  An action is one critical
section of `log.lock` or one `bwrite()`: `BeginOp`, `Modify`, `LogWrite`,
`EndOp`; then the committer's `WriteLog` (one block), `WriteHead` (the commit
point), `Install` (one block), `ClearHead`, `Finish`.  `Crash` is possible
between any two and during recovery (`ReadHead`, `Recover`, `ClearLog`).  A
block write is atomic.  A process changes one buffer at a time.

**VirtioDisk, Bio.** VirtioDisk has the descriptors, chains, completions and
the interrupt handler, which holds `vdisk_lock` over several steps while the
device goes on.  The rings are kept as the set of available and the sequence of
used chains; the index arithmetic is left out because three descriptors for each
request keep the rings from filling.  The device (`DeviceDone`) is external: it
completes any available chain, successfully.  `Kicked` is the spurious wakeup of
`kkill()`.  Bio adds the buffers and their LRU list; an action of a process that
is inside `virtio_disk_rw()` is the conjunction of a driver action and what the
cache does with the result.  A process uses one block at a time, and a block is
pinned once, as `log_write()` does.  A panic stops the model: what other CPUs do
after it is not looked at.

**SleepWakeup.** Spinlocks are held by CPUs, as in `lk->cpu`, so that the
handover of `p->lock` across `swtch()` is visible: the process acquires it and
the scheduler of the same CPU releases it.  The client is the sleep-lock.

**Pipe.** One action takes `pi->lock`, copies one byte, sleeps or returns.
`nread` and `nwrite` wrap at `UINT`.  A failing `copyin`/`copyout` and a kill can
come at any point; `Close` follows `fileclose()`'s reference counts.

**Proc.** `wait_lock` is a variable; an exiting process keeps its `p->lock`
until it is off its stack (label `switch`).  fork is three actions, exit three,
wait a loop.  `sys_trace` and the copy of `trace_mask` are included.  Memory and
files of a process are left out; a fork may fail.

**Inode, Fs, FsTests.** Inode has the block bitmap, file contents behind direct
and indirect addresses, and directories, as operators from a disk to a disk.
A block holds `BSIZE` units: a directory entry, a datum or a block address.  Fs
has the inode table, the file table and the processes.  An action is what a
process does between two points where another can interfere: it takes one inode
lock, or is one critical section of `itable.lock`, `ftable.lock` or `log.lock`.
`namex()` is a loop of such steps, and so is the sequence of `iput()`s at the
end of a call, each of which may truncate and free.  `durable` follows `disk`
whenever the last open transaction ends; `Crash` goes back to it and `ireclaim()`
runs.  The processes execute scripts.  Those in FsTests are the file system tests
of the repository, system call by system call with the results the tests insist
on; those in MCFs are races of two calls on one directory or file.  The ghost
`lost` holds inodes that were entered into a directory already removed (see 6).

**Vm.** Three-level page tables with `FAN` entries a page instead of 512; an
address is a number of units, `PGSIZE` to a page, and a page holds one value.
Table pages come from the same free list as user pages, so that `kalloc()` can
fail at any level of `walk()`.  An action is one turn of the loop of
`uvmalloc()`, `uvmcopy()`, `copyout()` or `kexec()`; processes interleave between
the turns.  `kfree()` fills pages with junk, so that a stale read shows.

**Square.** The four programs in one module; `part` says which one runs, and
actions differ where the programs do: how a child is stopped, whether it is
awaited, what is left when an allocation fails.  A sleep ends at any moment, so
the deadline can come before a child has started and after it has finished.
The source of A2's thread library (UBC) is not here.  Its threads live in one
kernel thread: `mainp`'s `usleep()` stops them all, so parent and children run
only when `mainp` has returned, and the library ends the program when the last of
them is over (`ThreadsRun`, `ThreadsExit`; `partA2.testresults.txt:44-54` is such
a run).  They may be preempted.

**ListLib.** Index-linked pools as in the C code, with every call that changes
them.  Index -1, which C leaves undefined, sets `ub` and stops the behaviour.
`ListConcat` of a list to itself empties its header and drops its nodes for good;
the history variable `lost` counts them for NodesConserved.

## 3. The runs

| run | instance | shows |
|---|---|---|
| `Log_atomic` | 2 processes, 3 blocks, 2 contents, `MAXOPBLOCKS` 2, log of 4 | CrashAtomic (Log implements AtomicDisk), PinsMatchLog |
| `Log_ops` | 3 processes, 5 blocks, log of 4, operations write 1 block | NoPanic; SleeperWakes, LogEmpties |
| `Virtio` | 3 processes and buffers, 7 descriptors | NobodyForgotten, DescriptorsOwned; IoCompletes |
| `Disk` | 3 processes, 3 blocks, 2 contents, 2 buffers, 5 descriptors, 1 pin | CacheIsStore (Bio implements BlockCache), OneBuffer, NoLeakedBuffer |
| `Sleep` | 3 processes, 2 CPUs | OneCpu, SleepLockExclusive, NoLostWakeup, AtomicSleep; SomeoneEnters |
| `Pipe` | 1 reader, 2 writers, ring of 2, counters modulo 4, calls of up to 2 bytes | PipeIsFifo, ReaderMissesOnlyKilled, FreedUnused; WriteReturns |
| `Proc` | 3 slots, 3 pids | ForkExitWait (Proc implements ProcessTree), NoMissedExit, FreedNotRunning, KilledWasAsked; OrphansReaped |
| `Fs` | 3 processes, 6 inodes, 10 blocks of 2 units, 2 direct addresses, 4 files, 1 crash | RefsCounted, BlocksOwned, DurableTree, InUseAllocated, OrphansReclaimed, NoLockCycle, ResultsExpected |
| `Vm` | 3 processes, 31 pages, tables of 2 entries, 5 calls | PrivateMemory (Vm implements AddressSpace), PagesAccounted, NoPanic |
| `Square` | each program, up to 2 children, sizes up to 3 | SummaryExact; Terminates |
| `List` | 5 nodes, 2 lists | NodesConserved, ListsDisjoint, CursorSafe |
| `List_append` | the same | TailEndsChain violated (finding 1) |

`TypeOK` says what the variables of a module range over; it is part of the
invariants that are proved.  After the semicolon stand the liveness properties.

Why the bounds are enough to be interesting.
*Log*: with `MAXOPBLOCKS` 2 and four slots two operations run at once, a third
has to wait, one operation can end while the log stays partly full, and a
transaction has several blocks, so a crash falls between them.
*Virtio*: two requests are in flight and complete in either order, the third
process finds one descriptor, gives it back and sleeps.
*Disk*: three blocks in two buffers force evictions, one of them under a pin;
five descriptors let one request run while another process waits.
*Pipe*: a write of two bytes meets a full ring in the middle, the counters wrap.
*Proc*: a parent, a child and init, so that orphans arise; a chain of four,
where only `reparent()` wakes init, does not fit, and the theorem covers it.
*Fs*: two direct addresses make every file of three blocks use the indirect
one; ten blocks and six inodes are few enough for the tests that fill the disk;
a write of more than two units is split into transactions; three processes are a
parent and two children.  The crash comes anywhere.
*Vm*: three levels of two entries are the full shape of a page table; an image
with its tables takes ten pages or so, so that with 31 pages a second fork, an exec
beside an old image or an sbrk fails at each of its allocations.
*Square*: two children are the least in which a count can go to the wrong slot,
and a size of three has calls at several depths to be stopped in.
*List*: five nodes exhaust the pool in lists of every shape up to five items, each
of which may be concatenated to the other or to itself.

`Pipe`, `Proc`, `Square` and the list runs do not check for deadlock: all
descriptors may be closed, pids are bounded by `MaxPid`, a program ends, and a
client may stop calling.  Fs and Vm have a `Stop` step for the end of the
scripts and of the calls, so every other standstill is reported: in Fs that is a
second check, beside NoLockCycle, that nobody waits for ever for an inode.

## 4. Fairness

Nothing is assumed of crashes, kills, or of a process that is outside the
modelled code.  *Log*: processes and the committer run, an admitted operation
reaches `end_op()` (strong, because it may log any number of blocks before).
*VirtioDisk*: the device completes what it was given; a process or handler that
spins on `vdisk_lock` gets it although others take it in between (strong: a
test-and-set lock that is held for a bounded time).  *SleepWakeup*: the scan of
`scheduler()` returns to each RUNNABLE process and the timer ends a time slice;
a process that runs again and again makes progress.  *Pipe*: code inside the
pipe progresses, a killed process exits, a reader with an open descriptor goes
on reading.  *Proc*: code in the kernel progresses and `init` calls `wait()`
again and again, as `user/init.c` does, with a null status pointer.  *Square*:
sleeps end, the scheduler runs every thread and process, signals are delivered,
and A2's library exits when no thread is left.
Fs and Vm state no fairness and no liveness.

## 5. The proofs

Checked by TLAPS, for every value of the constants that the named assumptions
allow (finite sets of processes and blocks, `MAXOPBLOCKS <= LOGBLOCKS`, a
non-empty table, a ring size that divides the counters' range, pools that are
not empty, programs that fit below the trapframe).  Each proof module has one inductive invariant per specification, a
conjunction of named parts; TLC checked it on the instance of the component's
run before it was proved, and there is one lemma for each action.

| Module | about | run properties it proves |
|---|---|---|
| LogProofs | Log | PinsMatchLog, NoPanic, CrashAtomic |
| ProcProofs | Proc | NoMissedExit, FreedNotRunning, KilledWasAsked, ForkExitWait |
| SleepProofs | SleepWakeup | OneCpu, SleepLockExclusive, NoLostWakeup, AtomicSleep |
| DiskProofs | VirtioDisk, Bio | DescriptorsOwned, NobodyForgotten, OneBuffer, NoLeakedBuffer, CacheIsStore |
| PipeProofs | Pipe | FreedUnused, ReaderMissesOnlyKilled, PipeIsFifo |
| FsProofs | Fs | RefsCounted, OrphansReclaimed, a part of NoLockCycle |
| VmProofs | Vm | PagesAccounted, NoPanic, PrivateMemory |
| CourseProofs | ListLib, Square | CursorSafe, ListsDisjoint, NodesConserved; SummaryExact |

**LogProofs.** `IInv` = TypeOK, CtlInv (`outstanding` counts the active
operations, one committer and only when there are none), TransInv (an idle log
is empty; every sleeper has a waker), SpaceInv, PinInv.  LogSpace alone is not
inductive: that a process finds a free slot depends on what the other operations
may still write.  SpaceInv counts *tokens*, the reserved slots that the running
operations have not used: blocks in the log plus tokens never exceed
`LOGBLOCKS`.  `begin_op` creates tokens if they fit, a `log_write` of a new
block turns one into a slot, `end_op` destroys the rest.  From `IInv` follow
`LogTypeOK`, `LogSpaceHolds`, `CommitAloneHolds`, `SleeperHasWakerHolds`,
`PinsMatchLogHolds`, and `NoPanicHolds` under `OpBlocks < MAXOPBLOCKS`.
The assumption is needed: see the latent flaw of `log_write()` in 6.
`LogIsAtomic`: Log implements AtomicDisk.  `mem` is what a
read returns now (`View`), `durable` what a recovery would leave (`Redo`: the
disk with the blocks of the durable header replayed).  StoreInv adds to `IInv`
how header, log blocks, cache and home blocks agree in each phase; with it every
action is a step of AtomicDisk or a stutter: writing the header is the commit,
and installing, clearing and every step of a repeated recovery leave `durable`
alone.

**ProcProofs.** `IInv` = TypeOK, LockInv (who holds `wait_lock`), StateInv
(which states have a kernel thread), ForkInv (a slot under construction has one
maker), InitInv, ExitInv.  NoMissedExit becomes inductive with ExitInv, which
speaks also of a parent that has scanned and not slept yet and of a child that
has called `wakeup()` and is not yet ZOMBIE; both hold `wait_lock`, so they
exclude each other.  Theorems: `ProcTypeOK`, `NoMissedExitHolds`,
`FreedNotRunningHolds`, `TraceInheritedHolds`, and `KilledWasAskedHolds` for
kernels whose processes do not call `kill(0)`.  `TreeImplemented`: Proc implements
ProcessTree, a table of pids with a status and a parent.  The mapping goes from
slots, which are used again, to pids, which are not; TreeInv adds to `IInv` that
no two processes have a pid, that pids grow, and that a parent exists and has not
passed the adoption of its children.  The steps of ProcessTree are the release of
`wait_lock` with the parent set in `kfork()`, the adoption in `kexit()`, and
`freeproc()` in `kwait()`; all others change nothing there.

**SleepProofs.** `IInv` = TypeOK, CpuInv, StateInv, PlockInv, LkInv, HolderInv,
WaitInv.  NoLostWakeup speaks of who is asleep; a wakeup is lost earlier, between
the test of the condition and the sleep.  WaitInv covers that window: a process
at `sleep` or `unlock` has seen the sleep-lock held and still holds `lk`, one at
`park` has let go of it but holds its own `p->lock`, which `wakeup()` needs.
That the locks are where this argument puts them is CpuInv, PlockInv and LkInv:
`p->lock` belongs to the CPU across `swtch()`.  `MonitorImplemented` maps the
release of `lk` in `sleep()` to the monitor's atomic sleep and the start of
`wakeup()` to its wakeup.

**DiskProofs.** `DInv` (driver) = types, ReqInv, ChainInv, AvailInv, UsedInv,
BusyInv, WaitInv: a request in flight has its own chain, which is with the device,
in the used ring or seen by the handler, and `b->disk` says which.  The
descriptors' kinds tell the three places in a chain apart, so that chains of
different requests cannot overlap.  `BInv` (cache) adds UserInv, IoInv, ValidInv,
RefInv (`refcnt` = users + pin, a cardinality), PinInv, ReadInv, PanicInv.  A
step of Bio that is in `virtio_disk_rw()` is a step of the driver with a buffer
nobody else has, which gives `DInv` again.  ReadInv is what the refinement rests
on: what the device has read stays what is on disk until `bread()` returns,
because nobody else can have a request for the block.

**PipeProofs.** `IInv` = TypeOK, CallInv, LockInv, EndInv for both ends, FreeInv,
RingInv, SleepInv, ReaderMissesOnlyKilled.  EndInv says who closes an end last,
also half way through `fileclose()`; with it nobody is inside a freed pipe.
RingInv bounds `(nwrite - nread) % UINT` by `PIPESIZE`.  For `PipeIsFifo` the
stream is the ring read from `nread` on; the lemmas before it show that a wrap of
the counters keeps every byte's place (`PIPESIZE` divides `UINT`) and that the
slot written is not one of those to be read.

**CourseProofs, list library.** `IInv` = TypeOK, StartInv, ChainInv, CountsInv, OwnInv,
CursorInv.  The properties speak of walks over links (`Reach`, `Free`), and what
a walk meets depends on links set long ago.  OwnInv gives each node an owner (by
an existential: there is no such field in the code) that `next`, `prev`, head,
tail and cursor respect, whether or not the links form a chain; they do not
always, see 6.  ChainInv holds because no operation gives a node back.  What
`Reach`, `Free` and the sum of the counts compute is proved by induction.  The
library's induction theorems quantify over operators; `SetInduction` restates
induction for a set, from the theorem that a non-empty set of numbers has a least
element, and from it the module derives induction over the subsets of a finite
set, the existence of the recursive functions behind `Reach` and
`MapThenSumSet`, and the laws of the sum that the actions need.

**CourseProofs, part A.** `SquareInv` = SquareTypeOK, ChildInv, MadeInv, MainInv, OverInv, HeapInv,
CountInv, PrintInv, SummaryExact.  A counter follows its child call by call
(CountInv), as long as the slot is the child's own and still allocated (HeapInv),
and nobody counts once the parent prints (OverInv).  That Square(1), ...,
Square(i) are (i(i + 3))/2 calls is the arithmetic behind it.

**FsProofs.** `IInv` = LocInv, CwdInv, FileInv, RefInv, LockInv, and either no
process is in the recovery (Normal) or it runs alone (Alone).  That `ip->ref` is
the number of pointers is not inductive by itself: whether a step may drop a
reference depends on which of `cur`, `ip`, `dp` and the inodes still to put the
call has at that label (LocInv), on `f->ref` being the number of descriptors
(FileInv, a second count of the same kind), and on the structure that `open()` is
filling in belonging to nobody else.  LockInv says which labels hold which lock.
Every action is one *turn* of a process: the pointers it gains and loses balance
the change of the counts, and its labels the change of the locks; the lemmas
`Turn` and `TurnLocal` conclude the invariant from that balance, which is all that
the lemma of an action has to show.  The counts are cardinalities of four sets, so
the balance rests on how a cardinality moves when a set changes in one, two or
three elements.  Theorems: `FsRefsCounted`; `FsFilesCounted`; `FsLocksReferenced`
(no call ends, fails or exits with an inode locked, and a locked entry is never
recycled); `FsIputUnlocked`, which the comment in `iput()` claims: whoever had the
lock would be a second pointer.  Nothing is assumed of the disk, of directory
contents, or of the results of `balloc()`, `ialloc()` and `writei()`.
`FsOrphansReclaimed` follows the recovery: it runs alone, the inodes that its scan
has passed are not orphans, and the one that it works on is reached with no other
reference, so that `ilock()` reads its link count from the disk and `iput()` frees
it (RecoverInv).  It needs that a crash at any moment leaves a whole inode table
(DiskInv): every call changes `dino` only through `iupdate()` and `ialloc()`, from a
disk that mkfs made with all inodes (DiskAssumption).

**VmProofs.** `IInv` = TypeOK, OwnInv, CtlInv, TfInv, SizeInv, MapInv, PanicInv.
OwnInv says that every page is free or has one owner: a process its trapframe and
its page table (each page in one place of it), `exec()` the table under
construction.  What makes it inductive is what the loops over pages leave
unmapped: MapInv says that nothing is mapped beyond the size of a process, nor
beyond the loop variable of a call in progress, so that `mappages()` never meets a
mapped page and undoing a call gives back exactly what it took.
`VmPagesAccounted` follows by counting: the places that hold a page and the pages
that are not free are in bijection.  `VmAssertions`: no assertion of `vm.c` fails.
`VmNoPanic` says more, that `forkret()` never finds init's `exec()` failed; this
needs memory for it, which `MemoryAssumption` states as a number of pages (three
for each page of the program, one of them memory and two page table pages, and
eleven for what exists before), and FirstInv, which counts the pages that the
loops of that first `exec()` have taken.
`VmImplemented`: Vm implements AddressSpace, for any interleaving of the loops of
`sbrk()`, `fork()` and `exec()` and with `kalloc()` failing anywhere.  DataInv adds
to `IInv` what pages hold: program text is not writable, what `uvmalloc()` has
mapped so far is zeros, what `uvmcopy()` has passed is the same in parent and
child, what `exec()` has loaded is the program.  The last step of each call is the
step of AddressSpace (a lazy `sbrk()` is one by itself, and the fault that maps the
page later changes nothing, since an unmapped page reads as zeros); the steps
before it, and those that undo it, change nothing that a process sees.

Model-checked only: all liveness properties (fairness and ENABLED are out of the
prover's reach), and those invariants of Fs that speak of what files and directories
hold: BlocksOwned, DurableTree, InUseAllocated, ResultsExpected, and of
NoLockCycle that no processes wait for each other.  `writei()` and `itrunc()` are
folds over the units of a file, and what a fold leaves in the bitmap and in a
directory is an induction over data.  NoLockCycle needs the tree too: `unlink()`
waits for an inode with its directory locked, and only the absence of cycles among
directories makes that an order.

## 6. Findings

1. Run `List_append`.  The first `ListAppend` links a node to itself and
   `ListAdd` at the tail does not move the tail (`list_adders.c:145`, `60`).

Met while modelling, without a run of their own.  The models contain this
behaviour, and the properties are stated so that they except exactly these cases:

- `log_write()` tests for a full log before it looks for an entry to absorb
  (`log.c:219`).  Operations that together log exactly `LOGBLOCKS` blocks would
  panic at a write that needs no slot.  Latent: no operation writes that many.
- The error return of `pipewrite()` (`pipe.c:84`) skips `wakeup(&pi->nread)`: a
  reader sleeps beside the bytes of a killed writer (ReaderMissesOnlyKilled).
- `kkill(0)` matches the pid of an UNUSED slot and `allocproc()` does not clear
  `killed`, so the next process in that slot dies (`proc.c:598`; KilledWasAsked
  is stated for processes that do not call `kill(0)`).
- `create()` and `sys_link()` do not test whether the directory they have locked
  was removed after the path walk (`sysfile.c:282`, `151`).  The new inode has a
  link count of one and no name, and `ireclaim()` never frees it (DurableTree
  excepts `lost`).
- The `..` of a removed directory keeps naming its parent.  When the parent is
  removed and freed too, a walk through `..` ends in the panic "ilock: no type"
  (`fs.c:314`; script `DeadParent`).  InUseAllocated admits that panic for an
  inode that a walk looked up as `..`, and no other.
- The lazy branch of `sys_sbrk()` has no upper limit but wrap-around
  (`sysproc.c:69`), and a process whose size reaches `TRAPFRAME` makes a later
  fork or exit panic.  Calls of `sbrk()` in the model stop at `MaxSz`, a bound
  below `TRAPFRAME` that the code does not enforce: NoPanic, PagesAccounted and
  PrivateMemory, checked and proved, are about processes that stay below it.
- `ListConcat` does not refuse a list as its own second argument
  (`list_removers.c:65`): the nodes of such a list are lost.
- `ListNext` before the first item, `ListPrev` after the last and `ListConcat` onto
  an empty list index `pool_nodes` with -1 (`list_movers.c:89`, `114`,
  `list_removers.c:78`).  No property excludes it, since the code does it; CursorSafe
  is about the insertions.
- `usertests.c:2341` says that `balloc()` panics on a full disk; it returns 0 and
  the write is short, as `fsfull` and `diskfull` rely on.
- A1 and A3 print and free the counters without joining the children, so their
  summaries may be too small and a late child writes to freed memory;
  SummaryExact is stated for A2 and A4.  A1 does not test the allocation of
  `args`.  A4 leaves its shared memory behind when `malloc` or `fork` fails
  (Terminates excepts it).  A2's `mainp` sleeps with `usleep()`, which stops all
  user-level threads: the parent starts when `mainp` has set `end_time` and
  returned, and the total time it prints is that of the sleep, not of the work
  (`partA2.testresults.txt:49-52`: 50.56 ms and 6000.09 ms).  For A1 and A3
  nothing is stated of the end: `main()` returns whatever the threads do.

## 7. Not modelled

- Boot code, assembly, PLIC and UART registers: hardware layout, or run once.
- Console: its input ring with line editing; a candidate for a module.
- Of memory: the kernel page table, `copyinstr()`, the encoding of entries.  Of
  exec: reading the file (a program is a list of segments).
- Of file system calls: the two descriptors of `sys_pipe()`, the argument copying
  of `sys_exec()`.  The inode table has room for every inode.
- Of spinlocks the interrupt-enable nesting, of `syscall()` the printed trace
  line and the fetching of arguments, of `virtio_disk_init()` the negotiation.
- Bio gives a process one buffer at a time; `install_trans()` and `bmap()` hold
  two.
- User programs that only read, write and print; the shell's parser; `umalloc.c`;
  `primes.c` and `find.c`; the tests of memory, processes and pipes; the drafts
  of part A in `a1-phase2/`; scripts and test drivers.
- Of the Square programs the value that `Square()` returns, its use of the stack,
  and all times.

## 8. Plan

1. Proofs: what `writei()` and `itrunc()` leave in the bitmap, then BlocksOwned.
2. **Console**: input ring and line editing against a sequence of lines.
3. **Umalloc**: the circular free list against a set of intervals.
4. **Primes**: a composition of Proc and Pipe, a chain of processes.
