----------------------------- MODULE VirtioDisk -----------------------------
(***************************************************************************)
(* kernel/virtio_disk.c: the driver, its interrupt handler and the device. *)
(*                                                                         *)
(* virtio_disk_rw() is called by a process that owns a buffer (Bio).  A    *)
(* process step is one critical section of disk.vdisk_lock; the interrupt  *)
(* handler holds the lock over several steps, between which the device,    *)
(* which takes no lock, may finish further requests.  The available and    *)
(* the used ring are kept as what is in them: the index arithmetic modulo  *)
(* NUM never meets a full ring, because a request takes three descriptors. *)
(***************************************************************************)
EXTENDS Integers, Sequences, FiniteSets

CONSTANTS Procs, Blocks, Data, NoBlock,
          NBUF,   \* buffers
          NUM     \* descriptors of the queue

ASSUME VirtioAssumption ==
  /\ IsFiniteSet(Procs)
  /\ NoBlock \notin Blocks
  /\ NBUF \in Nat \ {0}
  /\ NUM \in Nat /\ NUM >= 3

Bufs == 1..NBUF
NoBuf == 0
Descs == 0..NUM - 1
NoDesc == NUM

VARIABLES
  platter,  \* the blocks on disk
  data,     \* b->data of each buffer
  busy,     \* b->disk: the buffers that the device owns
  free,     \* disk.free
  desc,     \* disk.desc with the headers of disk.ops
  info,     \* disk.info
  avail,    \* the chains that the device has not finished
  used,     \* the used ring from disk.used_idx on
  irq,      \* the device's interrupt is pending
  intr,     \* a CPU is in virtio_disk_intr(), with vdisk_lock
  io,       \* where a process is in virtio_disk_rw()
  req,      \* its arguments and idx[0]
  panic

driverVars == <<busy, free, desc, info, avail, used, irq, intr>>
ioVars == <<platter, data, driverVars, io, req>>
diskVars == <<ioVars, panic>>

IoLabels == {"none", "alloc", "nodesc", "asleep", "woken"}
NoReq == [buf |-> NoBuf, block |-> NoBlock, write |-> FALSE, head |-> NoDesc]

\* A descriptor: what addr points to (a command, a buffer or a status byte)
\* and next, or NoDesc when VRING_DESC_F_NEXT is not set.
Cleared == [kind |-> "none", block |-> NoBlock, ref |-> 0, next |-> NoDesc]
CommandDesc(r, nxt) ==
  [kind |-> IF r.write THEN "out" ELSE "in", block |-> r.block, ref |-> 0, next |-> nxt]
DataDesc(r, nxt) == [kind |-> "data", block |-> NoBlock, ref |-> r.buf, next |-> nxt]
StatusDesc(head) == [kind |-> "status", block |-> NoBlock, ref |-> head, next |-> NoDesc]

DiskTypeOK ==
  /\ platter \in [Blocks -> Data]
  /\ data \in [Bufs -> Data]
  /\ busy \subseteq Bufs
  /\ free \subseteq Descs
  /\ desc \in [Descs -> [kind : {"none", "in", "out", "data", "status"},
                         block : Blocks \cup {NoBlock}, ref : Nat, next : 0..NUM]]
  /\ info \in [Descs -> [b : 0..NBUF, status : {0, 255}]]
  /\ avail \subseteq Descs
  /\ used \in Seq(Descs)
  /\ irq \in BOOLEAN /\ intr \in BOOLEAN
  /\ io \in [Procs -> IoLabels]
  /\ req \in [Procs -> [buf : 0..NBUF, block : Blocks \cup {NoBlock},
                        write : BOOLEAN, head : 0..NUM]]
  /\ panic \in {"none", "no buffers", "free_desc", "intr status"}

\* virtio_disk_init()
DiskInit ==
  /\ platter \in [Blocks -> Data]
  /\ \E v \in Data : data = [k \in Bufs |-> v]
  /\ busy = {}
  /\ free = Descs
  /\ desc = [d \in Descs |-> Cleared]
  /\ info = [d \in Descs |-> [b |-> NoBuf, status |-> 0]]
  /\ avail = {} /\ used = <<>>
  /\ irq = FALSE /\ intr = FALSE
  /\ io = [p \in Procs |-> "none"]
  /\ req = [p \in Procs |-> NoReq]
  /\ panic = "none"

-----------------------------------------------------------------------------
\* Mutant: the wakeup is forgotten.
WakeAllocs_Lost(f) == f

\* wakeup(&disk.free[0]) and wakeup(b)
WakeAllocs(f) == [p \in Procs |-> IF f[p] = "nodesc" THEN "alloc" ELSE f[p]]
WakeOwner(f, k) ==
  [p \in Procs |-> IF f[p] = "asleep" /\ req[p].buf = k THEN "woken" ELSE f[p]]

\* virtio_disk_rw(k, write) is called.
RwCall(p, k, b, write) ==
  /\ io[p] = "none"
  /\ io' = [io EXCEPT ![p] = "alloc"]
  /\ req' = [req EXCEPT ![p] = [buf |-> k, block |-> b, write |-> write, head |-> NoDesc]]
  /\ UNCHANGED <<platter, data, driverVars, panic>>

\* alloc3_desc() fails: what it got goes back, each free_desc() with its
\* wakeup, and the process sleeps.
NoDescriptors(p) ==
  /\ io[p] = "alloc" /\ ~intr
  /\ Cardinality(free) < 3
  /\ io' = [IF free = {} THEN io ELSE WakeAllocs(io) EXCEPT ![p] = "nodesc"]
  /\ UNCHANGED <<platter, data, driverVars, req, panic>>

\* alloc3_desc() takes the first three free descriptors; the request is
\* formatted, made available and waited for.
Submit(p) ==
  /\ io[p] = "alloc" /\ ~intr
  /\ \E i, j, k \in free :
       /\ i < j /\ j < k /\ \A d \in free : d \in {i, j} \/ d >= k
       /\ free' = free \ {i, j, k}
       /\ desc' = [desc EXCEPT ![i] = CommandDesc(req[p], j),
                               ![j] = DataDesc(req[p], k),
                               ![k] = StatusDesc(i)]
       /\ info' = [info EXCEPT ![i] = [b |-> req[p].buf, status |-> 255]]
       /\ avail' = avail \cup {i}
       /\ req' = [req EXCEPT ![p].head = i]
  /\ busy' = busy \cup {req[p].buf}
  /\ io' = [io EXCEPT ![p] = "asleep"]
  /\ UNCHANGED <<platter, data, used, irq, intr, panic>>

\* while(b->disk == 1) sleep(b, &disk.vdisk_lock)
SleepAgain(p) ==
  /\ io[p] = "woken" /\ ~intr
  /\ req[p].buf \in busy
  /\ io' = [io EXCEPT ![p] = "asleep"]
  /\ UNCHANGED <<platter, data, driverVars, req, panic>>

\* Mutant: the status descriptor is left out.
Chain_Two(i) == {i, desc[i].next}

\* The descriptors that free_chain(i) visits.
Chain(i) ==
  LET j == desc[i].next
      k == IF j = NoDesc THEN NoDesc ELSE desc[j].next
  IN  {i, j, k} \ {NoDesc}

\* Mutant: b->disk is not tested again after sleep().
RwReturn_If(p) ==
  LET chain == Chain(req[p].head) IN
  /\ io[p] = "woken" /\ ~intr
  /\ info' = [info EXCEPT ![req[p].head].b = NoBuf]
  /\ desc' = [d \in Descs |-> IF d \in chain THEN Cleared ELSE desc[d]]
  /\ free' = free \cup chain
  /\ panic' = panic
  /\ io' = [WakeAllocs(io) EXCEPT ![p] = "none"]
  /\ req' = [req EXCEPT ![p] = NoReq]
  /\ UNCHANGED <<platter, data, busy, avail, used, irq, intr>>

\* The end of virtio_disk_rw(): free_chain() and the return.
RwReturn(p) ==
  LET chain == Chain(req[p].head) IN
  /\ io[p] = "woken" /\ ~intr
  /\ req[p].buf \notin busy
  /\ info' = [info EXCEPT ![req[p].head].b = NoBuf]
  /\ desc' = [d \in Descs |-> IF d \in chain THEN Cleared ELSE desc[d]]
  /\ free' = free \cup chain
  /\ panic' = IF chain \cap free # {} THEN "free_desc" ELSE panic
  /\ io' = [WakeAllocs(io) EXCEPT ![p] = "none"]
  /\ req' = [req EXCEPT ![p] = NoReq]
  /\ UNCHANGED <<platter, data, busy, avail, used, irq, intr>>

-----------------------------------------------------------------------------
\* The device takes the chains in any order, moves the data, writes the
\* status, appends to the used ring and raises its interrupt.
DeviceDone(i) ==
  LET d == desc[i].next
      s == desc[d].next
      k == desc[d].ref
  IN
  /\ i \in avail
  /\ IF desc[i].kind = "out"
     THEN platter' = [platter EXCEPT ![desc[i].block] = data[k]] /\ UNCHANGED data
     ELSE data' = [data EXCEPT ![k] = platter[desc[i].block]] /\ UNCHANGED platter
  /\ info' = [info EXCEPT ![desc[s].ref].status = 0]
  /\ avail' = avail \ {i}
  /\ used' = Append(used, i)
  /\ irq' = TRUE
  /\ UNCHANGED <<busy, free, desc, intr, io, req, panic>>

\* virtio_disk_intr() gets the lock and acknowledges the interrupt ...
IntrAck ==
  /\ irq /\ ~intr
  /\ intr' = TRUE
  /\ irq' = FALSE
  /\ UNCHANGED <<platter, data, busy, free, desc, info, avail, used, io, req, panic>>

\* ... handles one used entry after the other ...
IntrOne ==
  LET id == Head(used) IN
  /\ intr /\ used # <<>>
  /\ panic' = IF info[id].status # 0 THEN "intr status" ELSE panic
  /\ busy' = busy \ {info[id].b}
  /\ io' = WakeOwner(io, info[id].b)
  /\ used' = Tail(used)
  /\ UNCHANGED <<platter, data, free, desc, info, avail, irq, intr, req>>

\* Mutant: one entry for each interrupt.
IntrEnd_One ==
  /\ intr
  /\ intr' = FALSE
  /\ UNCHANGED <<platter, data, busy, free, desc, info, avail, used, irq, io, req, panic>>

\* ... and releases the lock when disk.used_idx has reached disk.used->idx.
IntrEnd ==
  /\ intr /\ used = <<>>
  /\ intr' = FALSE
  /\ UNCHANGED <<platter, data, busy, free, desc, info, avail, used, irq, io, req, panic>>

\* kkill() makes a sleeping process RUNNABLE whatever it waits for.
Kicked(p) ==
  /\ io[p] \in {"nodesc", "asleep"}
  /\ io' = [io EXCEPT ![p] = IF @ = "nodesc" THEN "alloc" ELSE "woken"]
  /\ UNCHANGED <<platter, data, driverVars, req, panic>>

-----------------------------------------------------------------------------
(* The driver on its own: any process that has a buffer to itself calls     *)
(* virtio_disk_rw().                                                        *)

Call(p) ==
  \E k \in Bufs, b \in Blocks, write \in BOOLEAN :
    /\ \A q \in Procs : req[q].buf # k
    /\ RwCall(p, k, b, write)

DiskNext ==
  /\ panic = "none"
  /\ \/ \E p \in Procs : \/ Call(p) \/ NoDescriptors(p) \/ Submit(p)
                         \/ SleepAgain(p) \/ RwReturn(p) \/ Kicked(p)
     \/ \E i \in Descs : DeviceDone(i)
     \/ IntrAck \/ IntrOne \/ IntrEnd

\* The device serves its queue, the CPU that takes the interrupt runs the
\* handler, and whoever spins on vdisk_lock gets it sooner or later although
\* others take it in between.  Nobody has to call virtio_disk_rw().
DiskFairness ==
  /\ WF_diskVars(IntrOne \/ IntrEnd) /\ SF_diskVars(IntrAck)
  /\ \A p \in Procs : WF_diskVars(DeviceDone(req[p].head)) /\ SF_diskVars(RwReturn(p))

DiskSpec == DiskInit /\ [][DiskNext]_diskVars
DiskFairSpec == DiskSpec /\ DiskFairness

-----------------------------------------------------------------------------
InFlight == {p \in Procs : io[p] \in {"asleep", "woken"}}

\* The idx array of a request in flight.
Idx(p) ==
  LET i == req[p].head  j == desc[i].next IN <<i, j, desc[j].next>>
Taken(p) == {Idx(p)[1], Idx(p)[2], Idx(p)[3]}

\* The descriptors that are not free are those of the requests in flight, each
\* in one chain that still says what its owner asked for, and the driver's
\* panics (a descriptor freed twice, a completion without status) do not happen.
DescriptorsOwned ==
  /\ panic \notin {"free_desc", "intr status"}
  /\ Descs \ free = UNION {Taken(p) : p \in InFlight}
  /\ \A p, q \in InFlight : p # q => Taken(p) \cap Taken(q) = {}
  /\ \A p \in InFlight :
       /\ desc[Idx(p)[1]] = CommandDesc(req[p], Idx(p)[2])
       /\ desc[Idx(p)[2]] = DataDesc(req[p], Idx(p)[3])
       /\ desc[Idx(p)[3]] = StatusDesc(Idx(p)[1])
       /\ info[Idx(p)[1]].b = req[p].buf

\* Nobody is asleep in virtio_disk_rw() without somebody who will wake it: a
\* request that the device or the handler still has, or an interrupt to come;
\* and who waits for descriptors waits for requests in flight.
NobodyForgotten ==
  \A p \in Procs :
    /\ io[p] = "asleep" => \/ req[p].head \in avail
                           \/ /\ \E i \in 1..Len(used) : used[i] = req[p].head
                              /\ irq \/ intr
    /\ io[p] = "nodesc" => InFlight # {}

\* virtio_disk_rw() returns once the request is with the device, in whatever
\* order the device completes requests.
IoCompletes == \A p \in Procs : (p \in InFlight) ~> (p \notin InFlight)
=============================================================================
