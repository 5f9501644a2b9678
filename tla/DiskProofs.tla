----------------------------- MODULE DiskProofs -----------------------------
(***************************************************************************)
(* Proofs about the disk driver (VirtioDisk) and the buffer cache on top   *)
(* of it (Bio), for every number of buffers and descriptors and every set  *)
(* of processes, blocks and data.                                          *)
(***************************************************************************)
EXTENDS Bio, FiniteSetTheorems, SequenceTheorems, TLAPS

(* The driver's invariant.                                                 *)

\* The three descriptors of the request of p.
H(p) == req[p].head
D(p) == desc[H(p)].next
S(p) == desc[D(p)].next

\* The process whose request has its command in descriptor i.
Owns(p, i) == p \in InFlight /\ H(p) = i

\* A call of virtio_disk_rw() has a buffer to itself, and a block.
ReqInv ==
  /\ \A p \in Procs : io[p] = "none" => req[p] = NoReq
  /\ \A p \in Procs : io[p] # "none" => req[p].buf \in Bufs /\ req[p].block \in Blocks
  /\ \A p, q \in Procs : io[p] # "none" /\ io[q] # "none" /\ req[p].buf = req[q].buf => p = q

\* A request in flight has a chain of three descriptors that says what was asked
\* for, and no other descriptor is in use.
ChainInv ==
  /\ \A p \in InFlight :
       /\ H(p) \in Descs \ free /\ D(p) \in Descs \ free /\ S(p) \in Descs \ free
       /\ desc[H(p)] = CommandDesc(req[p], D(p))
       /\ desc[D(p)] = DataDesc(req[p], S(p))
       /\ desc[S(p)] = StatusDesc(H(p))
       /\ info[H(p)].b = req[p].buf
  /\ \A d \in Descs \ free : \E p \in InFlight : d \in {H(p), D(p), S(p)}

\* What the device still has.
AvailInv == \A i \in avail : \E p \in InFlight : H(p) = i /\ req[p].buf \in busy

\* What the device has done and the handler has not seen.
UsedInv ==
  /\ \A n \in 1..Len(used) :
       /\ used[n] \notin avail
       /\ info[used[n]].status = 0
       /\ \E p \in InFlight : H(p) = used[n] /\ req[p].buf \in busy
  /\ \A m, n \in 1..Len(used) : used[m] = used[n] => m = n
  /\ used # <<>> => irq \/ intr

\* b->disk is set from the submission until the handler clears it, and a process
\* sleeps on its buffer only as long as it is set.
BusyInv ==
  /\ \A p \in InFlight : req[p].buf \in busy =>
       H(p) \in avail \/ \E n \in 1..Len(used) : used[n] = H(p)
  /\ \A k \in busy : \E p \in InFlight : req[p].buf = k
  /\ \A p \in Procs : io[p] = "asleep" => req[p].buf \in busy

\* Who waits for descriptors waits for a request in flight.
WaitInv == \A p \in Procs : io[p] = "nodesc" => InFlight # {}

DriverPanic == panic \in {"free_desc", "intr status"}

DInv == DiskTypeOK /\ ReqInv /\ ChainInv /\ AvailInv /\ UsedInv /\ BusyInv /\ WaitInv /\ ~DriverPanic

-----------------------------------------------------------------------------
(* The buffer cache's invariant.                                           *)

\* The processes between bget() and the end of brelse() of buffer k.
Users(k) == {p \in Procs : mybuf[p] = k}
Pins(k) == IF blockno[k] \in pinned THEN 1 ELSE 0

\* A process has a buffer from bget() to brelse(), and the buffer's sleep-lock in
\* between.
UserInv ==
  /\ \A p \in Procs : pc[p] = "idle" <=> mybuf[p] = NoBuf
  /\ \A p \in Procs : pc[p] # "idle" => blockno[mybuf[p]] \in Blocks
  /\ \A p \in Procs, k \in Bufs : lock[k] = p <=> mybuf[p] = k /\ pc[p] \in {"read", "hold", "write"}

\* It is in the driver in the two calls of virtio_disk_rw(), for its own buffer.
IoOf(p) ==
  /\ io[p] # "none" <=> pc[p] \in {"read", "write"}
  /\ pc[p] \in {"read", "write"} =>
       /\ req[p].buf = mybuf[p]
       /\ req[p].block = blockno[mybuf[p]]
       /\ req[p].write = IF pc[p] = "write" THEN TRUE ELSE FALSE
IoInv == \A p \in Procs : IoOf(p)

\* b->valid.
ValidInv ==
  /\ \A p \in Procs : pc[p] \in {"hold", "write"} => valid[mybuf[p]]
  /\ \A p \in Procs : pc[p] = "read" => ~valid[mybuf[p]]

\* refcnt counts the users of the buffer and its pin.
RefInv == \A k \in Bufs : refcnt[k] = Cardinality(Users(k)) + Pins(k)

\* A pinned block stays in its buffer.
PinInv == \A b \in pinned : \E k \in Bufs : blockno[k] = b /\ valid[k]

\* What the device has read is what is on the disk until bread() returns.
ReadInv ==
  \A p \in InFlight : pc[p] = "read" /\ H(p) \notin avail =>
    data[mybuf[p]] = platter[blockno[mybuf[p]]]

\* bget() has panicked only with every buffer referenced.
PanicInv == panic = "no buffers" => \A k \in Bufs : refcnt[k] # 0

BInv == /\ TypeOK /\ DInv /\ OneBuffer /\ UserInv /\ IoInv /\ ValidInv /\ RefInv /\ PinInv /\ ReadInv
        /\ PanicInv

-----------------------------------------------------------------------------
(* The driver.                                                             *)

\* The kinds of the descriptors tell the three places of a chain apart.
LEMMA ChainFacts ==
  ASSUME DInv, NEW p \in InFlight
  PROVE  /\ p \in Procs /\ io[p] \in {"asleep", "woken"}
         /\ req[p].buf \in Bufs /\ req[p].block \in Blocks
         /\ H(p) \in Descs \ free /\ D(p) \in Descs \ free /\ S(p) \in Descs \ free
         /\ desc[H(p)].kind = IF req[p].write THEN "out" ELSE "in"
         /\ desc[H(p)].block = req[p].block
         /\ desc[D(p)].kind = "data" /\ desc[D(p)].ref = req[p].buf
         /\ desc[S(p)].kind = "status" /\ desc[S(p)].ref = H(p)
         /\ info[H(p)].b = req[p].buf
<1>1. p \in Procs /\ io[p] \in {"asleep", "woken"}
  BY DEF InFlight
<1>2. req[p].buf \in Bufs /\ req[p].block \in Blocks
  BY <1>1 DEF DInv, ReqInv
<1>3. /\ H(p) \in Descs \ free /\ D(p) \in Descs \ free /\ S(p) \in Descs \ free
      /\ desc[H(p)] = CommandDesc(req[p], D(p))
      /\ desc[D(p)] = DataDesc(req[p], S(p))
      /\ desc[S(p)] = StatusDesc(H(p))
      /\ info[H(p)].b = req[p].buf
  BY DEF DInv, ChainInv
<1>4. /\ desc[H(p)].kind = IF req[p].write THEN "out" ELSE "in"
      /\ desc[H(p)].block = req[p].block
  <2>1. CASE req[p].write
    BY <1>3, <2>1 DEF CommandDesc
  <2>2. CASE ~req[p].write
    BY <1>3, <2>2 DEF CommandDesc
  <2> QED  BY <2>1, <2>2
<1>5. desc[D(p)].kind = "data" /\ desc[D(p)].ref = req[p].buf
  BY <1>3 DEF DataDesc
<1>6. desc[S(p)].kind = "status" /\ desc[S(p)].ref = H(p)
  BY <1>3 DEF StatusDesc
<1> QED  BY <1>1, <1>2, <1>3, <1>4, <1>5, <1>6

\* Different requests use different descriptors.
LEMMA ChainsDisjoint ==
  ASSUME DInv, NEW p \in InFlight, NEW q \in InFlight, {H(p), D(p), S(p)} \cap {H(q), D(q), S(q)} # {}
  PROVE  p = q
<1>1. /\ desc[H(p)].kind \in {"in", "out"} /\ desc[D(p)].kind = "data" /\ desc[S(p)].kind = "status"
      /\ desc[D(p)].ref = req[p].buf /\ desc[S(p)].ref = H(p) /\ info[H(p)].b = req[p].buf
  BY ChainFacts
<1>2. /\ desc[H(q)].kind \in {"in", "out"} /\ desc[D(q)].kind = "data" /\ desc[S(q)].kind = "status"
      /\ desc[D(q)].ref = req[q].buf /\ desc[S(q)].ref = H(q) /\ info[H(q)].b = req[q].buf
  BY ChainFacts
<1>3. H(p) = H(q) \/ D(p) = D(q) \/ S(p) = S(q)
  BY <1>1, <1>2
<1>4. req[p].buf = req[q].buf
  BY <1>1, <1>2, <1>3
<1> QED  BY <1>4 DEF DInv, ReqInv, InFlight

\* virtio_disk_init()
LEMMA DiskInitHolds == DiskInit => DInv
<1> SUFFICES ASSUME DiskInit PROVE DInv
  OBVIOUS
<1> USE VirtioAssumption DEF DiskInit, Bufs, NoBuf, Descs, NoDesc
<1>1. DiskTypeOK
  <2>1. /\ platter \in [Blocks -> Data]
        /\ irq \in BOOLEAN /\ intr \in BOOLEAN
        /\ panic \in {"none", "no buffers", "free_desc", "intr status"}
    OBVIOUS
  <2>2. busy \subseteq Bufs /\ free \subseteq Descs /\ avail \subseteq Descs
    OBVIOUS
  <2>3. used \in Seq(Descs)
    OBVIOUS
  <2>4. desc \in [Descs -> [kind : {"none", "in", "out", "data", "status"},
                            block : Blocks \cup {NoBlock}, ref : Nat, next : 0..NUM]]
    BY DEF Cleared
  <2>5. info \in [Descs -> [b : 0..NBUF, status : {0, 255}]]
    OBVIOUS
  <2>6. io \in [Procs -> IoLabels]
    BY DEF IoLabels
  <2>7. req \in [Procs -> [buf : 0..NBUF, block : Blocks \cup {NoBlock},
                           write : BOOLEAN, head : 0..NUM]]
    BY DEF NoReq
  <2>8. data \in [Bufs -> Data]
    OBVIOUS
  <2> QED  BY <2>1, <2>2, <2>3, <2>4, <2>5, <2>6, <2>7, <2>8 DEF DiskTypeOK
<1>2. InFlight = {}
  BY DEF InFlight
<1>3. ReqInv  BY DEF ReqInv
<1>4. ChainInv  BY <1>2 DEF ChainInv
<1>5. AvailInv /\ UsedInv  BY DEF AvailInv, UsedInv
<1>6. BusyInv /\ WaitInv  BY <1>2 DEF BusyInv, WaitInv
<1>7. ~DriverPanic  BY DEF DriverPanic
<1> QED  BY <1>1, <1>3, <1>4, <1>5, <1>6, <1>7 DEF DInv

\* A step that leaves the queue alone and moves processes without starting or
\* ending a request keeps what is said of the chains.
LEMMA QueueUntouched ==
  ASSUME DInv, UNCHANGED <<busy, free, desc, info, avail, used>>, InFlight' = InFlight,
         \A q \in InFlight : req'[q] = req[q], irq' \/ intr' \/ ~(irq \/ intr),
         \A q \in Procs : io'[q] = "asleep" => io[q] = "asleep" \/ req'[q].buf \in busy,
         \A q \in Procs : io'[q] = "nodesc" => io[q] = "nodesc" \/ InFlight # {}
  PROVE  ChainInv' /\ AvailInv' /\ UsedInv' /\ BusyInv' /\ WaitInv'
<1>1. \A q \in InFlight : H(q)' = H(q) /\ D(q)' = D(q) /\ S(q)' = S(q)
  BY DEF H, D, S
<1>2. ChainInv'
  BY <1>1 DEF DInv, ChainInv
<1>3. AvailInv'
  BY <1>1 DEF DInv, AvailInv
<1>4. UsedInv'
  BY <1>1 DEF DInv, UsedInv
<1>5. BusyInv'
  <2>1. \A q \in Procs : io[q] = "asleep" => q \in InFlight
    BY DEF InFlight
  <2> QED  BY <1>1, <2>1 DEF DInv, BusyInv
<1>6. WaitInv'
  BY DEF DInv, WaitInv
<1> QED  BY <1>2, <1>3, <1>4, <1>5, <1>6

\* A process calls virtio_disk_rw() with a buffer of its own.
LEMMA RwCallKeeps ==
  ASSUME DInv, NEW p \in Procs, NEW k \in Bufs, NEW b \in Blocks, NEW write \in BOOLEAN,
         \A q \in Procs : io[q] # "none" => req[q].buf # k, RwCall(p, k, b, write)
  PROVE  DInv'
<1> USE VirtioAssumption DEF RwCall, driverVars
<1>1. DiskTypeOK'
  <2>1. io' \in [Procs -> IoLabels]
    BY DEF DInv, DiskTypeOK, IoLabels
  <2>2. req' \in [Procs -> [buf : 0..NBUF, block : Blocks \cup {NoBlock},
                            write : BOOLEAN, head : 0..NUM]]
    <3> DEFINE Req == [buf : 0..NBUF, block : Blocks \cup {NoBlock}, write : BOOLEAN, head : 0..NUM]
               r == [buf |-> k, block |-> b, write |-> write, head |-> NoDesc]
    <3>1. r \in Req
      BY DEF Bufs, NoDesc
    <3>2. req \in [Procs -> Req] /\ req' = [req EXCEPT ![p] = r]
      BY DEF DInv, DiskTypeOK
    <3> QED  BY ONLY <3>1, <3>2
  <2> QED  BY <2>1, <2>2 DEF DInv, DiskTypeOK
<1>2. io \in [Procs -> IoLabels] /\ req \in [Procs -> [buf : 0..NBUF, block : Blocks \cup {NoBlock},
                            write : BOOLEAN, head : 0..NUM]]
  BY DEF DInv, DiskTypeOK
<1>3. ReqInv'
  BY <1>2 DEF DInv, ReqInv
<1>4. InFlight' = InFlight /\ \A q \in InFlight : req'[q] = req[q]
  BY <1>2 DEF InFlight
<1>5. ChainInv' /\ AvailInv' /\ UsedInv' /\ BusyInv' /\ WaitInv'
  <2>1. \A q \in Procs : io'[q] \in {"asleep", "nodesc"} => io'[q] = io[q]
    BY <1>2
  <2> QED  BY <1>4, <2>1, QueueUntouched
<1> QED  BY <1>1, <1>3, <1>5 DEF DInv, DriverPanic

\* A process that finds too few descriptors sleeps: some request is in flight.
LEMMA NoDescriptorsKeeps == ASSUME DInv, NEW p \in Procs, NoDescriptors(p) PROVE DInv'
<1> USE VirtioAssumption DEF NoDescriptors, driverVars
<1>1. io \in [Procs -> IoLabels] /\ free \subseteq Descs
  BY DEF DInv, DiskTypeOK
<1>2. /\ io' \in [Procs -> IoLabels]
      /\ io'[p] = "nodesc"
      /\ \A q \in Procs \ {p} : io'[q] = io[q] \/ (io[q] = "nodesc" /\ io'[q] = "alloc")
  BY <1>1 DEF WakeAllocs, IoLabels
<1>3. DiskTypeOK'
  BY <1>2 DEF DInv, DiskTypeOK
<1>4. ReqInv'
  <2>1. \A q \in Procs : io'[q] = "none" <=> io[q] = "none"
    BY <1>2
  <2> QED  BY <2>1 DEF DInv, ReqInv
<1>5. InFlight' = InFlight
  BY <1>2 DEF InFlight
<1>6. InFlight # {}
  <2>1. Cardinality(Descs) = NUM
    <3>1. 0 \in Int /\ NUM - 1 \in Int /\ ~(0 > NUM - 1) /\ (NUM - 1) - 0 + 1 = NUM
      OBVIOUS
    <3> QED  BY <3>1, FS_Interval DEF Descs
  <2>2. free # Descs
    BY <2>1
  <2> QED  BY <1>1, <2>2 DEF DInv, ChainInv
<1>7. ChainInv' /\ AvailInv' /\ UsedInv' /\ BusyInv' /\ WaitInv'
  <2>1. \A q \in Procs : io'[q] = "asleep" => io[q] = "asleep"
    BY <1>2
  <2> QED  BY <1>5, <1>6, <2>1, QueueUntouched
<1> QED  BY <1>3, <1>4, <1>7 DEF DInv, DriverPanic

\* A process whose buffer is still with the device sleeps again.
LEMMA SleepAgainKeeps == ASSUME DInv, NEW p \in Procs, SleepAgain(p) PROVE DInv'
<1> USE DEF SleepAgain, driverVars
<1>1. io \in [Procs -> IoLabels]
  BY DEF DInv, DiskTypeOK
<1>2. io' \in [Procs -> IoLabels]
  BY <1>1 DEF IoLabels
<1>3. DiskTypeOK'
  BY <1>2 DEF DInv, DiskTypeOK
<1>4. ReqInv'
  <2>1. \A q \in Procs : io'[q] = "none" <=> io[q] = "none"
    BY <1>1
  <2> QED  BY <2>1 DEF DInv, ReqInv
<1>5. InFlight' = InFlight
  BY <1>1 DEF InFlight
<1>6. ChainInv' /\ AvailInv' /\ UsedInv' /\ BusyInv' /\ WaitInv'
  <2>1. \A q \in Procs : io'[q] = "asleep" => io[q] = "asleep" \/ req'[q].buf \in busy
    BY <1>1
  <2>2. \A q \in Procs : io'[q] = "nodesc" => io[q] = "nodesc"
    BY <1>1
  <2> QED  BY <1>5, <2>1, <2>2, QueueUntouched
<1> QED  BY <1>3, <1>4, <1>6 DEF DInv, DriverPanic

\* kkill() makes a sleeping process look at its condition again.
LEMMA KickedKeeps == ASSUME DInv, NEW p \in Procs, Kicked(p) PROVE DInv'
<1> USE DEF Kicked, driverVars
<1>1. io \in [Procs -> IoLabels]
  BY DEF DInv, DiskTypeOK
<1>2. /\ io' \in [Procs -> IoLabels]
      /\ \A q \in Procs : \/ io'[q] = io[q]
                          \/ io[q] = "nodesc" /\ io'[q] = "alloc"
                          \/ io[q] = "asleep" /\ io'[q] = "woken"
  BY <1>1 DEF IoLabels
<1>3. DiskTypeOK'
  BY <1>2 DEF DInv, DiskTypeOK
<1>4. ReqInv'
  <2>1. \A q \in Procs : io'[q] = "none" <=> io[q] = "none"
    BY <1>2
  <2> QED  BY <2>1 DEF DInv, ReqInv
<1>5. InFlight' = InFlight
  BY <1>2 DEF InFlight
<1>6. ChainInv' /\ AvailInv' /\ UsedInv' /\ BusyInv' /\ WaitInv'
  <2>1. \A q \in Procs : io'[q] \in {"asleep", "nodesc"} => io'[q] = io[q]
    BY <1>2
  <2> QED  BY <1>5, <2>1, QueueUntouched
<1> QED  BY <1>3, <1>4, <1>6 DEF DInv, DriverPanic

\* virtio_disk_intr() acknowledges the interrupt before it looks at the ring.
LEMMA IntrAckKeeps == ASSUME DInv, IntrAck PROVE DInv'
<1> USE DEF IntrAck
<1>1. DiskTypeOK'
  BY DEF DInv, DiskTypeOK
<1>2. ReqInv'
  BY DEF DInv, ReqInv
<1>3. InFlight' = InFlight
  BY DEF InFlight
<1>4. ChainInv' /\ AvailInv' /\ UsedInv' /\ BusyInv' /\ WaitInv'
  BY <1>3, QueueUntouched
<1> QED  BY <1>1, <1>2, <1>4 DEF DInv, DriverPanic

\* The handler returns only with an empty ring.
LEMMA IntrEndKeeps == ASSUME DInv, IntrEnd PROVE DInv'
<1> USE DEF IntrEnd
<1>1. DiskTypeOK'
  BY DEF DInv, DiskTypeOK
<1>2. ReqInv'
  BY DEF DInv, ReqInv
<1>3. InFlight' = InFlight
  BY DEF InFlight
<1>4. \A q \in InFlight : H(q)' = H(q) /\ D(q)' = D(q) /\ S(q)' = S(q)
  BY DEF H, D, S
<1>5. ChainInv'  BY <1>3, <1>4 DEF DInv, ChainInv
<1>6. AvailInv'  BY <1>3, <1>4 DEF DInv, AvailInv
<1>7. UsedInv'  BY <1>3, <1>4 DEF DInv, UsedInv
<1>8. BusyInv'  BY <1>3, <1>4 DEF DInv, BusyInv
<1>9. WaitInv'  BY <1>3 DEF DInv, WaitInv
<1> QED  BY <1>1, <1>2, <1>5, <1>6, <1>7, <1>8, <1>9 DEF DInv, DriverPanic

\* A request takes three free descriptors, which no other request uses.
LEMMA SubmitKeeps == ASSUME DInv, NEW p \in Procs, Submit(p) PROVE DInv'
<1> USE VirtioAssumption
<1> DEFINE Req == [buf : 0..NBUF, block : Blocks \cup {NoBlock}, write : BOOLEAN, head : 0..NUM]
           Desc == [kind : {"none", "in", "out", "data", "status"},
                    block : Blocks \cup {NoBlock}, ref : Nat, next : 0..NUM]
           Info == [b : 0..NBUF, status : {0, 255}]
<1>1. PICK i, j, k \in free :
        /\ i < j /\ j < k
        /\ free' = free \ {i, j, k}
        /\ desc' = [desc EXCEPT ![i] = CommandDesc(req[p], j),
                                ![j] = DataDesc(req[p], k),
                                ![k] = StatusDesc(i)]
        /\ info' = [info EXCEPT ![i] = [b |-> req[p].buf, status |-> 255]]
        /\ avail' = avail \cup {i}
        /\ req' = [req EXCEPT ![p].head = i]
  BY ZenonT(30) DEF Submit
<1>2. /\ io[p] = "alloc"
      /\ busy' = busy \cup {req[p].buf}
      /\ io' = [io EXCEPT ![p] = "asleep"]
      /\ UNCHANGED <<platter, data, used, irq, intr, panic>>
  BY DEF Submit
<1>3. /\ io \in [Procs -> IoLabels] /\ req \in [Procs -> Req] /\ desc \in [Descs -> Desc]
      /\ info \in [Descs -> Info] /\ free \subseteq Descs /\ avail \subseteq Descs
      /\ busy \subseteq Bufs /\ used \in Seq(Descs)
  BY DEF DInv, DiskTypeOK
<1>4. /\ i \in Descs /\ j \in Descs /\ k \in Descs /\ i # j /\ j # k /\ i # k
      /\ i \in 0..NUM /\ j \in 0..NUM /\ k \in 0..NUM /\ i \in Nat
  <2>1. i \in free /\ j \in free /\ k \in free /\ i < j /\ j < k /\ free \subseteq 0..NUM - 1
    BY <1>1, <1>3 DEF Descs
  <2> QED  BY ONLY <2>1, VirtioAssumption DEF Descs
<1>5. req[p].buf \in Bufs /\ req[p].block \in Blocks /\ req[p] \in Req
  BY <1>2, <1>3 DEF DInv, ReqInv
<1>6. /\ req'[p].head = i /\ req'[p].buf = req[p].buf /\ req'[p].block = req[p].block
      /\ req'[p].write = req[p].write /\ req'[p] \in Req
      /\ \A q \in Procs \ {p} : req'[q] = req[q]
  <2>1. req' = [req EXCEPT ![p] = [req[p] EXCEPT !.head = i]] /\ p \in DOMAIN req
    BY <1>1, <1>3
  <2>2. req'[p] = [req[p] EXCEPT !.head = i] /\ \A q \in Procs \ {p} : req'[q] = req[q]
    BY <1>3, <2>1
  <2> QED  BY ONLY <1>4, <1>5, <2>2
<1>7. /\ desc'[i] = CommandDesc(req[p], j) /\ desc'[j] = DataDesc(req[p], k)
      /\ desc'[k] = StatusDesc(i)
      /\ \A d \in Descs \ {i, j, k} : desc'[d] = desc[d]
  BY <1>1, <1>3, <1>4
<1>8. DiskTypeOK'
  <2>1. req' \in [Procs -> Req]
    BY <1>1, <1>3, <1>6
  <2>2. CommandDesc(req[p], j) \in Desc
    <3>1. CASE req[p].write
      BY <1>4, <1>5, <3>1 DEF CommandDesc
    <3>2. CASE ~req[p].write
      BY <1>4, <1>5, <3>2 DEF CommandDesc
    <3> QED  BY <3>1, <3>2
  <2>3. DataDesc(req[p], k) \in Desc /\ StatusDesc(i) \in Desc
    BY <1>4, <1>5 DEF DataDesc, StatusDesc, Bufs, NoDesc
  <2>4. desc' \in [Descs -> Desc]
    <3> HIDE DEF Desc
    <3> QED  BY <1>1, <1>3, <2>2, <2>3
  <2>5. info' \in [Descs -> Info]
    BY <1>1, <1>3, <1>5
  <2>6. io' \in [Procs -> IoLabels]
    BY <1>2, <1>3 DEF IoLabels
  <2>7. busy' \subseteq Bufs
    BY <1>2, <1>3, <1>5
  <2>8. free' \subseteq Descs /\ avail' \subseteq Descs
    BY <1>1, <1>3, <1>4, ZenonT(30)
  <2> QED  BY <1>2, <2>1, <2>4, <2>5, <2>6, <2>7, <2>8 DEF DInv, DiskTypeOK
<1>9. InFlight' = InFlight \cup {p} /\ p \notin InFlight
  BY <1>2, <1>3 DEF InFlight
<1>10. /\ H(p)' = i /\ D(p)' = j /\ S(p)' = k
  BY <1>4, <1>6, <1>7 DEF H, D, S, CommandDesc, DataDesc
<1>11. \A q \in InFlight : /\ H(q)' = H(q) /\ D(q)' = D(q) /\ S(q)' = S(q)
                           /\ req'[q] = req[q]
                           /\ {H(q), D(q), S(q)} \subseteq Descs \ free
  <2> TAKE q \in InFlight
  <2>1. H(q) \in Descs \ free /\ D(q) \in Descs \ free /\ S(q) \in Descs \ free /\ q \in Procs
    BY ChainFacts
  <2>2. req'[q] = req[q]
    BY <1>6, <1>9, <2>1
  <2>3. H(q)' = H(q)
    BY <2>2 DEF H
  <2>4. D(q)' = D(q)
    BY <1>1, <1>7, <2>1, <2>3 DEF D
  <2>5. S(q)' = S(q)
    BY <1>1, <1>7, <2>1, <2>4 DEF S
  <2> QED  BY <2>1, <2>2, <2>3, <2>4, <2>5
<1>12. ReqInv'
  <2>1. \A q \in Procs : io'[q] = "none" <=> io[q] = "none"
    BY <1>2, <1>3
  <2>2. \A q \in Procs : req'[q].buf = req[q].buf /\ req'[q].block = req[q].block
    BY <1>6
  <2>3. io'[p] # "none"
    BY <1>2, <1>3
  <2> QED  BY <1>6, <2>1, <2>2, <2>3 DEF DInv, ReqInv
<1>13. ChainInv'
  <2>1. ASSUME NEW q \in InFlight'
        PROVE  /\ H(q)' \in Descs \ free' /\ D(q)' \in Descs \ free' /\ S(q)' \in Descs \ free'
               /\ desc'[H(q)'] = CommandDesc(req'[q], D(q)')
               /\ desc'[D(q)'] = DataDesc(req'[q], S(q)')
               /\ desc'[S(q)'] = StatusDesc(H(q)')
               /\ info'[H(q)'].b = req'[q].buf
    <3>1. CASE q = p
      BY <1>1, <1>3, <1>4, <1>6, <1>7, <1>10, <3>1 DEF CommandDesc, DataDesc
    <3>2. CASE q \in InFlight
      <4>1. /\ desc[H(q)] = CommandDesc(req[q], D(q)) /\ desc[D(q)] = DataDesc(req[q], S(q))
            /\ desc[S(q)] = StatusDesc(H(q)) /\ info[H(q)].b = req[q].buf
        BY <3>2 DEF DInv, ChainInv
      <4>2. info'[H(q)] = info[H(q)]
        BY <1>1, <1>3, <1>11, <3>2
      <4> QED  BY <1>1, <1>7, <1>11, <3>2, <4>1, <4>2, ZenonT(30)
    <3> QED  BY <1>9, <2>1, <3>1, <3>2
  <2>2. ASSUME NEW d \in Descs \ free'
        PROVE  \E q \in InFlight' : d \in {H(q)', D(q)', S(q)'}
    <3>1. CASE d \in {i, j, k}
      BY <1>9, <1>10, <3>1
    <3>2. CASE d \in Descs \ free
      BY <1>9, <1>11, <3>2 DEF DInv, ChainInv
    <3> QED  BY <1>1, <2>2, <3>1, <3>2
  <2> QED  BY <2>1, <2>2 DEF ChainInv
<1>14. AvailInv'
  <2>1. ASSUME NEW d \in avail' PROVE \E q \in InFlight' : H(q)' = d /\ req'[q].buf \in busy'
    <3>1. CASE d = i
      BY <1>2, <1>6, <1>9, <1>10, <3>1
    <3>2. CASE d \in avail
      <4>1. PICK q \in InFlight : H(q) = d /\ req[q].buf \in busy
        BY <3>2 DEF DInv, AvailInv
      <4> QED  BY <1>2, <1>9, <1>11, <4>1
    <3> QED  BY <1>1, <2>1, <3>1, <3>2
  <2> QED  BY <2>1 DEF AvailInv
<1>15. UsedInv'
  <2>1. ASSUME NEW n \in 1..Len(used)
        PROVE  /\ used[n] \notin avail' /\ info'[used[n]].status = 0
               /\ \E q \in InFlight' : H(q)' = used[n] /\ req'[q].buf \in busy'
    <3>1. PICK q \in InFlight : H(q) = used[n] /\ req[q].buf \in busy
      BY <2>1 DEF DInv, UsedInv
    <3>2. used[n] \in Descs \ free
      BY <1>11, <3>1
    <3>3. info'[used[n]] = info[used[n]]
      <4>1. used[n] # i /\ used[n] \in DOMAIN info
        BY <1>3, <3>2, SMTT(20)
      <4> QED  BY <1>1, <4>1, Zenon
    <3>4. used[n] \notin avail /\ info[used[n]].status = 0
      BY <2>1 DEF DInv, UsedInv
    <3> QED  BY <1>1, <1>2, <1>9, <1>11, <3>1, <3>2, <3>3, <3>4
  <2> QED  BY <1>2, <2>1 DEF DInv, UsedInv
<1>16. BusyInv'
  <2>1. ASSUME NEW q \in InFlight', req'[q].buf \in busy'
        PROVE  H(q)' \in avail' \/ \E n \in 1..Len(used) : used[n] = H(q)'
    <3>1. CASE q = p
      BY <1>1, <1>10, <3>1
    <3>2. CASE q \in InFlight
      <4>1. q \in Procs /\ q # p /\ io[q] # "none"
        BY <1>9, <3>2 DEF InFlight
      <4>2. req[q].buf # req[p].buf
        BY <1>2, <4>1 DEF DInv, ReqInv
      <4>3. req[q].buf \in busy
        BY <1>2, <1>6, <2>1, <4>1, <4>2
      <4> QED  BY <1>1, <1>11, <3>2, <4>3 DEF DInv, BusyInv
    <3> QED  BY <1>9, <2>1, <3>1, <3>2
  <2>2. ASSUME NEW b \in busy' PROVE \E q \in InFlight' : req'[q].buf = b
    <3>1. CASE b = req[p].buf
      BY <1>6, <1>9, <3>1
    <3>2. CASE b \in busy
      BY <1>9, <1>11, <3>2 DEF DInv, BusyInv
    <3> QED  BY <1>2, <2>2, <3>1, <3>2
  <2>3. \A q \in Procs : io'[q] = "asleep" => req'[q].buf \in busy'
    BY <1>2, <1>3, <1>6 DEF DInv, BusyInv
  <2> QED  BY <1>2, <2>1, <2>2, <2>3 DEF BusyInv
<1>17. WaitInv' /\ ~DriverPanic'
  BY <1>2, <1>9 DEF DInv, WaitInv, DriverPanic
<1> QED  BY <1>8, <1>12, <1>13, <1>14, <1>15, <1>16, <1>17 DEF DInv

\* What the device reads in the chain of a request it has.
LEMMA DeviceFacts ==
  ASSUME DInv, NEW i \in avail
  PROVE  \E p \in InFlight : /\ H(p) = i /\ req[p].buf \in busy
                             /\ desc[i].next = D(p) /\ desc[D(p)].next = S(p)
                             /\ desc[S(p)].ref = i /\ desc[D(p)].ref = req[p].buf
                             /\ desc[i].block = req[p].block
                             /\ desc[i].kind = IF req[p].write THEN "out" ELSE "in"
<1>1. PICK p \in InFlight : H(p) = i /\ req[p].buf \in busy
  BY DEF DInv, AvailInv
<1>2. desc[i].next = D(p) /\ desc[D(p)].next = S(p)
  BY <1>1 DEF D, S
<1> QED  BY <1>1, <1>2, ChainFacts

\* The device moves the data of a request and hands its chain to the handler.
LEMMA DeviceDoneKeeps == ASSUME DInv, NEW i \in Descs, DeviceDone(i) PROVE DInv'
<1> DEFINE Info == [b : 0..NBUF, status : {0, 255}]
<1>1. /\ i \in avail /\ avail' = avail \ {i} /\ used' = Append(used, i) /\ irq' = TRUE
      /\ UNCHANGED <<busy, free, desc, intr, io, req, panic>>
  BY DEF DeviceDone
<1>2. PICK p \in InFlight : /\ H(p) = i /\ req[p].buf \in busy
                            /\ desc[i].next = D(p) /\ desc[D(p)].next = S(p)
                            /\ desc[S(p)].ref = i /\ desc[D(p)].ref = req[p].buf
                            /\ desc[i].block = req[p].block
  BY <1>1, DeviceFacts
<1>3. /\ info \in [Descs -> Info] /\ used \in Seq(Descs) /\ avail \subseteq Descs
      /\ platter \in [Blocks -> Data] /\ data \in [Bufs -> Data]
  BY DEF DInv, DiskTypeOK
<1>4. info' = [info EXCEPT ![i].status = 0]
  BY <1>2 DEF DeviceDone
<1>5. /\ info' \in [Descs -> Info] /\ info'[i].status = 0 /\ info'[i].b = info[i].b
      /\ \A d \in Descs \ {i} : info'[d] = info[d]
  <2>1. info' = [info EXCEPT ![i] = [info[i] EXCEPT !.status = 0]] /\ info[i] \in Info
    BY <1>3, <1>4
  <2>2. [info[i] EXCEPT !.status = 0] \in Info
    BY <2>1
  <2>3. info'[i] = [info[i] EXCEPT !.status = 0] /\ \A d \in Descs \ {i} : info'[d] = info[d]
    <3>1. i \in DOMAIN info /\ DOMAIN info = Descs
      BY <1>3
    <3> HIDE DEF Info
    <3> QED  BY <2>1, <3>1
  <2>4. info'[i].status = 0 /\ info'[i].b = info[i].b
    BY ONLY <2>1, <2>3
  <2>5. info' \in [Descs -> Info]
    <3> HIDE DEF Info
    <3> QED  BY <1>3, <2>1, <2>2
  <2> QED  BY <2>3, <2>4, <2>5
<1>6. req[p].buf \in Bufs /\ req[p].block \in Blocks
  BY ChainFacts
<1>7. platter' \in [Blocks -> Data] /\ data' \in [Bufs -> Data]
  <2>1. CASE desc[i].kind = "out"
    <3>1. platter' = [platter EXCEPT ![req[p].block] = data[req[p].buf]] /\ data' = data
      BY <1>2, <2>1 DEF DeviceDone
    <3> QED  BY <1>3, <1>6, <3>1
  <2>2. CASE desc[i].kind # "out"
    <3>1. data' = [data EXCEPT ![req[p].buf] = platter[req[p].block]] /\ platter' = platter
      BY <1>2, <2>2 DEF DeviceDone
    <3> QED  BY <1>3, <1>6, <3>1
  <2> QED  BY <2>1, <2>2
<1>8. /\ used' \in Seq(Descs) /\ Len(used') = Len(used) + 1 /\ used'[Len(used) + 1] = i
      /\ \A n \in 1..Len(used) : used'[n] = used[n] /\ used[n] \in Descs
      /\ Len(used) \in Nat
  BY <1>1, <1>3
<1>9. DiskTypeOK'
  BY <1>1, <1>5, <1>7, <1>8 DEF DInv, DiskTypeOK
<1>10. ReqInv'
  BY <1>1 DEF DInv, ReqInv
<1>11. InFlight' = InFlight
  BY <1>1 DEF InFlight
<1>12. \A q \in InFlight : H(q)' = H(q) /\ D(q)' = D(q) /\ S(q)' = S(q)
  BY <1>1 DEF H, D, S
<1>13. \A q \in InFlight : H(q) \in Descs /\ info'[H(q)].b = info[H(q)].b
  BY <1>5, ChainFacts
<1>14. ChainInv'
  BY <1>1, <1>11, <1>12, <1>13 DEF DInv, ChainInv
<1>15. AvailInv'
  BY <1>1, <1>11, <1>12 DEF DInv, AvailInv
<1>16. UsedInv'
  <2>1. ASSUME NEW n \in 1..Len(used')
        PROVE  /\ used'[n] \notin avail' /\ info'[used'[n]].status = 0
               /\ \E q \in InFlight' : H(q)' = used'[n] /\ req'[q].buf \in busy'
    <3>1. CASE n = Len(used) + 1
      BY <1>1, <1>2, <1>5, <1>8, <1>11, <1>12, <3>1
    <3>2. CASE n \in 1..Len(used)
      <4>1. /\ used[n] \notin avail /\ info[used[n]].status = 0 /\ used'[n] = used[n]
            /\ \E q \in InFlight : H(q) = used[n] /\ req[q].buf \in busy
        BY <1>8, <3>2 DEF DInv, UsedInv
      <4>2. info'[used[n]] = info[used[n]]
        BY <1>1, <1>5, <1>8, <3>2, <4>1
      <4> QED  BY <1>1, <1>11, <1>12, <4>1, <4>2
    <3> QED  BY <1>8, <2>1, <3>1, <3>2
  <2>2. ASSUME NEW m \in 1..Len(used'), NEW n \in 1..Len(used'), used'[m] = used'[n]
        PROVE  m = n
    <3>1. \A l \in 1..Len(used) : used'[l] = used[l] /\ used'[l] # i
      BY <1>1, <1>8 DEF DInv, UsedInv
    <3>2. \A k, l \in 1..Len(used) : used[k] = used[l] => k = l
      BY DEF DInv, UsedInv
    <3>3. \A l \in 1..Len(used') : l \in 1..Len(used) \/ l = Len(used) + 1
      BY <1>8
    <3> QED  BY <1>8, <2>2, <3>1, <3>2, <3>3
  <2> QED  BY <1>1, <2>1, <2>2 DEF UsedInv
<1>17. BusyInv'
  <2>1. ASSUME NEW q \in InFlight, req[q].buf \in busy
        PROVE  H(q) \in avail' \/ \E n \in 1..Len(used') : used'[n] = H(q)
    <3>1. CASE H(q) = i
      <4>1. Len(used) + 1 \in 1..Len(used')
        BY <1>8
      <4> QED  BY <1>8, <3>1, <4>1
    <3>2. CASE H(q) # i /\ H(q) \in avail
      BY <1>1, <3>2
    <3>3. CASE \E n \in 1..Len(used) : used[n] = H(q)
      <4>1. PICK n \in 1..Len(used) : used[n] = H(q)
        BY <3>3
      <4>2. n \in 1..Len(used') /\ used'[n] = H(q)
        BY <1>8, <4>1
      <4> QED  BY <4>2
    <3> QED  BY <2>1, <3>1, <3>2, <3>3 DEF DInv, BusyInv
  <2> QED  BY <1>1, <1>11, <1>12, <2>1 DEF DInv, BusyInv
<1>18. WaitInv' /\ ~DriverPanic'
  BY <1>1, <1>11 DEF DInv, WaitInv, DriverPanic
<1> QED  BY <1>9, <1>10, <1>14, <1>15, <1>16, <1>17, <1>18 DEF DInv

\* The handler takes one entry of the used ring: its status byte has been
\* written, and the owner is awake when its buffer is no longer busy.
LEMMA IntrOneKeeps == ASSUME DInv, IntrOne PROVE DInv'
<1> DEFINE id == Head(used)
<1>1. /\ intr
      /\ panic' = IF info[id].status # 0 THEN "intr status" ELSE panic
      /\ busy' = busy \ {info[id].b} /\ io' = WakeOwner(io, info[id].b)
      /\ UNCHANGED <<platter, data, free, desc, info, avail, irq, intr, req>>
  BY DEF IntrOne
<1>2. used \in Seq(Descs) /\ io \in [Procs -> IoLabels] /\ busy \subseteq Bufs
  BY DEF DInv, DiskTypeOK
<1>3. /\ Len(used) \in Nat /\ Len(used) >= 1 /\ 1 \in 1..Len(used) /\ used[1] = id
      /\ used' \in Seq(Descs) /\ Len(used') = Len(used) - 1
      /\ \A n \in 1..Len(used') : used'[n] = used[n + 1] /\ n + 1 \in 1..Len(used)
  <2>1. used # <<>> /\ used' = Tail(used)
    BY DEF IntrOne
  <2>2. Len(used) \in Nat /\ Len(used) # 0
    BY <1>2, <2>1, EmptySeq
  <2> QED  BY <1>2, <2>1, <2>2
<1> HIDE DEF id
<1>4. PICK p \in InFlight : H(p) = id /\ req[p].buf \in busy
  BY <1>3 DEF DInv, UsedInv
<1>5. info[id].status = 0 /\ info[id].b = req[p].buf
  BY <1>3, <1>4, ChainFacts DEF DInv, UsedInv
<1>6. /\ io' \in [Procs -> IoLabels]
      /\ \A q \in Procs : io'[q] = io[q] \/ (io[q] = "asleep" /\ io'[q] = "woken")
      /\ \A q \in Procs : io'[q] = "asleep" => req[q].buf # req[p].buf
  BY <1>1, <1>2, <1>5 DEF WakeOwner, IoLabels
<1>7. DiskTypeOK'
  BY <1>1, <1>2, <1>3, <1>5, <1>6 DEF DInv, DiskTypeOK
<1>8. \A q \in Procs : io'[q] = "none" <=> io[q] = "none"
  BY <1>6
<1>9. ReqInv'
  BY <1>1, <1>8 DEF DInv, ReqInv
<1>10. InFlight' = InFlight
  BY <1>6 DEF InFlight
<1>11. \A q \in InFlight : H(q)' = H(q) /\ D(q)' = D(q) /\ S(q)' = S(q)
  BY <1>1 DEF H, D, S
<1>12. \A q \in InFlight : q # p => req[q].buf # req[p].buf
  BY DEF DInv, ReqInv, InFlight
<1>13. ChainInv'
  BY <1>1, <1>10, <1>11 DEF DInv, ChainInv
<1>14. AvailInv'
  <2>1. ASSUME NEW i \in avail PROVE \E q \in InFlight : H(q) = i /\ req[q].buf \in busy'
    <3>1. PICK q \in InFlight : H(q) = i /\ req[q].buf \in busy
      BY <2>1 DEF DInv, AvailInv
    <3>2. q # p
      BY <1>3, <1>4, <2>1, <3>1 DEF DInv, UsedInv
    <3> QED  BY <1>1, <1>5, <1>12, <3>1, <3>2
  <2> QED  BY <1>1, <1>10, <1>11, <2>1 DEF AvailInv
<1>15. UsedInv'
  <2>1. ASSUME NEW n \in 1..Len(used')
        PROVE  /\ used'[n] \notin avail /\ info[used'[n]].status = 0
               /\ \E q \in InFlight : H(q) = used'[n] /\ req[q].buf \in busy'
    <3>1. used'[n] = used[n + 1] /\ n + 1 \in 1..Len(used) /\ n + 1 # 1
      BY <1>3, <2>1
    <3>2. PICK q \in InFlight : H(q) = used[n + 1] /\ req[q].buf \in busy
      BY <3>1 DEF DInv, UsedInv
    <3>3. used[n + 1] # id
      BY <1>3, <3>1 DEF DInv, UsedInv
    <3>4. q # p
      BY <1>4, <3>2, <3>3
    <3>5. req[q].buf \in busy'
      BY <1>1, <1>5, <1>12, <3>2, <3>4
    <3> QED  BY <3>1, <3>2, <3>5 DEF DInv, UsedInv
  <2>2. ASSUME NEW m \in 1..Len(used'), NEW n \in 1..Len(used'), used'[m] = used'[n]
        PROVE  m = n
    <3>1. used[m + 1] = used[n + 1] /\ m + 1 \in 1..Len(used) /\ n + 1 \in 1..Len(used)
      BY <1>3, <2>2
    <3>2. m + 1 = n + 1
      BY <3>1 DEF DInv, UsedInv
    <3> QED  BY <2>2, <3>2
  <2>3. UNCHANGED <<avail, info, req, irq, intr>> /\ intr
    BY <1>1
  <2>4. \A n \in 1..Len(used') : \E q \in InFlight' : H(q)' = used'[n] /\ req'[q].buf \in busy'
    BY <1>10, <1>11, <2>1, <2>3
  <2> QED  BY <2>1, <2>2, <2>3, <2>4 DEF UsedInv
<1>16. BusyInv'
  <2>1. ASSUME NEW q \in InFlight, req[q].buf \in busy'
        PROVE  H(q) \in avail \/ \E n \in 1..Len(used') : used'[n] = H(q)
    <3>1. q # p /\ req[q].buf \in busy
      BY <1>1, <1>5, <2>1
    <3>2. H(q) # id
      BY <1>4, <3>1, ChainsDisjoint
    <3>3. CASE \E n \in 1..Len(used) : used[n] = H(q)
      <4>1. PICK n \in 1..Len(used) : used[n] = H(q)
        BY <3>3
      <4>2. n # 1 /\ n - 1 \in 1..Len(used') /\ (n - 1) + 1 = n
        BY <1>3, <3>2, <4>1
      <4>3. used'[n - 1] = H(q)
        BY <1>3, <4>1, <4>2
      <4> QED  BY <4>2, <4>3
    <3> QED  BY <2>1, <3>1, <3>3 DEF DInv, BusyInv
  <2>2. \A k \in busy' : \E q \in InFlight : req[q].buf = k
    BY <1>1 DEF DInv, BusyInv
  <2>3. \A q \in Procs : io'[q] = "asleep" => req[q].buf \in busy'
    BY <1>1, <1>5, <1>6 DEF DInv, BusyInv
  <2>4. UNCHANGED <<avail, req>>
    BY <1>1
  <2>5. \A q \in InFlight' : req'[q].buf \in busy' =>
          H(q)' \in avail' \/ \E n \in 1..Len(used') : used'[n] = H(q)'
    BY <1>10, <1>11, <2>1, <2>4
  <2>6. \A k \in busy' : \E q \in InFlight' : req'[q].buf = k
    BY <1>10, <2>2, <2>4
  <2> QED  BY <2>3, <2>4, <2>5, <2>6 DEF BusyInv
<1>17. WaitInv'
  BY <1>6, <1>10 DEF DInv, WaitInv
<1>18. ~DriverPanic'
  BY <1>1, <1>5 DEF DInv, DriverPanic
<1> QED  BY <1>7, <1>9, <1>13, <1>14, <1>15, <1>16, <1>17, <1>18 DEF DInv

\* free_chain() visits the three descriptors of the request.
LEMMA ChainOfRequest == ASSUME DInv, NEW p \in InFlight PROVE Chain(H(p)) = {H(p), D(p), S(p)}
<1>1. H(p) \in Descs /\ D(p) \in Descs /\ S(p) \in Descs
  BY ChainFacts
<1>2. NoDesc \notin Descs
  BY VirtioAssumption DEF Descs, NoDesc
<1>3. Chain(H(p)) = {H(p), D(p), IF D(p) = NoDesc THEN NoDesc ELSE S(p)} \ {NoDesc}
  BY DEF Chain, D, S
<1> QED  BY <1>1, <1>2, <1>3

\* virtio_disk_rw() frees the chain of a request that neither the device nor the
\* handler has any more.
LEMMA RwReturnKeeps == ASSUME DInv, NEW p \in Procs, RwReturn(p) PROVE DInv'
<1> USE VirtioAssumption
<1> DEFINE Req == [buf : 0..NBUF, block : Blocks \cup {NoBlock}, write : BOOLEAN, head : 0..NUM]
           Desc == [kind : {"none", "in", "out", "data", "status"},
                    block : Blocks \cup {NoBlock}, ref : Nat, next : 0..NUM]
           Info == [b : 0..NBUF, status : {0, 255}]
           i == H(p)
           chain == Chain(i)
<1>1. /\ io[p] = "woken" /\ req[p].buf \notin busy
      /\ info' = [info EXCEPT ![i].b = NoBuf]
      /\ desc' = [d \in Descs |-> IF d \in chain THEN Cleared ELSE desc[d]]
      /\ free' = free \cup chain
      /\ panic' = IF chain \cap free # {} THEN "free_desc" ELSE panic
      /\ io' = [WakeAllocs(io) EXCEPT ![p] = "none"]
      /\ req' = [req EXCEPT ![p] = NoReq]
      /\ UNCHANGED <<platter, data, busy, avail, used, irq, intr>>
  BY DEF RwReturn, H
<1>2. /\ io \in [Procs -> IoLabels] /\ req \in [Procs -> Req] /\ desc \in [Descs -> Desc]
      /\ info \in [Descs -> Info] /\ free \subseteq Descs /\ used \in Seq(Descs)
  BY DEF DInv, DiskTypeOK
<1>3. p \in InFlight
  BY <1>1 DEF InFlight
<1>4. chain = {i, D(p), S(p)} /\ chain \subseteq Descs \ free
  BY <1>3, ChainOfRequest, ChainFacts
<1> HIDE DEF i, chain, Req, Desc, Info
<1>5. i \in Descs
  BY <1>4
<1>6. /\ info' \in [Descs -> Info]
      /\ \A d \in Descs : info'[d].status = info[d].status
      /\ \A d \in Descs \ {i} : info'[d] = info[d]
  <2>1. info' = [info EXCEPT ![i] = [info[i] EXCEPT !.b = NoBuf]] /\ info[i] \in Info
    BY <1>1, <1>2, <1>5
  <2>2. [info[i] EXCEPT !.b = NoBuf] \in Info /\ [info[i] EXCEPT !.b = NoBuf].status = info[i].status
    BY ONLY <2>1, VirtioAssumption DEF Info, NoBuf
  <2> QED  BY <1>2, <1>5, <2>1, <2>2
<1>7. /\ io' \in [Procs -> IoLabels]
      /\ io'[p] = "none"
      /\ \A q \in Procs : io'[q] # "nodesc"
      /\ \A q \in Procs \ {p} : io'[q] = io[q] \/ (io[q] = "nodesc" /\ io'[q] = "alloc")
  BY <1>1, <1>2 DEF WakeAllocs, IoLabels
<1>8. req'[p] = NoReq /\ \A q \in Procs \ {p} : req'[q] = req[q]
  BY <1>1, <1>2
<1>9. DiskTypeOK'
  <2>1. NoReq \in Req
    BY DEF NoReq, Req, NoBuf, NoDesc
  <2>2. req' \in [Procs -> Req]
    BY <1>1, <1>2, <2>1
  <2>3. Cleared \in Desc
    BY DEF Cleared, Desc, NoDesc
  <2>4. desc' \in [Descs -> Desc]
    BY <1>1, <1>2, <2>3
  <2>5. free' \subseteq Descs
    BY <1>1, <1>2, <1>4
  <2>6. panic' \in {"none", "no buffers", "free_desc", "intr status"}
    BY <1>1 DEF DInv, DiskTypeOK
  <2>7. UNCHANGED <<platter, data, busy, avail, used, irq, intr>>
    BY <1>1
  <2> QED  BY <1>6, <1>7, <2>2, <2>4, <2>5, <2>6, <2>7 DEF DInv, DiskTypeOK, Req, Desc, Info
<1>10. ReqInv'
  BY <1>7, <1>8 DEF DInv, ReqInv
<1>11. InFlight' = InFlight \ {p}
  BY <1>7 DEF InFlight
<1>12. ASSUME NEW q \in InFlight'
       PROVE  /\ H(q)' = H(q) /\ D(q)' = D(q) /\ S(q)' = S(q) /\ req'[q] = req[q] /\ q \in InFlight
              /\ {H(q), D(q), S(q)} \subseteq Descs \ free'
              /\ \A d \in {H(q), D(q), S(q)} : desc'[d] = desc[d]
              /\ info'[H(q)] = info[H(q)]
  <2>1. q \in InFlight /\ q # p /\ q \in Procs
    BY <1>11, <1>12 DEF InFlight
  <2>2. {H(q), D(q), S(q)} \cap chain = {}
    BY <1>3, <1>4, <2>1, ChainsDisjoint DEF i
  <2>3. H(q) \in Descs \ free /\ D(q) \in Descs \ free /\ S(q) \in Descs \ free
    BY <2>1, ChainFacts
  <2>4. \A d \in {H(q), D(q), S(q)} : desc'[d] = desc[d]
    BY <1>1, <2>2, <2>3
  <2>5. req'[q] = req[q]
    BY <1>8, <2>1
  <2>6. H(q)' = H(q)
    BY <2>5 DEF H
  <2>7. D(q)' = D(q)
    BY <2>4, <2>6 DEF D
  <2>8. S(q)' = S(q)
    BY <2>4, <2>7 DEF S
  <2>9. info'[H(q)] = info[H(q)]
    BY <1>4, <1>6, <2>2, <2>3
  <2>10. {H(q), D(q), S(q)} \subseteq Descs \ free'
    BY <1>1, <2>2, <2>3
  <2> QED  BY <2>1, <2>4, <2>5, <2>6, <2>7, <2>8, <2>9, <2>10
<1>13. ChainInv'
  <2>1. ASSUME NEW q \in InFlight'
        PROVE  /\ H(q)' \in Descs \ free' /\ D(q)' \in Descs \ free' /\ S(q)' \in Descs \ free'
               /\ desc'[H(q)'] = CommandDesc(req'[q], D(q)')
               /\ desc'[D(q)'] = DataDesc(req'[q], S(q)')
               /\ desc'[S(q)'] = StatusDesc(H(q)')
               /\ info'[H(q)'].b = req'[q].buf
    <3>1. /\ desc[H(q)] = CommandDesc(req[q], D(q)) /\ desc[D(q)] = DataDesc(req[q], S(q))
          /\ desc[S(q)] = StatusDesc(H(q)) /\ info[H(q)].b = req[q].buf
      BY <1>12, <2>1 DEF DInv, ChainInv
    <3> QED  BY <1>12, <2>1, <3>1
  <2>2. ASSUME NEW d \in Descs \ free'
        PROVE  \E q \in InFlight' : d \in {H(q)', D(q)', S(q)'}
    <3>1. d \in Descs \ free /\ d \notin chain
      BY <1>1, <2>2
    <3>2. PICK q \in InFlight : d \in {H(q), D(q), S(q)}
      BY <3>1 DEF DInv, ChainInv
    <3>3. q \in InFlight'
      BY <1>4, <1>11, <3>1, <3>2 DEF i
    <3> QED  BY <1>12, <3>2, <3>3
  <2> QED  BY <2>1, <2>2 DEF ChainInv
<1>14. AvailInv'
  <2>1. ASSUME NEW d \in avail PROVE \E q \in InFlight' : H(q)' = d /\ req'[q].buf \in busy
    <3>1. PICK q \in InFlight : H(q) = d /\ req[q].buf \in busy
      BY <2>1 DEF DInv, AvailInv
    <3>2. q \in InFlight'
      BY <1>1, <1>11, <3>1
    <3> QED  BY <1>12, <3>1, <3>2
  <2> QED  BY <1>1, <2>1 DEF AvailInv
<1>15. UsedInv'
  <2>1. ASSUME NEW n \in 1..Len(used)
        PROVE  /\ used[n] \notin avail /\ info'[used[n]].status = 0
               /\ \E q \in InFlight' : H(q)' = used[n] /\ req'[q].buf \in busy
    <3>1. PICK q \in InFlight : H(q) = used[n] /\ req[q].buf \in busy
      BY <2>1 DEF DInv, UsedInv
    <3>2. q \in InFlight'
      BY <1>1, <1>11, <3>1
    <3>3. used[n] \in Descs /\ used[n] \notin avail /\ info[used[n]].status = 0
      BY <1>2, <2>1 DEF DInv, UsedInv
    <3> QED  BY <1>6, <1>12, <3>1, <3>2, <3>3
  <2>2. UNCHANGED <<used, avail, busy, irq, intr>>
    BY <1>1
  <2> QED  BY <2>1, <2>2 DEF DInv, UsedInv
<1>16. BusyInv'
  <2>1. ASSUME NEW q \in InFlight', req'[q].buf \in busy
        PROVE  H(q)' \in avail \/ \E n \in 1..Len(used) : used[n] = H(q)'
    BY <1>12, <2>1 DEF DInv, BusyInv
  <2>2. ASSUME NEW k \in busy PROVE \E q \in InFlight' : req'[q].buf = k
    <3>1. PICK q \in InFlight : req[q].buf = k
      BY <2>2 DEF DInv, BusyInv
    <3>2. q \in InFlight'
      BY <1>1, <1>11, <2>2, <3>1
    <3> QED  BY <1>12, <3>1, <3>2
  <2>3. \A q \in Procs : io'[q] = "asleep" => req'[q].buf \in busy
    BY <1>7, <1>8 DEF DInv, BusyInv
  <2>4. UNCHANGED <<used, avail, busy>>
    BY <1>1
  <2> QED  BY <2>1, <2>2, <2>3, <2>4 DEF BusyInv
<1>17. WaitInv'
  BY <1>7 DEF WaitInv
<1>18. ~DriverPanic'
  BY <1>1, <1>4 DEF DInv, DriverPanic
<1> QED  BY <1>9, <1>10, <1>13, <1>14, <1>15, <1>16, <1>17, <1>18 DEF DInv

\* A step that does not touch the driver keeps its invariant.
LEMMA DriverIdle ==
  ASSUME DInv, UNCHANGED <<driverVars, io, req>>, platter' \in [Blocks -> Data],
         data' \in [Bufs -> Data], panic' \in {"none", "no buffers"}
  PROVE  DInv'
<1> USE DEF driverVars
<1>1. InFlight' = InFlight
  BY DEF InFlight
<1>2. \A q \in InFlight : H(q)' = H(q) /\ D(q)' = D(q) /\ S(q)' = S(q)
  BY DEF H, D, S
<1>3. DiskTypeOK'  BY DEF DInv, DiskTypeOK
<1>4. ReqInv'  BY DEF DInv, ReqInv
<1>5. ChainInv' /\ AvailInv' /\ UsedInv' /\ BusyInv' /\ WaitInv'
  BY <1>1, QueueUntouched
<1>6. ~DriverPanic'
  BY DEF DriverPanic
<1> QED  BY <1>3, <1>4, <1>5, <1>6 DEF DInv

\* The driver on its own keeps its invariant.
LEMMA DiskNextKeeps == DInv /\ [DiskNext]_diskVars => DInv'
<1> SUFFICES ASSUME DInv, [DiskNext]_diskVars PROVE DInv'
  OBVIOUS
<1>1. CASE UNCHANGED diskVars
  <2>1. UNCHANGED <<driverVars, io, req, platter, data, panic>>
    BY <1>1 DEF diskVars, ioVars
  <2>2. platter' \in [Blocks -> Data] /\ data' \in [Bufs -> Data] /\ panic' \in {"none", "no buffers"}
    BY <2>1 DEF DInv, DiskTypeOK, DriverPanic
  <2> QED  BY <2>1, <2>2, DriverIdle
<1>2. ASSUME NEW p \in Procs, Call(p) PROVE DInv'
  <2>1. PICK k \in Bufs, b \in Blocks, write \in BOOLEAN :
          (\A q \in Procs : req[q].buf # k) /\ RwCall(p, k, b, write)
    BY <1>2 DEF Call
  <2> QED  BY <2>1, RwCallKeeps
<1>3. ASSUME NEW p \in Procs,
             NoDescriptors(p) \/ Submit(p) \/ SleepAgain(p) \/ RwReturn(p) \/ Kicked(p)
      PROVE  DInv'
  BY <1>3, NoDescriptorsKeeps, SubmitKeeps, SleepAgainKeeps, RwReturnKeeps, KickedKeeps
<1>4. ASSUME NEW i \in Descs, DeviceDone(i) PROVE DInv'
  BY <1>4, DeviceDoneKeeps
<1>5. CASE IntrAck \/ IntrOne \/ IntrEnd
  BY <1>5, IntrAckKeeps, IntrOneKeeps, IntrEndKeeps
<1> QED  BY <1>1, <1>2, <1>3, <1>4, <1>5 DEF DiskNext

\* The driver's invariant holds of every reachable state of the driver.
THEOREM DriverInductive == DiskSpec => []DInv
  BY DiskInitHolds, DiskNextKeeps, PTL DEF DiskSpec

\* The descriptors that are not free are those of the requests in flight, and
\* the driver's own panics do not happen.
LEMMA OwnedFollows == DInv => DescriptorsOwned
<1> SUFFICES ASSUME DInv PROVE DescriptorsOwned
  OBVIOUS
<1>1. \A p \in InFlight : Taken(p) = {H(p), D(p), S(p)} /\ Idx(p) = <<H(p), D(p), S(p)>>
  BY DEF Taken, Idx, H, D, S
<1>2. panic \notin {"free_desc", "intr status"}
  BY DEF DInv, DriverPanic
<1>3. Descs \ free = UNION {Taken(p) : p \in InFlight}
  <2>1. \A p \in InFlight : Taken(p) \subseteq Descs \ free
    BY <1>1, ChainFacts
  <2>2. \A d \in Descs \ free : \E p \in InFlight : d \in Taken(p)
    BY <1>1 DEF DInv, ChainInv
  <2> QED  BY <2>1, <2>2
<1>4. \A p, q \in InFlight : p # q => Taken(p) \cap Taken(q) = {}
  BY <1>1, ChainsDisjoint
<1>5. ASSUME NEW p \in InFlight
      PROVE  /\ desc[Idx(p)[1]] = CommandDesc(req[p], Idx(p)[2])
             /\ desc[Idx(p)[2]] = DataDesc(req[p], Idx(p)[3])
             /\ desc[Idx(p)[3]] = StatusDesc(Idx(p)[1])
             /\ info[Idx(p)[1]].b = req[p].buf
  BY <1>1, <1>5 DEF DInv, ChainInv
<1> QED  BY <1>2, <1>3, <1>4, <1>5 DEF DescriptorsOwned

\* Every descriptor is free or in the chain of one request, whatever the order
\* of submissions, completions, interrupts and spurious wakeups.
THEOREM DescriptorsAreOwned == DiskSpec => []DescriptorsOwned
  BY DriverInductive, OwnedFollows, PTL

\* Nobody sleeps in virtio_disk_rw() without somebody who will wake it.
THEOREM NobodyIsForgotten == DiskSpec => []NobodyForgotten
<1>1. DInv => NobodyForgotten
  <2> SUFFICES ASSUME DInv, NEW p \in Procs
               PROVE  /\ io[p] = "asleep" => \/ req[p].head \in avail
                                             \/ /\ \E i \in 1..Len(used) : used[i] = req[p].head
                                                /\ irq \/ intr
                      /\ io[p] = "nodesc" => InFlight # {}
    BY DEF NobodyForgotten
  <2>1. ASSUME io[p] = "asleep", req[p].head \notin avail
        PROVE  (\E i \in 1..Len(used) : used[i] = req[p].head) /\ (irq \/ intr)
    <3>1. p \in InFlight /\ req[p].buf \in busy
      BY <2>1 DEF DInv, BusyInv, InFlight
    <3>2. PICK i \in 1..Len(used) : used[i] = req[p].head
      BY <2>1, <3>1 DEF DInv, BusyInv, H
    <3>3. used # <<>>
      BY <3>2
    <3> QED  BY <3>2, <3>3 DEF DInv, UsedInv
  <2>2. io[p] = "nodesc" => InFlight # {}
    BY DEF DInv, WaitInv
  <2> QED  BY <2>1, <2>2
<1> QED  BY <1>1, DriverInductive, PTL

-----------------------------------------------------------------------------
(* The buffer cache.                                                       *)

\* The sets of users are finite, and one that is not empty is counted.
LEMMA UsersCounted ==
  ASSUME NEW k
  PROVE  /\ IsFiniteSet(Users(k)) /\ Cardinality(Users(k)) \in Nat
         /\ Cardinality(Users(k)) = 0 <=> Users(k) = {}
<1>1. Users(k) \subseteq Procs
  BY DEF Users
<1>2. IsFiniteSet(Users(k))
  BY <1>1, FS_Subset, VirtioAssumption
<1> QED  BY <1>2, FS_CardinalityType, FS_EmptySet

\* A buffer that a process has, or whose block is pinned, is referenced.
LEMMA Referenced ==
  ASSUME BInv, NEW k \in Bufs
  PROVE  /\ refcnt[k] \in Nat
         /\ refcnt[k] # 0 <=> (\E p \in Procs : mybuf[p] = k) \/ blockno[k] \in pinned
<1>1. refcnt[k] = Cardinality(Users(k)) + Pins(k) /\ refcnt[k] \in Nat
  BY DEF BInv, RefInv, TypeOK
<1>2. Cardinality(Users(k)) \in Nat /\ (Cardinality(Users(k)) = 0 <=> Users(k) = {})
  BY UsersCounted
<1>3. Pins(k) \in {0, 1} /\ (Pins(k) = 0 <=> blockno[k] \notin pinned)
  BY DEF Pins
<1>4. Users(k) = {} <=> ~\E p \in Procs : mybuf[p] = k
  BY DEF Users
<1> QED  BY <1>1, <1>2, <1>3, <1>4

\* The sleep-lock of a buffer gives it to one process.
LEMMA OneHolder ==
  ASSUME BInv, NEW p \in Procs, NEW q \in Procs, pc[p] \in {"read", "hold", "write"},
         pc[q] \in {"read", "hold", "write"}, mybuf[p] = mybuf[q]
  PROVE  p = q
<1>1. mybuf[p] \in Bufs
  BY VirtioAssumption, SMTT(20) DEF BInv, TypeOK, UserInv, Bufs, NoBuf
<1>2. lock[mybuf[p]] = p /\ lock[mybuf[p]] = q
  BY <1>1 DEF BInv, UserInv
<1> QED  BY <1>2

\* The buffer of a process, and its block.
LEMMA BufferOf ==
  ASSUME BInv, NEW p \in Procs, pc[p] # "idle"
  PROVE  /\ mybuf[p] \in Bufs /\ blockno[mybuf[p]] \in Blocks
         /\ \A j \in Bufs : blockno[j] = blockno[mybuf[p]] => j = mybuf[p]
<1>1. mybuf[p] \in Bufs
  BY VirtioAssumption DEF BInv, TypeOK, UserInv, Bufs, NoBuf
<1>2. blockno[mybuf[p]] \in Blocks /\ blockno[mybuf[p]] # NoBlock
  BY VirtioAssumption DEF BInv, UserInv
<1> QED  BY <1>1, <1>2 DEF BInv, OneBuffer

\* A step that neither gets nor puts nor pins a buffer keeps the counts.
LEMMA CountsUntouched ==
  ASSUME BInv, UNCHANGED <<mybuf, pinned, blockno, refcnt>>
  PROVE  RefInv'
<1>1. \A k \in Bufs : Users(k)' = Users(k) /\ Pins(k)' = Pins(k)
  BY DEF Users, Pins
<1> QED  BY <1>1 DEF BInv, RefInv

\* A step that moves no process keeps what is said of the users.
LEMMA UsersUntouched == ASSUME UserInv, UNCHANGED <<blockno, lock, pc, mybuf>> PROVE UserInv'
  BY DEF UserInv

\* The same for their calls of the driver.
LEMMA CallsUntouched ==
  ASSUME IoInv, UNCHANGED <<blockno, pc, mybuf>>,
         \A q \in Procs : /\ io'[q] = "none" <=> io[q] = "none"
                          /\ req'[q].buf = req[q].buf /\ req'[q].block = req[q].block
                          /\ req'[q].write = req[q].write
  PROVE  IoInv'
  BY DEF IoInv, IoOf

\* Types of the buffer cache alone.
CacheTypes ==
  /\ blockno \in [Bufs -> Blocks \cup {NoBlock}]
  /\ valid \in [Bufs -> BOOLEAN]
  /\ refcnt \in [Bufs -> Nat]
  /\ lock \in [Bufs -> Procs \cup {NoProc}]
  /\ lru \in [Bufs -> Bufs]
  /\ pc \in [Procs -> {"idle", "lock", "read", "hold", "write", "put"}]
  /\ mybuf \in [Procs -> 0..NBUF]
  /\ pinned \subseteq Blocks

\* A step of the driver on behalf of a process, or of the device, leaves the
\* cache alone.
LEMMA DriverStepKeeps ==
  ASSUME BInv, panic = "none", DInv', ReadInv', panic' # "no buffers",
         UNCHANGED <<bcacheVars, lock, pc, mybuf, pinned>>,
         \A q \in Procs : /\ io'[q] = "none" <=> io[q] = "none"
                          /\ req'[q].buf = req[q].buf /\ req'[q].block = req[q].block
                          /\ req'[q].write = req[q].write
  PROVE  BInv'
<1> USE DEF bcacheVars
<1>1. TypeOK'
  <2>1. CacheTypes /\ UNCHANGED <<blockno, valid, refcnt, lru, lock, pc, mybuf, pinned>>
    BY DEF BInv, TypeOK, CacheTypes
  <2>2. CacheTypes'
    BY <2>1 DEF CacheTypes
  <2> QED  BY <2>2 DEF DInv, TypeOK, CacheTypes
<1>2. OneBuffer'  BY DEF BInv, OneBuffer
<1>3. UserInv' /\ IoInv'
  <2>1. UNCHANGED <<blockno, lock, pc, mybuf>>
    OBVIOUS
  <2>2. UserInv'
    BY <2>1, UsersUntouched DEF BInv
  <2>3. IoInv'
    BY <2>1, CallsUntouched DEF BInv
  <2> QED  BY <2>2, <2>3
<1>4. ValidInv'  BY DEF BInv, ValidInv
<1>5. RefInv'  BY CountsUntouched
<1>6. PinInv'  BY DEF BInv, PinInv
<1>7. PanicInv'  BY DEF PanicInv
<1> QED  BY <1>1, <1>2, <1>3, <1>4, <1>5, <1>6, <1>7 DEF BInv

\* A step that leaves data, platter and queue alone and starts no read keeps
\* what is said of reads.
LEMMA ReadsUntouched ==
  ASSUME BInv, UNCHANGED <<avail, desc, data, platter>>,
         \A q \in InFlight' : q \in InFlight /\ req'[q] = req[q],
         \A q \in InFlight' : pc'[q] = "read" =>
           pc[q] = "read" /\ mybuf'[q] = mybuf[q] /\ blockno'[mybuf[q]] = blockno[mybuf[q]]
  PROVE  ReadInv'
<1>1. \A q \in InFlight' : H(q)' = H(q)
  BY DEF H
<1> QED  BY <1>1 DEF BInv, ReadInv

\* The steps of virtio_disk_rw() and of the handler that move no data.
LEMMA RwStepKeeps ==
  ASSUME BInv, panic = "none", NEW p \in Procs,
         \/ Driver(NoDescriptors(p)) \/ Driver(SleepAgain(p)) \/ Driver(Kicked(p))
  PROVE  BInv'
<1>1. DInv /\ io \in [Procs -> IoLabels]
  BY DEF BInv, DInv, DiskTypeOK
<1>2. /\ UNCHANGED <<bcacheVars, lock, pc, mybuf, pinned>>
      /\ UNCHANGED <<platter, data, driverVars, req, panic>>
  BY DEF Driver, NoDescriptors, SleepAgain, Kicked
<1>3. DInv'
  BY <1>1, NoDescriptorsKeeps, SleepAgainKeeps, KickedKeeps DEF Driver
<1>4. \A q \in Procs : /\ io'[q] = "none" <=> io[q] = "none"
                       /\ io'[q] \in {"asleep", "woken"} => io[q] \in {"asleep", "woken"}
  <2>1. CASE NoDescriptors(p)
    BY <1>1, <2>1 DEF NoDescriptors, WakeAllocs
  <2>2. CASE SleepAgain(p)
    BY <1>1, <2>2 DEF SleepAgain
  <2>3. CASE Kicked(p)
    BY <1>1, <2>3 DEF Kicked
  <2> QED  BY <2>1, <2>2, <2>3 DEF Driver
<1>5. ReadInv'
  BY <1>2, <1>4, ReadsUntouched DEF InFlight, driverVars, bcacheVars
<1> QED  BY <1>2, <1>3, <1>4, <1>5, DriverStepKeeps

\* A request that has just been submitted is with the device.
LEMMA RwSubmitKeeps ==
  ASSUME BInv, panic = "none", NEW p \in Procs, Driver(Submit(p)) PROVE BInv'
<1>1. /\ DInv /\ io \in [Procs -> IoLabels]
      /\ req \in [Procs -> [buf : 0..NBUF, block : Blocks \cup {NoBlock},
                            write : BOOLEAN, head : 0..NUM]]
  BY DEF BInv, DInv, DiskTypeOK
<1>2. /\ UNCHANGED <<bcacheVars, lock, pc, mybuf, pinned, platter, data, panic>>
      /\ Submit(p)
  BY DEF Driver, Submit
<1>3. DInv'
  BY <1>1, <1>2, SubmitKeeps
<1>4. PICK i \in free : avail' = avail \cup {i} /\ req' = [req EXCEPT ![p].head = i]
  BY <1>2 DEF Submit
<1>5. io[p] = "alloc" /\ io' = [io EXCEPT ![p] = "asleep"]
  BY <1>2 DEF Submit
<1>6. /\ req'[p].head = i
      /\ \A q \in Procs \ {p} : req'[q] = req[q]
      /\ \A q \in Procs : /\ req'[q].buf = req[q].buf /\ req'[q].block = req[q].block
                          /\ req'[q].write = req[q].write
  <2>1. req' = [req EXCEPT ![p] = [req[p] EXCEPT !.head = i]]
    BY <1>4
  <2>2. req'[p] = [req[p] EXCEPT !.head = i] /\ \A q \in Procs \ {p} : req'[q] = req[q]
    BY <1>1, <2>1
  <2>3. req[p] \in [buf : 0..NBUF, block : Blocks \cup {NoBlock}, write : BOOLEAN, head : 0..NUM]
    BY <1>1
  <2>4. /\ req'[p].head = i /\ req'[p].buf = req[p].buf /\ req'[p].block = req[p].block
        /\ req'[p].write = req[p].write
    BY ONLY <2>2, <2>3
  <2> QED  BY <2>2, <2>4
<1>7. \A q \in Procs : io'[q] = "none" <=> io[q] = "none"
  BY <1>1, <1>5
<1>8. ReadInv'
  <2> SUFFICES ASSUME NEW q \in InFlight', pc[q] = "read", H(q)' \notin avail'
               PROVE  data[mybuf[q]] = platter[blockno[mybuf[q]]]
    BY <1>2 DEF ReadInv, bcacheVars
  <2>1. q # p
    BY <1>4, <1>6 DEF H
  <2>2. q \in InFlight /\ H(q)' = H(q)
    BY <1>1, <1>5, <1>6, <2>1 DEF InFlight, H
  <2> QED  BY <1>4, <2>2 DEF BInv, ReadInv
<1> QED  BY <1>2, <1>3, <1>6, <1>7, <1>8, DriverStepKeeps

\* The handler moves no data.
LEMMA IntrKeeps ==
  ASSUME BInv, panic = "none", Driver(IntrAck) \/ Driver(IntrOne) \/ Driver(IntrEnd)
  PROVE  BInv'
<1>1. DInv /\ io \in [Procs -> IoLabels]
  BY DEF BInv, DInv, DiskTypeOK
<1>2. UNCHANGED <<bcacheVars, lock, pc, mybuf, pinned, platter, data, avail, desc, req>>
  BY DEF Driver, IntrAck, IntrOne, IntrEnd
<1>3. DInv'
  BY <1>1, IntrAckKeeps, IntrOneKeeps, IntrEndKeeps DEF Driver
<1>4. \A q \in Procs : /\ io'[q] = "none" <=> io[q] = "none"
                       /\ io'[q] \in {"asleep", "woken"} => io[q] \in {"asleep", "woken"}
  <2>1. CASE IntrAck \/ IntrEnd
    BY <2>1 DEF IntrAck, IntrEnd
  <2>2. CASE IntrOne
    BY <1>1, <2>2 DEF IntrOne, WakeOwner
  <2> QED  BY <2>1, <2>2 DEF Driver
<1>5. ReadInv'
  BY <1>2, <1>4, ReadsUntouched DEF InFlight, bcacheVars
<1>6. panic' # "no buffers"
  BY DEF Driver, IntrAck, IntrOne, IntrEnd
<1> QED  BY <1>2, <1>3, <1>4, <1>5, <1>6, DriverStepKeeps

\* The device transfers a block: no other request is about the same buffer or
\* the same block.
LEMMA TransferFacts ==
  ASSUME BInv, NEW i \in Descs, DeviceDone(i)
  PROVE  \E p \in InFlight :
           /\ H(p) = i /\ p \in Procs /\ mybuf[p] \in Bufs /\ blockno[mybuf[p]] \in Blocks
           /\ \/ /\ pc[p] = "write" /\ data' = data
                 /\ platter' = [platter EXCEPT ![blockno[mybuf[p]]] = data[mybuf[p]]]
              \/ /\ pc[p] = "read" /\ platter' = platter
                 /\ data' = [data EXCEPT ![mybuf[p]] = platter[blockno[mybuf[p]]]]
<1>1. DInv /\ i \in avail
  BY DEF BInv, DeviceDone
<1>2. PICK p \in InFlight : /\ H(p) = i
                            /\ desc[i].next = D(p) /\ desc[D(p)].ref = req[p].buf
                            /\ desc[i].block = req[p].block
                            /\ desc[i].kind = IF req[p].write THEN "out" ELSE "in"
  BY <1>1, DeviceFacts
<1>3. p \in Procs /\ io[p] # "none"
  BY DEF InFlight
<1>4. /\ pc[p] \in {"read", "write"} /\ req[p].buf = mybuf[p] /\ req[p].block = blockno[mybuf[p]]
      /\ req[p].write = IF pc[p] = "write" THEN TRUE ELSE FALSE
  BY <1>3 DEF BInv, IoInv, IoOf
<1>5. mybuf[p] \in Bufs /\ blockno[mybuf[p]] \in Blocks
  BY <1>3, <1>4, BufferOf
<1>6. CASE pc[p] = "write"
  <2>1. desc[i].kind = "out"
    BY <1>2, <1>4, <1>6
  <2>2. platter' = [platter EXCEPT ![blockno[mybuf[p]]] = data[mybuf[p]]] /\ data' = data
    BY <1>2, <1>4, <2>1 DEF DeviceDone
  <2> QED  BY <1>2, <1>3, <1>5, <1>6, <2>2
<1>7. CASE pc[p] = "read"
  <2>1. desc[i].kind # "out"
    BY <1>2, <1>4, <1>7
  <2>2. data' = [data EXCEPT ![mybuf[p]] = platter[blockno[mybuf[p]]]] /\ platter' = platter
    BY <1>2, <1>4, <2>1 DEF DeviceDone
  <2> QED  BY <1>2, <1>3, <1>5, <1>7, <2>2
<1> QED  BY <1>4, <1>6, <1>7

\* What was read stays equal to what is on the disk.
LEMMA TransferKeeps ==
  ASSUME BInv, panic = "none", NEW i \in Descs, Driver(DeviceDone(i)) PROVE BInv'
<1>1. DeviceDone(i) /\ UNCHANGED <<bcacheVars, lock, pc, mybuf, pinned>>
  BY DEF Driver
<1>2. UNCHANGED <<io, req, panic>> /\ avail' = avail \ {i}
  BY <1>1 DEF DeviceDone
<1>3. DInv'
  BY <1>1, DeviceDoneKeeps DEF BInv
<1>4. PICK p \in InFlight :
           /\ H(p) = i /\ p \in Procs /\ mybuf[p] \in Bufs /\ blockno[mybuf[p]] \in Blocks
           /\ \/ /\ pc[p] = "write" /\ data' = data
                 /\ platter' = [platter EXCEPT ![blockno[mybuf[p]]] = data[mybuf[p]]]
              \/ /\ pc[p] = "read" /\ platter' = platter
                 /\ data' = [data EXCEPT ![mybuf[p]] = platter[blockno[mybuf[p]]]]
  BY <1>1, TransferFacts
<1>5. platter \in [Blocks -> Data] /\ data \in [Bufs -> Data]
  BY DEF BInv, DInv, DiskTypeOK
<1>6. ReadInv'
  <2> SUFFICES ASSUME NEW q \in InFlight, pc[q] = "read", H(q) = i \/ H(q) \notin avail
               PROVE  data'[mybuf[q]] = platter'[blockno[mybuf[q]]]
    BY <1>1, <1>2 DEF ReadInv, InFlight, H, bcacheVars
  <2>1. q \in Procs
    BY DEF InFlight
  <2>2. CASE q = p
    BY <1>4, <1>5, <2>2
  <2>3. CASE q # p
    <3>1. H(q) # i
      BY <1>4, <2>3, ChainsDisjoint DEF BInv
    <3>2. data[mybuf[q]] = platter[blockno[mybuf[q]]]
      BY <3>1 DEF BInv, ReadInv
    <3>3. mybuf[q] \in Bufs /\ blockno[mybuf[q]] \in Blocks /\ mybuf[q] # mybuf[p]
      BY <1>4, <2>1, <2>3, BufferOf, OneHolder
    <3>4. blockno[mybuf[q]] # blockno[mybuf[p]]
      BY <1>4, <2>1, <3>3, BufferOf
    <3> QED  BY <1>4, <1>5, <3>2, <3>3, <3>4
  <2> QED  BY <2>2, <2>3
<1> QED  BY <1>1, <1>2, <1>3, <1>6, DriverStepKeeps

\* binit()
LEMMA BioInitHolds == Init => BInv
<1> SUFFICES ASSUME Init PROVE BInv
  OBVIOUS
<1> USE VirtioAssumption, BioAssumption
<1>1. DInv
  BY DiskInitHolds DEF Init
<1>2. /\ io = [p \in Procs |-> "none"] /\ panic = "none"
      /\ blockno = [k \in Bufs |-> NoBlock] /\ valid = [k \in Bufs |-> FALSE]
      /\ refcnt = [k \in Bufs |-> 0] /\ lock = [k \in Bufs |-> NoProc]
      /\ lru = [j \in Bufs |-> NBUF + 1 - j] /\ pc = [p \in Procs |-> "idle"]
      /\ mybuf = [p \in Procs |-> NoBuf] /\ pinned = {}
  BY DEF Init, DiskInit
<1>3. TypeOK
  <2>1. lru \in [Bufs -> Bufs]
    BY <1>2 DEF Bufs
  <2>2. mybuf \in [Procs -> 0..NBUF]
    BY <1>2 DEF NoBuf
  <2>3. /\ blockno \in [Bufs -> Blocks \cup {NoBlock}] /\ refcnt \in [Bufs -> Nat]
        /\ lock \in [Bufs -> Procs \cup {NoProc}] /\ pinned \subseteq Blocks
        /\ pc \in [Procs -> {"idle", "lock", "read", "hold", "write", "put"}]
    BY <1>2
  <2>4. valid \in [Bufs -> BOOLEAN]
    BY <1>2
  <2> QED  BY <1>1, <2>1, <2>2, <2>3, <2>4 DEF TypeOK, DInv
<1>4. OneBuffer  BY <1>2 DEF OneBuffer
<1>5. UserInv /\ IoInv  BY <1>2 DEF UserInv, IoInv, IoOf
<1>6. ValidInv /\ PinInv /\ PanicInv  BY <1>2 DEF ValidInv, PinInv, PanicInv
<1>7. ReadInv  BY <1>2 DEF ReadInv, InFlight
<1>8. RefInv
  <2>1. \A k \in Bufs : Users(k) = {} /\ Pins(k) = 0
    BY <1>2 DEF Users, Pins, Bufs, NoBuf
  <2> QED  BY <1>2, <2>1, FS_EmptySet DEF RefInv
<1> QED  BY <1>1, <1>3, <1>4, <1>5, <1>6, <1>7, <1>8 DEF BInv

\* One more process uses buffer k.
LEMMA UserAdded ==
  ASSUME BInv, NEW p \in Procs, NEW k \in Bufs, mybuf[p] = NoBuf,
         mybuf' = [mybuf EXCEPT ![p] = k]
  PROVE  /\ Cardinality(Users(k)') = Cardinality(Users(k)) + 1
         /\ \A j \in Bufs \ {k} : Users(j)' = Users(j)
<1>1. mybuf \in [Procs -> 0..NBUF] /\ \A j \in Bufs : j # NoBuf
  BY VirtioAssumption DEF BInv, TypeOK, Bufs, NoBuf
<1>2. Users(k)' = Users(k) \cup {p} /\ p \notin Users(k)
  BY <1>1 DEF Users
<1>3. \A j \in Bufs \ {k} : Users(j)' = Users(j)
  BY <1>1 DEF Users
<1> QED  BY <1>2, <1>3, UsersCounted, FS_AddElement

\* bget() finds the block and counts the new user.
LEMMA BgetHitKeeps ==
  ASSUME BInv, panic = "none", NEW p \in Procs, NEW b \in Blocks, BgetHit(p, b) PROVE BInv'
<1> USE VirtioAssumption
<1>1. PICK k \in Bufs : /\ blockno[k] = b
                        /\ refcnt' = [refcnt EXCEPT ![k] = @ + 1]
                        /\ mybuf' = [mybuf EXCEPT ![p] = k]
  BY DEF BgetHit
<1>2. /\ pc[p] = "idle" /\ pc' = [pc EXCEPT ![p] = "lock"]
      /\ UNCHANGED <<ioVars, panic, blockno, valid, lru, lock, pinned>>
  BY DEF BgetHit
<1>3. /\ CacheTypes /\ mybuf[p] = NoBuf /\ io[p] = "none" /\ k \in 0..NBUF
  <2>1. CacheTypes
    BY DEF BInv, TypeOK, CacheTypes
  <2>2. mybuf[p] = NoBuf /\ io[p] = "none"
    BY <1>2 DEF BInv, UserInv, IoInv, IoOf
  <2> QED  BY <2>1, <2>2 DEF Bufs
<1>4. /\ pc' \in [Procs -> {"idle", "lock", "read", "hold", "write", "put"}]
      /\ mybuf' \in [Procs -> 0..NBUF] /\ refcnt' \in [Bufs -> Nat]
      /\ pc'[p] = "lock" /\ mybuf'[p] = k
      /\ \A q \in Procs \ {p} : pc'[q] = pc[q] /\ mybuf'[q] = mybuf[q]
  BY <1>1, <1>2, <1>3 DEF CacheTypes
<1>5. DInv'
  BY <1>2, DriverIdle DEF BInv, DInv, DiskTypeOK, ioVars
<1>6. TypeOK'
  BY <1>2, <1>3, <1>4, <1>5 DEF TypeOK, DInv, CacheTypes
<1>7. OneBuffer'  BY <1>2 DEF BInv, OneBuffer
<1>8. UserInv' /\ IoInv'
  <2>1. UNCHANGED <<io, req, lock, blockno>>
    BY <1>2 DEF ioVars
  <2>2. k # NoBuf
    BY DEF Bufs, NoBuf
  <2>3. UserInv'
    BY <1>1, <1>2, <1>3, <1>4, <2>1, <2>2 DEF BInv, UserInv
  <2>4. IoInv'
    <3>1. ASSUME NEW q \in Procs \ {p}
          PROVE  IoOf(q)'
      BY <1>4, <2>1, <3>1, ZenonT(30) DEF BInv, IoInv, IoOf
    <3> QED  BY <1>3, <1>4, <2>1, <3>1 DEF IoInv, IoOf
  <2> QED  BY <2>3, <2>4
<1>9. ValidInv' /\ PinInv' /\ PanicInv'
  BY <1>2, <1>4 DEF BInv, ValidInv, PinInv, PanicInv
<1>10. RefInv'
  <2>1. \A j \in Bufs : Pins(j)' = Pins(j)
    BY <1>2 DEF Pins
  <2>2. /\ Cardinality(Users(k)') = Cardinality(Users(k)) + 1
        /\ \A j \in Bufs \ {k} : Users(j)' = Users(j)
    BY <1>1, <1>3, UserAdded
  <2>3. /\ refcnt'[k] = refcnt[k] + 1 /\ \A j \in Bufs \ {k} : refcnt'[j] = refcnt[j]
    BY <1>1, <1>3 DEF CacheTypes
  <2>4. Cardinality(Users(k)) \in Nat /\ Pins(k) \in Nat
    BY UsersCounted DEF Pins
  <2> QED  BY <2>1, <2>2, <2>3, <2>4 DEF BInv, RefInv
<1>11. ReadInv'
  BY <1>2, <1>4, ReadsUntouched DEF ioVars, driverVars, InFlight
<1> QED  BY <1>5, <1>6, <1>7, <1>8, <1>9, <1>10, <1>11 DEF BInv

\* bget() recycles a buffer that nobody refers to for a block that is in none.
LEMMA BgetMissKeeps ==
  ASSUME BInv, panic = "none", NEW p \in Procs, NEW b \in Blocks, BgetMiss(p, b) PROVE BInv'
<1> USE VirtioAssumption
<1>1. PICK k \in Bufs : /\ IsVictim(k)
                        /\ blockno' = [blockno EXCEPT ![k] = b]
                        /\ valid' = [valid EXCEPT ![k] = FALSE]
                        /\ refcnt' = [refcnt EXCEPT ![k] = 1]
                        /\ mybuf' = [mybuf EXCEPT ![p] = k]
  BY DEF BgetMiss
<1>2. /\ pc[p] = "idle" /\ pc' = [pc EXCEPT ![p] = "lock"] /\ \A j \in Bufs : blockno[j] # b
      /\ UNCHANGED <<ioVars, panic, lru, lock, pinned>>
  BY DEF BgetMiss, Cached
<1>3. /\ CacheTypes /\ mybuf[p] = NoBuf /\ io[p] = "none" /\ k \in 0..NBUF
  <2>1. CacheTypes
    BY DEF BInv, TypeOK, CacheTypes
  <2>2. mybuf[p] = NoBuf /\ io[p] = "none"
    BY <1>2 DEF BInv, UserInv, IoInv, IoOf
  <2> QED  BY <2>1, <2>2 DEF Bufs
<1>4. /\ pc' \in [Procs -> {"idle", "lock", "read", "hold", "write", "put"}]
      /\ mybuf' \in [Procs -> 0..NBUF] /\ refcnt' \in [Bufs -> Nat]
      /\ pc'[p] = "lock" /\ mybuf'[p] = k
      /\ \A q \in Procs \ {p} : pc'[q] = pc[q] /\ mybuf'[q] = mybuf[q]
  BY <1>1, <1>2, <1>3 DEF CacheTypes
<1>5. /\ blockno' \in [Bufs -> Blocks \cup {NoBlock}] /\ blockno'[k] = b
      /\ \A j \in Bufs \ {k} : blockno'[j] = blockno[j]
  BY <1>1, <1>3 DEF CacheTypes
<1>6. /\ valid' \in [Bufs -> BOOLEAN] /\ \A j \in Bufs \ {k} : valid'[j] = valid[j]
  BY <1>1, <1>3 DEF CacheTypes
<1>7. /\ refcnt[k] = 0 /\ blockno[k] \notin pinned /\ \A q \in Procs : mybuf[q] # k
      /\ b \notin pinned
  <2>1. refcnt[k] = 0
    BY <1>1 DEF IsVictim
  <2>2. b \notin pinned
    BY <1>2 DEF BInv, PinInv
  <2> QED  BY <2>1, <2>2, Referenced
<1>8. DInv'
  BY <1>2, DriverIdle DEF BInv, DInv, DiskTypeOK, ioVars
<1>9. TypeOK'
  BY <1>2, <1>3, <1>4, <1>5, <1>6, <1>8 DEF TypeOK, DInv, CacheTypes
<1>10. OneBuffer'
  BY <1>2, <1>5 DEF BInv, OneBuffer
<1>11. UserInv' /\ IoInv'
  <2>1. \A q \in Procs \ {p} : pc[q] # "idle" => blockno'[mybuf[q]] = blockno[mybuf[q]]
    BY <1>5, <1>7, BufferOf
  <2>2. /\ io' = io /\ req' = req /\ lock' = lock
    BY <1>2 DEF ioVars
  <2>3. UserInv'
    <3>1. k # NoBuf
      BY DEF Bufs, NoBuf
    <3> QED  BY <1>2, <1>3, <1>4, <1>5, <1>7, <2>1, <2>2, <3>1 DEF BInv, UserInv
  <2>4. IoInv'
    BY <1>3, <1>4, <2>1, <2>2 DEF BInv, IoInv, IoOf
  <2> QED  BY <2>3, <2>4
<1>12. ValidInv'
  <2>1. \A q \in Procs \ {p} : pc[q] # "idle" => valid'[mybuf[q]] = valid[mybuf[q]]
    BY <1>6, <1>7, BufferOf
  <2> QED  BY <1>4, <2>1 DEF BInv, ValidInv
<1>13. RefInv'
  <2>1. /\ Cardinality(Users(k)') = Cardinality(Users(k)) + 1
        /\ \A j \in Bufs \ {k} : Users(j)' = Users(j)
    BY <1>1, <1>3, UserAdded
  <2>2. Users(k) = {}
    BY <1>7 DEF Users
  <2>3. Cardinality(Users(k)') = 1
    BY <2>1, <2>2, FS_EmptySet
  <2>4. Pins(k)' = 0 /\ \A j \in Bufs \ {k} : Pins(j)' = Pins(j)
    BY <1>2, <1>5, <1>7 DEF Pins
  <2>5. /\ refcnt'[k] = 1 /\ \A j \in Bufs \ {k} : refcnt'[j] = refcnt[j]
    BY <1>1, <1>3 DEF CacheTypes
  <2> QED  BY <2>1, <2>3, <2>4, <2>5 DEF BInv, RefInv
<1>14. PinInv'
  <2>1. ASSUME NEW c \in pinned PROVE \E j \in Bufs : blockno'[j] = c /\ valid'[j]
    <3>1. PICK j \in Bufs : blockno[j] = c /\ valid[j]
      BY <2>1 DEF BInv, PinInv
    <3>2. j # k
      BY <1>7, <2>1, <3>1
    <3> QED  BY <1>5, <1>6, <3>1, <3>2
  <2> QED  BY <1>2, <2>1 DEF PinInv
<1>15. ReadInv'
  <2>1. \A q \in Procs \ {p} : pc[q] # "idle" => blockno'[mybuf[q]] = blockno[mybuf[q]]
    BY <1>5, <1>7, BufferOf
  <2>2. UNCHANGED <<avail, desc, data, platter, req, io>> /\ InFlight' = InFlight
    BY <1>2 DEF ioVars, driverVars, InFlight
  <2>3. \A q \in InFlight : q \in Procs
    BY DEF InFlight
  <2> QED  BY <1>4, <2>1, <2>2, <2>3, ReadsUntouched
<1>16. PanicInv'
  BY <1>2 DEF PanicInv
<1> QED  BY <1>8, <1>9, <1>10, <1>11, <1>12, <1>13, <1>14, <1>15, <1>16 DEF BInv

\* bget() panics only with every buffer referenced.
LEMMA BgetPanicKeeps ==
  ASSUME BInv, panic = "none", NEW p \in Procs, NEW b \in Blocks, BgetPanic(p, b) PROVE BInv'
<1> USE DEF BgetPanic, bcacheVars
<1>1. UNCHANGED <<platter, data, driverVars, io, req>>
  BY DEF ioVars
<1>2. DInv'
  BY <1>1, DriverIdle DEF BInv, DInv, DiskTypeOK
<1>3. TypeOK'
  <2>1. CacheTypes
    BY DEF BInv, TypeOK, CacheTypes
  <2>2. CacheTypes'
    BY <2>1 DEF CacheTypes
  <2> QED  BY <1>2, <2>2 DEF TypeOK, DInv, CacheTypes
<1>4. OneBuffer'  BY DEF BInv, OneBuffer
<1>5. UserInv' /\ IoInv'
  <2>1. UNCHANGED <<blockno, lock, pc, mybuf, io, req>>
    BY <1>1
  <2>2. UserInv'
    BY <2>1, UsersUntouched DEF BInv
  <2>3. IoInv'
    BY <2>1, CallsUntouched DEF BInv
  <2> QED  BY <2>2, <2>3
<1>6. ValidInv' /\ PinInv'  BY DEF BInv, ValidInv, PinInv
<1>7. RefInv'  BY CountsUntouched
<1>8. ReadInv'  BY <1>1, ReadsUntouched DEF driverVars, InFlight
<1>9. PanicInv'  BY DEF PanicInv
<1> QED  BY <1>2, <1>3, <1>4, <1>5, <1>6, <1>7, <1>8, <1>9 DEF BInv

\* virtio_disk_rw() is called by a process that holds the buffer's sleep-lock.
LEMMA CallKeepsDriver ==
  ASSUME BInv, NEW p \in Procs, NEW w \in BOOLEAN, pc[p] # "idle",
         \A q \in Procs \ {p} : pc[q] \in {"read", "hold", "write"} => mybuf[q] # mybuf[p],
         RwCall(p, mybuf[p], blockno[mybuf[p]], w)
  PROVE  /\ DInv'
         /\ io'[p] = "alloc" /\ \A q \in Procs \ {p} : io'[q] = io[q] /\ req'[q] = req[q]
         /\ req'[p].buf = mybuf[p] /\ req'[p].block = blockno[mybuf[p]] /\ req'[p].write = w
         /\ \A q \in InFlight' : q # p /\ q \in InFlight
<1>1. mybuf[p] \in Bufs /\ blockno[mybuf[p]] \in Blocks
  BY BufferOf
<1>2. DInv /\ io[p] = "none" /\ io \in [Procs -> IoLabels] /\ p \in DOMAIN req
  BY DEF BInv, DInv, DiskTypeOK, RwCall
<1>3. \A q \in Procs : io[q] # "none" => req[q].buf # mybuf[p]
  <2> SUFFICES ASSUME NEW q \in Procs, io[q] # "none" PROVE req[q].buf # mybuf[p]
    OBVIOUS
  <2>1. pc[q] \in {"read", "write"} /\ req[q].buf = mybuf[q]
    BY DEF BInv, IoInv, IoOf
  <2> QED  BY <1>2, <2>1
<1>4. DInv'
  BY <1>1, <1>2, <1>3, RwCallKeeps
<1>5. /\ io'[p] = "alloc" /\ \A q \in Procs \ {p} : io'[q] = io[q] /\ req'[q] = req[q]
      /\ req'[p] = [buf |-> mybuf[p], block |-> blockno[mybuf[p]], write |-> w, head |-> NoDesc]
  BY <1>2, ZenonT(30) DEF RwCall, BInv, DInv, DiskTypeOK
<1>6. \A q \in InFlight' : q # p /\ q \in InFlight
  BY <1>5 DEF InFlight
<1> QED  BY <1>4, <1>5, <1>6

\* virtio_disk_rw() returns: the process is out of the driver.
LEMMA ReturnKeepsDriver ==
  ASSUME BInv, NEW p \in Procs, RwReturn(p)
  PROVE  /\ DInv'
         /\ io'[p] = "none" /\ \A q \in Procs \ {p} : req'[q] = req[q]
         /\ \A q \in Procs \ {p} : io'[q] = "none" <=> io[q] = "none"
         /\ \A q \in InFlight' : q # p /\ q \in InFlight
         /\ p \in InFlight /\ H(p) \notin avail
<1>1. DInv /\ io \in [Procs -> IoLabels] /\ req[p].buf \notin busy /\ p \in DOMAIN req
  <2>1. req[p].buf \notin busy
    BY DEF RwReturn
  <2> QED  BY <2>1 DEF BInv, DInv, DiskTypeOK
<1>2. DInv'
  BY <1>1, RwReturnKeeps
<1>3. /\ io[p] = "woken" /\ io'[p] = "none"
      /\ \A q \in Procs \ {p} : /\ io'[q] = "none" <=> io[q] = "none"
                                /\ io'[q] \in {"asleep", "woken"} => io[q] \in {"asleep", "woken"}
  BY <1>1 DEF RwReturn, WakeAllocs
<1>4. \A q \in Procs \ {p} : req'[q] = req[q]
  <2>1. req' = [req EXCEPT ![p] = NoReq] /\ DOMAIN req = Procs
    BY DEF RwReturn, BInv, DInv, DiskTypeOK
  <2> QED  BY <2>1
<1>5. p \in InFlight /\ \A q \in InFlight' : q # p /\ q \in InFlight
  BY <1>3 DEF InFlight
<1>6. H(p) \notin avail
  <2> SUFFICES ASSUME H(p) \in avail PROVE FALSE
    OBVIOUS
  <2>1. PICK q \in InFlight : H(q) = H(p) /\ req[q].buf \in busy
    BY <1>1 DEF DInv, AvailInv
  <2>2. q = p
    BY <1>1, <1>5, <2>1, ChainsDisjoint
  <2> QED  BY <1>1, <2>1, <2>2
<1> QED  BY <1>2, <1>3, <1>4, <1>5, <1>6

\* A process gets the sleep-lock of its buffer and reads the block if the buffer
\* is not valid.
LEMMA BreadLockedKeeps ==
  ASSUME BInv, panic = "none", NEW p \in Procs, BreadLocked(p) PROVE BInv'
<1> DEFINE k == mybuf[p]
<1>1. /\ pc[p] = "lock" /\ lock[k] = NoProc /\ lock' = [lock EXCEPT ![k] = p]
      /\ UNCHANGED <<blockno, valid, refcnt, lru, mybuf, pinned>>
  BY DEF BreadLocked, bcacheVars
<1>2. CacheTypes /\ k \in Bufs /\ blockno[k] \in Blocks
  BY <1>1, BufferOf DEF BInv, TypeOK, CacheTypes
<1>3. io[p] = "none" /\ io \in [Procs -> IoLabels]
  BY <1>1 DEF BInv, IoInv, IoOf, DInv, DiskTypeOK
<1>4. \A q \in Procs \ {p} : pc[q] \in {"read", "hold", "write"} => mybuf[q] # k
  <2> SUFFICES ASSUME NEW q \in Procs, pc[q] \in {"read", "hold", "write"}, mybuf[q] = k PROVE FALSE
    OBVIOUS
  <2>1. lock[k] = q
    BY <1>2 DEF BInv, UserInv
  <2> QED  BY <1>1, <2>1, BioAssumption
<1>5. \/ /\ valid[k] /\ pc' = [pc EXCEPT ![p] = "hold"] /\ DInv'
         /\ UNCHANGED <<io, req, platter, data, driverVars, panic>>
         /\ \A q \in InFlight' : q # p /\ q \in InFlight
      \/ /\ ~valid[k] /\ pc' = [pc EXCEPT ![p] = "read"] /\ DInv'
         /\ io'[p] = "alloc" /\ \A q \in Procs \ {p} : io'[q] = io[q] /\ req'[q] = req[q]
         /\ req'[p].buf = k /\ req'[p].block = blockno[k] /\ req'[p].write = FALSE
         /\ UNCHANGED <<platter, data, driverVars, panic>>
         /\ \A q \in InFlight' : q # p /\ q \in InFlight
  <2>1. CASE valid[k] /\ pc' = [pc EXCEPT ![p] = "hold"] /\ UNCHANGED <<ioVars, panic>>
    <3>1. UNCHANGED <<io, req, platter, data, driverVars, panic>>
      BY <2>1 DEF ioVars
    <3>2. DInv'
      BY <3>1, DriverIdle DEF BInv, DInv, DiskTypeOK
    <3>3. \A q \in InFlight' : q # p /\ q \in InFlight
      BY <1>3, <3>1 DEF InFlight
    <3> QED  BY <2>1, <3>1, <3>2, <3>3
  <2>2. CASE /\ ~valid[k] /\ pc' = [pc EXCEPT ![p] = "read"]
             /\ RwCall(p, k, blockno[k], FALSE)
    <3>1. UNCHANGED <<platter, data, driverVars, panic>>
      BY <2>2 DEF RwCall
    <3> QED  BY <1>1, <1>4, <2>2, <3>1, CallKeepsDriver
  <2> QED  BY <2>1, <2>2 DEF BreadLocked
<1>6. /\ lock' \in [Bufs -> Procs \cup {NoProc}] /\ lock'[k] = p
      /\ \A j \in Bufs \ {k} : lock'[j] = lock[j]
  BY <1>1, <1>2 DEF CacheTypes
<1>7. /\ pc' \in [Procs -> {"idle", "lock", "read", "hold", "write", "put"}]
      /\ pc'[p] \in {"read", "hold"} /\ \A q \in Procs \ {p} : pc'[q] = pc[q]
      /\ pc'[p] = "hold" <=> valid[k]
  BY <1>2, <1>5 DEF CacheTypes
<1> HIDE DEF k
<1>8. TypeOK'
  BY <1>1, <1>2, <1>5, <1>6, <1>7 DEF TypeOK, DInv, CacheTypes
<1>9. OneBuffer'  BY <1>1 DEF BInv, OneBuffer
<1>10. UserInv'
  <2>1. \A q \in Procs : pc'[q] = "idle" <=> mybuf'[q] = NoBuf
    BY <1>1, <1>7 DEF BInv, UserInv
  <2>2. \A q \in Procs : pc'[q] # "idle" => blockno'[mybuf'[q]] \in Blocks
    BY <1>1, <1>7 DEF BInv, UserInv
  <2>3. ASSUME NEW q \in Procs, NEW j \in Bufs
        PROVE  lock'[j] = q <=> mybuf'[q] = j /\ pc'[q] \in {"read", "hold", "write"}
    BY <1>1, <1>2, <1>4, <1>6, <1>7, BioAssumption DEF BInv, UserInv, k
  <2> QED  BY <2>1, <2>2, <2>3 DEF UserInv
<1>11. IoInv'
  <2> SUFFICES ASSUME NEW q \in Procs
               PROVE  IoOf(q)'
    BY DEF IoInv
  <2>1. CASE q = p
    BY <1>1, <1>2, <1>3, <1>5, <2>1 DEF CacheTypes, IoOf, k
  <2>2. CASE q # p
    <3>1. io'[q] = io[q] /\ req'[q] = req[q] /\ pc'[q] = pc[q]
      BY <1>5, <1>7, <2>2
    <3> QED  BY <1>1, <3>1 DEF BInv, IoInv, IoOf
  <2> QED  BY <2>1, <2>2
<1>12. ValidInv'
  BY <1>1, <1>7 DEF BInv, ValidInv, k
<1>13. RefInv'  BY <1>1, CountsUntouched
<1>14. PinInv'  BY <1>1 DEF BInv, PinInv
<1>15. ReadInv'
  <2>1. UNCHANGED <<avail, desc, data, platter>>
    BY <1>5 DEF driverVars
  <2>2. \A q \in InFlight' : q \in Procs /\ q # p /\ q \in InFlight /\ req'[q] = req[q] /\ pc'[q] = pc[q]
    BY <1>5, <1>7 DEF InFlight
  <2> QED  BY <1>1, <2>1, <2>2, ReadsUntouched
<1>16. PanicInv'  BY <1>5 DEF PanicInv
<1> QED  BY <1>5, <1>8, <1>9, <1>10, <1>11, <1>12, <1>13, <1>14, <1>15, <1>16 DEF BInv

\* The calls of the processes other than p are as before, and p is outside the
\* driver.
LEMMA CallsOfOthers ==
  ASSUME IoInv, NEW p \in Procs, io'[p] = "none", pc'[p] \notin {"read", "write"},
         \A q \in Procs \ {p} : /\ io'[q] = "none" <=> io[q] = "none"
                                /\ req'[q] = req[q] /\ pc'[q] = pc[q] /\ mybuf'[q] = mybuf[q],
         UNCHANGED blockno
  PROVE  IoInv'
<1> SUFFICES ASSUME NEW q \in Procs
             PROVE  IoOf(q)'
  BY DEF IoInv
<1>1. CASE q = p
  BY <1>1 DEF IoOf
<1>2. CASE q # p
  <2>1. IoOf(q) /\ pc'[q] = pc[q] /\ mybuf'[q] = mybuf[q] /\ req'[q] = req[q] /\ blockno' = blockno
    BY <1>2 DEF IoInv
  <2>2. io'[q] = "none" <=> io[q] = "none"
    BY <1>2
  <2> QED  BY ONLY <2>1, <2>2 DEF IoOf
<1> QED  BY <1>1, <1>2

\* bread() returns a block that has just been read.
LEMMA BreadDoneKeeps == ASSUME BInv, panic = "none", NEW p \in Procs, BreadDone(p) PROVE BInv'
<1> DEFINE k == mybuf[p]
<1>1. /\ pc[p] = "read" /\ RwReturn(p)
      /\ valid' = [valid EXCEPT ![k] = TRUE] /\ pc' = [pc EXCEPT ![p] = "hold"]
      /\ UNCHANGED <<blockno, refcnt, lru, lock, mybuf, pinned>>
  BY DEF BreadDone
<1>2. CacheTypes /\ k \in Bufs
  BY <1>1, BufferOf DEF BInv, TypeOK, CacheTypes
<1>3. /\ DInv'
      /\ io'[p] = "none" /\ \A q \in Procs \ {p} : req'[q] = req[q]
      /\ \A q \in Procs \ {p} : io'[q] = "none" <=> io[q] = "none"
      /\ \A q \in InFlight' : q # p /\ q \in InFlight
  BY <1>1, ReturnKeepsDriver
<1>4. /\ valid' \in [Bufs -> BOOLEAN] /\ valid'[k] = TRUE
      /\ \A j \in Bufs \ {k} : valid'[j] = valid[j]
  BY <1>1, <1>2 DEF CacheTypes
<1>5. /\ pc' \in [Procs -> {"idle", "lock", "read", "hold", "write", "put"}]
      /\ pc'[p] = "hold" /\ \A q \in Procs \ {p} : pc'[q] = pc[q]
  BY <1>1, <1>2 DEF CacheTypes
<1>6. \A q \in Procs \ {p} : pc[q] \in {"read", "hold", "write"} => mybuf[q] \in Bufs /\ mybuf[q] # k
  BY <1>1, BufferOf, OneHolder
<1> HIDE DEF k
<1>7. TypeOK'
  BY <1>1, <1>2, <1>3, <1>4, <1>5 DEF TypeOK, DInv, CacheTypes
<1>8. OneBuffer'  BY <1>1 DEF BInv, OneBuffer
<1>9. UserInv'
  <2>1. UserInv /\ UNCHANGED <<blockno, lock, mybuf>>
    BY <1>1 DEF BInv
  <2>2. \A q \in Procs : /\ pc'[q] = "idle" <=> pc[q] = "idle"
                         /\ pc'[q] \in {"read", "hold", "write"} <=> pc[q] \in {"read", "hold", "write"}
    BY <1>1, <1>5
  <2> QED  BY ONLY <2>1, <2>2 DEF UserInv
<1>10. IoInv'
  BY <1>1, <1>3, <1>5, CallsOfOthers DEF BInv
<1>11. ValidInv'
  BY <1>1, <1>4, <1>5, <1>6 DEF BInv, ValidInv, k
<1>12. RefInv'  BY <1>1, CountsUntouched
<1>13. PinInv'
  BY <1>1, <1>2, <1>4 DEF BInv, PinInv
<1>14. ReadInv'
  <2>1. UNCHANGED <<avail, data, platter>> /\ avail' = avail
    BY <1>1 DEF RwReturn
  <2>2. \A q \in InFlight' : /\ q \in InFlight /\ H(q)' = H(q) /\ pc'[q] = pc[q]
    BY <1>3, <1>5 DEF InFlight, H
  <2> QED  BY <1>1, <2>1, <2>2 DEF BInv, ReadInv
<1>15. PanicInv'  BY <1>1 DEF RwReturn, PanicInv
<1> QED  BY <1>3, <1>7, <1>8, <1>9, <1>10, <1>11, <1>12, <1>13, <1>14, <1>15 DEF BInv

\* bwrite() returns.
LEMMA BwriteDoneKeeps == ASSUME BInv, panic = "none", NEW p \in Procs, BwriteDone(p) PROVE BInv'
<1>1. /\ pc[p] = "write" /\ RwReturn(p) /\ pc' = [pc EXCEPT ![p] = "hold"]
      /\ UNCHANGED <<blockno, valid, refcnt, lru, lock, mybuf, pinned>>
  BY DEF BwriteDone, bcacheVars
<1>2. CacheTypes
  BY DEF BInv, TypeOK, CacheTypes
<1>3. /\ DInv'
      /\ io'[p] = "none" /\ \A q \in Procs \ {p} : req'[q] = req[q]
      /\ \A q \in Procs \ {p} : io'[q] = "none" <=> io[q] = "none"
      /\ \A q \in InFlight' : q # p /\ q \in InFlight
  BY <1>1, ReturnKeepsDriver
<1>4. /\ pc' \in [Procs -> {"idle", "lock", "read", "hold", "write", "put"}]
      /\ pc'[p] = "hold" /\ \A q \in Procs \ {p} : pc'[q] = pc[q]
  BY <1>1, <1>2 DEF CacheTypes
<1>5. TypeOK'
  BY <1>1, <1>2, <1>3, <1>4 DEF TypeOK, DInv, CacheTypes
<1>6. OneBuffer'  BY <1>1 DEF BInv, OneBuffer
<1>7. UserInv'
  <2>1. UserInv /\ UNCHANGED <<blockno, lock, mybuf>>
    BY <1>1 DEF BInv
  <2>2. \A q \in Procs : /\ pc'[q] = "idle" <=> pc[q] = "idle"
                         /\ pc'[q] \in {"read", "hold", "write"} <=> pc[q] \in {"read", "hold", "write"}
    BY <1>1, <1>4
  <2> QED  BY ONLY <2>1, <2>2 DEF UserInv
<1>8. IoInv'
  BY <1>1, <1>3, <1>4, CallsOfOthers DEF BInv
<1>9. ValidInv'
  BY <1>1, <1>4 DEF BInv, ValidInv
<1>10. RefInv'  BY <1>1, CountsUntouched
<1>11. PinInv'  BY <1>1 DEF BInv, PinInv
<1>12. ReadInv'
  <2>1. UNCHANGED <<avail, data, platter>>
    BY <1>1 DEF RwReturn
  <2>2. \A q \in InFlight' : q \in InFlight /\ H(q)' = H(q) /\ pc'[q] = pc[q]
    BY <1>3, <1>4 DEF InFlight, H
  <2> QED  BY <1>1, <2>1, <2>2 DEF BInv, ReadInv
<1>13. PanicInv'  BY <1>1 DEF RwReturn, PanicInv
<1> QED  BY <1>3, <1>5, <1>6, <1>7, <1>8, <1>9, <1>10, <1>11, <1>12, <1>13 DEF BInv

\* bwrite() hands the buffer to the driver.
LEMMA BwriteKeeps == ASSUME BInv, panic = "none", NEW p \in Procs, Bwrite(p) PROVE BInv'
<1>1. /\ pc[p] = "hold" /\ RwCall(p, mybuf[p], blockno[mybuf[p]], TRUE)
      /\ pc' = [pc EXCEPT ![p] = "write"]
      /\ UNCHANGED <<blockno, valid, refcnt, lru, lock, mybuf, pinned>>
      /\ UNCHANGED <<platter, data, driverVars, panic>>
  BY DEF Bwrite, bcacheVars, RwCall
<1>2. CacheTypes
  BY DEF BInv, TypeOK, CacheTypes
<1>3. \A q \in Procs \ {p} : pc[q] \in {"read", "hold", "write"} => mybuf[q] # mybuf[p]
  BY <1>1, OneHolder
<1>4. /\ DInv'
      /\ io'[p] = "alloc" /\ \A q \in Procs \ {p} : io'[q] = io[q] /\ req'[q] = req[q]
      /\ req'[p].buf = mybuf[p] /\ req'[p].block = blockno[mybuf[p]] /\ req'[p].write = TRUE
      /\ \A q \in InFlight' : q # p /\ q \in InFlight
  BY <1>1, <1>3, CallKeepsDriver
<1>5. /\ pc' \in [Procs -> {"idle", "lock", "read", "hold", "write", "put"}]
      /\ pc'[p] = "write" /\ \A q \in Procs \ {p} : pc'[q] = pc[q]
  BY <1>1, <1>2 DEF CacheTypes
<1>6. TypeOK'
  BY <1>1, <1>2, <1>4, <1>5 DEF TypeOK, DInv, CacheTypes
<1>7. OneBuffer'  BY <1>1 DEF BInv, OneBuffer
<1>8. UserInv'
  <2>1. UserInv /\ UNCHANGED <<blockno, lock, mybuf>>
    BY <1>1 DEF BInv
  <2>2. \A q \in Procs : /\ pc'[q] = "idle" <=> pc[q] = "idle"
                         /\ pc'[q] \in {"read", "hold", "write"} <=> pc[q] \in {"read", "hold", "write"}
    BY <1>1, <1>5
  <2> QED  BY ONLY <2>1, <2>2 DEF UserInv
<1>9. IoInv'
  <2> SUFFICES ASSUME NEW q \in Procs
               PROVE  IoOf(q)'
    BY DEF IoInv
  <2>1. CASE q = p
    BY <1>1, <1>4, <1>5, <2>1 DEF IoOf
  <2>2. CASE q # p
    <3>1. IoOf(q) /\ io'[q] = io[q] /\ req'[q] = req[q] /\ pc'[q] = pc[q] /\ UNCHANGED <<mybuf, blockno>>
      BY <1>1, <1>4, <1>5, <2>2 DEF BInv, IoInv
    <3> QED  BY ONLY <3>1 DEF IoOf
  <2> QED  BY <2>1, <2>2
<1>10. ValidInv'
  BY <1>1, <1>5 DEF BInv, ValidInv
<1>11. RefInv'  BY <1>1, CountsUntouched
<1>12. PinInv'  BY <1>1 DEF BInv, PinInv
<1>13. ReadInv'
  <2>1. \A q \in InFlight' : q \in InFlight /\ req'[q] = req[q] /\ pc'[q] = pc[q]
    BY <1>4, <1>5 DEF InFlight
  <2> QED  BY <1>1, <2>1, ReadsUntouched DEF driverVars
<1>14. PanicInv'  BY <1>1 DEF PanicInv
<1> QED  BY <1>4, <1>6, <1>7, <1>8, <1>9, <1>10, <1>11, <1>12, <1>13, <1>14 DEF BInv

\* The user of a buffer changes its data.
LEMMA ModifyKeeps ==
  ASSUME BInv, panic = "none", NEW p \in Procs, NEW v \in Data, Modify(p, v) PROVE BInv'
<1>1. /\ pc[p] = "hold" /\ data' = [data EXCEPT ![mybuf[p]] = v]
      /\ UNCHANGED <<platter, driverVars, io, req, panic>>
      /\ UNCHANGED <<blockno, valid, refcnt, lru, lock, pc, mybuf, pinned>>
  BY DEF Modify, bcacheVars
<1>2. mybuf[p] \in Bufs /\ data \in [Bufs -> Data] /\ platter \in [Blocks -> Data]
  BY <1>1, BufferOf DEF BInv, DInv, DiskTypeOK
<1>3. data' \in [Bufs -> Data] /\ \A j \in Bufs \ {mybuf[p]} : data'[j] = data[j]
  BY <1>1, <1>2
<1>4. DInv'
  <2>1. DInv /\ UNCHANGED <<driverVars, io, req>> /\ platter' \in [Blocks -> Data]
        /\ panic' \in {"none", "no buffers"}
    BY <1>1, <1>2 DEF BInv
  <2> QED  BY <1>3, <2>1, DriverIdle
<1>5. ReadInv'
  <2> SUFFICES ASSUME NEW q \in InFlight, pc[q] = "read", H(q) \notin avail
               PROVE  data'[mybuf[q]] = platter[blockno[mybuf[q]]]
    BY <1>1 DEF ReadInv, InFlight, H, driverVars
  <2>1. q \in Procs /\ q # p
    BY <1>1 DEF InFlight
  <2>2. mybuf[q] \in Bufs /\ mybuf[q] # mybuf[p]
    BY <1>1, <2>1, BufferOf, OneHolder
  <2> QED  BY <1>3, <2>2 DEF BInv, ReadInv
<1> QED  BY <1>1, <1>4, <1>5, DriverStepKeeps DEF bcacheVars

\* bpin() and bunpin() change the count of one buffer and the pin of its block,
\* which is in no other buffer.
LEMMA PinsCounted ==
  ASSUME BInv, NEW p \in Procs, pc[p] = "hold", UNCHANGED <<mybuf, blockno>>,
         \/ /\ blockno[mybuf[p]] \notin pinned
            /\ pinned' = pinned \cup {blockno[mybuf[p]]}
            /\ refcnt' = [refcnt EXCEPT ![mybuf[p]] = @ + 1]
         \/ /\ blockno[mybuf[p]] \in pinned
            /\ pinned' = pinned \ {blockno[mybuf[p]]}
            /\ refcnt' = [refcnt EXCEPT ![mybuf[p]] = @ - 1]
  PROVE  RefInv' /\ refcnt' \in [Bufs -> Nat]
<1> DEFINE k == mybuf[p]
<1>1. /\ k \in Bufs /\ blockno[k] \in Blocks /\ refcnt \in [Bufs -> Nat]
      /\ \A j \in Bufs : blockno[j] = blockno[k] => j = k
  BY BufferOf DEF BInv, TypeOK
<1>2. \A j \in Bufs : Users(j)' = Users(j) /\ Cardinality(Users(j)) \in Nat
  BY UsersCounted DEF Users
<1>3. \A j \in Bufs \ {k} : Pins(j)' = Pins(j)
  BY <1>1 DEF Pins
<1>4. /\ refcnt[k] = Cardinality(Users(k)) + Pins(k)
      /\ \A j \in Bufs : refcnt[j] = Cardinality(Users(j)) + Pins(j)
  BY <1>1 DEF BInv, RefInv
<1>5. refcnt'[k] = Cardinality(Users(k)') + Pins(k)' /\ refcnt'[k] \in Nat
  <2>1. CASE blockno[k] \notin pinned
    <3>1. Pins(k) = 0 /\ Pins(k)' = 1
      BY <2>1 DEF Pins
    <3>2. refcnt'[k] = refcnt[k] + 1
      BY <1>1, <2>1
    <3> QED  BY <1>1, <1>2, <1>4, <3>1, <3>2
  <2>2. CASE blockno[k] \in pinned
    <3>1. Pins(k) = 1 /\ Pins(k)' = 0
      BY <2>2 DEF Pins
    <3>2. refcnt'[k] = refcnt[k] - 1
      BY <1>1, <2>2
    <3> QED  BY <1>1, <1>2, <1>4, <3>1, <3>2
  <2> QED  BY <2>1, <2>2
<1>6. DOMAIN refcnt' = Bufs /\ \A j \in Bufs \ {k} : refcnt'[j] = refcnt[j]
  BY <1>1
<1>7. refcnt' \in [Bufs -> Nat]
  <2>1. refcnt' = [j \in Bufs |-> refcnt'[j]]
    BY <1>1
  <2> QED  BY <1>1, <1>5, <1>6, <2>1
<1>8. RefInv'
  BY <1>2, <1>3, <1>4, <1>5, <1>6 DEF RefInv
<1> QED  BY <1>7, <1>8

\* bpin() and bunpin() keep the invariant.
LEMMA PinKeeps ==
  ASSUME BInv, panic = "none", NEW p \in Procs, Bpin(p) \/ Bunpin(p) PROVE BInv'
<1>1. /\ pc[p] = "hold" /\ UNCHANGED <<ioVars, panic, blockno, valid, lru, lock, pc, mybuf>>
      /\ \/ /\ blockno[mybuf[p]] \notin pinned
            /\ pinned' = pinned \cup {blockno[mybuf[p]]}
            /\ refcnt' = [refcnt EXCEPT ![mybuf[p]] = @ + 1]
         \/ /\ blockno[mybuf[p]] \in pinned
            /\ pinned' = pinned \ {blockno[mybuf[p]]}
            /\ refcnt' = [refcnt EXCEPT ![mybuf[p]] = @ - 1]
  BY DEF Bpin, Bunpin
<1>2. RefInv' /\ refcnt' \in [Bufs -> Nat]
  BY <1>1, PinsCounted
<1>3. UNCHANGED <<platter, data, driverVars, io, req>>
  BY <1>1 DEF ioVars
<1>4. DInv'
  <2>1. DInv /\ platter' \in [Blocks -> Data] /\ data' \in [Bufs -> Data] /\ panic' \in {"none", "no buffers"}
    BY <1>1, <1>3 DEF BInv, DInv, DiskTypeOK
  <2> QED  BY <1>3, <2>1, DriverIdle
<1>5. /\ mybuf[p] \in Bufs /\ blockno[mybuf[p]] \in Blocks /\ valid[mybuf[p]] /\ pinned \subseteq Blocks
  BY <1>1, BufferOf DEF BInv, ValidInv, TypeOK
<1>6. pinned' \subseteq Blocks
  BY <1>1, <1>5
<1>7. TypeOK'
  <2>1. CacheTypes
    BY DEF BInv, TypeOK, CacheTypes
  <2> QED  BY <1>1, <1>2, <1>4, <1>6, <2>1 DEF TypeOK, DInv, CacheTypes
<1>8. OneBuffer'  BY <1>1 DEF BInv, OneBuffer
<1>9. UserInv'  BY <1>1, UsersUntouched DEF BInv
<1>10. IoInv'  BY <1>1, <1>3, CallsUntouched DEF BInv
<1>11. ValidInv'  BY <1>1 DEF BInv, ValidInv
<1>12. PinInv'
  <2>1. \A b \in pinned' : b = blockno[mybuf[p]] \/ b \in pinned
    BY <1>1
  <2>2. UNCHANGED <<blockno, valid>>
    BY <1>1
  <2> QED  BY <1>5, <2>1, <2>2 DEF BInv, PinInv
<1>13. ReadInv'
  BY <1>1, <1>3, ReadsUntouched DEF InFlight, driverVars
<1>14. PanicInv'  BY <1>1 DEF PanicInv
<1> QED  BY <1>2, <1>4, <1>7, <1>8, <1>9, <1>10, <1>11, <1>12, <1>13, <1>14 DEF BInv

\* brelse() releases the sleep-lock first.
LEMMA ReleaseSleepKeeps ==
  ASSUME BInv, panic = "none", NEW p \in Procs, ReleaseSleep(p) PROVE BInv'
<1>1. /\ pc[p] = "hold" /\ lock' = [lock EXCEPT ![mybuf[p]] = NoProc]
      /\ pc' = [pc EXCEPT ![p] = "put"]
      /\ UNCHANGED <<platter, data, driverVars, io, req, panic>>
      /\ UNCHANGED <<blockno, valid, refcnt, lru, mybuf, pinned>>
  BY DEF ReleaseSleep, ioVars, bcacheVars
<1>2. CacheTypes /\ mybuf[p] \in Bufs
  BY <1>1, BufferOf DEF BInv, TypeOK, CacheTypes
<1>3. DInv'
  <2>1. DInv /\ platter' \in [Blocks -> Data] /\ data' \in [Bufs -> Data] /\ panic' \in {"none", "no buffers"}
    BY <1>1 DEF BInv, DInv, DiskTypeOK
  <2> QED  BY <1>1, <2>1, DriverIdle
<1>4. /\ lock' \in [Bufs -> Procs \cup {NoProc}] /\ lock'[mybuf[p]] = NoProc
      /\ \A j \in Bufs \ {mybuf[p]} : lock'[j] = lock[j]
  BY <1>1, <1>2 DEF CacheTypes
<1>5. /\ pc' \in [Procs -> {"idle", "lock", "read", "hold", "write", "put"}]
      /\ pc'[p] = "put" /\ \A q \in Procs \ {p} : pc'[q] = pc[q]
  BY <1>1, <1>2 DEF CacheTypes
<1>6. TypeOK'
  BY <1>1, <1>2, <1>3, <1>4, <1>5 DEF TypeOK, DInv, CacheTypes
<1>7. OneBuffer'  BY <1>1 DEF BInv, OneBuffer
<1>8. UserInv'
  <2>1. \A q \in Procs : pc'[q] = "idle" <=> mybuf'[q] = NoBuf
    BY <1>1, <1>5 DEF BInv, UserInv
  <2>2. \A q \in Procs : pc'[q] # "idle" => blockno'[mybuf'[q]] \in Blocks
    BY <1>1, <1>5 DEF BInv, UserInv
  <2>3. \A q \in Procs \ {p} : pc[q] \in {"read", "hold", "write"} => mybuf[q] # mybuf[p]
    BY <1>1, OneHolder
  <2>4. ASSUME NEW q \in Procs, NEW j \in Bufs
        PROVE  lock'[j] = q <=> mybuf'[q] = j /\ pc'[q] \in {"read", "hold", "write"}
    <3>1. lock[j] = q <=> mybuf[q] = j /\ pc[q] \in {"read", "hold", "write"}
      BY <2>4 DEF BInv, UserInv
    <3>2. NoProc # q
      BY BioAssumption, <2>4
    <3> QED  BY <1>1, <1>2, <1>4, <1>5, <2>3, <3>1, <3>2
  <2> QED  BY <2>1, <2>2, <2>4 DEF UserInv
<1>9. IoInv'
  <2>1. io[p] = "none"
    BY <1>1 DEF BInv, IoInv, IoOf
  <2> QED  BY <1>1, <1>5, <2>1, CallsOfOthers DEF BInv
<1>10. ValidInv'
  BY <1>1, <1>5 DEF BInv, ValidInv
<1>11. RefInv'  BY <1>1, CountsUntouched
<1>12. PinInv'  BY <1>1 DEF BInv, PinInv
<1>13. ReadInv'
  <2>1. \A q \in InFlight' : q \in InFlight /\ q \in Procs
    BY <1>1 DEF InFlight
  <2> QED  BY <1>1, <1>5, <2>1, ReadsUntouched DEF driverVars
<1>14. PanicInv'  BY <1>1 DEF PanicInv
<1> QED  BY <1>3, <1>6, <1>7, <1>8, <1>9, <1>10, <1>11, <1>12, <1>13, <1>14 DEF BInv

\* brelse() gives the reference back.
LEMMA BrelseKeeps == ASSUME BInv, panic = "none", NEW p \in Procs, Brelse(p) PROVE BInv'
<1> USE VirtioAssumption
<1>0. pc[p] = "put"
  BY DEF Brelse
<1>k. PICK k \in Bufs : k = mybuf[p]
  BY <1>0, BufferOf
<1>1. /\ pc[p] = "put" /\ mybuf[p] = k /\ refcnt' = [refcnt EXCEPT ![k] = @ - 1]
      /\ lru' = IF refcnt'[k] = 0 THEN MoveToFront(k) ELSE lru
      /\ pc' = [pc EXCEPT ![p] = "idle"] /\ mybuf' = [mybuf EXCEPT ![p] = NoBuf]
      /\ UNCHANGED <<platter, data, driverVars, io, req, panic>>
      /\ UNCHANGED <<blockno, valid, lock, pinned>>
  BY <1>k DEF Brelse, ioVars
<1>2. CacheTypes
  BY DEF BInv, TypeOK, CacheTypes
<1>3. DInv'
  <2>1. DInv /\ platter' \in [Blocks -> Data] /\ data' \in [Bufs -> Data] /\ panic' \in {"none", "no buffers"}
    BY <1>1 DEF BInv, DInv, DiskTypeOK
  <2> QED  BY <1>1, <2>1, DriverIdle
<1>4. /\ pc' \in [Procs -> {"idle", "lock", "read", "hold", "write", "put"}]
      /\ mybuf' \in [Procs -> 0..NBUF]
      /\ pc'[p] = "idle" /\ mybuf'[p] = NoBuf
      /\ \A q \in Procs \ {p} : pc'[q] = pc[q] /\ mybuf'[q] = mybuf[q]
  BY <1>1, <1>2 DEF CacheTypes, NoBuf
<1>5. lru' \in [Bufs -> Bufs]
  <2>1. MoveToFront(k) \in [Bufs -> Bufs]
    <3>1. lru \in [Bufs -> Bufs]
      BY <1>2 DEF CacheTypes
    <3>2. \A j \in Bufs : j # 1 => j - 1 \in Bufs
      BY DEF Bufs
    <3> DEFINE at == CHOOSE i \in Bufs : lru[i] = k
               Moved(i) == IF i = 1 THEN k ELSE IF i <= at THEN lru[i - 1] ELSE lru[i]
    <3>3. MoveToFront(k) = [i \in Bufs |-> Moved(i)]
      BY DEF MoveToFront
    <3> HIDE DEF at
    <3>4. \A i \in Bufs : Moved(i) \in Bufs
      BY <1>2, <3>1, <3>2
    <3> HIDE DEF Moved
    <3> QED  BY <3>3, <3>4
  <2> QED  BY <1>1, <1>2, <2>1 DEF CacheTypes
<1>6. RefInv' /\ refcnt' \in [Bufs -> Nat]
  <2>1. p \in Users(k)
    BY <1>1 DEF Users
  <2>2. Users(k)' = Users(k) \ {p} /\ \A j \in Bufs \ {k} : Users(j)' = Users(j)
    <3>1. NoBuf \notin Bufs
      BY DEF Bufs, NoBuf
    <3>2. mybuf[p] = k /\ p \in Procs /\ k \in Bufs
      BY <1>1
    <3> QED  BY ONLY <1>4, <3>1, <3>2 DEF Users
  <2>3. Cardinality(Users(k)') = Cardinality(Users(k)) - 1 /\ Cardinality(Users(k)) \in Nat \ {0}
    <3>1. /\ IsFiniteSet(Users(k)) /\ Cardinality(Users(k)) \in Nat
          /\ Cardinality(Users(k)) # 0
      BY <2>1, UsersCounted
    <3>2. Cardinality(Users(k) \ {p}) = Cardinality(Users(k)) - 1
      BY <2>1, <3>1, FS_RemoveElement
    <3> QED  BY <2>2, <3>1, <3>2
  <2>4. \A j \in Bufs : Pins(j)' = Pins(j) /\ Pins(j) \in Nat
    BY <1>1 DEF Pins
  <2>5. \A j \in Bufs : refcnt[j] = Cardinality(Users(j)) + Pins(j)
    BY DEF BInv, RefInv
  <2>6. refcnt'[k] = refcnt[k] - 1 /\ \A j \in Bufs \ {k} : refcnt'[j] = refcnt[j]
    BY <1>1, <1>2 DEF CacheTypes
  <2>7. refcnt'[k] = Cardinality(Users(k)') + Pins(k)' /\ refcnt'[k] \in Nat
    <3>1. /\ Pins(k)' = Pins(k) /\ Pins(k) \in Nat
          /\ refcnt[k] = Cardinality(Users(k)) + Pins(k)
      BY <1>2, <2>4, <2>5
    <3> QED  BY <2>3, <2>6, <3>1
  <2>8. refcnt' \in [Bufs -> Nat]
    <3>1. refcnt' = [j \in Bufs |-> refcnt'[j]] /\ \A j \in Bufs : refcnt[j] \in Nat
      BY <1>1, <1>2 DEF CacheTypes
    <3> QED  BY <2>6, <2>7, <3>1
  <2>9. RefInv'
    <3>1. ASSUME NEW j \in Bufs, j # k
          PROVE  refcnt'[j] = Cardinality(Users(j)') + Pins(j)'
      <4>1. /\ refcnt'[j] = refcnt[j] /\ Users(j)' = Users(j) /\ Pins(j)' = Pins(j)
            /\ refcnt[j] = Cardinality(Users(j)) + Pins(j)
        BY <2>2, <2>4, <2>5, <2>6, <3>1
      <4> QED  BY <4>1
    <3> QED  BY <2>7, <3>1 DEF RefInv
  <2> QED  BY <2>8, <2>9
<1>7. TypeOK'
  BY <1>1, <1>2, <1>3, <1>4, <1>5, <1>6 DEF TypeOK, DInv, CacheTypes
<1>8. OneBuffer'  BY <1>1 DEF BInv, OneBuffer
<1>9. UserInv'
  <2>1. UserInv /\ UNCHANGED <<blockno, lock>> /\ pc[p] = "put" /\ \A j \in Bufs : j # NoBuf
    BY <1>1 DEF BInv, Bufs, NoBuf
  <2> QED  BY ONLY <1>4, <2>1 DEF UserInv
<1>10. IoInv'
  <2>1. io[p] = "none"
    BY <1>1 DEF BInv, IoInv, IoOf
  <2> QED  BY <1>1, <1>4, <2>1, CallsOfOthers DEF BInv
<1>11. ValidInv'
  BY <1>1, <1>4 DEF BInv, ValidInv
<1>12. PinInv'  BY <1>1 DEF BInv, PinInv
<1>13. ReadInv'
  <2>1. \A q \in InFlight' : q \in InFlight /\ q \in Procs
    BY <1>1 DEF InFlight
  <2> QED  BY <1>1, <1>4, <2>1, ReadsUntouched DEF driverVars
<1>14. PanicInv'  BY <1>1 DEF PanicInv
<1> QED  BY <1>3, <1>6, <1>7, <1>8, <1>9, <1>10, <1>11, <1>12, <1>13, <1>14 DEF BInv

\* One step per operation of the buffer cache and of the driver below it.
LEMMA BioNextKeeps == BInv /\ [Next]_vars => BInv'
<1> SUFFICES ASSUME BInv, [Next]_vars PROVE BInv'
  OBVIOUS
<1>1. CASE UNCHANGED vars
  <2>1. /\ UNCHANGED <<platter, data, driverVars, io, req, panic>>
        /\ UNCHANGED <<blockno, valid, refcnt, lru, lock, pc, mybuf, pinned>>
    BY <1>1 DEF vars, ioVars, bcacheVars
  <2>2. DInv /\ platter' \in [Blocks -> Data] /\ data' \in [Bufs -> Data]
    BY <2>1 DEF BInv, DInv, DiskTypeOK
  <2>3. panic' \in {"none", "no buffers"}
    BY <2>1 DEF BInv, DInv, DiskTypeOK, DriverPanic
  <2>4. DInv'
    BY <2>1, <2>2, <2>3, DriverIdle
  <2>5. TypeOK'
    <3>1. CacheTypes'
      BY <2>1 DEF BInv, TypeOK, CacheTypes
    <3> QED  BY <2>4, <3>1 DEF TypeOK, DInv, CacheTypes
  <2>6. OneBuffer' /\ PinInv' /\ PanicInv'
    BY <2>1 DEF BInv, OneBuffer, PinInv, PanicInv
  <2>7. UserInv' /\ ValidInv'
    BY <2>1, UsersUntouched DEF BInv, ValidInv
  <2>8. IoInv'
    BY <2>1, CallsUntouched DEF BInv
  <2>9. RefInv'
    BY <2>1, CountsUntouched
  <2>10. ReadInv'
    BY <2>1, ReadsUntouched DEF InFlight, driverVars
  <2> QED  BY <2>4, <2>5, <2>6, <2>7, <2>8, <2>9, <2>10 DEF BInv
<1>2. CASE panic = "none" /\ Device
  BY <1>2, TransferKeeps, IntrKeeps DEF Device
<1>3. CASE panic = "none" /\ \E p \in Procs : Step(p)
  <2>1. PICK p \in Procs : Step(p)
    BY <1>3
  <2>2. CASE \E b \in Blocks : BgetHit(p, b) \/ BgetMiss(p, b) \/ BgetPanic(p, b)
    BY <1>3, <2>2, BgetHitKeeps, BgetMissKeeps, BgetPanicKeeps
  <2>3. CASE BreadLocked(p) \/ BreadDone(p)
    BY <1>3, <2>3, BreadLockedKeeps, BreadDoneKeeps
  <2>4. CASE \E v \in Data : Modify(p, v)
    BY <1>3, <2>4, ModifyKeeps
  <2>5. CASE Bwrite(p) \/ BwriteDone(p)
    BY <1>3, <2>5, BwriteKeeps, BwriteDoneKeeps
  <2>6. CASE Bpin(p) \/ Bunpin(p)
    BY <1>3, <2>6, PinKeeps
  <2>7. CASE ReleaseSleep(p) \/ Brelse(p)
    BY <1>3, <2>7, ReleaseSleepKeeps, BrelseKeeps
  <2>8. CASE Driver(NoDescriptors(p)) \/ Driver(SleepAgain(p)) \/ Driver(Kicked(p))
    BY <1>3, <2>8, RwStepKeeps
  <2>9. CASE Driver(Submit(p))
    BY <1>3, <2>9, RwSubmitKeeps
  <2> QED  BY <2>1, <2>2, <2>3, <2>4, <2>5, <2>6, <2>7, <2>8, <2>9 DEF Step
<1> QED  BY <1>1, <1>2, <1>3 DEF Next, Halt

\* The invariant of the buffer cache, the driver and the device together.
THEOREM CacheInductive == Spec => []BInv
<1> QED  BY BioInitHolds, BioNextKeeps, PTL DEF Spec

\* The variables keep their types: no reference count goes below 0.
THEOREM CacheTypesKept == Spec => []TypeOK
<1>1. BInv => TypeOK
  BY DEF BInv
<1> QED  BY <1>1, CacheInductive, PTL

\* A block is never in two buffers, although bget() recycles without the
\* buffer's sleep-lock.
THEOREM BlockInOneBuffer == Spec => []OneBuffer
<1>1. BInv => OneBuffer
  BY DEF BInv
<1> QED  BY <1>1, CacheInductive, PTL

\* If all buffers are referenced, their blocks are the wanted ones, each once.
LEMMA AllWanted ==
  ASSUME BInv, \A k \in Bufs : refcnt[k] # 0
  PROVE  Cardinality(Wanted) = NBUF
<1> USE VirtioAssumption
<1> DEFINE f == [k \in Bufs |-> blockno[k]]
<1>1. /\ blockno \in [Bufs -> Blocks \cup {NoBlock}] /\ mybuf \in [Procs -> 0..NBUF]
      /\ pinned \subseteq Blocks
  BY DEF BInv, TypeOK
<1>2. ASSUME NEW k \in Bufs PROVE blockno[k] \in Wanted /\ blockno[k] \in Blocks
  <2>1. (\E p \in Procs : mybuf[p] = k) \/ blockno[k] \in pinned
    BY Referenced
  <2>2. k # NoBuf
    BY DEF Bufs, NoBuf
  <2>3. CASE blockno[k] \in pinned
    BY <1>1, <2>3 DEF Wanted
  <2>4. CASE \E p \in Procs : mybuf[p] = k
    <3>1. PICK p \in Procs : mybuf[p] = k
      BY <2>4
    <3>2. blockno[k] \in Wanted
      BY <2>2, <3>1 DEF Wanted
    <3>3. pc[p] # "idle"
      BY <2>2, <3>1 DEF BInv, UserInv
    <3> QED  BY <3>1, <3>2, <3>3, BufferOf
  <2> QED  BY <2>1, <2>3, <2>4
<1>3. ASSUME NEW b \in Wanted PROVE \E k \in Bufs : blockno[k] = b
  <2>1. CASE b \in pinned
    BY <2>1 DEF BInv, PinInv
  <2>2. CASE b \notin pinned
    <3>1. PICK p \in Procs : mybuf[p] # NoBuf /\ b = blockno[mybuf[p]]
      BY <1>3, <2>2 DEF Wanted
    <3>2. pc[p] # "idle"
      BY <3>1 DEF BInv, UserInv
    <3> QED  BY <3>1, <3>2, BufferOf
  <2> QED  BY <2>1, <2>2
<1>4. \A j, k \in Bufs : blockno[j] = blockno[k] => j = k
  BY <1>2 DEF BInv, OneBuffer
<1>5. f \in Bijection(Bufs, Wanted)
  <2>1. f \in [Bufs -> Wanted] /\ \A k \in Bufs : f[k] = blockno[k]
    BY <1>2
  <2> HIDE DEF f
  <2>2. f \in Injection(Bufs, Wanted)
    BY <1>4, <2>1 DEF Injection, IsInjective
  <2>3. f \in Surjection(Bufs, Wanted)
    BY <1>3, <2>1 DEF Surjection
  <2> QED  BY <2>2, <2>3 DEF Bijection
<1>6. IsFiniteSet(Bufs) /\ Cardinality(Bufs) = NBUF
  <2>1. 1 \in Int /\ NBUF \in Int /\ NBUF >= 1
    OBVIOUS
  <2>2. IsFiniteSet(1..NBUF) /\ Cardinality(1..NBUF) = IF 1 > NBUF THEN 0 ELSE NBUF - 1 + 1
    BY <2>1, FS_Interval
  <2> QED  BY <2>1, <2>2 DEF Bufs
<1>7. Cardinality(Bufs) = Cardinality(Wanted)
  <2>1. ExistsBijection(Bufs, Wanted)
    BY <1>5 DEF ExistsBijection
  <2> QED  BY <1>6, <2>1, FS_Bijection
<1> QED  BY <1>6, <1>7

\* bget() panics only with NBUF blocks wanted: no reference is leaked.
THEOREM NoBufferLeaks == Spec => []NoLeakedBuffer
<1>1. BInv => NoLeakedBuffer
  BY AllWanted DEF BInv, PanicInv, NoLeakedBuffer
<1> QED  BY <1>1, CacheInductive, PTL

-----------------------------------------------------------------------------
(* The buffer cache and the driver implement BlockCache.                   *)

\* The refinement mapping: the cached copies, and the block each process uses.
CacheOf == [b \in Blocks |-> Contents(b)]
UserOf(p) == IF pc[p] \in {"hold", "write"} THEN blockno[mybuf[p]] ELSE NoBlock
UserMap == [p \in Procs |-> UserOf(p)]

\* A cached copy is the data of the one valid buffer of the block.
Copies ==
  \A b \in Blocks :
    /\ \A k \in Bufs : blockno[k] = b /\ valid[k] => Contents(b) = data[k]
    /\ (\A k \in Bufs : blockno[k] = b => ~valid[k]) => Contents(b) = NoData

\* The CHOOSE in Contents has no choice: a block is in one buffer.
LEMMA CopyOfBuffer == OneBuffer => Copies
<1> SUFFICES ASSUME OneBuffer, NEW b \in Blocks
             PROVE  /\ \A k \in Bufs : blockno[k] = b /\ valid[k] => Contents(b) = data[k]
                    /\ (\A k \in Bufs : blockno[k] = b => ~valid[k]) => Contents(b) = NoData
  BY DEF Copies
<1>1. ASSUME NEW k \in Bufs, blockno[k] = b, valid[k] PROVE Contents(b) = data[k]
  <2> DEFINE c == CHOOSE j \in Bufs : blockno[j] = b /\ valid[j]
  <2>1. c \in Bufs /\ blockno[c] = b
    BY <1>1
  <2>2. Contents(b) = data[c]
    BY <1>1 DEF Contents
  <2> HIDE DEF c
  <2>3. b # NoBlock
    BY VirtioAssumption
  <2>4. c = k
    BY <1>1, <2>1, <2>3 DEF OneBuffer
  <2> QED  BY <2>2, <2>4
<1>2. ASSUME \A k \in Bufs : blockno[k] = b => ~valid[k] PROVE Contents(b) = NoData
  BY <1>2 DEF Contents
<1> QED  BY <1>1, <1>2

\* So it is before and after a step.
LEMMA CopiesHold == BInv /\ BInv' => Copies /\ Copies'
<1>1. BInv => OneBuffer
  BY DEF BInv
<1> QED  BY <1>1, CopyOfBuffer, PTL

\* A copy changes only with its buffer.
LEMMA ContentsKept ==
  ASSUME BInv, BInv', NEW b \in Blocks,
         \A k \in Bufs : blockno'[k] = b <=> blockno[k] = b,
         \A k \in Bufs : blockno[k] = b => /\ valid'[k] <=> valid[k]
                                           /\ valid[k] => data'[k] = data[k]
  PROVE  Contents(b)' = Contents(b)
<1>1. Copies /\ Copies'
  BY CopiesHold
<1>2. CASE \E k \in Bufs : blockno[k] = b /\ valid[k]
  <2>1. PICK k \in Bufs : blockno[k] = b /\ valid[k]
    BY <1>2
  <2>2. blockno'[k] = b /\ valid'[k] /\ data'[k] = data[k]
    BY <2>1
  <2> QED  BY <1>1, <2>1, <2>2 DEF Copies
<1>3. CASE ~\E k \in Bufs : blockno[k] = b /\ valid[k]
  BY <1>1, <1>3 DEF Copies
<1> QED  BY <1>2, <1>3

Using == {"hold", "write"}

\* A step that BlockCache does not see: the valid buffers and the processes that
\* use a block are the same.
LEMMA Unseen ==
  ASSUME BInv, BInv', UNCHANGED <<platter, pinned, blockno, valid>>,
         \A k \in Bufs : valid[k] => data'[k] = data[k],
         \A p \in Procs : /\ pc'[p] \in Using <=> pc[p] \in Using
                          /\ pc[p] \in Using => mybuf'[p] = mybuf[p]
  PROVE  UNCHANGED BC!vars
<1>1. \A b \in Blocks : Contents(b)' = Contents(b)
  BY ContentsKept
<1>2. \A p \in Procs : UserOf(p)' = UserOf(p)
  BY DEF UserOf, Using
<1>3. CacheOf' = CacheOf
  BY <1>1 DEF CacheOf
<1>4. UserMap' = UserMap
  BY <1>2 DEF UserMap
<1> QED  BY <1>3, <1>4 DEF BC!vars, CacheOf, UserMap, UserOf

\* The block of a user, and who else may use it.
LEMMA UserFacts ==
  ASSUME BInv, NEW p \in Procs
  PROVE  /\ pc[p] \in Using => UserOf(p) = blockno[mybuf[p]] /\ UserOf(p) \in Blocks
         /\ pc[p] \notin Using => UserOf(p) = NoBlock
         /\ \A k \in Bufs : UserOf(p) = blockno[k] /\ blockno[k] \in Blocks =>
              mybuf[p] = k /\ pc[p] \in Using /\ lock[k] = p
<1>1. pc[p] \in Using => UserOf(p) = blockno[mybuf[p]] /\ UserOf(p) \in Blocks
  BY BufferOf DEF UserOf, Using
<1>2. pc[p] \notin Using => UserOf(p) = NoBlock
  BY DEF UserOf, Using
<1>3. ASSUME NEW k \in Bufs, UserOf(p) = blockno[k], blockno[k] \in Blocks
      PROVE  mybuf[p] = k /\ pc[p] \in Using /\ lock[k] = p
  <2>1. pc[p] \in Using
    BY <1>2, <1>3, VirtioAssumption
  <2>2. mybuf[p] = k
    BY <1>1, <1>3, <2>1, BufferOf DEF Using
  <2> QED  BY <2>1, <2>2 DEF BInv, UserInv, Using
<1> QED  BY <1>1, <1>2, <1>3

\* bread() returns: the first time for the block with what is on the disk, later
\* with the copy.
LEMMA BreadReturns ==
  ASSUME BInv, BInv', NEW p \in Procs, pc[p] \in {"lock", "read"}, pc' = [pc EXCEPT ![p] = "hold"],
         UNCHANGED <<platter, data, blockno, mybuf, pinned>>,
         lock[mybuf[p]] \in {p, NoProc}, valid' = [valid EXCEPT ![mybuf[p]] = TRUE],
         valid[mybuf[p]] \/ data[mybuf[p]] = platter[blockno[mybuf[p]]]
  PROVE  BC!Next
<1>1. PICK k \in Bufs : k = mybuf[p] /\ blockno[k] \in Blocks
  BY BufferOf
<1>2. PICK b \in Blocks : b = blockno[k]
  BY <1>1
<1>3. \A j \in Bufs : blockno[j] = b => j = k
  BY <1>1, <1>2, BufferOf
<1>4. /\ data \in [Bufs -> Data] /\ valid \in [Bufs -> BOOLEAN] /\ NoData \notin Data
      /\ pc \in [Procs -> {"idle", "lock", "read", "hold", "write", "put"}]
  BY BioAssumption DEF BInv, TypeOK, DiskTypeOK
<1>5. UserOf(p) = NoBlock /\ UserOf(p)' = b /\ \A q \in Procs \ {p} : UserOf(q)' = UserOf(q)
  BY <1>1, <1>2, <1>4 DEF UserOf
<1>6. \A q \in Procs : UserOf(q) # b
  <2> SUFFICES ASSUME NEW q \in Procs, UserOf(q) = b PROVE FALSE
    OBVIOUS
  <2>1. pc[q] \in Using /\ lock[k] = q
    BY <1>1, <1>2, UserFacts
  <2>2. q # p /\ q # NoProc
    BY <2>1, BioAssumption DEF Using
  <2> QED  BY <1>1, <2>1, <2>2
<1>7. /\ Contents(b)' = IF Contents(b) = NoData THEN platter[b] ELSE Contents(b)
      /\ \A c \in Blocks \ {b} : Contents(c)' = Contents(c)
  <2>1. Copies /\ Copies'
    BY CopiesHold
  <2>2. valid'[k] = TRUE /\ \A j \in Bufs \ {k} : valid'[j] = valid[j]
    BY <1>1, <1>4
  <2>3. Contents(b)' = data[k]
    BY <1>2, <2>1, <2>2 DEF Copies
  <2>4. \A c \in Blocks \ {b} : Contents(c)' = Contents(c)
    BY <1>2, <2>2, ContentsKept
  <2>5. CASE valid[k]
    <3>1. Contents(b) = data[k] /\ data[k] # NoData
      BY <1>2, <1>4, <2>1, <2>5 DEF Copies
    <3> QED  BY <2>3, <2>4, <3>1
  <2>6. CASE ~valid[k]
    <3>1. Contents(b) = NoData
      BY <1>3, <2>1, <2>6 DEF Copies
    <3> QED  BY <1>1, <1>2, <2>3, <2>4, <2>6, <3>1
  <2> QED  BY <2>5, <2>6
<1>8. CacheOf' = [CacheOf EXCEPT ![b] = IF @ = NoData THEN platter[b] ELSE @]
  BY <1>7 DEF CacheOf
<1>9. UserMap' = [UserMap EXCEPT ![p] = b] /\ UserMap[p] = NoBlock /\ \A q \in Procs : UserMap[q] # b
  BY <1>5, <1>6 DEF UserMap
<1> HIDE DEF UserMap, CacheOf
<1>10. BC!Get(p, b)
  BY <1>8, <1>9 DEF BC!Get, BC!InUse, UserMap, CacheOf, UserOf
<1> QED  BY <1>10 DEF BC!Next

\* The copy of a block that a process uses is its buffer.
LEMMA CopyInUse ==
  ASSUME BInv, BInv', NEW p \in Procs, pc[p] \in Using
  PROVE  /\ mybuf[p] \in Bufs /\ UserOf(p) \in Blocks /\ UserOf(p) = blockno[mybuf[p]]
         /\ UserOf(p) # NoBlock
         /\ \A j \in Bufs : blockno[j] = UserOf(p) => j = mybuf[p]
         /\ valid[mybuf[p]] /\ Contents(UserOf(p)) = data[mybuf[p]]
<1>1. /\ mybuf[p] \in Bufs /\ UserOf(p) \in Blocks /\ UserOf(p) = blockno[mybuf[p]]
      /\ \A j \in Bufs : blockno[j] = UserOf(p) => j = mybuf[p]
  BY UserFacts, BufferOf DEF Using
<1>2. valid[mybuf[p]]
  BY DEF BInv, ValidInv, Using
<1> QED  BY <1>1, <1>2, CopiesHold, VirtioAssumption DEF Copies

\* The steps of a process that holds a buffer.
LEMMA UserSteps ==
  ASSUME BInv, BInv', NEW p \in Procs,
         (\E v \in Data : Modify(p, v)) \/ Bpin(p) \/ Bunpin(p) \/ ReleaseSleep(p)
  PROVE  BC!Next
<1>1. pc[p] \in Using /\ UNCHANGED <<platter, blockno, valid, mybuf>>
  BY DEF Modify, Bpin, Bunpin, ReleaseSleep, Using, ioVars, bcacheVars
<1>2. /\ mybuf[p] \in Bufs /\ UserOf(p) \in Blocks /\ UserOf(p) = blockno[mybuf[p]]
      /\ UserOf(p) # NoBlock
      /\ \A j \in Bufs : blockno[j] = UserOf(p) => j = mybuf[p]
      /\ valid[mybuf[p]] /\ Contents(UserOf(p)) = data[mybuf[p]]
  BY <1>1, CopyInUse
<1>3. UserMap[p] = UserOf(p)
  BY DEF UserMap
<1>4. CASE \E v \in Data : Modify(p, v)
  <2>1. PICK v \in Data : Modify(p, v)
    BY <1>4
  <2>2. data' = [data EXCEPT ![mybuf[p]] = v] /\ UNCHANGED <<pc, pinned>>
    BY <2>1 DEF Modify
  <2>3. UserMap' = UserMap
    BY <1>1, <2>2 DEF UserMap, UserOf
  <2>4. PICK b \in Blocks : b = UserOf(p)
    BY <1>2
  <2>5. data'[mybuf[p]] = v /\ \A j \in Bufs \ {mybuf[p]} : data'[j] = data[j]
    BY <1>2, <2>2 DEF BInv, TypeOK, DiskTypeOK
  <2>6. Contents(b)' = v
    BY <1>1, <1>2, <2>4, <2>5, CopiesHold DEF Copies
  <2>7. \A c \in Blocks \ {b} : Contents(c)' = Contents(c)
    BY <1>1, <1>2, <2>4, <2>5, ContentsKept
  <2>8. CacheOf' = [CacheOf EXCEPT ![b] = v]
    BY <2>6, <2>7 DEF CacheOf
  <2>9. BC!Update(p, v)
    BY <1>1, <1>2, <1>3, <2>2, <2>3, <2>4, <2>8 DEF BC!Update, UserMap, CacheOf, UserOf
  <2> QED  BY <2>9 DEF BC!Next
<1>5. CASE Bpin(p) \/ Bunpin(p)
  <2>1. UNCHANGED <<data, pc>>
    BY <1>5 DEF Bpin, Bunpin, ioVars
  <2>2. UserMap' = UserMap
    BY <1>1, <2>1 DEF UserMap, UserOf
  <2>3. CacheOf' = CacheOf
    BY <1>1, <2>1, ContentsKept DEF CacheOf
  <2>4. pinned' = pinned \cup {UserOf(p)} \/ pinned' = pinned \ {UserOf(p)}
    BY <1>2, <1>5 DEF Bpin, Bunpin
  <2>5. BC!Pin(p) \/ BC!Unpin(p)
    BY <1>1, <1>2, <1>3, <2>2, <2>3, <2>4 DEF BC!Pin, BC!Unpin, UserMap, CacheOf, UserOf
  <2> QED  BY <2>5 DEF BC!Next
<1>6. CASE ReleaseSleep(p)
  <2>1. UNCHANGED <<data, pinned>> /\ pc' = [pc EXCEPT ![p] = "put"]
    BY <1>6 DEF ReleaseSleep, ioVars
  <2>2. CacheOf' = CacheOf
    BY <1>1, <2>1, ContentsKept DEF CacheOf
  <2>3. UserOf(p)' = NoBlock /\ \A q \in Procs \ {p} : UserOf(q)' = UserOf(q)
    BY <1>1, <2>1 DEF BInv, TypeOK, UserOf
  <2>4. UserMap' = [UserMap EXCEPT ![p] = NoBlock]
    BY <2>3 DEF UserMap
  <2>5. BC!Put(p)
    BY <1>1, <1>2, <1>3, <2>1, <2>2, <2>4 DEF BC!Put, UserMap, CacheOf, UserOf
  <2> QED  BY <2>5 DEF BC!Next
<1> QED  BY <1>4, <1>5, <1>6

\* The device writes the copy back, or reads into a buffer that is not valid yet.
LEMMA DeviceSteps ==
  ASSUME BInv, BInv', NEW i \in Descs, Driver(DeviceDone(i))
  PROVE  BC!Next \/ UNCHANGED BC!vars
<1>1. DeviceDone(i) /\ UNCHANGED <<blockno, valid, pc, mybuf, pinned>>
  BY DEF Driver, bcacheVars
<1>2. PICK p \in InFlight :
           /\ H(p) = i /\ p \in Procs /\ mybuf[p] \in Bufs /\ blockno[mybuf[p]] \in Blocks
           /\ \/ /\ pc[p] = "write" /\ data' = data
                 /\ platter' = [platter EXCEPT ![blockno[mybuf[p]]] = data[mybuf[p]]]
              \/ /\ pc[p] = "read" /\ platter' = platter
                 /\ data' = [data EXCEPT ![mybuf[p]] = platter[blockno[mybuf[p]]]]
  BY <1>1, TransferFacts
<1>3. CASE pc[p] = "write"
  <2>1. data' = data /\ platter' = [platter EXCEPT ![blockno[mybuf[p]]] = data[mybuf[p]]]
    BY <1>2, <1>3
  <2>2. /\ UserOf(p) = blockno[mybuf[p]] /\ UserOf(p) # NoBlock /\ UserOf(p) \in Blocks
        /\ Contents(UserOf(p)) = data[mybuf[p]]
    BY <1>2, <1>3, CopyInUse DEF Using
  <2>3. CacheOf' = CacheOf
    BY <1>1, <2>1, ContentsKept DEF CacheOf
  <2>4. UserMap' = UserMap
    BY <1>1 DEF UserMap, UserOf
  <2>5. UserMap[p] = UserOf(p) /\ CacheOf[UserOf(p)] = data[mybuf[p]]
    BY <1>2, <2>2 DEF UserMap, CacheOf
  <2>6. platter' = [platter EXCEPT ![UserMap[p]] = CacheOf[UserMap[p]]] /\ UserMap[p] # NoBlock
    BY <2>1, <2>2, <2>5
  <2>7. BC!WriteBack(p)
    BY <1>1, <2>3, <2>4, <2>6 DEF BC!WriteBack, UserMap, CacheOf, UserOf
  <2> QED  BY <1>2, <2>7 DEF BC!Next
<1>4. CASE pc[p] = "read"
  <2>1. platter' = platter /\ data' = [data EXCEPT ![mybuf[p]] = platter[blockno[mybuf[p]]]]
    BY <1>2, <1>4
  <2>2. ~valid[mybuf[p]]
    BY <1>2, <1>4 DEF BInv, ValidInv
  <2>3. \A k \in Bufs : valid[k] => data'[k] = data[k]
    BY <1>2, <2>1, <2>2 DEF BInv, TypeOK, DiskTypeOK
  <2> QED  BY <1>1, <2>1, <2>3, Unseen
<1> QED  BY <1>2, <1>3, <1>4

\* bget() recycles a buffer that nobody has: the copy of its old block goes.
LEMMA RecycleStep ==
  ASSUME BInv, BInv', NEW p \in Procs, NEW b \in Blocks, BgetMiss(p, b)
  PROVE  BC!Next \/ UNCHANGED BC!vars
<1>1. PICK k \in Bufs : /\ refcnt[k] = 0
                        /\ blockno' = [blockno EXCEPT ![k] = b]
                        /\ valid' = [valid EXCEPT ![k] = FALSE]
                        /\ mybuf' = [mybuf EXCEPT ![p] = k]
  BY DEF BgetMiss, IsVictim
<1>2. /\ pc[p] = "idle" /\ pc' = [pc EXCEPT ![p] = "lock"] /\ ~Cached(b)
      /\ UNCHANGED <<platter, data, pinned>>
  BY DEF BgetMiss, ioVars
<1>3. /\ blockno \in [Bufs -> Blocks \cup {NoBlock}] /\ valid \in [Bufs -> BOOLEAN]
      /\ pc \in [Procs -> {"idle", "lock", "read", "hold", "write", "put"}]
      /\ mybuf \in [Procs -> 0..NBUF]
  BY DEF BInv, TypeOK
<1>4. \A q \in Procs : mybuf[q] # k
  BY <1>1, Referenced
<1>5. /\ blockno'[k] = b /\ \A j \in Bufs \ {k} : blockno'[j] = blockno[j]
      /\ valid'[k] = FALSE /\ \A j \in Bufs \ {k} : valid'[j] = valid[j]
  BY <1>1, <1>3
<1>6. \A j \in Bufs : blockno[j] # b
  BY <1>2 DEF Cached
<1>7. UserMap' = UserMap
  <2>1. ASSUME NEW q \in Procs PROVE UserOf(q)' = UserOf(q)
    <3>1. CASE q = p
      BY <1>2, <1>3, <3>1 DEF UserOf
    <3>2. CASE q # p
      <4>1. pc'[q] = pc[q] /\ mybuf'[q] = mybuf[q] /\ mybuf[q] # k
        BY <1>1, <1>2, <1>3, <1>4, <3>2
      <4>2. pc[q] \in Using => blockno'[mybuf[q]] = blockno[mybuf[q]]
        BY <1>5, <4>1, BufferOf DEF Using
      <4> QED  BY <4>1, <4>2 DEF UserOf, Using
    <3> QED  BY <3>1, <3>2
  <2> QED  BY <2>1 DEF UserMap
<1>8. Copies /\ Copies'
  BY CopiesHold
<1>9. Contents(b) = NoData /\ Contents(b)' = NoData
  <2>1. \A j \in Bufs : blockno'[j] = b => ~valid'[j]
    BY <1>5, <1>6
  <2> QED  BY <1>6, <1>8, <2>1 DEF Copies
<1>10. \A c \in Blocks \ {b, blockno[k]} : Contents(c)' = Contents(c)
  <2> SUFFICES ASSUME NEW c \in Blocks \ {b, blockno[k]} PROVE Contents(c)' = Contents(c)
    OBVIOUS
  <2>1. \A j \in Bufs : /\ blockno'[j] = c <=> blockno[j] = c
                        /\ blockno[j] = c => valid'[j] = valid[j]
    BY <1>5
  <2> QED  BY <1>2, <2>1, ContentsKept
<1>11. CASE blockno[k] \in Blocks
  <2>1. PICK old \in Blocks : old = blockno[k]
    BY <1>11
  <2>2. old # b /\ old \notin pinned
    BY <1>1, <1>6, <2>1, Referenced
  <2>3. \A q \in Procs : UserOf(q) # old
    BY <1>4, <1>11, <2>1, UserFacts
  <2>4. \A j \in Bufs : blockno'[j] # old
    <3> SUFFICES ASSUME NEW j \in Bufs, blockno'[j] = old PROVE FALSE
      OBVIOUS
    <3>1. j # k /\ blockno[j] = old
      BY <1>5, <2>2
    <3>2. old # NoBlock
      BY VirtioAssumption
    <3> QED  BY <2>1, <3>1, <3>2 DEF BInv, OneBuffer
  <2>5. Contents(old)' = NoData
    BY <1>8, <2>4 DEF Copies
  <2>6. CacheOf' = [CacheOf EXCEPT ![old] = NoData]
    BY <1>9, <1>10, <2>1, <2>5 DEF CacheOf
  <2>7. \A q \in Procs : UserMap[q] # old
    BY <2>3 DEF UserMap
  <2>8. BC!Evict(old)
    BY <1>2, <1>7, <2>2, <2>6, <2>7 DEF BC!Evict, BC!InUse, UserMap, CacheOf, UserOf
  <2> QED  BY <2>8 DEF BC!Next
<1>12. CASE blockno[k] \notin Blocks
  <2>1. CacheOf' = CacheOf
    BY <1>9, <1>10, <1>12 DEF CacheOf
  <2> QED  BY <1>2, <1>7, <2>1 DEF BC!vars, UserMap, CacheOf, UserOf
<1> QED  BY <1>11, <1>12

\* What BlockCache does not see: the rest of bget(), the calls of the driver and
\* its steps, and the end of brelse().
LEMMA UnseenSteps ==
  ASSUME BInv, BInv', NEW p \in Procs,
         \/ \E b \in Blocks : BgetHit(p, b) \/ BgetPanic(p, b)
         \/ BreadLocked(p) /\ ~valid[mybuf[p]]
         \/ Bwrite(p) \/ BwriteDone(p) \/ Brelse(p)
         \/ Driver(NoDescriptors(p)) \/ Driver(Submit(p)) \/ Driver(SleepAgain(p))
         \/ Driver(Kicked(p))
  PROVE  UNCHANGED BC!vars
<1>1. UNCHANGED <<platter, data, pinned, blockno, valid>>
  BY DEF BgetHit, BgetPanic, BreadLocked, Bwrite, BwriteDone, Brelse, Driver, NoDescriptors,
         Submit, SleepAgain, Kicked, RwCall, RwReturn, ioVars, bcacheVars
<1>2. /\ pc \in [Procs -> {"idle", "lock", "read", "hold", "write", "put"}]
      /\ mybuf \in [Procs -> 0..NBUF]
  BY DEF BInv, TypeOK
<1>3. \A q \in Procs : /\ pc'[q] \in Using <=> pc[q] \in Using
                       /\ pc[q] \in Using => mybuf'[q] = mybuf[q]
  <2>1. CASE \E b \in Blocks : BgetHit(p, b) \/ BgetPanic(p, b)
    BY <1>2, <2>1 DEF BgetHit, BgetPanic, Using
  <2>2. CASE BreadLocked(p) /\ ~valid[mybuf[p]]
    BY <1>2, <2>2 DEF BreadLocked, Using
  <2>3. CASE Bwrite(p) \/ BwriteDone(p)
    BY <1>2, <2>3 DEF Bwrite, BwriteDone, Using
  <2>4. CASE Brelse(p)
    BY <1>2, <2>4 DEF Brelse, Using
  <2>5. CASE \/ Driver(NoDescriptors(p)) \/ Driver(Submit(p)) \/ Driver(SleepAgain(p))
             \/ Driver(Kicked(p))
    BY <2>5 DEF Driver
  <2> QED  BY <2>1, <2>2, <2>3, <2>4, <2>5
<1> QED  BY <1>1, <1>3, Unseen

\* bread() returns what BlockCache says.
LEMMA BreadSteps ==
  ASSUME BInv, BInv', NEW p \in Procs, BreadDone(p) \/ (BreadLocked(p) /\ valid[mybuf[p]])
  PROVE  BC!Next
<1>1. CASE BreadLocked(p) /\ valid[mybuf[p]]
  <2>1. /\ pc[p] = "lock" /\ pc' = [pc EXCEPT ![p] = "hold"] /\ lock[mybuf[p]] = NoProc
        /\ UNCHANGED <<platter, data, blockno, valid, mybuf, pinned>>
    BY <1>1 DEF BreadLocked, ioVars, bcacheVars
  <2>2. mybuf[p] \in Bufs /\ valid \in [Bufs -> BOOLEAN] /\ valid[mybuf[p]] = TRUE
    BY <1>1, <2>1, BufferOf DEF BInv, TypeOK
  <2>3. valid' = [valid EXCEPT ![mybuf[p]] = TRUE]
    BY <2>1, <2>2
  <2> QED  BY <1>1, <2>1, <2>3, BreadReturns
<1>2. CASE BreadDone(p)
  <2>1. /\ pc[p] = "read" /\ pc' = [pc EXCEPT ![p] = "hold"] /\ RwReturn(p)
        /\ valid' = [valid EXCEPT ![mybuf[p]] = TRUE]
        /\ UNCHANGED <<platter, data, blockno, mybuf, pinned>>
    BY <1>2 DEF BreadDone, RwReturn
  <2>2. mybuf[p] \in Bufs
    BY <2>1, BufferOf
  <2>3. lock[mybuf[p]] = p
    BY <2>1, <2>2 DEF BInv, UserInv
  <2>4. p \in InFlight /\ req[p].buf \notin busy
    BY <2>1 DEF RwReturn, InFlight
  <2>5. H(p) \notin avail
    <3> SUFFICES ASSUME H(p) \in avail PROVE FALSE
      OBVIOUS
    <3>1. PICK q \in InFlight : H(q) = H(p) /\ req[q].buf \in busy
      BY DEF BInv, DInv, AvailInv
    <3> QED  BY <2>4, <3>1, ChainsDisjoint DEF BInv
  <2>6. data[mybuf[p]] = platter[blockno[mybuf[p]]]
    BY <2>1, <2>4, <2>5 DEF BInv, ReadInv
  <2> QED  BY <2>1, <2>3, <2>6, BreadReturns
<1> QED  BY <1>1, <1>2

\* Every step is one of BlockCache or none.
LEMMA BioStepRefines == BInv /\ BInv' /\ [Next]_vars => BC!Next \/ UNCHANGED BC!vars
<1> SUFFICES ASSUME BInv, BInv', [Next]_vars PROVE BC!Next \/ UNCHANGED BC!vars
  OBVIOUS
<1>1. CASE UNCHANGED vars
  BY <1>1, Unseen DEF vars, ioVars, bcacheVars
<1>2. CASE Device
  <2>1. CASE \E i \in Descs : Driver(DeviceDone(i))
    BY <2>1, DeviceSteps
  <2>2. CASE Driver(IntrAck) \/ Driver(IntrOne) \/ Driver(IntrEnd)
    <3>1. UNCHANGED <<platter, data, pinned, blockno, valid, pc, mybuf>>
      BY <2>2 DEF Driver, IntrAck, IntrOne, IntrEnd, bcacheVars
    <3> QED  BY <3>1, Unseen
  <2> QED  BY <1>2, <2>1, <2>2 DEF Device
<1>3. CASE \E p \in Procs : Step(p)
  <2>1. PICK p \in Procs : Step(p)
    BY <1>3
  <2>2. CASE \E b \in Blocks : BgetMiss(p, b)
    BY <2>2, RecycleStep
  <2>3. CASE (\E v \in Data : Modify(p, v)) \/ Bpin(p) \/ Bunpin(p) \/ ReleaseSleep(p)
    BY <2>3, UserSteps
  <2>4. CASE BreadDone(p) \/ (BreadLocked(p) /\ valid[mybuf[p]])
    BY <2>4, BreadSteps
  <2>5. CASE \/ \E b \in Blocks : BgetHit(p, b) \/ BgetPanic(p, b)
             \/ BreadLocked(p) /\ ~valid[mybuf[p]]
             \/ Bwrite(p) \/ BwriteDone(p) \/ Brelse(p)
             \/ Driver(NoDescriptors(p)) \/ Driver(Submit(p)) \/ Driver(SleepAgain(p))
             \/ Driver(Kicked(p))
    BY <2>5, UnseenSteps
  <2> QED  BY <2>1, <2>2, <2>3, <2>4, <2>5 DEF Step
<1> QED  BY <1>1, <1>2, <1>3 DEF Next, Halt

\* The buffer cache and the driver implement BlockCache: whatever the order of
\* completions, interrupts and wakeups, bread() returns the block's latest contents
\* to one process at a time.
THEOREM CacheImplementsStore == Spec => CacheIsStore
<1>1. Init => BC!Init
  <2> SUFFICES ASSUME Init PROVE BC!Init
    OBVIOUS
  <2>1. platter \in [Blocks -> Data] /\ pinned = {}
    BY DEF Init, DiskInit
  <2>2. \A k \in Bufs : ~valid[k]
    BY DEF Init
  <2>3. CacheOf = [b \in Blocks |-> NoData]
    BY <2>2 DEF CacheOf, Contents
  <2>4. UserMap = [p \in Procs |-> NoBlock]
    BY DEF Init, UserMap, UserOf
  <2> QED  BY <2>1, <2>3, <2>4 DEF BC!Init, CacheOf, UserMap, UserOf
<1>2. BInv /\ BInv' /\ [Next]_vars => [BC!Next]_BC!vars
  BY BioStepRefines
<1> QED  BY <1>1, <1>2, CacheInductive, PTL DEF Spec, CacheIsStore, BC!Spec
=============================================================================
