----------------------------- MODULE BlockCache -----------------------------
(***************************************************************************)
(* What the buffer cache (kernel/bio.c) and the disk driver below it       *)
(* (kernel/virtio_disk.c) promise to the log and the file system: each     *)
(* disk block has at most one cached copy and at most one user at a time,  *)
(* a user finds the cached copy or, without one, the contents of the disk, *)
(* and a copy disappears only while nobody uses it and it is not pinned.   *)
(* Module Log is written on top of this specification.                     *)
(***************************************************************************)
CONSTANTS Procs, Blocks, Data,
          NoData,   \* no copy of the block is cached
          NoBlock   \* uses no block

VARIABLES disk,    \* the contents of the blocks on disk
          cache,   \* the cached copies
          user,    \* the block each process uses
          pinned   \* the blocks that may not be evicted

vars == <<disk, cache, user, pinned>>

Init ==
  /\ disk \in [Blocks -> Data]
  /\ cache = [b \in Blocks |-> NoData]
  /\ user = [p \in Procs |-> NoBlock]
  /\ pinned = {}

InUse(b) == \E p \in Procs : user[p] = b

\* bread() returns.
Get(p, b) ==
  /\ user[p] = NoBlock /\ ~InUse(b)
  /\ user' = [user EXCEPT ![p] = b]
  /\ cache' = [cache EXCEPT ![b] = IF @ = NoData THEN disk[b] ELSE @]
  /\ UNCHANGED <<disk, pinned>>

Update(p, v) ==
  /\ user[p] # NoBlock
  /\ cache' = [cache EXCEPT ![user[p]] = v]
  /\ UNCHANGED <<disk, user, pinned>>

WriteBack(p) ==
  /\ user[p] # NoBlock
  /\ disk' = [disk EXCEPT ![user[p]] = cache[user[p]]]
  /\ UNCHANGED <<cache, user, pinned>>

Pin(p) ==
  /\ user[p] # NoBlock
  /\ pinned' = pinned \cup {user[p]}
  /\ UNCHANGED <<disk, cache, user>>

Unpin(p) ==
  /\ user[p] # NoBlock
  /\ pinned' = pinned \ {user[p]}
  /\ UNCHANGED <<disk, cache, user>>

Put(p) ==
  /\ user[p] # NoBlock
  /\ user' = [user EXCEPT ![p] = NoBlock]
  /\ UNCHANGED <<disk, cache, pinned>>

Evict(b) ==
  /\ ~InUse(b) /\ b \notin pinned
  /\ cache' = [cache EXCEPT ![b] = NoData]
  /\ UNCHANGED <<disk, user, pinned>>

Next ==
  \/ \E p \in Procs, b \in Blocks : Get(p, b)
  \/ \E p \in Procs, v \in Data : Update(p, v)
  \/ \E p \in Procs : WriteBack(p) \/ Pin(p) \/ Unpin(p) \/ Put(p)
  \/ \E b \in Blocks : Evict(b)

Spec == Init /\ [][Next]_vars
=============================================================================
