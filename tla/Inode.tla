------------------------------- MODULE Inode --------------------------------
(***************************************************************************)
(* The lower layers of kernel/fs.c as functions of the disk: the block     *)
(* bitmap, inode contents through direct and indirect blocks, and          *)
(* directories as files of (name, inum) entries.                           *)
(*                                                                         *)
(* A disk is a record: dino (the inodes), blk (block contents), used (the  *)
(* bitmap).  It is what reads return through the buffer cache and the log, *)
(* the variable mem of AtomicDisk.  A block holds BSIZE units; a unit is a *)
(* pair: <<name, inum>> in a directory, <<datum, 0>> in a file, <<"", b>>  *)
(* in an indirect block.  An operator that changes the disk and an inode   *)
(* returns a record with both.                                             *)
(***************************************************************************)
EXTENDS Integers, Sequences, FiniteSets, SequencesExt

CONSTANTS NINODES,   \* sb.ninodes, counting inode 0 which is never used
          NBLOCKS,   \* data blocks
          BSIZE,     \* units in a block
          NDIRECT

ASSUME InodeAssumption ==
  /\ NINODES \in Nat \ {0, 1}
  /\ NBLOCKS \in Nat \ {0}
  /\ BSIZE \in Nat \ {0}
  /\ NDIRECT \in Nat \ {0}

Inums == 1..NINODES - 1
Blocks == 1..NBLOCKS
ROOTINO == 1
NINDIRECT == BSIZE
MAXFILE == NDIRECT + NINDIRECT

Zero == <<"", 0>>
ZeroBlock == [k \in 0..BSIZE - 1 |-> Zero]
NoAddrs == [k \in 0..NDIRECT |-> 0]
\* A dinode after memset(), with a type.
Fresh(type) == [type |-> type, nlink |-> 0, size |-> 0, addrs |-> NoAddrs]

\* Body of the value v, which TLC then computes once and not at each use.
With(v, Body(_)) == CHOOSE y \in {Body(x) : x \in {v}} : TRUE

-----------------------------------------------------------------------------
\* Blocks.

\* The first free block, marked in use and zeroed; b = 0 if there is none.
Balloc(d) ==
  IF d.used = Blocks
  THEN [d |-> d, b |-> 0]
  ELSE LET b == Min(Blocks \ d.used)
       IN  [d |-> [d EXCEPT !.used = @ \cup {b}, !.blk[b] = ZeroBlock], b |-> b]

\* The block in slot k of ip->addrs, allocated if need be.
Direct(d, m, k) ==
  IF m.addrs[k] # 0
  THEN [d |-> d, m |-> m, b |-> m.addrs[k]]
  ELSE With(Balloc(d), LAMBDA r :
              [d |-> r.d, m |-> [m EXCEPT !.addrs[k] = r.b], b |-> r.b])

\* The block in entry k of the indirect block ind.
Indirect(d, m, ind, k) ==
  IF d.blk[ind][k] # Zero
  THEN [d |-> d, m |-> m, b |-> d.blk[ind][k][2]]
  ELSE With(Balloc(d), LAMBDA r :
              [d |-> IF r.b = 0 THEN d ELSE [r.d EXCEPT !.blk[ind][k] = <<"", r.b>>],
               m |-> m, b |-> r.b])

\* The address of block bn of inode m, allocated if need be; b = 0 if the disk is
\* full.  An indirect block can stay allocated although its entry could not be.
Bmap(d, m, bn) ==
  IF bn < NDIRECT
  THEN Direct(d, m, bn)
  ELSE With(Direct(d, m, NDIRECT), LAMBDA r :
              IF r.b = 0 THEN r ELSE Indirect(r.d, r.m, r.b, bn - NDIRECT))

\* The blocks that inode m owns, the ones in its indirect block included.
Owned(d, m) ==
  LET ind == m.addrs[NDIRECT] IN
  ({m.addrs[k] : k \in 0..NDIRECT}
     \cup (IF ind = 0 THEN {} ELSE {d.blk[ind][k][2] : k \in 0..NINDIRECT - 1})) \ {0}

\* Mutant: the blocks listed in the indirect block are forgotten.
Truncated_Direct(d, m) == {m.addrs[k] : k \in 0..NDIRECT} \ {0}
\* What itrunc() passes to bfree().
Truncated(d, m) == Owned(d, m)

\* iupdate(): the in-memory inode m goes to dinode i.
Iupdate(d, i, m) == [d EXCEPT !.dino[i] = m]

\* itrunc(), which ends with iupdate().
Itrunc(d, i, m) ==
  LET e == [m EXCEPT !.addrs = NoAddrs, !.size = 0]
  IN  [d |-> Iupdate([d EXCEPT !.used = @ \ Truncated(d, m)], i, e), m |-> e]

-----------------------------------------------------------------------------
\* Contents.

UnitAt(d, m, off) ==
  LET bn == off \div BSIZE
      b == IF bn < NDIRECT THEN m.addrs[bn] ELSE d.blk[m.addrs[NDIRECT]][bn - NDIRECT][2]
  IN  d.blk[b][off % BSIZE]

\* readi(): up to n units from off, none beyond the end.
Readi(d, m, off, n) ==
  IF off > m.size THEN <<>>
  ELSE [k \in 1..Min({n, m.size - off}) |-> UnitAt(d, m, off + k - 1)]

\* The loop of writei(), a unit at a time: it stops when the disk is full or when
\* the user's memory cannot be read (ok is false).
Written(d, m, off, data, ok) ==
  LET Put(acc, u) ==
        IF acc.stop THEN acc
        ELSE With(Bmap(acc.d, acc.m, (off + acc.n) \div BSIZE), LAMBDA r :
               IF r.b = 0 \/ ~ok
               THEN [acc EXCEPT !.d = r.d, !.m = r.m, !.stop = TRUE]
               ELSE [acc EXCEPT !.d = [r.d EXCEPT !.blk[r.b][(off + acc.n) % BSIZE] = u],
                                !.m = r.m, !.n = @ + 1])
  IN  FoldLeft(Put, [d |-> d, m |-> m, n |-> 0, stop |-> FALSE], data)

\* writei(): n units were written, -1 for a bad range.  It saves the inode whatever
\* stopped the loop: bmap() may have given it a block.
Writei(d, m, i, off, data, ok) ==
  LET Save(w, e) ==
        [d |-> Iupdate([d EXCEPT !.blk = w.d.blk, !.used = w.d.used], i, e), m |-> e, n |-> w.n]
  IN  IF off > m.size \/ off + Len(data) > MAXFILE * BSIZE
      THEN [d |-> d, m |-> m, n |-> -1]
      ELSE With(Written(d, m, off, data, ok), LAMBDA w :
             Save(w, [w.m EXCEPT !.size = Max({@, off + w.n})]))

-----------------------------------------------------------------------------
\* Directories.

\* The offsets of the entries called name.
Slots(d, m, name) ==
  {off \in 0..m.size - 1 : UnitAt(d, m, off)[2] # 0 /\ UnitAt(d, m, off)[1] = name}

\* dirlookup(): the inode of the first entry called name, or 0.
Dirlookup(d, m, name) ==
  LET s == Slots(d, m, name) IN IF s = {} THEN 0 ELSE UnitAt(d, m, Min(s))[2]

\* The offset where dirlink() writes: the first empty entry, or the end.
FreeSlot(d, m) == Min({m.size} \cup {off \in 0..m.size - 1 : UnitAt(d, m, off)[2] = 0})

\* dirlink(): ok is false if the name is taken or the directory cannot grow.
Dirlink(d, m, i, name, inum) ==
  IF Dirlookup(d, m, name) # 0
  THEN [d |-> d, m |-> m, ok |-> FALSE]
  ELSE With(Writei(d, m, i, FreeSlot(d, m), <<<<name, inum>>>>, TRUE), LAMBDA w :
              [d |-> w.d, m |-> w.m, ok |-> w.n = 1])

\* sys_unlink() overwrites the entry called name with zeros.
ClearEntry(d, m, i, name) == Writei(d, m, i, Min(Slots(d, m, name)), <<Zero>>, TRUE)

\* isdirempty(): nothing after "." and "..".
IsDirEmpty(d, m) == \A off \in 2..m.size - 1 : UnitAt(d, m, off)[2] = 0
=============================================================================
