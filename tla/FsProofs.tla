------------------------------ MODULE FsProofs ------------------------------
(***************************************************************************)
(* Proofs about Fs, for every number of processes, inodes, blocks, open    *)
(* files and descriptors, every program of calls and every crash: ip->ref  *)
(* counts the pointers to an inode (RefsCounted), f->ref the descriptors   *)
(* of a file (FilesCounted), the lock of an inode is held by a process in  *)
(* a call that points to it (LocksReferenced), iput() finds the inode that *)
(* it frees unlocked (IputUnlocked), and the recovery after a crash leaves *)
(* no inode without a name (OrphansReclaimed).                             *)
(*                                                                         *)
(* RefsCounted is not inductive: whether a step that clears a pointer may  *)
(* drop a reference depends on which of ip, dp, cur and the inodes to put  *)
(* the call still has at that label (LocInv), on who has a current         *)
(* directory (CwdInv), and for close() on f->ref being the number of       *)
(* descriptors (FileInv), which in turn needs that the file structure that *)
(* open() is filling in belongs to nobody else.  LockInv says which labels *)
(* hold which lock.  After a crash the recovery runs alone (Alone) with no *)
(* pointers but its own, and RecoverInv follows its scan of the inodes.    *)
(*                                                                         *)
(* The proof of an action has always the same shape.  One process takes a  *)
(* turn: it goes to a new label with new locals, and the pointers it gains *)
(* and loses balance the change of the counts (RefMoves), the locks that   *)
(* its labels have the change of the locks (LockMoves).  The lemmas Turn   *)
(* and TurnLocal conclude the invariant from that balance.                 *)
(***************************************************************************)
EXTENDS Fs, FiniteSetTheorems, WellFoundedInduction, TLAPS

\* Where a process is in iput(), and the label to which it returns from there.
Putting == {"put", "put_free", "put_last"}
Eff(c, l) == IF c \in Putting THEN l.then ELSE c

LocFields == {"cur", "path", "parent", "found", "miss", "ip", "dp", "name", "f", "puts",
              "then", "res", "rest", "scan"}
InoFields == {"ref", "valid", "lock", "n"}
FileFields == {"ref", "ip", "off", "mode"}

\* Labels at which a call has no ip, and those at which it has a dp.
NoIp == {"user", "unused", "zombie", "end", "read", "write", "write_more", "write_begin",
         "create_dir", "unlink_dir", "unlock_dp", "boot", "reclaim_end", "up"}
HasDp == {"create_dir", "unlink_dir", "link_dir", "create_new", "unlink_ip", "unlock_dp"}
\* Labels at which it has locked ip, or dp.
LocksIp == {"open_alloc", "open_done", "create_done", "unlink_drop"}
LocksDp == {"create_new", "unlink_ip", "unlock_dp"}
\* Labels of the recovery after a crash.
Boot == {"boot", "reclaim", "reclaim_end", "up"}
\* Labels of a process that may have no current directory.
NoCwd == {"end", "zombie", "unused", "boot", "reclaim", "reclaim_end", "up"}

\* Which pointers a call has at label e, and where namex() will go on.
Shape(l, e) ==
  /\ e \notin Putting
  /\ e # "walk" => l.cur = 0
  /\ e \notin HasDp => l.dp = 0
  /\ e \in NoIp => l.ip = 0
  /\ e = "walk" =>
       IF l.found = "link_dir" THEN l.parent /\ l.miss = "link_bad"
       ELSE /\ l.ip = 0 /\ l.miss = "end"
            /\ l.found \in IF l.parent THEN {"create_dir", "unlink_dir"} ELSE {"open_lock", "link_ip", "chdir_ip"}

\* iput() has one inode to put, or two, and returns to one of these labels.
Thens == {"end", "walk", "create_old", "open_alloc", "create_done", "unlock_dp", "unlink_drop", "link_bad",
          "reclaim_end"}
PutsShape(l, c) ==
  IF c \in Putting THEN l.then \in Thens /\ \E a, b : l.puts = <<a>> \/ l.puts = <<a, b>> ELSE l.puts = <<>>

LocOK(l, c) == DOMAIN l = LocFields /\ PutsShape(l, c) /\ Shape(l, Eff(c, l))

\* The process with locals l that is at c has locked inode i in its call, or in iput().
Holds(l, c, i) ==
  \/ Eff(c, l) \in LocksIp /\ l.ip = i
  \/ Eff(c, l) \in LocksDp /\ l.dp = i
Frees(l, c, i) == c = "put_free" /\ l.puts[1] = i

Tab(t) == DOMAIN t = Inums /\ \A j \in Inums : DOMAIN t[j] = InoFields /\ t[j].ref \in Int

\* The descriptors of file f.
Descs(f) == {x \in Procs \X Fds : ofile[x[1]][x[2]] = f}

\* Every process: its locals, its current directory and its descriptors.
LocInv ==
  /\ DOMAIN loc = Procs /\ DOMAIN pc = Procs /\ DOMAIN cwd = Procs
  /\ \A p \in Procs : LocOK(loc[p], pc[p])

CwdInv ==
  \A p \in Procs :
    /\ Eff(pc[p], loc[p]) \notin NoCwd => cwd[p] # 0
    /\ pc[p] \in {"unused", "zombie"} => cwd[p] = 0
    /\ cwd[p] = 0 => \A fd \in Fds : ofile[p][fd] = 0

\* f->ref counts descriptors, and a free file structure refers to nothing.
FileInv ==
  /\ DOMAIN file = Files /\ \A f \in Files : DOMAIN file[f] = FileFields
  /\ DOMAIN ofile = Procs /\ \A p \in Procs : ofile[p] \in [Fds -> 0..NFILE]
  /\ \A f \in Files : /\ file[f].ref = Cardinality(Descs(f))
                      /\ file[f].ref = 0 => file[f].ip = 0
  /\ \A p \in Procs : pc[p] = "open_done" =>
       /\ loc[p].f \in Files /\ file[loc[p].f].ref = 1 /\ file[loc[p].f].ip = 0
       /\ \E fd \in Fds : ofile[p][fd] = loc[p].f

\* ip->ref counts pointers, and the lock of an inode is held by whom the labels say.
RefInv == Tab(ino) /\ \A i \in Inums : ino[i].ref = Pointers(i)
LockInv ==
  \A i \in Inums :
    /\ ino[i].lock \in Procs \cup {0}
    /\ \A p \in Procs : /\ ino[i].lock = p <=> Holds(loc[p], pc[p], i) \/ Frees(loc[p], pc[p], i)
                        /\ ~(Holds(loc[p], pc[p], i) /\ Frees(loc[p], pc[p], i))

\* The recovery runs alone.
Normal == \A q \in Procs : Eff(pc[q], loc[q]) \notin Boot
Alone == Eff(pc[1], loc[1]) \in Boot /\ \A q \in Procs \ {1} : pc[q] = "unused"

IInv == LocInv /\ CwdInv /\ FileInv /\ RefInv /\ LockInv /\ (Normal \/ Alone)
-----------------------------------------------------------------------------
(* Counting                                                                *)

\* One if a holds.
Bit(a) == IF a THEN 1 ELSE 0

LEMMA Bounds ==
  /\ IsFiniteSet(Procs) /\ IsFiniteSet(Files) /\ IsFiniteSet(Fds) /\ 1 \in Procs /\ 1 \in Files
  /\ 0 \notin Procs /\ 0 \notin Files /\ 0 \notin Inums /\ Procs \subseteq Nat /\ Files \subseteq Nat /\ Fds \subseteq Nat
  /\ Inums \subseteq Nat /\ IsFiniteSet(Inums) /\ Files \subseteq 0..NFILE /\ 0 \in 0..NFILE
<1>1. NPROC \in Nat \ {0} /\ NFILE \in Nat \ {0} /\ NOFILE \in Nat \ {0} /\ NINODES \in Nat \ {0, 1}
  BY FsAssumption, InodeAssumption
<1>2. NOFILE - 1 \in Int /\ NINODES - 1 \in Int
  BY <1>1
<1>3. IsFiniteSet(1..NPROC) /\ IsFiniteSet(1..NFILE) /\ IsFiniteSet(0..NOFILE - 1) /\ IsFiniteSet(1..NINODES - 1)
  BY <1>1, <1>2, FS_Interval
<1> QED  BY <1>1, <1>3 DEF Procs, Files, Fds, Inums

\* Two sets that differ in x at most.
By1(S, T, x) ==
  /\ Cardinality(S) \in Nat /\ Cardinality(T) \in Nat /\ IsFiniteSet(T)
  /\ Cardinality(T) + Bit(x \in S) = Cardinality(S) + Bit(x \in T)
By2(S, T, a, b) ==
  /\ Cardinality(S) \in Nat /\ Cardinality(T) \in Nat /\ IsFiniteSet(T)
  /\ Cardinality(T) + Bit(a \in S) + Bit(b \in S) = Cardinality(S) + Bit(a \in T) + Bit(b \in T)
By3(S, T, a, b, c) ==
  /\ Cardinality(S) \in Nat /\ Cardinality(T) \in Nat /\ IsFiniteSet(T)
  /\ Cardinality(T) + Bit(a \in S) + Bit(b \in S) + Bit(c \in S)
       = Cardinality(S) + Bit(a \in T) + Bit(b \in T) + Bit(c \in T)

LEMMA MoveOne ==
  ASSUME NEW S, NEW T, IsFiniteSet(S), NEW x, S \ {x} = T \ {x}
  PROVE  By1(S, T, x)
<1>1. PICK R : R = S \ {x} /\ x \notin R
  OBVIOUS
<1>2. IsFiniteSet(R) /\ Cardinality(S) \in Nat /\ Cardinality(R) \in Nat
  BY <1>1, FS_RemoveElement, FS_CardinalityType
<1>3. IsFiniteSet(R \cup {x}) /\ Cardinality(R \cup {x}) = Cardinality(R) + 1
  BY <1>1, <1>2, FS_AddElement
<1>4. (x \in T => T = R \cup {x}) /\ (x \notin T => T = R)
  BY <1>1
<1>5. (x \in S => S = R \cup {x}) /\ (x \notin S => S = R)
  BY <1>1
<1>6. Cardinality(T) = Cardinality(R) + Bit(x \in T) /\ IsFiniteSet(T)
  <2>1. CASE x \in T
    BY <1>2, <1>3, <1>4, <2>1 DEF Bit
  <2>2. CASE x \notin T
    BY <1>2, <1>3, <1>4, <2>2 DEF Bit
  <2> QED  BY <2>1, <2>2
<1>7. Cardinality(S) = Cardinality(R) + Bit(x \in S)
  <2>1. CASE x \in S
    BY <1>2, <1>3, <1>5, <2>1 DEF Bit
  <2>2. CASE x \notin S
    BY <1>2, <1>3, <1>5, <2>2 DEF Bit
  <2> QED  BY <2>1, <2>2
<1>8. Bit(x \in S) \in Nat /\ Bit(x \in T) \in Nat
  BY DEF Bit
<1>9. Cardinality(T) + Bit(x \in S) = Cardinality(S) + Bit(x \in T) /\ Cardinality(T) \in Nat
  BY <1>2, <1>6, <1>7, <1>8
<1> QED  BY <1>2, <1>6, <1>9 DEF By1

LEMMA MoveTwo ==
  ASSUME NEW S, NEW T, IsFiniteSet(S), NEW a, NEW b, a # b, S \ {a, b} = T \ {a, b}
  PROVE  By2(S, T, a, b)
<1>1. PICK U : U = (S \ {a}) \cup (T \cap {a})
  OBVIOUS
<1>2. S \ {a} = U \ {a} /\ U \ {b} = T \ {b} /\ (a \in U) = (a \in T) /\ (b \in U) = (b \in S)
  BY <1>1
<1>3. By1(S, U, a)
  BY <1>2, MoveOne
<1>4. By1(U, T, b)
  BY <1>2, <1>3, MoveOne DEF By1
<1>5. \A x, X : Bit(x \in X) \in Nat
  BY DEF Bit
<1> QED  BY <1>2, <1>3, <1>4, <1>5 DEF By1, By2

LEMMA MoveThree ==
  ASSUME NEW S, NEW T, IsFiniteSet(S), NEW a, NEW b, NEW c, a # b, a # c, b # c, S \ {a, b, c} = T \ {a, b, c}
  PROVE  By3(S, T, a, b, c)
<1>1. PICK U : U = (S \ {a}) \cup (T \cap {a})
  OBVIOUS
<1>2. S \ {a} = U \ {a} /\ U \ {b, c} = T \ {b, c}
  BY <1>1
<1>3. (a \in U) = (a \in T) /\ (b \in U) = (b \in S) /\ (c \in U) = (c \in S)
  BY <1>1
<1>4. By1(S, U, a)
  BY <1>2, MoveOne
<1>5. IsFiniteSet(U)
  BY <1>4 DEF By1
<1>6. By2(U, T, b, c)
  BY <1>2, <1>5, MoveTwo
<1>7. \A x, X : Bit(x \in X) \in Nat
  BY DEF Bit
<1> QED  BY <1>3, <1>4, <1>6, <1>7 DEF By1, By2, By3

\* The four kinds of pointers to i: locals, inodes to put, current directories, open files.
Kinds == {"cur", "ip", "dp"}
InLocals(L, i) == {x \in Procs \X Kinds : L[x[1]][x[2]] = i}
InPuts(L, i) == UNION {{<<p, k>> : k \in {n \in DOMAIN L[p].puts : L[p].puts[n] = i}} : p \in Procs}
InCwd(C, i) == {p \in Procs : C[p] = i}
InFiles(F, i) == {f \in Files : F[f].ref > 0 /\ F[f].ip = i}
Count(L, C, F, i) ==
  Cardinality(InLocals(L, i)) + Cardinality(InPuts(L, i)) + Cardinality(InCwd(C, i)) + Cardinality(InFiles(F, i))

LEMMA PointersNow ==
  ASSUME NEW i
  PROVE  Pointers(i) = Count(loc, cwd, file, i)
  BY DEF Pointers, InLocals, InPuts, InCwd, InFiles, Kinds, Count

LEMMA PointersNext ==
  ASSUME NEW i
  PROVE  Pointers(i)' = Count(loc', cwd', file', i)
  BY DEF Pointers, InLocals, InPuts, InCwd, InFiles, Kinds, Count

\* The k-th inode to put.
Put(l, k) == IF k \in DOMAIN l.puts THEN l.puts[k] ELSE 0
PutsOK(l) == \E a, b : l.puts \in {<<>>, <<a>>, <<a, b>>}

LEMMA PutsFacts ==
  ASSUME NEW L, \A p \in Procs : PutsOK(L[p]), NEW i \in Inums
  PROVE  InPuts(L, i) = {x \in Procs \X {1, 2} : Put(L[x[1]], x[2]) = i}
<1>1. \A p \in Procs : DOMAIN L[p].puts \subseteq {1, 2}
  BY DEF PutsOK
<1>2. ASSUME NEW x PROVE x \in InPuts(L, i) <=> x \in Procs \X {1, 2} /\ Put(L[x[1]], x[2]) = i
  <2>1. x \in InPuts(L, i) <=> \E p \in Procs : \E k \in DOMAIN L[p].puts : L[p].puts[k] = i /\ x = <<p, k>>
    BY DEF InPuts
  <2>2. ASSUME x \in InPuts(L, i) PROVE x \in Procs \X {1, 2} /\ Put(L[x[1]], x[2]) = i
    BY <1>1, <2>1, <2>2 DEF Put
  <2>3. ASSUME x \in Procs \X {1, 2}, Put(L[x[1]], x[2]) = i PROVE x \in InPuts(L, i)
    <3>1. PICK p \in Procs, k \in {1, 2} : x = <<p, k>>
      BY <2>3
    <3>2. k \in DOMAIN L[p].puts /\ L[p].puts[k] = i
      BY <2>3, <3>1, Bounds DEF Put
    <3> QED  BY <2>1, <3>1, <3>2
  <2> QED  BY <2>2, <2>3
<1> QED  BY <1>2

\* How often a process with locals l and current directory c points to i.
Mine(l, c, i) == Bit(l.cur = i) + Bit(l.ip = i) + Bit(l.dp = i) + Bit(Put(l, 1) = i) + Bit(Put(l, 2) = i) + Bit(c = i)
\* Whether the file structure r does.
Opens(r, i) == Bit(r.ref > 0 /\ r.ip = i)

LEMMA LocalsBalance ==
  ASSUME NEW L, NEW M, NEW p \in Procs, NEW i \in Inums, \A q \in Procs \ {p} : M[q] = L[q]
  PROVE  /\ Cardinality(InLocals(L, i)) \in Nat /\ Cardinality(InLocals(M, i)) \in Nat
         /\ Cardinality(InLocals(M, i)) + Bit(L[p].cur = i) + Bit(L[p].ip = i) + Bit(L[p].dp = i)
              = Cardinality(InLocals(L, i)) + Bit(M[p].cur = i) + Bit(M[p].ip = i) + Bit(M[p].dp = i)
<1>1. PICK S, T : S = InLocals(L, i) /\ T = InLocals(M, i)
  OBVIOUS
<1>2. IsFiniteSet(S)
  <2>1. IsFiniteSet(Kinds)
    <3>1. IsFiniteSet({"cur"})
      BY FS_Singleton
    <3>2. IsFiniteSet({"ip"}) /\ IsFiniteSet({"dp"})
      BY FS_Singleton
    <3>3. IsFiniteSet({"cur"} \cup {"ip"})
      BY <3>1, <3>2, FS_Union
    <3>4. IsFiniteSet(({"cur"} \cup {"ip"}) \cup {"dp"})
      BY <3>2, <3>3, FS_Union
    <3>5. Kinds = ({"cur"} \cup {"ip"}) \cup {"dp"}
      BY DEF Kinds
    <3> QED  BY <3>4, <3>5
  <2>2. IsFiniteSet(Procs \X Kinds)
    BY <2>1, Bounds, FS_Product
  <2> QED  BY <1>1, <2>2, FS_Subset DEF InLocals
<1>3. PICK a, b, c : a = <<p, "cur">> /\ b = <<p, "ip">> /\ c = <<p, "dp">>
  OBVIOUS
<1>4. a # b /\ a # c /\ b # c
  BY <1>3
<1>5. S \ {a, b, c} = T \ {a, b, c}
  <2>1. ASSUME NEW x \in Procs \X Kinds, x \notin {a, b, c} PROVE x \in S <=> x \in T
    <3>1. PICK q \in Procs, k \in Kinds : x = <<q, k>>
      OBVIOUS
    <3>2. q # p
      BY <1>3, <2>1, <3>1 DEF Kinds
    <3>3. M[q] = L[q]
      BY <3>2
    <3> QED  BY <1>1, <3>1, <3>3 DEF InLocals
  <2>2. S \subseteq Procs \X Kinds /\ T \subseteq Procs \X Kinds
    BY <1>1 DEF InLocals
  <2> QED  BY <2>1, <2>2
<1>6. /\ (a \in S) = (L[p].cur = i) /\ (b \in S) = (L[p].ip = i) /\ (c \in S) = (L[p].dp = i)
      /\ (a \in T) = (M[p].cur = i) /\ (b \in T) = (M[p].ip = i) /\ (c \in T) = (M[p].dp = i)
  BY <1>1, <1>3 DEF InLocals, Kinds
<1>7. By3(S, T, a, b, c)
  BY <1>2, <1>4, <1>5, MoveThree
<1> QED  BY <1>1, <1>6, <1>7 DEF By3

LEMMA PutsBalance ==
  ASSUME NEW L, NEW M, NEW p \in Procs, NEW i \in Inums,
         \A q \in Procs : PutsOK(L[q]) /\ PutsOK(M[q]), \A q \in Procs \ {p} : M[q] = L[q]
  PROVE  /\ Cardinality(InPuts(L, i)) \in Nat /\ Cardinality(InPuts(M, i)) \in Nat
         /\ Cardinality(InPuts(M, i)) + Bit(Put(L[p], 1) = i) + Bit(Put(L[p], 2) = i)
              = Cardinality(InPuts(L, i)) + Bit(Put(M[p], 1) = i) + Bit(Put(M[p], 2) = i)
<1>1. PICK U, V : U = InPuts(L, i) /\ V = InPuts(M, i)
  OBVIOUS
<1>2. /\ U = {x \in Procs \X {1, 2} : Put(L[x[1]], x[2]) = i}
      /\ V = {x \in Procs \X {1, 2} : Put(M[x[1]], x[2]) = i}
  BY <1>1, PutsFacts
<1>3. IsFiniteSet(U)
  <2>1. IsFiniteSet(1..2)
    <3>1. 1 \in Int /\ 2 \in Int
      OBVIOUS
    <3> QED  BY <3>1, FS_Interval, Zenon
  <2>2. 1..2 = {1, 2}
    OBVIOUS
  <2>3. IsFiniteSet(Procs \X {1, 2})
    BY <2>1, <2>2, Bounds, FS_Product
  <2> QED  BY <1>2, <2>3, FS_Subset
<1>4. PICK a, b : a = <<p, 1>> /\ b = <<p, 2>>
  OBVIOUS
<1>5. a # b
  BY <1>4
<1>6. U \ {a, b} = V \ {a, b}
  <2>1. ASSUME NEW x \in Procs \X {1, 2}, x \notin {a, b} PROVE x \in U <=> x \in V
    <3>1. PICK q \in Procs, k \in {1, 2} : x = <<q, k>>
      OBVIOUS
    <3>2. q # p
      BY <1>4, <2>1, <3>1
    <3>3. M[q] = L[q]
      BY <3>2
    <3> QED  BY <1>2, <3>1, <3>3
  <2> QED  BY <1>2, <2>1
<1>7. /\ (a \in U) = (Put(L[p], 1) = i) /\ (b \in U) = (Put(L[p], 2) = i)
      /\ (a \in V) = (Put(M[p], 1) = i) /\ (b \in V) = (Put(M[p], 2) = i)
  BY <1>2, <1>4
<1>8. By2(U, V, a, b)
  BY <1>3, <1>5, <1>6, MoveTwo
<1> QED  BY <1>1, <1>7, <1>8 DEF By2

CwdMoves(C, D, p, i) ==
  /\ Cardinality(InCwd(C, i)) \in Nat /\ Cardinality(InCwd(D, i)) \in Nat
  /\ Cardinality(InCwd(D, i)) + Bit(C[p] = i) = Cardinality(InCwd(C, i)) + Bit(D[p] = i)

LEMMA CwdBalance ==
  ASSUME NEW C, NEW D, NEW p \in Procs, NEW i \in Inums, \A q \in Procs \ {p} : D[q] = C[q]
  PROVE  CwdMoves(C, D, p, i)
<1>1. PICK A, B : A = InCwd(C, i) /\ B = InCwd(D, i)
  OBVIOUS
<1>2. IsFiniteSet(A)
  BY <1>1, Bounds, FS_Subset DEF InCwd
<1>3. A \ {p} = B \ {p} /\ (p \in A) = (C[p] = i) /\ (p \in B) = (D[p] = i)
  BY <1>1 DEF InCwd
<1>4. By1(A, B, p)
  BY <1>2, <1>3, MoveOne
<1> QED  BY <1>1, <1>3, <1>4 DEF By1, CwdMoves

LEMMA FilesBalance ==
  ASSUME NEW F, NEW G, NEW f \in Files, NEW i \in Inums,
         \A g \in Files \ {f} : Opens(G[g], i) = Opens(F[g], i)
  PROVE  /\ Cardinality(InFiles(F, i)) \in Nat /\ Cardinality(InFiles(G, i)) \in Nat
         /\ Cardinality(InFiles(G, i)) + Opens(F[f], i) = Cardinality(InFiles(F, i)) + Opens(G[f], i)
<1>1. PICK A, B : A = InFiles(F, i) /\ B = InFiles(G, i)
  OBVIOUS
<1>2. IsFiniteSet(A)
  BY <1>1, Bounds, FS_Subset DEF InFiles
<1>3. ASSUME NEW g \in Files
      PROVE  (g \in A <=> Opens(F[g], i) = 1) /\ (g \in B <=> Opens(G[g], i) = 1)
  BY <1>1 DEF InFiles, Opens, Bit
<1>4. A \ {f} = B \ {f}
  <2>1. A \subseteq Files /\ B \subseteq Files
    BY <1>1 DEF InFiles
  <2> QED  BY <1>3, <2>1
<1>5. By1(A, B, f)
  BY <1>2, <1>4, MoveOne
<1>6. Bit(f \in A) = Opens(F[f], i) /\ Bit(f \in B) = Opens(G[f], i)
  BY <1>3 DEF Opens, Bit
<1> QED  BY <1>1, <1>5, <1>6 DEF By1

LEMMA BitNat ==
  ASSUME NEW a
  PROVE  Bit(a) \in Nat
  BY DEF Bit

\* One process changes its pointers, and one open file.
Balanced(L, M, C, D, F, G, p, f, i) ==
  /\ Count(L, C, F, i) \in Nat /\ Count(M, D, G, i) \in Nat
  /\ Count(M, D, G, i) + Mine(L[p], C[p], i) + Opens(F[f], i)
       = Count(L, C, F, i) + Mine(M[p], D[p], i) + Opens(G[f], i)

LEMMA Balance ==
  ASSUME NEW L, NEW M, NEW C, NEW D, NEW F, NEW G, NEW p \in Procs, NEW f \in Files, NEW i \in Inums,
         \A q \in Procs : PutsOK(L[q]) /\ PutsOK(M[q]),
         \A q \in Procs \ {p} : M[q] = L[q] /\ D[q] = C[q],
         \A g \in Files \ {f} : Opens(G[g], i) = Opens(F[g], i)
  PROVE  Balanced(L, M, C, D, F, G, p, f, i)
<1>1. PICK a, a2, b, b2, c, c2, d, d2 :
        /\ a = Cardinality(InLocals(L, i)) /\ a2 = Cardinality(InLocals(M, i))
        /\ b = Cardinality(InPuts(L, i)) /\ b2 = Cardinality(InPuts(M, i))
        /\ c = Cardinality(InCwd(C, i)) /\ c2 = Cardinality(InCwd(D, i))
        /\ d = Cardinality(InFiles(F, i)) /\ d2 = Cardinality(InFiles(G, i))
  OBVIOUS
<1>2. PICK k1, k2, k3, k4, k5, k6, k7 :
        /\ k1 = Bit(L[p].cur = i) /\ k2 = Bit(L[p].ip = i) /\ k3 = Bit(L[p].dp = i)
        /\ k4 = Bit(Put(L[p], 1) = i) /\ k5 = Bit(Put(L[p], 2) = i) /\ k6 = Bit(C[p] = i) /\ k7 = Opens(F[f], i)
  OBVIOUS
<1>3. PICK n1, n2, n3, n4, n5, n6, n7 :
        /\ n1 = Bit(M[p].cur = i) /\ n2 = Bit(M[p].ip = i) /\ n3 = Bit(M[p].dp = i)
        /\ n4 = Bit(Put(M[p], 1) = i) /\ n5 = Bit(Put(M[p], 2) = i) /\ n6 = Bit(D[p] = i) /\ n7 = Opens(G[f], i)
  OBVIOUS
<1>4. /\ k1 \in Nat /\ k2 \in Nat /\ k3 \in Nat /\ k4 \in Nat /\ k5 \in Nat /\ k6 \in Nat /\ k7 \in Nat
      /\ n1 \in Nat /\ n2 \in Nat /\ n3 \in Nat /\ n4 \in Nat /\ n5 \in Nat /\ n6 \in Nat /\ n7 \in Nat
  BY <1>2, <1>3, BitNat DEF Opens
<1>5. a \in Nat /\ a2 \in Nat /\ a2 + k1 + k2 + k3 = a + n1 + n2 + n3
  BY <1>1, <1>2, <1>3, LocalsBalance
<1>6. b \in Nat /\ b2 \in Nat /\ b2 + k4 + k5 = b + n4 + n5
  <2>1. \A q \in Procs \ {p} : M[q] = L[q]
    OBVIOUS
  <2>2. /\ Cardinality(InPuts(L, i)) \in Nat /\ Cardinality(InPuts(M, i)) \in Nat
        /\ Cardinality(InPuts(M, i)) + Bit(Put(L[p], 1) = i) + Bit(Put(L[p], 2) = i)
             = Cardinality(InPuts(L, i)) + Bit(Put(M[p], 1) = i) + Bit(Put(M[p], 2) = i)
    BY <2>1, PutsBalance
  <2> QED  BY <1>1, <1>2, <1>3, <2>2
<1>7. c \in Nat /\ c2 \in Nat /\ c2 + k6 = c + n6
  <2>1. \A q \in Procs \ {p} : D[q] = C[q]
    OBVIOUS
  <2>2. CwdMoves(C, D, p, i)
    BY <2>1, CwdBalance
  <2> QED  BY <1>1, <1>2, <1>3, <2>2 DEF CwdMoves
<1>8. d \in Nat /\ d2 \in Nat /\ d2 + k7 = d + n7
  BY <1>1, <1>2, <1>3, FilesBalance
<1>9. /\ a + b + c + d \in Nat /\ a2 + b2 + c2 + d2 \in Nat
      /\ (a2 + b2 + c2 + d2) + (k1 + k2 + k3 + k4 + k5 + k6) + k7 = (a + b + c + d) + (n1 + n2 + n3 + n4 + n5 + n6) + n7
  BY <1>4, <1>5, <1>6, <1>7, <1>8
<1>10. /\ Count(L, C, F, i) = a + b + c + d /\ Count(M, D, G, i) = a2 + b2 + c2 + d2
       /\ Mine(L[p], C[p], i) = k1 + k2 + k3 + k4 + k5 + k6 /\ Mine(M[p], D[p], i) = n1 + n2 + n3 + n4 + n5 + n6
  BY <1>1, <1>2, <1>3 DEF Count, Mine
<1> QED  BY <1>2, <1>3, <1>9, <1>10 DEF Balanced

-----------------------------------------------------------------------------
(* One process takes a turn                                                *)

\* What happens to the reference count and to the lock of inode i when p goes to
\* label c with locals l and current directory d, and file structure f changes.
RefMoves(p, l, d, f, i) ==
  /\ \A g \in Files \ {f} : Opens(file'[g], i) = Opens(file[g], i)
  /\ ino'[i].ref + Mine(loc[p], cwd[p], i) + Opens(file[f], i) = ino[i].ref + Mine(l, d, i) + Opens(file'[f], i)
Has(l, c, i) == Holds(l, c, i) \/ Frees(l, c, i)
LockMoves(p, l, c, i) ==
  /\ ino'[i].lock = IF Has(l, c, i) THEN p ELSE IF Has(loc[p], pc[p], i) THEN 0 ELSE ino[i].lock
  /\ Has(l, c, i) => Has(loc[p], pc[p], i) \/ ino[i].lock = 0
  /\ ~(Holds(l, c, i) /\ Frees(l, c, i))

CwdOK(l, c, d) ==
  /\ Eff(c, l) \notin NoCwd => d # 0
  /\ c \in {"unused", "zombie"} => d = 0
ModeOK(p, l, c) ==
  /\ pc[p] # "unused" /\ c # "unused"
  /\ Eff(c, l) \in Boot <=> Eff(pc[p], loc[p]) \in Boot

\* Function t with value v for p.
Sets(u, t, p, v) == DOMAIN u = Procs /\ u[p] = v /\ \A q \in Procs \ {p} : u[q] = t[q]
Moves(p, l, c, d) == Sets(loc', loc, p, l) /\ Sets(pc', pc, p, c) /\ Sets(cwd', cwd, p, d)

LEMMA SetsOne ==
  ASSUME NEW t, DOMAIN t = Procs, NEW p \in Procs, NEW v
  PROVE  Sets([t EXCEPT ![p] = v], t, p, v)
  BY DEF Sets

LEMMA SetsNone ==
  ASSUME NEW t, DOMAIN t = Procs, NEW p \in Procs
  PROVE  Sets(t, t, p, t[p])
  BY DEF Sets

LEMMA PutsFine ==
  ASSUME NEW l, NEW c, LocOK(l, c)
  PROVE  PutsOK(l)
<1>1. PutsShape(l, c)
  BY DEF LocOK
<1> QED  BY <1>1 DEF PutsShape, PutsOK

LEMMA TurnRefs ==
  ASSUME LocInv, RefInv, NEW p \in Procs, NEW l, NEW c, NEW d, NEW f \in Files, LocOK(l, c),
         Moves(p, l, c, d), Tab(ino'), \A i \in Inums : RefMoves(p, l, d, f, i)
  PROVE  RefInv'
<1>1. SUFFICES ASSUME NEW i \in Inums PROVE ino'[i].ref = Pointers(i)'
  BY DEF RefInv, Tab
<1>2. PICK L, M, C, D, F, G : L = loc /\ M = loc' /\ C = cwd /\ D = cwd' /\ F = file /\ G = file'
  OBVIOUS
<1>3. M[p] = l /\ D[p] = d /\ \A q \in Procs \ {p} : M[q] = L[q] /\ D[q] = C[q]
  BY <1>2 DEF Moves, Sets
<1>4. \A q \in Procs : PutsOK(L[q]) /\ PutsOK(M[q])
  <2>1. \A q \in Procs : PutsOK(L[q])
    BY <1>2, PutsFine DEF LocInv
  <2>2. PutsOK(l)
    BY PutsFine
  <2> QED  BY <1>3, <2>1, <2>2
<1>5. RefMoves(p, l, d, f, i)
  OBVIOUS
<1>6. \A g \in Files \ {f} : Opens(G[g], i) = Opens(F[g], i)
  BY <1>2, <1>5 DEF RefMoves
<1>7. Balanced(L, M, C, D, F, G, p, f, i)
  BY <1>3, <1>4, <1>6, Balance
<1>8. ino[i].ref = Count(L, C, F, i) /\ Pointers(i)' = Count(M, D, G, i)
  BY <1>2, PointersNow, PointersNext DEF RefInv
<1>9. ino'[i].ref + Mine(L[p], C[p], i) + Opens(F[f], i) = ino[i].ref + Mine(M[p], D[p], i) + Opens(G[f], i)
  BY <1>2, <1>3, <1>5 DEF RefMoves
<1>10. Mine(L[p], C[p], i) \in Nat /\ Mine(M[p], D[p], i) \in Nat /\ Opens(F[f], i) \in Nat /\ Opens(G[f], i) \in Nat
  BY DEF Mine, Opens, Bit
<1>11. ino'[i].ref \in Int
  BY DEF Tab
<1> QED  BY <1>7, <1>8, <1>9, <1>10, <1>11 DEF Balanced

LEMMA TurnLocks ==
  ASSUME LockInv, NEW p \in Procs, NEW l, NEW c, NEW d, Moves(p, l, c, d), \A i \in Inums : LockMoves(p, l, c, i)
  PROVE  LockInv'
<1>1. SUFFICES ASSUME NEW i \in Inums
               PROVE  /\ ino'[i].lock \in Procs \cup {0}
                      /\ \A q \in Procs : /\ ino'[i].lock = q <=> Has(loc'[q], pc'[q], i)
                                          /\ ~(Holds(loc'[q], pc'[q], i) /\ Frees(loc'[q], pc'[q], i))
  BY DEF LockInv, Has
<1>2. loc'[p] = l /\ pc'[p] = c /\ \A q \in Procs \ {p} : loc'[q] = loc[q] /\ pc'[q] = pc[q]
  BY DEF Moves, Sets
<1>3. /\ ino[i].lock \in Procs \cup {0}
      /\ \A q \in Procs : /\ ino[i].lock = q <=> Has(loc[q], pc[q], i)
                          /\ ~(Holds(loc[q], pc[q], i) /\ Frees(loc[q], pc[q], i))
  BY DEF LockInv, Has
<1>4. /\ ino'[i].lock = IF Has(l, c, i) THEN p ELSE IF Has(loc[p], pc[p], i) THEN 0 ELSE ino[i].lock
      /\ Has(l, c, i) => Has(loc[p], pc[p], i) \/ ino[i].lock = 0
      /\ ~(Holds(l, c, i) /\ Frees(l, c, i))
  BY DEF LockMoves
<1>5. 0 \notin Procs
  BY Bounds
<1>6. ino'[i].lock \in Procs \cup {0}
  BY <1>3, <1>4
<1>7. ASSUME NEW q \in Procs
      PROVE  /\ ino'[i].lock = q <=> Has(loc'[q], pc'[q], i)
             /\ ~(Holds(loc'[q], pc'[q], i) /\ Frees(loc'[q], pc'[q], i))
  <2>1. CASE q = p
    BY <1>2, <1>3, <1>4, <1>5, <2>1
  <2>2. CASE q # p
    BY <1>2, <1>3, <1>4, <1>5, <2>2
  <2> QED  BY <2>1, <2>2
<1> QED  BY <1>6, <1>7

\* What the other conjuncts need of the descriptors.
FdsOK(p, d) ==
  /\ \A q \in Procs \ {p} : ofile'[q] = ofile[q]
  /\ d = 0 => \A fd \in Fds : ofile'[p][fd] = 0

Core == LocInv /\ CwdInv /\ FileInv /\ RefInv /\ LockInv

LEMMA TurnCore ==
  ASSUME Core, NEW p \in Procs, NEW l, NEW c, NEW d, NEW f \in Files, LocOK(l, c), CwdOK(l, c, d),
         Moves(p, l, c, d), FileInv', FdsOK(p, d),
         Tab(ino'), \A i \in Inums : RefMoves(p, l, d, f, i) /\ LockMoves(p, l, c, i)
  PROVE  Core'
<1>1. LocInv /\ CwdInv /\ RefInv /\ LockInv
  BY DEF Core
<1>2. loc'[p] = l /\ pc'[p] = c /\ cwd'[p] = d
      /\ \A q \in Procs \ {p} : loc'[q] = loc[q] /\ pc'[q] = pc[q] /\ cwd'[q] = cwd[q]
  BY DEF Moves, Sets
<1>3. LocInv'
  BY <1>1, <1>2 DEF LocInv, Moves, Sets
<1>4. CwdInv'
  <2>1. SUFFICES ASSUME NEW q \in Procs
                 PROVE  /\ Eff(pc'[q], loc'[q]) \notin NoCwd => cwd'[q] # 0
                        /\ pc'[q] \in {"unused", "zombie"} => cwd'[q] = 0
                        /\ cwd'[q] = 0 => \A fd \in Fds : ofile'[q][fd] = 0
    BY DEF CwdInv
  <2>2. CASE q = p
    BY <1>2, <2>2 DEF CwdOK, FdsOK
  <2>3. CASE q # p
    BY <1>1, <1>2, <2>3 DEF CwdInv, FdsOK
  <2> QED  BY <2>2, <2>3
<1>5. RefInv'
  BY <1>1, TurnRefs
<1>6. LockInv'
  BY <1>1, TurnLocks
<1> QED  BY <1>3, <1>4, <1>5, <1>6 DEF Core

LEMMA Turn ==
  ASSUME IInv, NEW p \in Procs, NEW l, NEW c, NEW d, NEW f \in Files, LocOK(l, c), CwdOK(l, c, d), ModeOK(p, l, c),
         Moves(p, l, c, d), FileInv', FdsOK(p, d),
         Tab(ino'), \A i \in Inums : RefMoves(p, l, d, f, i) /\ LockMoves(p, l, c, i)
  PROVE  IInv' /\ (Normal => Normal')
<1>1. Core
  BY DEF IInv, Core
<1>2. Core'
  BY <1>1, TurnCore
<1>3. loc'[p] = l /\ pc'[p] = c /\ \A q \in Procs \ {p} : loc'[q] = loc[q] /\ pc'[q] = pc[q]
  BY DEF Moves, Sets
<1>4. (Normal \/ Alone)' /\ (Normal => Normal')
  <2>1. Normal => Normal'
    BY <1>3 DEF Normal, ModeOK
  <2>2. ASSUME Alone PROVE Alone'
    <3>1. p = 1
      BY <2>2 DEF Alone, ModeOK
    <3> QED  BY <1>3, <2>2, <3>1 DEF Alone, ModeOK
  <2>3. Normal \/ Alone
    BY DEF IInv
  <2> QED  BY <2>1, <2>2, <2>3
<1> QED  BY <1>2, <1>4 DEF IInv, Core

\* The same when no pointer of a file structure and no descriptor changes.
LocalRefs(p, l, d, i) == ino'[i].ref + Mine(loc[p], cwd[p], i) = ino[i].ref + Mine(l, d, i)
SameFiles ==
  /\ ofile' = ofile /\ DOMAIN file' = Files
  /\ \A g \in Files : DOMAIN file'[g] = FileFields /\ file'[g].ref = file[g].ref /\ file'[g].ip = file[g].ip
\* The new label, locals and directory of p make sense.
Good(p, l, c, d) ==
  /\ LocOK(l, c) /\ CwdOK(l, c, d) /\ ModeOK(p, l, c)
  /\ c # "open_done" /\ (d # 0 \/ d = cwd[p])

LEMMA FilesKept ==
  ASSUME IInv, file' = file, ofile' = ofile
  PROVE  SameFiles
  BY DEF IInv, FileInv, SameFiles

LEMMA FilesSame ==
  ASSUME IInv, NEW p \in Procs, NEW l, NEW c, NEW d, c # "open_done", Moves(p, l, c, d), SameFiles
  PROVE  FileInv'
<1>1. FileInv /\ ofile' = ofile
  BY DEF IInv, SameFiles
<1>2. pc'[p] = c /\ \A q \in Procs \ {p} : loc'[q] = loc[q] /\ pc'[q] = pc[q]
  BY DEF Moves, Sets
<1>3. \A g : Descs(g)' = Descs(g)
  BY <1>1 DEF Descs
<1>4. DOMAIN ofile' = Procs /\ \A q \in Procs : ofile'[q] \in [Fds -> 0..NFILE]
  BY <1>1 DEF FileInv
<1>5. \A g \in Files : file'[g].ref = Cardinality(Descs(g)') /\ (file'[g].ref = 0 => file'[g].ip = 0)
  BY <1>1, <1>3 DEF FileInv, SameFiles
<1>6. ASSUME NEW q \in Procs, pc'[q] = "open_done"
      PROVE  /\ loc'[q].f \in Files /\ file'[loc'[q].f].ref = 1 /\ file'[loc'[q].f].ip = 0
             /\ \E fd \in Fds : ofile'[q][fd] = loc'[q].f
  <2>1. q # p /\ pc[q] = "open_done" /\ loc'[q] = loc[q]
    BY <1>2, <1>6
  <2> QED  BY <1>1, <2>1 DEF FileInv, SameFiles
<1> QED  BY <1>4, <1>5, <1>6 DEF FileInv, SameFiles

LEMMA TurnLocal ==
  ASSUME IInv, NEW p \in Procs, NEW l, NEW c, NEW d, Good(p, l, c, d), Moves(p, l, c, d), SameFiles,
         Tab(ino'), \A i \in Inums : LocalRefs(p, l, d, i) /\ LockMoves(p, l, c, i)
  PROVE  IInv' /\ (Normal => Normal')
<1>1. LocOK(l, c) /\ CwdOK(l, c, d) /\ ModeOK(p, l, c) /\ c # "open_done" /\ (d # 0 \/ d = cwd[p])
  BY DEF Good
<1>2. FileInv'
  BY <1>1, FilesSame
<1>3. FdsOK(p, d)
  BY <1>1 DEF FdsOK, IInv, CwdInv, SameFiles
<1>4. 1 \in Files
  BY Bounds
<1>5. ASSUME NEW i \in Inums PROVE RefMoves(p, l, d, 1, i) /\ LockMoves(p, l, c, i)
  <2>1. \A g \in Files : Opens(file'[g], i) = Opens(file[g], i)
    BY DEF SameFiles, Opens
  <2>2. Opens(file[1], i) \in Nat /\ Mine(loc[p], cwd[p], i) \in Nat /\ Mine(l, d, i) \in Nat
    BY DEF Opens, Mine, Bit
  <2>3. ino'[i].ref \in Int /\ ino[i].ref \in Int
    BY DEF Tab, IInv, RefInv
  <2>4. LocalRefs(p, l, d, i) /\ LockMoves(p, l, c, i)
    OBVIOUS
  <2> QED  BY <1>4, <2>1, <2>2, <2>3, <2>4 DEF RefMoves, LocalRefs
<1> QED  BY <1>1, <1>2, <1>3, <1>4, <1>5, Turn

\* Nothing that the invariant mentions changes.
LEMMA Still ==
  ASSUME IInv, UNCHANGED <<ino, file, ofile, cwd, pc, loc>>
  PROVE  IInv' /\ (Normal => Normal')
<1>1. LocInv' /\ CwdInv' /\ FileInv'
  BY DEF IInv, LocInv, CwdInv, FileInv, Descs
<1>2. \A i : Pointers(i)' = Pointers(i)
  BY DEF Pointers
<1>3. RefInv' /\ LockInv'
  BY <1>2 DEF IInv, RefInv, LockInv
<1>4. (Normal \/ Alone)' /\ (Normal => Normal')
  BY DEF IInv, Normal, Alone
<1> QED  BY <1>1, <1>3, <1>4 DEF IInv

-----------------------------------------------------------------------------
(* The inode table                                                         *)

Got(u, t, n) == Tab(u) /\ \A j \in Inums : u[j].ref = t[j].ref + Bit(n = j) /\ u[j].lock = t[j].lock
Locked(u, t, n, x) == Tab(u) /\ \A j \in Inums : u[j].ref = t[j].ref /\ u[j].lock = IF j = n THEN x ELSE t[j].lock
Dropped(u, t, n) == Tab(u) /\ \A j \in Inums : u[j].ref = t[j].ref - Bit(n = j) /\ u[j].lock = t[j].lock

LEMMA IgetFacts ==
  ASSUME NEW t, Tab(t), NEW n
  PROVE  Got(Iget(t, n), t, n)
  BY DEF Got, Tab, Iget, Bit, InoFields

LEMMA HoldFacts ==
  ASSUME NEW t, Tab(t), NEW n, NEW x, NEW m
  PROVE  Locked(Hold(t, x, n, m), t, n, x)
  BY DEF Locked, Tab, Hold, InoFields

LEMMA IunlockFacts ==
  ASSUME NEW t, Tab(t), NEW n
  PROVE  Locked(Iunlock(t, n), t, n, 0)
  BY DEF Locked, Tab, Iunlock, InoFields

LEMMA IputFreeFacts ==
  ASSUME NEW t, Tab(t), NEW n
  PROVE  Locked(IputFree(t, n), t, n, 0)
  BY DEF Locked, Tab, IputFree, InoFields

LEMMA LockFacts ==
  ASSUME NEW t, Tab(t), NEW n, NEW x
  PROVE  Locked([t EXCEPT ![n].lock = x], t, n, x)
  BY DEF Locked, Tab, InoFields

LEMMA DropFacts ==
  ASSUME NEW t, Tab(t), NEW n
  PROVE  Dropped([t EXCEPT ![n].ref = @ - 1], t, n)
  BY DEF Dropped, Tab, Bit, InoFields

\* What is known of a process that is not in iput().
LEMMA AtLabel ==
  ASSUME IInv, NEW p \in Procs, pc[p] \notin Putting
  PROVE  /\ DOMAIN loc[p] = LocFields /\ loc[p].puts = <<>> /\ Put(loc[p], 1) = 0 /\ Put(loc[p], 2) = 0
         /\ Shape(loc[p], pc[p]) /\ Eff(pc[p], loc[p]) = pc[p] /\ CwdOK(loc[p], pc[p], cwd[p])
         /\ Tab(ino) /\ DOMAIN loc = Procs /\ DOMAIN pc = Procs /\ DOMAIN cwd = Procs
         /\ \A i \in Inums : ~Frees(loc[p], pc[p], i)
<1>1. LocOK(loc[p], pc[p]) /\ DOMAIN loc = Procs /\ DOMAIN pc = Procs /\ DOMAIN cwd = Procs
  BY DEF IInv, LocInv
<1>2. DOMAIN loc[p] = LocFields /\ loc[p].puts = <<>> /\ Eff(pc[p], loc[p]) = pc[p] /\ Shape(loc[p], pc[p])
  BY <1>1 DEF LocOK, PutsShape, Eff
<1>3. Put(loc[p], 1) = 0 /\ Put(loc[p], 2) = 0
  BY <1>2 DEF Put
<1>4. CwdOK(loc[p], pc[p], cwd[p]) /\ Tab(ino)
  BY DEF IInv, CwdInv, CwdOK, RefInv
<1>5. \A i \in Inums : ~Frees(loc[p], pc[p], i)
  BY DEF Frees, Putting
<1> QED  BY <1>1, <1>2, <1>3, <1>4, <1>5

-----------------------------------------------------------------------------
(* Every step keeps the invariant                                          *)

\* The end of namex().
LEMMA NamexDoneKeeps ==
  ASSUME IInv, NEW p \in Procs, NamexDone(p)
  PROVE  IInv' /\ (Normal => Normal')
<1>1. PICK l : l = loc[p]
  OBVIOUS
<1>2. pc[p] = "walk" /\ ino' = ino /\ cwd' = cwd /\ ofile' = ofile /\ file' = file
  BY <1>1 DEF NamexDone, At, files, world
<1>3. /\ DOMAIN l = LocFields /\ l.puts = <<>> /\ Put(l, 1) = 0 /\ Put(l, 2) = 0 /\ Eff(pc[p], l) = "walk"
      /\ l.dp = 0 /\ cwd[p] # 0 /\ Shape(l, "walk")
      /\ Tab(ino) /\ DOMAIN loc = Procs /\ DOMAIN pc = Procs /\ DOMAIN cwd = Procs
      /\ \A i \in Inums : ~Has(l, pc[p], i)
  BY <1>1, <1>2, AtLabel DEF CwdOK, NoCwd, Putting, Has, Holds, LocksIp, LocksDp, Shape, HasDp, NoIp
<1>4. \/ l.parent /\ pc' = [pc EXCEPT ![p] = "put"] /\ loc' = [loc EXCEPT ![p] = PutThen([l EXCEPT !.cur = 0], l.cur, l.miss)]
      \/ ~l.parent /\ pc' = [pc EXCEPT ![p] = l.found] /\ loc' = [loc EXCEPT ![p] = [l EXCEPT !.ip = l.cur, !.cur = 0]]
  BY <1>1 DEF NamexDone, Keep, Goto
<1>5. l.miss \in {"end", "link_bad"} /\ (l.miss = "end" => l.ip = 0)
  BY <1>3 DEF Shape
<1>6. ASSUME l.parent /\ pc' = [pc EXCEPT ![p] = "put"] /\ loc' = [loc EXCEPT ![p] = PutThen([l EXCEPT !.cur = 0], l.cur, l.miss)]
      PROVE  IInv' /\ (Normal => Normal')
  <2>1. PICK k : k = PutThen([l EXCEPT !.cur = 0], l.cur, l.miss)
    OBVIOUS
  <2>2. Moves(p, k, "put", cwd[p])
    BY <1>1, <1>2, <1>3, <1>6, <2>1, SetsOne, SetsNone DEF Moves
  <2>3. /\ DOMAIN k = LocFields /\ k.cur = 0 /\ k.ip = l.ip /\ k.dp = 0 /\ k.puts = <<l.cur>> /\ k.then = l.miss
        /\ Put(k, 1) = l.cur /\ Put(k, 2) = 0 /\ Eff("put", k) = l.miss
    BY <1>3, <1>6, <2>1, <1>5 DEF PutThen, LocFields, Put, Eff, Putting, NoLoc, Namex, LinkPuts
  <2>4. Good(p, k, "put", cwd[p])
    BY <1>1, <1>2, <1>3, <1>6, <2>3, <1>5 DEF Good, LocOK, PutsShape, Thens, Shape, Putting, HasDp, NoIp, CwdOK, ModeOK, Boot, NoCwd
  <2>5. Tab(ino')
    BY <1>2, <1>3, <1>6, <1>5 DEF Locked, Got, Dropped
  <2>6. ASSUME NEW i \in Inums PROVE LocalRefs(p, k, cwd[p], i) /\ LockMoves(p, k, "put", i)
    <3>1. i # 0 /\ ino[i].ref \in Int /\ p # 0
      BY <1>3, Bounds DEF Tab
    <3>2. LocalRefs(p, k, cwd[p], i)
      BY <1>1, <1>2, <1>3, <1>6, <2>3, <3>1, <1>5 DEF LocalRefs, Mine, Bit, Locked, Got, Dropped
    <3>3. LockMoves(p, k, "put", i)
      BY <1>1, <1>2, <1>3, <1>6, <2>3, <3>1, <1>5 DEF LockMoves, Has, Holds, Frees, LocksIp, LocksDp, Locked, Got, Dropped
    <3> QED  BY <3>2, <3>3
  <2>7. SameFiles
    BY <1>2, FilesKept
  <2> QED  BY <2>2, <2>4, <2>5, <2>6, <2>7, TurnLocal
<1>7. ~l.parent => l.found \in {"open_lock", "link_ip", "chdir_ip"} /\ l.ip = 0
  BY <1>3 DEF Shape
<1>8. ASSUME ~l.parent /\ pc' = [pc EXCEPT ![p] = l.found] /\ loc' = [loc EXCEPT ![p] = [l EXCEPT !.ip = l.cur, !.cur = 0]]
      PROVE  IInv' /\ (Normal => Normal')
  <2>1. PICK k : k = [l EXCEPT !.ip = l.cur, !.cur = 0]
    OBVIOUS
  <2>2. Moves(p, k, l.found, cwd[p])
    BY <1>1, <1>2, <1>3, <1>8, <2>1, SetsOne, SetsNone DEF Moves
  <2>3. /\ DOMAIN k = LocFields /\ k.cur = 0 /\ k.ip = l.cur /\ k.dp = 0 /\ k.puts = <<>>
        /\ Put(k, 1) = 0 /\ Put(k, 2) = 0 /\ Eff(l.found, k) = l.found
    BY <1>3, <1>8, <2>1, <1>7 DEF PutThen, LocFields, Put, Eff, Putting, NoLoc, Namex, LinkPuts
  <2>4. Good(p, k, l.found, cwd[p])
    BY <1>1, <1>2, <1>3, <1>8, <2>3, <1>7 DEF Good, LocOK, PutsShape, Thens, Shape, Putting, HasDp, NoIp, CwdOK, ModeOK, Boot, NoCwd
  <2>5. Tab(ino')
    BY <1>2, <1>3, <1>8, <1>7 DEF Locked, Got, Dropped
  <2>6. ASSUME NEW i \in Inums PROVE LocalRefs(p, k, cwd[p], i) /\ LockMoves(p, k, l.found, i)
    <3>1. i # 0 /\ ino[i].ref \in Int /\ p # 0
      BY <1>3, Bounds DEF Tab
    <3>2. LocalRefs(p, k, cwd[p], i)
      BY <1>1, <1>2, <1>3, <1>8, <2>3, <3>1, <1>7 DEF LocalRefs, Mine, Bit, Locked, Got, Dropped
    <3>3. LockMoves(p, k, l.found, i)
      BY <1>1, <1>2, <1>3, <1>8, <2>3, <3>1, <1>7 DEF LockMoves, Has, Holds, Frees, LocksIp, LocksDp, Locked, Got, Dropped
    <3> QED  BY <3>2, <3>3
  <2>7. SameFiles
    BY <1>2, FilesKept
  <2> QED  BY <2>2, <2>4, <2>5, <2>6, <2>7, TurnLocal
<1> QED  BY <1>4, <1>6, <1>8

\* One turn of the loop of namex().
LEMMA NamexStepKeeps ==
  ASSUME IInv, NEW p \in Procs, NamexStep(p)
  PROVE  IInv' /\ (Normal => Normal')
<1>1. PICK l : l = loc[p]
  OBVIOUS
<1>2. pc[p] = "walk" /\ ino[l.cur].lock = 0 /\ l.cur # 0 /\ cwd' = cwd /\ ofile' = ofile /\ file' = file
  BY <1>1 DEF NamexStep, At, files, world, Ilock, Wants
<1>3. /\ DOMAIN l = LocFields /\ l.puts = <<>> /\ Put(l, 1) = 0 /\ Put(l, 2) = 0 /\ Eff(pc[p], l) = "walk"
      /\ l.dp = 0 /\ cwd[p] # 0 /\ Shape(l, "walk")
      /\ Tab(ino) /\ DOMAIN loc = Procs /\ DOMAIN pc = Procs /\ DOMAIN cwd = Procs
      /\ \A i \in Inums : ~Has(l, pc[p], i)
  BY <1>1, <1>2, AtLabel DEF CwdOK, NoCwd, Putting, Has, Holds, LocksIp, LocksDp, Shape, HasDp, NoIp
<1>4. PICK x, m, t, next, name : x = l.cur /\ m = Load(x) /\ t = Hold(ino, 0, x, m) /\ name = Elem(Head(l.path)) /\ next = Dirlookup(disk, m, name)
  OBVIOUS
<1>5. \/ ino' = t /\ pc' = [pc EXCEPT ![p] = "put"] /\ loc' = [loc EXCEPT ![p] = PutThen([l EXCEPT !.cur = 0], x, l.miss)]
      \/ l.parent /\ ino' = t /\ pc' = [pc EXCEPT ![p] = l.found] /\ loc' = [loc EXCEPT ![p] = [l EXCEPT !.dp = x, !.cur = 0, !.name = name]]
      \/ ino' = Iget(t, next) /\ pc' = [pc EXCEPT ![p] = "put"] /\ loc' = [loc EXCEPT ![p] = PutThen([l EXCEPT !.cur = next, !.path = Tail(@)], x, "walk")]
  BY <1>1, <1>4 DEF NamexStep, Keep, Goto
<1>6. Locked(t, ino, x, 0)
  BY <1>3, <1>4, HoldFacts
<1>7. l.miss \in {"end", "link_bad"} /\ (l.miss = "end" => l.ip = 0)
  BY <1>3 DEF Shape
<1>8. ASSUME ino' = t /\ pc' = [pc EXCEPT ![p] = "put"] /\ loc' = [loc EXCEPT ![p] = PutThen([l EXCEPT !.cur = 0], x, l.miss)]
      PROVE  IInv' /\ (Normal => Normal')
  <2>1. PICK k : k = PutThen([l EXCEPT !.cur = 0], x, l.miss)
    OBVIOUS
  <2>2. Moves(p, k, "put", cwd[p])
    BY <1>1, <1>2, <1>3, <1>8, <2>1, SetsOne, SetsNone DEF Moves
  <2>3. /\ DOMAIN k = LocFields /\ k.cur = 0 /\ k.ip = l.ip /\ k.dp = 0 /\ k.puts = <<x>> /\ k.then = l.miss
        /\ Put(k, 1) = x /\ Put(k, 2) = 0 /\ Eff("put", k) = l.miss
    BY <1>3, <1>8, <2>1, <1>4, <1>6, <1>7 DEF PutThen, LocFields, Put, Eff, Putting, NoLoc, Namex, LinkPuts
  <2>4. Good(p, k, "put", cwd[p])
    BY <1>1, <1>2, <1>3, <1>8, <2>3, <1>4, <1>6, <1>7 DEF Good, LocOK, PutsShape, Thens, Shape, Putting, HasDp, NoIp, CwdOK, ModeOK, Boot, NoCwd
  <2>5. Tab(ino')
    BY <1>2, <1>3, <1>8, <1>4, <1>6, <1>7 DEF Locked, Got, Dropped
  <2>6. ASSUME NEW i \in Inums PROVE LocalRefs(p, k, cwd[p], i) /\ LockMoves(p, k, "put", i)
    <3>1. i # 0 /\ ino[i].ref \in Int /\ p # 0
      BY <1>3, Bounds DEF Tab
    <3>2. LocalRefs(p, k, cwd[p], i)
      BY <1>1, <1>2, <1>3, <1>8, <2>3, <3>1, <1>4, <1>6, <1>7 DEF LocalRefs, Mine, Bit, Locked, Got, Dropped
    <3>3. LockMoves(p, k, "put", i)
      BY <1>1, <1>2, <1>3, <1>8, <2>3, <3>1, <1>4, <1>6, <1>7 DEF LockMoves, Has, Holds, Frees, LocksIp, LocksDp, Locked, Got, Dropped
    <3> QED  BY <3>2, <3>3
  <2>7. SameFiles
    BY <1>2, FilesKept
  <2> QED  BY <2>2, <2>4, <2>5, <2>6, <2>7, TurnLocal
<1>9. l.parent => l.found \in {"create_dir", "unlink_dir", "link_dir"} /\ (l.found # "link_dir" => l.ip = 0)
  BY <1>3 DEF Shape
<1>10. ASSUME l.parent /\ ino' = t /\ pc' = [pc EXCEPT ![p] = l.found] /\ loc' = [loc EXCEPT ![p] = [l EXCEPT !.dp = x, !.cur = 0, !.name = name]]
      PROVE  IInv' /\ (Normal => Normal')
  <2>1. PICK k : k = [l EXCEPT !.dp = x, !.cur = 0, !.name = name]
    OBVIOUS
  <2>2. Moves(p, k, l.found, cwd[p])
    BY <1>1, <1>2, <1>3, <1>10, <2>1, SetsOne, SetsNone DEF Moves
  <2>3. /\ DOMAIN k = LocFields /\ k.cur = 0 /\ k.ip = l.ip /\ k.dp = x /\ k.puts = <<>>
        /\ Put(k, 1) = 0 /\ Put(k, 2) = 0 /\ Eff(l.found, k) = l.found
    BY <1>3, <1>10, <2>1, <1>4, <1>6, <1>9 DEF PutThen, LocFields, Put, Eff, Putting, NoLoc, Namex, LinkPuts
  <2>4. Good(p, k, l.found, cwd[p])
    BY <1>1, <1>2, <1>3, <1>10, <2>3, <1>4, <1>6, <1>9 DEF Good, LocOK, PutsShape, Thens, Shape, Putting, HasDp, NoIp, CwdOK, ModeOK, Boot, NoCwd
  <2>5. Tab(ino')
    BY <1>2, <1>3, <1>10, <1>4, <1>6, <1>9 DEF Locked, Got, Dropped
  <2>6. ASSUME NEW i \in Inums PROVE LocalRefs(p, k, cwd[p], i) /\ LockMoves(p, k, l.found, i)
    <3>1. i # 0 /\ ino[i].ref \in Int /\ p # 0
      BY <1>3, Bounds DEF Tab
    <3>2. LocalRefs(p, k, cwd[p], i)
      BY <1>1, <1>2, <1>3, <1>10, <2>3, <3>1, <1>4, <1>6, <1>9 DEF LocalRefs, Mine, Bit, Locked, Got, Dropped
    <3>3. LockMoves(p, k, l.found, i)
      BY <1>1, <1>2, <1>3, <1>10, <2>3, <3>1, <1>4, <1>6, <1>9 DEF LockMoves, Has, Holds, Frees, LocksIp, LocksDp, Locked, Got, Dropped
    <3> QED  BY <3>2, <3>3
  <2>7. SameFiles
    BY <1>2, FilesKept
  <2> QED  BY <2>2, <2>4, <2>5, <2>6, <2>7, TurnLocal
<1>11. ASSUME ino' = Iget(t, next) /\ pc' = [pc EXCEPT ![p] = "put"] /\ loc' = [loc EXCEPT ![p] = PutThen([l EXCEPT !.cur = next, !.path = Tail(@)], x, "walk")]
      PROVE  IInv' /\ (Normal => Normal')
  <2>1. PICK k : k = PutThen([l EXCEPT !.cur = next, !.path = Tail(@)], x, "walk")
    OBVIOUS
  <2>2. Moves(p, k, "put", cwd[p])
    BY <1>1, <1>2, <1>3, <1>11, <2>1, SetsOne, SetsNone DEF Moves
  <2>3. /\ DOMAIN k = LocFields /\ k.cur = next /\ k.ip = l.ip /\ k.dp = 0 /\ k.puts = <<x>> /\ k.then = "walk"
        /\ k.parent = l.parent /\ k.found = l.found /\ k.miss = l.miss
        /\ Put(k, 1) = x /\ Put(k, 2) = 0 /\ Eff("put", k) = "walk"
    BY <1>3, <1>11, <2>1, <1>4, <1>6 DEF PutThen, LocFields, Put, Eff, Putting, NoLoc, Namex, LinkPuts
  <2>4. Good(p, k, "put", cwd[p])
    BY <1>1, <1>2, <1>3, <1>11, <2>3, <1>4, <1>6 DEF Good, LocOK, PutsShape, Thens, Shape, Putting, HasDp, NoIp, CwdOK, ModeOK, Boot, NoCwd
  <2>5. Got(ino', t, next)
    BY <1>3, <1>11, IgetFacts, <1>6 DEF Locked, Got, Dropped
  <2>6. Tab(ino')
    BY <1>2, <1>3, <1>11, <2>5, <1>4, <1>6 DEF Locked, Got, Dropped
  <2>7. ASSUME NEW i \in Inums PROVE LocalRefs(p, k, cwd[p], i) /\ LockMoves(p, k, "put", i)
    <3>1. i # 0 /\ ino[i].ref \in Int /\ p # 0
      BY <1>3, Bounds DEF Tab
    <3>2. LocalRefs(p, k, cwd[p], i)
      <4>1. ino'[i].ref = ino[i].ref + Bit(next = i)
        BY <1>3, <1>11, <2>5, <3>1, <1>4, <1>6 DEF Locked, Got, Bit
      <4> QED  BY <1>1, <1>2, <1>3, <2>3, <3>1, <4>1, <1>4, <1>6 DEF LocalRefs, Mine, Bit
    <3>3. LockMoves(p, k, "put", i)
      BY <1>1, <1>2, <1>3, <1>11, <2>3, <2>5, <3>1, <1>4, <1>6 DEF LockMoves, Has, Holds, Frees, LocksIp, LocksDp, Locked, Got, Dropped
    <3> QED  BY <3>2, <3>3
  <2>8. SameFiles
    BY <1>2, FilesKept
  <2> QED  BY <2>2, <2>4, <2>6, <2>7, <2>8, TurnLocal
<1> QED  BY <1>5, <1>8, <1>10, <1>11

\* A call that takes a path.
LEMMA PathCallKeeps ==
  ASSUME IInv, NEW p \in Procs, PathCall(p)
  PROVE  IInv' /\ (Normal => Normal')
<1>1. PICK l : l = loc[p]
  OBVIOUS
<1>2. pc[p] = "user" /\ cwd' = cwd /\ ofile' = ofile /\ file' = file
  BY <1>1 DEF PathCall, At, files, world, Calls
<1>3. /\ DOMAIN l = LocFields /\ l.puts = <<>> /\ Put(l, 1) = 0 /\ Put(l, 2) = 0 /\ Eff(pc[p], l) = "user"
      /\ l.cur = 0 /\ l.dp = 0 /\ l.ip = 0 /\ cwd[p] # 0 /\ Shape(l, "user")
      /\ Tab(ino) /\ DOMAIN loc = Procs /\ DOMAIN pc = Procs /\ DOMAIN cwd = Procs
      /\ \A i \in Inums : ~Has(l, pc[p], i)
  BY <1>1, <1>2, AtLabel DEF CwdOK, NoCwd, Putting, Has, Holds, LocksIp, LocksDp, Shape, HasDp, NoIp
<1>4. PICK c, s, r, fnd :
        /\ c = Call(p) /\ s = Start(p, c.path)
        /\ r = (c.op \in {"mkdir", "mknod"} \/ (c.op = "open" /\ "create" \in c.mode) \/ c.op = "unlink")
        /\ fnd = CASE c.op \in {"mkdir", "mknod"} \/ (c.op = "open" /\ "create" \in c.mode) -> "create_dir"
                   [] c.op = "open" /\ ~(c.op \in {"mkdir", "mknod"} \/ (c.op = "open" /\ "create" \in c.mode)) -> "open_lock"
                   [] c.op = "unlink" -> "unlink_dir"
                   [] c.op = "link" -> "link_ip"
                   [] c.op = "chdir" -> "chdir_ip"
  OBVIOUS
<1>5. c.op \in {"open", "mkdir", "mknod", "unlink", "link", "chdir"}
  BY <1>4 DEF PathCall, Calls
<1>6. fnd \in IF r THEN {"create_dir", "unlink_dir"} ELSE {"open_lock", "link_ip", "chdir_ip"}
  BY <1>4, <1>5
<1>7. ino' = Iget(ino, s) /\ pc' = [pc EXCEPT ![p] = "walk"] /\ loc' = [loc EXCEPT ![p] = Namex(p, NoLoc, c.path, r, fnd, "end")]
  BY <1>1, <1>4 DEF PathCall, Keep, Goto
<1>8. ASSUME ino' = Iget(ino, s) /\ pc' = [pc EXCEPT ![p] = "walk"] /\ loc' = [loc EXCEPT ![p] = Namex(p, NoLoc, c.path, r, fnd, "end")]
      PROVE  IInv' /\ (Normal => Normal')
  <2>1. PICK k : k = Namex(p, NoLoc, c.path, r, fnd, "end")
    OBVIOUS
  <2>2. Moves(p, k, "walk", cwd[p])
    BY <1>1, <1>2, <1>3, <1>8, <2>1, SetsOne, SetsNone DEF Moves
  <2>3. /\ DOMAIN k = LocFields /\ k.cur = s /\ k.ip = 0 /\ k.dp = 0 /\ k.puts = <<>>
        /\ k.parent = r /\ k.found = fnd /\ k.miss = "end"
        /\ Put(k, 1) = 0 /\ Put(k, 2) = 0 /\ Eff("walk", k) = "walk"
    BY <1>3, <1>8, <2>1, <1>4, <1>6 DEF PutThen, LocFields, Put, Eff, Putting, NoLoc, Namex, LinkPuts
  <2>4. Good(p, k, "walk", cwd[p])
    BY <1>1, <1>2, <1>3, <1>8, <2>3, <1>4, <1>6 DEF Good, LocOK, PutsShape, Thens, Shape, Putting, HasDp, NoIp, CwdOK, ModeOK, Boot, NoCwd
  <2>5. Got(ino', ino, s)
    BY <1>3, <1>8, IgetFacts DEF Locked, Got, Dropped
  <2>6. Tab(ino')
    BY <1>2, <1>3, <1>8, <2>5, <1>4, <1>6 DEF Locked, Got, Dropped
  <2>7. ASSUME NEW i \in Inums PROVE LocalRefs(p, k, cwd[p], i) /\ LockMoves(p, k, "walk", i)
    <3>1. i # 0 /\ ino[i].ref \in Int /\ p # 0
      BY <1>3, Bounds DEF Tab
    <3>2. LocalRefs(p, k, cwd[p], i)
      <4>1. ino'[i].ref = ino[i].ref + Bit(s = i)
        BY <1>3, <1>8, <2>5, <3>1, <1>4, <1>6 DEF Locked, Got, Bit
      <4> QED  BY <1>1, <1>2, <1>3, <2>3, <3>1, <4>1, <1>4, <1>6 DEF LocalRefs, Mine, Bit
    <3>3. LockMoves(p, k, "walk", i)
      BY <1>1, <1>2, <1>3, <1>8, <2>3, <2>5, <3>1, <1>4, <1>6 DEF LockMoves, Has, Holds, Frees, LocksIp, LocksDp, Locked, Got, Dropped
    <3> QED  BY <3>2, <3>3
  <2>8. SameFiles
    BY <1>2, FilesKept
  <2> QED  BY <2>2, <2>4, <2>6, <2>7, <2>8, TurnLocal
<1> QED  BY <1>7, <1>8

\* create() searches the parent.
LEMMA CreateDirKeeps ==
  ASSUME IInv, NEW p \in Procs, CreateDir(p)
  PROVE  IInv' /\ (Normal => Normal')
<1>1. PICK l : l = loc[p]
  OBVIOUS
<1>2. pc[p] = "create_dir" /\ ino[l.dp].lock = 0 /\ l.dp # 0 /\ cwd' = cwd /\ ofile' = ofile /\ file' = file
  BY <1>1 DEF CreateDir, At, files, world, Ilock, Wants
<1>3. /\ DOMAIN l = LocFields /\ l.puts = <<>> /\ Put(l, 1) = 0 /\ Put(l, 2) = 0 /\ Eff(pc[p], l) = "create_dir"
      /\ l.cur = 0 /\ l.ip = 0 /\ cwd[p] # 0 /\ Shape(l, "create_dir")
      /\ Tab(ino) /\ DOMAIN loc = Procs /\ DOMAIN pc = Procs /\ DOMAIN cwd = Procs
      /\ \A i \in Inums : ~Has(l, pc[p], i)
  BY <1>1, <1>2, AtLabel DEF CwdOK, NoCwd, Putting, Has, Holds, LocksIp, LocksDp, Shape, HasDp, NoIp
<1>4. PICK m, old, new : m = Load(l.dp) /\ old = Dirlookup(disk, m, l.name) /\ new = Min(FreeInodes)
  OBVIOUS
<1>5. \/ ino' = Iget(Hold(ino, 0, l.dp, m), old) /\ pc' = [pc EXCEPT ![p] = "put"] /\ loc' = [loc EXCEPT ![p] = PutThen([l EXCEPT !.ip = old, !.dp = 0], l.dp, "create_old")]
      \/ ino' = Hold(ino, 0, l.dp, m) /\ pc' = [pc EXCEPT ![p] = "put"] /\ loc' = [loc EXCEPT ![p] = PutThen([l EXCEPT !.dp = 0], l.dp, "end")]
      \/ ino' = Iget(Hold(ino, p, l.dp, m), new) /\ pc' = [pc EXCEPT ![p] = "create_new"] /\ loc' = [loc EXCEPT ![p] = [l EXCEPT !.ip = new]]
  BY <1>1, <1>4 DEF CreateDir, Keep, Goto
<1>6. ASSUME ino' = Iget(Hold(ino, 0, l.dp, m), old) /\ pc' = [pc EXCEPT ![p] = "put"] /\ loc' = [loc EXCEPT ![p] = PutThen([l EXCEPT !.ip = old, !.dp = 0], l.dp, "create_old")]
      PROVE  IInv' /\ (Normal => Normal')
  <2>1. PICK k : k = PutThen([l EXCEPT !.ip = old, !.dp = 0], l.dp, "create_old")
    OBVIOUS
  <2>2. Moves(p, k, "put", cwd[p])
    BY <1>1, <1>2, <1>3, <1>6, <2>1, SetsOne, SetsNone DEF Moves
  <2>3. /\ DOMAIN k = LocFields /\ k.cur = 0 /\ k.ip = old /\ k.dp = 0 /\ k.puts = <<l.dp>> /\ k.then = "create_old"
        /\ Put(k, 1) = l.dp /\ Put(k, 2) = 0 /\ Eff("put", k) = "create_old"
    BY <1>3, <1>6, <2>1 DEF PutThen, LocFields, Put, Eff, Putting, NoLoc, Namex, LinkPuts
  <2>4. Good(p, k, "put", cwd[p])
    BY <1>1, <1>2, <1>3, <1>6, <2>3 DEF Good, LocOK, PutsShape, Thens, Shape, Putting, HasDp, NoIp, CwdOK, ModeOK, Boot, NoCwd
  <2>5. PICK t : t = Hold(ino, 0, l.dp, m)
    OBVIOUS
  <2>6. Locked(t, ino, l.dp, 0)
    BY <1>3, <1>6, <2>5, HoldFacts DEF Locked, Got, Dropped
  <2>7. Got(ino', t, old)
    BY <1>3, <1>6, <2>5, <2>6, IgetFacts DEF Locked, Got, Dropped
  <2>8. Tab(ino')
    BY <1>2, <1>3, <1>6, <2>5, <2>6, <2>7 DEF Locked, Got, Dropped
  <2>9. ASSUME NEW i \in Inums PROVE LocalRefs(p, k, cwd[p], i) /\ LockMoves(p, k, "put", i)
    <3>1. i # 0 /\ ino[i].ref \in Int /\ p # 0
      BY <1>3, Bounds DEF Tab
    <3>2. LocalRefs(p, k, cwd[p], i)
      <4>1. ino'[i].ref = ino[i].ref + Bit(old = i)
        BY <1>3, <1>6, <2>5, <2>6, <2>7, <3>1 DEF Locked, Got, Bit
      <4> QED  BY <1>1, <1>2, <1>3, <2>3, <3>1, <4>1 DEF LocalRefs, Mine, Bit
    <3>3. LockMoves(p, k, "put", i)
      BY <1>1, <1>2, <1>3, <1>6, <2>3, <2>5, <2>6, <2>7, <3>1 DEF LockMoves, Has, Holds, Frees, LocksIp, LocksDp, Locked, Got, Dropped
    <3> QED  BY <3>2, <3>3
  <2>10. SameFiles
    BY <1>2, FilesKept
  <2> QED  BY <2>2, <2>4, <2>8, <2>9, <2>10, TurnLocal
<1>7. ASSUME ino' = Hold(ino, 0, l.dp, m) /\ pc' = [pc EXCEPT ![p] = "put"] /\ loc' = [loc EXCEPT ![p] = PutThen([l EXCEPT !.dp = 0], l.dp, "end")]
      PROVE  IInv' /\ (Normal => Normal')
  <2>1. PICK k : k = PutThen([l EXCEPT !.dp = 0], l.dp, "end")
    OBVIOUS
  <2>2. Moves(p, k, "put", cwd[p])
    BY <1>1, <1>2, <1>3, <1>7, <2>1, SetsOne, SetsNone DEF Moves
  <2>3. /\ DOMAIN k = LocFields /\ k.cur = 0 /\ k.ip = 0 /\ k.dp = 0 /\ k.puts = <<l.dp>> /\ k.then = "end"
        /\ Put(k, 1) = l.dp /\ Put(k, 2) = 0 /\ Eff("put", k) = "end"
    BY <1>3, <1>7, <2>1 DEF PutThen, LocFields, Put, Eff, Putting, NoLoc, Namex, LinkPuts
  <2>4. Good(p, k, "put", cwd[p])
    BY <1>1, <1>2, <1>3, <1>7, <2>3 DEF Good, LocOK, PutsShape, Thens, Shape, Putting, HasDp, NoIp, CwdOK, ModeOK, Boot, NoCwd
  <2>5. Locked(ino', ino, l.dp, 0)
    BY <1>3, <1>7, HoldFacts DEF Locked, Got, Dropped
  <2>6. Tab(ino')
    BY <1>2, <1>3, <1>7, <2>5 DEF Locked, Got, Dropped
  <2>7. ASSUME NEW i \in Inums PROVE LocalRefs(p, k, cwd[p], i) /\ LockMoves(p, k, "put", i)
    <3>1. i # 0 /\ ino[i].ref \in Int /\ p # 0
      BY <1>3, Bounds DEF Tab
    <3>2. LocalRefs(p, k, cwd[p], i)
      BY <1>1, <1>2, <1>3, <1>7, <2>3, <2>5, <3>1 DEF LocalRefs, Mine, Bit, Locked, Got, Dropped
    <3>3. LockMoves(p, k, "put", i)
      BY <1>1, <1>2, <1>3, <1>7, <2>3, <2>5, <3>1 DEF LockMoves, Has, Holds, Frees, LocksIp, LocksDp, Locked, Got, Dropped
    <3> QED  BY <3>2, <3>3
  <2>8. SameFiles
    BY <1>2, FilesKept
  <2> QED  BY <2>2, <2>4, <2>6, <2>7, <2>8, TurnLocal
<1>8. ASSUME ino' = Iget(Hold(ino, p, l.dp, m), new) /\ pc' = [pc EXCEPT ![p] = "create_new"] /\ loc' = [loc EXCEPT ![p] = [l EXCEPT !.ip = new]]
      PROVE  IInv' /\ (Normal => Normal')
  <2>1. PICK k : k = [l EXCEPT !.ip = new]
    OBVIOUS
  <2>2. Moves(p, k, "create_new", cwd[p])
    BY <1>1, <1>2, <1>3, <1>8, <2>1, SetsOne, SetsNone DEF Moves
  <2>3. /\ DOMAIN k = LocFields /\ k.cur = 0 /\ k.ip = new /\ k.dp = l.dp /\ k.puts = <<>>
        /\ Put(k, 1) = 0 /\ Put(k, 2) = 0 /\ Eff("create_new", k) = "create_new"
    BY <1>3, <1>8, <2>1 DEF PutThen, LocFields, Put, Eff, Putting, NoLoc, Namex, LinkPuts
  <2>4. Good(p, k, "create_new", cwd[p])
    BY <1>1, <1>2, <1>3, <1>8, <2>3 DEF Good, LocOK, PutsShape, Thens, Shape, Putting, HasDp, NoIp, CwdOK, ModeOK, Boot, NoCwd
  <2>5. PICK t : t = Hold(ino, p, l.dp, m)
    OBVIOUS
  <2>6. Locked(t, ino, l.dp, p)
    BY <1>3, <1>8, <2>5, HoldFacts DEF Locked, Got, Dropped
  <2>7. Got(ino', t, new)
    BY <1>3, <1>8, <2>5, <2>6, IgetFacts DEF Locked, Got, Dropped
  <2>8. Tab(ino')
    BY <1>2, <1>3, <1>8, <2>5, <2>6, <2>7 DEF Locked, Got, Dropped
  <2>9. ASSUME NEW i \in Inums PROVE LocalRefs(p, k, cwd[p], i) /\ LockMoves(p, k, "create_new", i)
    <3>1. i # 0 /\ ino[i].ref \in Int /\ p # 0
      BY <1>3, Bounds DEF Tab
    <3>2. LocalRefs(p, k, cwd[p], i)
      <4>1. ino'[i].ref = ino[i].ref + Bit(new = i)
        BY <1>3, <1>8, <2>5, <2>6, <2>7, <3>1 DEF Locked, Got, Bit
      <4> QED  BY <1>1, <1>2, <1>3, <2>3, <3>1, <4>1 DEF LocalRefs, Mine, Bit
    <3>3. LockMoves(p, k, "create_new", i)
      BY <1>1, <1>2, <1>3, <1>8, <2>3, <2>5, <2>6, <2>7, <3>1 DEF LockMoves, Has, Holds, Frees, LocksIp, LocksDp, Locked, Got, Dropped
    <3> QED  BY <3>2, <3>3
  <2>10. SameFiles
    BY <1>2, FilesKept
  <2> QED  BY <2>2, <2>4, <2>8, <2>9, <2>10, TurnLocal
<1> QED  BY <1>5, <1>6, <1>7, <1>8

\* create() finds the name.
LEMMA CreateOldKeeps ==
  ASSUME IInv, NEW p \in Procs, CreateOld(p)
  PROVE  IInv' /\ (Normal => Normal')
<1>1. PICK l : l = loc[p]
  OBVIOUS
<1>2. pc[p] = "create_old" /\ ino[l.ip].lock = 0 /\ l.ip # 0 /\ cwd' = cwd /\ ofile' = ofile /\ file' = file
  BY <1>1 DEF CreateOld, At, files, world, Ilock, Wants
<1>3. /\ DOMAIN l = LocFields /\ l.puts = <<>> /\ Put(l, 1) = 0 /\ Put(l, 2) = 0 /\ Eff(pc[p], l) = "create_old"
      /\ l.cur = 0 /\ l.dp = 0 /\ cwd[p] # 0 /\ Shape(l, "create_old")
      /\ Tab(ino) /\ DOMAIN loc = Procs /\ DOMAIN pc = Procs /\ DOMAIN cwd = Procs
      /\ \A i \in Inums : ~Has(l, pc[p], i)
  BY <1>1, <1>2, AtLabel DEF CwdOK, NoCwd, Putting, Has, Holds, LocksIp, LocksDp, Shape, HasDp, NoIp
<1>4. PICK m : m = Load(l.ip)
  OBVIOUS
<1>5. \/ ino' = Hold(ino, p, l.ip, m) /\ pc' = [pc EXCEPT ![p] = "open_alloc"] /\ loc' = loc
      \/ ino' = Hold(ino, 0, l.ip, m) /\ pc' = [pc EXCEPT ![p] = "put"] /\ loc' = [loc EXCEPT ![p] = PutThen([l EXCEPT !.ip = 0], l.ip, "end")]
  BY <1>1, <1>4 DEF CreateOld, Keep, Goto
<1>6. ASSUME ino' = Hold(ino, p, l.ip, m) /\ pc' = [pc EXCEPT ![p] = "open_alloc"] /\ loc' = loc
      PROVE  IInv' /\ (Normal => Normal')
  <2>1. PICK k : k = l
    OBVIOUS
  <2>2. Moves(p, k, "open_alloc", cwd[p])
    BY <1>1, <1>2, <1>3, <1>6, <2>1, SetsOne, SetsNone DEF Moves
  <2>3. /\ DOMAIN k = LocFields /\ k.cur = 0 /\ k.ip = l.ip /\ k.dp = 0 /\ k.puts = <<>>
        /\ Put(k, 1) = 0 /\ Put(k, 2) = 0 /\ Eff("open_alloc", k) = "open_alloc"
    BY <1>3, <1>6, <2>1 DEF PutThen, LocFields, Put, Eff, Putting, NoLoc, Namex, LinkPuts
  <2>4. Good(p, k, "open_alloc", cwd[p])
    BY <1>1, <1>2, <1>3, <1>6, <2>3 DEF Good, LocOK, PutsShape, Thens, Shape, Putting, HasDp, NoIp, CwdOK, ModeOK, Boot, NoCwd
  <2>5. Locked(ino', ino, l.ip, p)
    BY <1>3, <1>6, HoldFacts DEF Locked, Got, Dropped
  <2>6. Tab(ino')
    BY <1>2, <1>3, <1>6, <2>5 DEF Locked, Got, Dropped
  <2>7. ASSUME NEW i \in Inums PROVE LocalRefs(p, k, cwd[p], i) /\ LockMoves(p, k, "open_alloc", i)
    <3>1. i # 0 /\ ino[i].ref \in Int /\ p # 0
      BY <1>3, Bounds DEF Tab
    <3>2. LocalRefs(p, k, cwd[p], i)
      BY <1>1, <1>2, <1>3, <1>6, <2>3, <2>5, <3>1 DEF LocalRefs, Mine, Bit, Locked, Got, Dropped
    <3>3. LockMoves(p, k, "open_alloc", i)
      BY <1>1, <1>2, <1>3, <1>6, <2>3, <2>5, <3>1 DEF LockMoves, Has, Holds, Frees, LocksIp, LocksDp, Locked, Got, Dropped
    <3> QED  BY <3>2, <3>3
  <2>8. SameFiles
    BY <1>2, FilesKept
  <2> QED  BY <2>2, <2>4, <2>6, <2>7, <2>8, TurnLocal
<1>7. ASSUME ino' = Hold(ino, 0, l.ip, m) /\ pc' = [pc EXCEPT ![p] = "put"] /\ loc' = [loc EXCEPT ![p] = PutThen([l EXCEPT !.ip = 0], l.ip, "end")]
      PROVE  IInv' /\ (Normal => Normal')
  <2>1. PICK k : k = PutThen([l EXCEPT !.ip = 0], l.ip, "end")
    OBVIOUS
  <2>2. Moves(p, k, "put", cwd[p])
    BY <1>1, <1>2, <1>3, <1>7, <2>1, SetsOne, SetsNone DEF Moves
  <2>3. /\ DOMAIN k = LocFields /\ k.cur = 0 /\ k.ip = 0 /\ k.dp = 0 /\ k.puts = <<l.ip>> /\ k.then = "end"
        /\ Put(k, 1) = l.ip /\ Put(k, 2) = 0 /\ Eff("put", k) = "end"
    BY <1>3, <1>7, <2>1 DEF PutThen, LocFields, Put, Eff, Putting, NoLoc, Namex, LinkPuts
  <2>4. Good(p, k, "put", cwd[p])
    BY <1>1, <1>2, <1>3, <1>7, <2>3 DEF Good, LocOK, PutsShape, Thens, Shape, Putting, HasDp, NoIp, CwdOK, ModeOK, Boot, NoCwd
  <2>5. Locked(ino', ino, l.ip, 0)
    BY <1>3, <1>7, HoldFacts DEF Locked, Got, Dropped
  <2>6. Tab(ino')
    BY <1>2, <1>3, <1>7, <2>5 DEF Locked, Got, Dropped
  <2>7. ASSUME NEW i \in Inums PROVE LocalRefs(p, k, cwd[p], i) /\ LockMoves(p, k, "put", i)
    <3>1. i # 0 /\ ino[i].ref \in Int /\ p # 0
      BY <1>3, Bounds DEF Tab
    <3>2. LocalRefs(p, k, cwd[p], i)
      BY <1>1, <1>2, <1>3, <1>7, <2>3, <2>5, <3>1 DEF LocalRefs, Mine, Bit, Locked, Got, Dropped
    <3>3. LockMoves(p, k, "put", i)
      BY <1>1, <1>2, <1>3, <1>7, <2>3, <2>5, <3>1 DEF LockMoves, Has, Holds, Frees, LocksIp, LocksDp, Locked, Got, Dropped
    <3> QED  BY <3>2, <3>3
  <2>8. SameFiles
    BY <1>2, FilesKept
  <2> QED  BY <2>2, <2>4, <2>6, <2>7, <2>8, TurnLocal
<1> QED  BY <1>5, <1>6, <1>7

\* create() fills the new inode and enters it.
LEMMA CreateNewKeeps ==
  ASSUME IInv, NEW p \in Procs, CreateNew(p)
  PROVE  IInv' /\ (Normal => Normal')
<1>1. PICK l : l = loc[p]
  OBVIOUS
<1>2. pc[p] = "create_new" /\ ino[l.ip].lock = 0 /\ l.ip # 0 /\ cwd' = cwd /\ ofile' = ofile /\ file' = file
  BY <1>1 DEF CreateNew, At, files, world, Ilock, Wants
<1>3. /\ DOMAIN l = LocFields /\ l.puts = <<>> /\ Put(l, 1) = 0 /\ Put(l, 2) = 0 /\ Eff(pc[p], l) = "create_new"
      /\ l.cur = 0 /\ cwd[p] # 0 /\ Shape(l, "create_new")
      /\ Tab(ino) /\ DOMAIN loc = Procs /\ DOMAIN pc = Procs /\ DOMAIN cwd = Procs
      /\ \A i \in Inums : (Has(l, pc[p], i) <=> l.dp = i) /\ (l.dp = i => ino[i].lock = p)
  BY <1>1, <1>2, AtLabel DEF CwdOK, NoCwd, Putting, Has, Holds, LocksIp, LocksDp, Shape, HasDp, NoIp, IInv, LockInv
<1>4. PICK e : e = IF Call(p).op = "open" THEN "open_alloc" ELSE "create_done"
  OBVIOUS
<1>5. e \in {"open_alloc", "create_done"}
  BY <1>4
<1>6. PICK m1, m2 :
      \/ ino' = Hold(Hold(ino, p, l.ip, m1), 0, l.dp, m2) /\ pc' = [pc EXCEPT ![p] = "put"] /\ loc' = [loc EXCEPT ![p] = PutThen([l EXCEPT !.dp = 0], l.dp, e)]
      \/ ino' = Hold(Hold(ino, 0, l.ip, m1), p, l.dp, m2) /\ pc' = [pc EXCEPT ![p] = "put"] /\ loc' = [loc EXCEPT ![p] = PutThen([l EXCEPT !.ip = 0], l.ip, "unlock_dp")]
  BY <1>1, <1>4 DEF CreateNew, Keep, Goto
<1>7. ASSUME ino' = Hold(Hold(ino, p, l.ip, m1), 0, l.dp, m2) /\ pc' = [pc EXCEPT ![p] = "put"] /\ loc' = [loc EXCEPT ![p] = PutThen([l EXCEPT !.dp = 0], l.dp, e)]
      PROVE  IInv' /\ (Normal => Normal')
  <2>1. PICK k : k = PutThen([l EXCEPT !.dp = 0], l.dp, e)
    OBVIOUS
  <2>2. Moves(p, k, "put", cwd[p])
    BY <1>1, <1>2, <1>3, <1>7, <2>1, SetsOne, SetsNone DEF Moves
  <2>3. /\ DOMAIN k = LocFields /\ k.cur = 0 /\ k.ip = l.ip /\ k.dp = 0 /\ k.puts = <<l.dp>> /\ k.then = e
        /\ Put(k, 1) = l.dp /\ Put(k, 2) = 0 /\ Eff("put", k) = e
    BY <1>3, <1>7, <2>1, <1>5 DEF PutThen, LocFields, Put, Eff, Putting, NoLoc, Namex, LinkPuts
  <2>4. Good(p, k, "put", cwd[p])
    BY <1>1, <1>2, <1>3, <1>7, <2>3, <1>5 DEF Good, LocOK, PutsShape, Thens, Shape, Putting, HasDp, NoIp, CwdOK, ModeOK, Boot, NoCwd
  <2>5. PICK t : t = Hold(ino, p, l.ip, m1)
    OBVIOUS
  <2>6. Locked(t, ino, l.ip, p)
    BY <1>3, <1>7, <2>5, HoldFacts DEF Locked, Got, Dropped
  <2>7. Locked(ino', t, l.dp, 0)
    BY <1>3, <1>7, <2>5, <2>6, HoldFacts DEF Locked, Got, Dropped
  <2>8. Tab(ino')
    BY <1>2, <1>3, <1>7, <2>5, <2>6, <2>7, <1>5 DEF Locked, Got, Dropped
  <2>9. ASSUME NEW i \in Inums PROVE LocalRefs(p, k, cwd[p], i) /\ LockMoves(p, k, "put", i)
    <3>1. i # 0 /\ ino[i].ref \in Int /\ p # 0
      BY <1>3, Bounds DEF Tab
    <3>2. LocalRefs(p, k, cwd[p], i)
      BY <1>1, <1>2, <1>3, <1>7, <2>3, <2>5, <2>6, <2>7, <3>1, <1>5 DEF LocalRefs, Mine, Bit, Locked, Got, Dropped
    <3>3. LockMoves(p, k, "put", i)
      BY <1>1, <1>2, <1>3, <1>7, <2>3, <2>5, <2>6, <2>7, <3>1, <1>5 DEF LockMoves, Has, Holds, Frees, LocksIp, LocksDp, Locked, Got, Dropped
    <3> QED  BY <3>2, <3>3
  <2>10. SameFiles
    BY <1>2, FilesKept
  <2> QED  BY <2>2, <2>4, <2>8, <2>9, <2>10, TurnLocal
<1>8. ASSUME ino' = Hold(Hold(ino, 0, l.ip, m1), p, l.dp, m2) /\ pc' = [pc EXCEPT ![p] = "put"] /\ loc' = [loc EXCEPT ![p] = PutThen([l EXCEPT !.ip = 0], l.ip, "unlock_dp")]
      PROVE  IInv' /\ (Normal => Normal')
  <2>1. PICK k : k = PutThen([l EXCEPT !.ip = 0], l.ip, "unlock_dp")
    OBVIOUS
  <2>2. Moves(p, k, "put", cwd[p])
    BY <1>1, <1>2, <1>3, <1>8, <2>1, SetsOne, SetsNone DEF Moves
  <2>3. /\ DOMAIN k = LocFields /\ k.cur = 0 /\ k.ip = 0 /\ k.dp = l.dp /\ k.puts = <<l.ip>> /\ k.then = "unlock_dp"
        /\ Put(k, 1) = l.ip /\ Put(k, 2) = 0 /\ Eff("put", k) = "unlock_dp"
    BY <1>3, <1>8, <2>1 DEF PutThen, LocFields, Put, Eff, Putting, NoLoc, Namex, LinkPuts
  <2>4. Good(p, k, "put", cwd[p])
    BY <1>1, <1>2, <1>3, <1>8, <2>3 DEF Good, LocOK, PutsShape, Thens, Shape, Putting, HasDp, NoIp, CwdOK, ModeOK, Boot, NoCwd
  <2>5. PICK t : t = Hold(ino, 0, l.ip, m1)
    OBVIOUS
  <2>6. Locked(t, ino, l.ip, 0)
    BY <1>3, <1>8, <2>5, HoldFacts DEF Locked, Got, Dropped
  <2>7. Locked(ino', t, l.dp, p)
    BY <1>3, <1>8, <2>5, <2>6, HoldFacts DEF Locked, Got, Dropped
  <2>8. Tab(ino')
    BY <1>2, <1>3, <1>8, <2>5, <2>6, <2>7 DEF Locked, Got, Dropped
  <2>9. ASSUME NEW i \in Inums PROVE LocalRefs(p, k, cwd[p], i) /\ LockMoves(p, k, "put", i)
    <3>1. i # 0 /\ ino[i].ref \in Int /\ p # 0
      BY <1>3, Bounds DEF Tab
    <3>2. LocalRefs(p, k, cwd[p], i)
      BY <1>1, <1>2, <1>3, <1>8, <2>3, <2>5, <2>6, <2>7, <3>1 DEF LocalRefs, Mine, Bit, Locked, Got, Dropped
    <3>3. LockMoves(p, k, "put", i)
      BY <1>1, <1>2, <1>3, <1>8, <2>3, <2>5, <2>6, <2>7, <3>1 DEF LockMoves, Has, Holds, Frees, LocksIp, LocksDp, Locked, Got, Dropped
    <3> QED  BY <3>2, <3>3
  <2>10. SameFiles
    BY <1>2, FilesKept
  <2> QED  BY <2>2, <2>4, <2>8, <2>9, <2>10, TurnLocal
<1> QED  BY <1>6, <1>7, <1>8

\* The end of mkdir() and mknod().
LEMMA CreateDoneKeeps ==
  ASSUME IInv, NEW p \in Procs, CreateDone(p)
  PROVE  IInv' /\ (Normal => Normal')
<1>1. PICK l : l = loc[p]
  OBVIOUS
<1>2. pc[p] = "create_done" /\ cwd' = cwd /\ ofile' = ofile /\ file' = file
  BY <1>1 DEF CreateDone, At, files, world
<1>3. /\ DOMAIN l = LocFields /\ l.puts = <<>> /\ Put(l, 1) = 0 /\ Put(l, 2) = 0 /\ Eff(pc[p], l) = "create_done"
      /\ l.cur = 0 /\ l.dp = 0 /\ cwd[p] # 0 /\ Shape(l, "create_done")
      /\ Tab(ino) /\ DOMAIN loc = Procs /\ DOMAIN pc = Procs /\ DOMAIN cwd = Procs
      /\ \A i \in Inums : (Has(l, pc[p], i) <=> l.ip = i)
  BY <1>1, <1>2, AtLabel DEF CwdOK, NoCwd, Putting, Has, Holds, LocksIp, LocksDp, Shape, HasDp, NoIp
<1>4. ino' = Iunlock(ino, l.ip) /\ pc' = [pc EXCEPT ![p] = "put"] /\ loc' = [loc EXCEPT ![p] = [PutThen(l, l.ip, "end") EXCEPT !.ip = 0, !.res = Ok]]
  BY <1>1 DEF CreateDone, Keep, Goto
<1>5. ASSUME ino' = Iunlock(ino, l.ip) /\ pc' = [pc EXCEPT ![p] = "put"] /\ loc' = [loc EXCEPT ![p] = [PutThen(l, l.ip, "end") EXCEPT !.ip = 0, !.res = Ok]]
      PROVE  IInv' /\ (Normal => Normal')
  <2>1. PICK k : k = [PutThen(l, l.ip, "end") EXCEPT !.ip = 0, !.res = Ok]
    OBVIOUS
  <2>2. Moves(p, k, "put", cwd[p])
    BY <1>1, <1>2, <1>3, <1>5, <2>1, SetsOne, SetsNone DEF Moves
  <2>3. /\ DOMAIN k = LocFields /\ k.cur = 0 /\ k.ip = 0 /\ k.dp = 0 /\ k.puts = <<l.ip>> /\ k.then = "end"
        /\ Put(k, 1) = l.ip /\ Put(k, 2) = 0 /\ Eff("put", k) = "end"
    BY <1>3, <1>5, <2>1 DEF PutThen, LocFields, Put, Eff, Putting, NoLoc, Namex, LinkPuts
  <2>4. Good(p, k, "put", cwd[p])
    BY <1>1, <1>2, <1>3, <1>5, <2>3 DEF Good, LocOK, PutsShape, Thens, Shape, Putting, HasDp, NoIp, CwdOK, ModeOK, Boot, NoCwd
  <2>5. Locked(ino', ino, l.ip, 0)
    BY <1>3, <1>5, IunlockFacts DEF Locked, Got, Dropped
  <2>6. Tab(ino')
    BY <1>2, <1>3, <1>5, <2>5 DEF Locked, Got, Dropped
  <2>7. ASSUME NEW i \in Inums PROVE LocalRefs(p, k, cwd[p], i) /\ LockMoves(p, k, "put", i)
    <3>1. i # 0 /\ ino[i].ref \in Int /\ p # 0
      BY <1>3, Bounds DEF Tab
    <3>2. LocalRefs(p, k, cwd[p], i)
      BY <1>1, <1>2, <1>3, <1>5, <2>3, <2>5, <3>1 DEF LocalRefs, Mine, Bit, Locked, Got, Dropped
    <3>3. LockMoves(p, k, "put", i)
      BY <1>1, <1>2, <1>3, <1>5, <2>3, <2>5, <3>1 DEF LockMoves, Has, Holds, Frees, LocksIp, LocksDp, Locked, Got, Dropped
    <3> QED  BY <3>2, <3>3
  <2>8. SameFiles
    BY <1>2, FilesKept
  <2> QED  BY <2>2, <2>4, <2>6, <2>7, <2>8, TurnLocal
<1> QED  BY <1>4, <1>5

\* The end of a failed create() or unlink().
LEMMA UnlockDpKeeps ==
  ASSUME IInv, NEW p \in Procs, UnlockDp(p)
  PROVE  IInv' /\ (Normal => Normal')
<1>1. PICK l : l = loc[p]
  OBVIOUS
<1>2. pc[p] = "unlock_dp" /\ cwd' = cwd /\ ofile' = ofile /\ file' = file
  BY <1>1 DEF UnlockDp, At, files, world
<1>3. /\ DOMAIN l = LocFields /\ l.puts = <<>> /\ Put(l, 1) = 0 /\ Put(l, 2) = 0 /\ Eff(pc[p], l) = "unlock_dp"
      /\ l.cur = 0 /\ l.ip = 0 /\ cwd[p] # 0 /\ Shape(l, "unlock_dp")
      /\ Tab(ino) /\ DOMAIN loc = Procs /\ DOMAIN pc = Procs /\ DOMAIN cwd = Procs
      /\ \A i \in Inums : (Has(l, pc[p], i) <=> l.dp = i) /\ (l.dp = i => ino[i].lock = p)
  BY <1>1, <1>2, AtLabel DEF CwdOK, NoCwd, Putting, Has, Holds, LocksIp, LocksDp, Shape, HasDp, NoIp, IInv, LockInv
<1>4. ino' = Iunlock(ino, l.dp) /\ pc' = [pc EXCEPT ![p] = "put"] /\ loc' = [loc EXCEPT ![p] = PutThen([l EXCEPT !.dp = 0], l.dp, "end")]
  BY <1>1 DEF UnlockDp, Keep, Goto
<1>5. ASSUME ino' = Iunlock(ino, l.dp) /\ pc' = [pc EXCEPT ![p] = "put"] /\ loc' = [loc EXCEPT ![p] = PutThen([l EXCEPT !.dp = 0], l.dp, "end")]
      PROVE  IInv' /\ (Normal => Normal')
  <2>1. PICK k : k = PutThen([l EXCEPT !.dp = 0], l.dp, "end")
    OBVIOUS
  <2>2. Moves(p, k, "put", cwd[p])
    BY <1>1, <1>2, <1>3, <1>5, <2>1, SetsOne, SetsNone DEF Moves
  <2>3. /\ DOMAIN k = LocFields /\ k.cur = 0 /\ k.ip = 0 /\ k.dp = 0 /\ k.puts = <<l.dp>> /\ k.then = "end"
        /\ Put(k, 1) = l.dp /\ Put(k, 2) = 0 /\ Eff("put", k) = "end"
    BY <1>3, <1>5, <2>1 DEF PutThen, LocFields, Put, Eff, Putting, NoLoc, Namex, LinkPuts
  <2>4. Good(p, k, "put", cwd[p])
    BY <1>1, <1>2, <1>3, <1>5, <2>3 DEF Good, LocOK, PutsShape, Thens, Shape, Putting, HasDp, NoIp, CwdOK, ModeOK, Boot, NoCwd
  <2>5. Locked(ino', ino, l.dp, 0)
    BY <1>3, <1>5, IunlockFacts DEF Locked, Got, Dropped
  <2>6. Tab(ino')
    BY <1>2, <1>3, <1>5, <2>5 DEF Locked, Got, Dropped
  <2>7. ASSUME NEW i \in Inums PROVE LocalRefs(p, k, cwd[p], i) /\ LockMoves(p, k, "put", i)
    <3>1. i # 0 /\ ino[i].ref \in Int /\ p # 0
      BY <1>3, Bounds DEF Tab
    <3>2. LocalRefs(p, k, cwd[p], i)
      BY <1>1, <1>2, <1>3, <1>5, <2>3, <2>5, <3>1 DEF LocalRefs, Mine, Bit, Locked, Got, Dropped
    <3>3. LockMoves(p, k, "put", i)
      BY <1>1, <1>2, <1>3, <1>5, <2>3, <2>5, <3>1 DEF LockMoves, Has, Holds, Frees, LocksIp, LocksDp, Locked, Got, Dropped
    <3> QED  BY <3>2, <3>3
  <2>8. SameFiles
    BY <1>2, FilesKept
  <2> QED  BY <2>2, <2>4, <2>6, <2>7, <2>8, TurnLocal
<1> QED  BY <1>4, <1>5

\* open() locks the inode.
LEMMA OpenLockKeeps ==
  ASSUME IInv, NEW p \in Procs, OpenLock(p)
  PROVE  IInv' /\ (Normal => Normal')
<1>1. PICK l : l = loc[p]
  OBVIOUS
<1>2. pc[p] = "open_lock" /\ ino[l.ip].lock = 0 /\ l.ip # 0 /\ cwd' = cwd /\ ofile' = ofile /\ file' = file
  BY <1>1 DEF OpenLock, At, files, world, Ilock, Wants
<1>3. /\ DOMAIN l = LocFields /\ l.puts = <<>> /\ Put(l, 1) = 0 /\ Put(l, 2) = 0 /\ Eff(pc[p], l) = "open_lock"
      /\ l.cur = 0 /\ l.dp = 0 /\ cwd[p] # 0 /\ Shape(l, "open_lock")
      /\ Tab(ino) /\ DOMAIN loc = Procs /\ DOMAIN pc = Procs /\ DOMAIN cwd = Procs
      /\ \A i \in Inums : ~Has(l, pc[p], i)
  BY <1>1, <1>2, AtLabel DEF CwdOK, NoCwd, Putting, Has, Holds, LocksIp, LocksDp, Shape, HasDp, NoIp
<1>4. PICK m : m = Load(l.ip)
  OBVIOUS
<1>5. \/ ino' = Hold(ino, 0, l.ip, m) /\ pc' = [pc EXCEPT ![p] = "put"] /\ loc' = [loc EXCEPT ![p] = PutThen([l EXCEPT !.ip = 0], l.ip, "end")]
      \/ ino' = Hold(ino, p, l.ip, m) /\ pc' = [pc EXCEPT ![p] = "open_alloc"] /\ loc' = [loc EXCEPT ![p] = l]
  BY <1>1, <1>4 DEF OpenLock, Keep, Goto
<1>6. ASSUME ino' = Hold(ino, 0, l.ip, m) /\ pc' = [pc EXCEPT ![p] = "put"] /\ loc' = [loc EXCEPT ![p] = PutThen([l EXCEPT !.ip = 0], l.ip, "end")]
      PROVE  IInv' /\ (Normal => Normal')
  <2>1. PICK k : k = PutThen([l EXCEPT !.ip = 0], l.ip, "end")
    OBVIOUS
  <2>2. Moves(p, k, "put", cwd[p])
    BY <1>1, <1>2, <1>3, <1>6, <2>1, SetsOne, SetsNone DEF Moves
  <2>3. /\ DOMAIN k = LocFields /\ k.cur = 0 /\ k.ip = 0 /\ k.dp = 0 /\ k.puts = <<l.ip>> /\ k.then = "end"
        /\ Put(k, 1) = l.ip /\ Put(k, 2) = 0 /\ Eff("put", k) = "end"
    BY <1>3, <1>6, <2>1 DEF PutThen, LocFields, Put, Eff, Putting, NoLoc, Namex, LinkPuts
  <2>4. Good(p, k, "put", cwd[p])
    BY <1>1, <1>2, <1>3, <1>6, <2>3 DEF Good, LocOK, PutsShape, Thens, Shape, Putting, HasDp, NoIp, CwdOK, ModeOK, Boot, NoCwd
  <2>5. Locked(ino', ino, l.ip, 0)
    BY <1>3, <1>6, HoldFacts DEF Locked, Got, Dropped
  <2>6. Tab(ino')
    BY <1>2, <1>3, <1>6, <2>5 DEF Locked, Got, Dropped
  <2>7. ASSUME NEW i \in Inums PROVE LocalRefs(p, k, cwd[p], i) /\ LockMoves(p, k, "put", i)
    <3>1. i # 0 /\ ino[i].ref \in Int /\ p # 0
      BY <1>3, Bounds DEF Tab
    <3>2. LocalRefs(p, k, cwd[p], i)
      BY <1>1, <1>2, <1>3, <1>6, <2>3, <2>5, <3>1 DEF LocalRefs, Mine, Bit, Locked, Got, Dropped
    <3>3. LockMoves(p, k, "put", i)
      BY <1>1, <1>2, <1>3, <1>6, <2>3, <2>5, <3>1 DEF LockMoves, Has, Holds, Frees, LocksIp, LocksDp, Locked, Got, Dropped
    <3> QED  BY <3>2, <3>3
  <2>8. SameFiles
    BY <1>2, FilesKept
  <2> QED  BY <2>2, <2>4, <2>6, <2>7, <2>8, TurnLocal
<1>7. ASSUME ino' = Hold(ino, p, l.ip, m) /\ pc' = [pc EXCEPT ![p] = "open_alloc"] /\ loc' = [loc EXCEPT ![p] = l]
      PROVE  IInv' /\ (Normal => Normal')
  <2>1. PICK k : k = l
    OBVIOUS
  <2>2. Moves(p, k, "open_alloc", cwd[p])
    BY <1>1, <1>2, <1>3, <1>7, <2>1, SetsOne, SetsNone DEF Moves
  <2>3. /\ DOMAIN k = LocFields /\ k.cur = 0 /\ k.ip = l.ip /\ k.dp = 0 /\ k.puts = <<>>
        /\ Put(k, 1) = 0 /\ Put(k, 2) = 0 /\ Eff("open_alloc", k) = "open_alloc"
    BY <1>3, <1>7, <2>1 DEF PutThen, LocFields, Put, Eff, Putting, NoLoc, Namex, LinkPuts
  <2>4. Good(p, k, "open_alloc", cwd[p])
    BY <1>1, <1>2, <1>3, <1>7, <2>3 DEF Good, LocOK, PutsShape, Thens, Shape, Putting, HasDp, NoIp, CwdOK, ModeOK, Boot, NoCwd
  <2>5. Locked(ino', ino, l.ip, p)
    BY <1>3, <1>7, HoldFacts DEF Locked, Got, Dropped
  <2>6. Tab(ino')
    BY <1>2, <1>3, <1>7, <2>5 DEF Locked, Got, Dropped
  <2>7. ASSUME NEW i \in Inums PROVE LocalRefs(p, k, cwd[p], i) /\ LockMoves(p, k, "open_alloc", i)
    <3>1. i # 0 /\ ino[i].ref \in Int /\ p # 0
      BY <1>3, Bounds DEF Tab
    <3>2. LocalRefs(p, k, cwd[p], i)
      BY <1>1, <1>2, <1>3, <1>7, <2>3, <2>5, <3>1 DEF LocalRefs, Mine, Bit, Locked, Got, Dropped
    <3>3. LockMoves(p, k, "open_alloc", i)
      BY <1>1, <1>2, <1>3, <1>7, <2>3, <2>5, <3>1 DEF LockMoves, Has, Holds, Frees, LocksIp, LocksDp, Locked, Got, Dropped
    <3> QED  BY <3>2, <3>3
  <2>8. SameFiles
    BY <1>2, FilesKept
  <2> QED  BY <2>2, <2>4, <2>6, <2>7, <2>8, TurnLocal
<1> QED  BY <1>5, <1>6, <1>7

\* link() counts the link.
LEMMA LinkIpKeeps ==
  ASSUME IInv, NEW p \in Procs, LinkIp(p)
  PROVE  IInv' /\ (Normal => Normal')
<1>1. PICK l : l = loc[p]
  OBVIOUS
<1>2. pc[p] = "link_ip" /\ ino[l.ip].lock = 0 /\ l.ip # 0 /\ cwd' = cwd /\ ofile' = ofile /\ file' = file
  BY <1>1 DEF LinkIp, At, files, world, Ilock, Wants
<1>3. /\ DOMAIN l = LocFields /\ l.puts = <<>> /\ Put(l, 1) = 0 /\ Put(l, 2) = 0 /\ Eff(pc[p], l) = "link_ip"
      /\ l.cur = 0 /\ l.dp = 0 /\ cwd[p] # 0 /\ Shape(l, "link_ip")
      /\ Tab(ino) /\ DOMAIN loc = Procs /\ DOMAIN pc = Procs /\ DOMAIN cwd = Procs
      /\ \A i \in Inums : ~Has(l, pc[p], i)
  BY <1>1, <1>2, AtLabel DEF CwdOK, NoCwd, Putting, Has, Holds, LocksIp, LocksDp, Shape, HasDp, NoIp
<1>4. PICK m, e, s, new : m = Load(l.ip) /\ e = [m EXCEPT !.nlink = @ + 1] /\ new = Call(p).path2 /\ s = Start(p, new)
  OBVIOUS
<1>5. \/ ino' = Hold(ino, 0, l.ip, m) /\ pc' = [pc EXCEPT ![p] = "put"] /\ loc' = [loc EXCEPT ![p] = PutThen([l EXCEPT !.ip = 0], l.ip, "end")]
      \/ ino' = Iget(Hold(ino, 0, l.ip, e), s) /\ pc' = [pc EXCEPT ![p] = "walk"] /\ loc' = [loc EXCEPT ![p] = Namex(p, l, new, TRUE, "link_dir", "link_bad")]
  BY <1>1, <1>4 DEF LinkIp, Keep, Goto
<1>6. ASSUME ino' = Hold(ino, 0, l.ip, m) /\ pc' = [pc EXCEPT ![p] = "put"] /\ loc' = [loc EXCEPT ![p] = PutThen([l EXCEPT !.ip = 0], l.ip, "end")]
      PROVE  IInv' /\ (Normal => Normal')
  <2>1. PICK k : k = PutThen([l EXCEPT !.ip = 0], l.ip, "end")
    OBVIOUS
  <2>2. Moves(p, k, "put", cwd[p])
    BY <1>1, <1>2, <1>3, <1>6, <2>1, SetsOne, SetsNone DEF Moves
  <2>3. /\ DOMAIN k = LocFields /\ k.cur = 0 /\ k.ip = 0 /\ k.dp = 0 /\ k.puts = <<l.ip>> /\ k.then = "end"
        /\ Put(k, 1) = l.ip /\ Put(k, 2) = 0 /\ Eff("put", k) = "end"
    BY <1>3, <1>6, <2>1 DEF PutThen, LocFields, Put, Eff, Putting, NoLoc, Namex, LinkPuts
  <2>4. Good(p, k, "put", cwd[p])
    BY <1>1, <1>2, <1>3, <1>6, <2>3 DEF Good, LocOK, PutsShape, Thens, Shape, Putting, HasDp, NoIp, CwdOK, ModeOK, Boot, NoCwd
  <2>5. Locked(ino', ino, l.ip, 0)
    BY <1>3, <1>6, HoldFacts DEF Locked, Got, Dropped
  <2>6. Tab(ino')
    BY <1>2, <1>3, <1>6, <2>5 DEF Locked, Got, Dropped
  <2>7. ASSUME NEW i \in Inums PROVE LocalRefs(p, k, cwd[p], i) /\ LockMoves(p, k, "put", i)
    <3>1. i # 0 /\ ino[i].ref \in Int /\ p # 0
      BY <1>3, Bounds DEF Tab
    <3>2. LocalRefs(p, k, cwd[p], i)
      BY <1>1, <1>2, <1>3, <1>6, <2>3, <2>5, <3>1 DEF LocalRefs, Mine, Bit, Locked, Got, Dropped
    <3>3. LockMoves(p, k, "put", i)
      BY <1>1, <1>2, <1>3, <1>6, <2>3, <2>5, <3>1 DEF LockMoves, Has, Holds, Frees, LocksIp, LocksDp, Locked, Got, Dropped
    <3> QED  BY <3>2, <3>3
  <2>8. SameFiles
    BY <1>2, FilesKept
  <2> QED  BY <2>2, <2>4, <2>6, <2>7, <2>8, TurnLocal
<1>7. ASSUME ino' = Iget(Hold(ino, 0, l.ip, e), s) /\ pc' = [pc EXCEPT ![p] = "walk"] /\ loc' = [loc EXCEPT ![p] = Namex(p, l, new, TRUE, "link_dir", "link_bad")]
      PROVE  IInv' /\ (Normal => Normal')
  <2>1. PICK k : k = Namex(p, l, new, TRUE, "link_dir", "link_bad")
    OBVIOUS
  <2>2. Moves(p, k, "walk", cwd[p])
    BY <1>1, <1>2, <1>3, <1>7, <2>1, SetsOne, SetsNone DEF Moves
  <2>3. /\ DOMAIN k = LocFields /\ k.cur = s /\ k.ip = l.ip /\ k.dp = 0 /\ k.puts = <<>>
        /\ k.parent = TRUE /\ k.found = "link_dir" /\ k.miss = "link_bad"
        /\ Put(k, 1) = 0 /\ Put(k, 2) = 0 /\ Eff("walk", k) = "walk"
    BY <1>3, <1>7, <2>1, <1>4 DEF PutThen, LocFields, Put, Eff, Putting, NoLoc, Namex, LinkPuts
  <2>4. Good(p, k, "walk", cwd[p])
    BY <1>1, <1>2, <1>3, <1>7, <2>3, <1>4 DEF Good, LocOK, PutsShape, Thens, Shape, Putting, HasDp, NoIp, CwdOK, ModeOK, Boot, NoCwd
  <2>5. PICK t : t = Hold(ino, 0, l.ip, e)
    OBVIOUS
  <2>6. Locked(t, ino, l.ip, 0)
    BY <1>3, <1>7, <2>5, HoldFacts DEF Locked, Got, Dropped
  <2>7. Got(ino', t, s)
    BY <1>3, <1>7, <2>5, <2>6, IgetFacts DEF Locked, Got, Dropped
  <2>8. Tab(ino')
    BY <1>2, <1>3, <1>7, <2>5, <2>6, <2>7, <1>4 DEF Locked, Got, Dropped
  <2>9. ASSUME NEW i \in Inums PROVE LocalRefs(p, k, cwd[p], i) /\ LockMoves(p, k, "walk", i)
    <3>1. i # 0 /\ ino[i].ref \in Int /\ p # 0
      BY <1>3, Bounds DEF Tab
    <3>2. LocalRefs(p, k, cwd[p], i)
      <4>1. ino'[i].ref = ino[i].ref + Bit(s = i)
        BY <1>3, <1>7, <2>5, <2>6, <2>7, <3>1, <1>4 DEF Locked, Got, Bit
      <4> QED  BY <1>1, <1>2, <1>3, <2>3, <3>1, <4>1, <1>4 DEF LocalRefs, Mine, Bit
    <3>3. LockMoves(p, k, "walk", i)
      BY <1>1, <1>2, <1>3, <1>7, <2>3, <2>5, <2>6, <2>7, <3>1, <1>4 DEF LockMoves, Has, Holds, Frees, LocksIp, LocksDp, Locked, Got, Dropped
    <3> QED  BY <3>2, <3>3
  <2>10. SameFiles
    BY <1>2, FilesKept
  <2> QED  BY <2>2, <2>4, <2>8, <2>9, <2>10, TurnLocal
<1> QED  BY <1>5, <1>6, <1>7

\* link() makes the entry.
LEMMA LinkDirKeeps ==
  ASSUME IInv, NEW p \in Procs, LinkDir(p)
  PROVE  IInv' /\ (Normal => Normal')
<1>1. PICK l : l = loc[p]
  OBVIOUS
<1>2. pc[p] = "link_dir" /\ ino[l.dp].lock = 0 /\ l.dp # 0 /\ cwd' = cwd /\ ofile' = ofile /\ file' = file
  BY <1>1 DEF LinkDir, At, files, world, Ilock, Wants
<1>3. /\ DOMAIN l = LocFields /\ l.puts = <<>> /\ Put(l, 1) = 0 /\ Put(l, 2) = 0 /\ Eff(pc[p], l) = "link_dir"
      /\ l.cur = 0 /\ cwd[p] # 0 /\ Shape(l, "link_dir")
      /\ Tab(ino) /\ DOMAIN loc = Procs /\ DOMAIN pc = Procs /\ DOMAIN cwd = Procs
      /\ \A i \in Inums : ~Has(l, pc[p], i)
  BY <1>1, <1>2, AtLabel DEF CwdOK, NoCwd, Putting, Has, Holds, LocksIp, LocksDp, Shape, HasDp, NoIp
<1>4. PICK m :
      \/ ino' = Hold(ino, 0, l.dp, m) /\ pc' = [pc EXCEPT ![p] = "put"] /\ loc' = [loc EXCEPT ![p] = [l EXCEPT !.puts = LinkPuts(l.dp, l.ip), !.then = "end", !.dp = 0, !.ip = 0, !.res = Ok]]
      \/ ino' = Hold(ino, 0, l.dp, m) /\ pc' = [pc EXCEPT ![p] = "put"] /\ loc' = [loc EXCEPT ![p] = PutThen([l EXCEPT !.dp = 0], l.dp, "link_bad")]
  BY <1>1 DEF LinkDir, Keep, Goto
<1>5. ASSUME ino' = Hold(ino, 0, l.dp, m) /\ pc' = [pc EXCEPT ![p] = "put"] /\ loc' = [loc EXCEPT ![p] = [l EXCEPT !.puts = LinkPuts(l.dp, l.ip), !.then = "end", !.dp = 0, !.ip = 0, !.res = Ok]]
      PROVE  IInv' /\ (Normal => Normal')
  <2>1. PICK k : k = [l EXCEPT !.puts = LinkPuts(l.dp, l.ip), !.then = "end", !.dp = 0, !.ip = 0, !.res = Ok]
    OBVIOUS
  <2>2. Moves(p, k, "put", cwd[p])
    BY <1>1, <1>2, <1>3, <1>5, <2>1, SetsOne, SetsNone DEF Moves
  <2>3. /\ DOMAIN k = LocFields /\ k.cur = 0 /\ k.ip = 0 /\ k.dp = 0 /\ k.puts = <<l.dp, l.ip>> /\ k.then = "end"
        /\ Put(k, 1) = l.dp /\ Put(k, 2) = l.ip /\ Eff("put", k) = "end"
    BY <1>3, <1>5, <2>1 DEF PutThen, LocFields, Put, Eff, Putting, NoLoc, Namex, LinkPuts
  <2>4. Good(p, k, "put", cwd[p])
    BY <1>1, <1>2, <1>3, <1>5, <2>3 DEF Good, LocOK, PutsShape, Thens, Shape, Putting, HasDp, NoIp, CwdOK, ModeOK, Boot, NoCwd
  <2>5. Locked(ino', ino, l.dp, 0)
    BY <1>3, <1>5, HoldFacts DEF Locked, Got, Dropped
  <2>6. Tab(ino')
    BY <1>2, <1>3, <1>5, <2>5 DEF Locked, Got, Dropped
  <2>7. ASSUME NEW i \in Inums PROVE LocalRefs(p, k, cwd[p], i) /\ LockMoves(p, k, "put", i)
    <3>1. i # 0 /\ ino[i].ref \in Int /\ p # 0
      BY <1>3, Bounds DEF Tab
    <3>2. LocalRefs(p, k, cwd[p], i)
      BY <1>1, <1>2, <1>3, <1>5, <2>3, <2>5, <3>1 DEF LocalRefs, Mine, Bit, Locked, Got, Dropped
    <3>3. LockMoves(p, k, "put", i)
      BY <1>1, <1>2, <1>3, <1>5, <2>3, <2>5, <3>1 DEF LockMoves, Has, Holds, Frees, LocksIp, LocksDp, Locked, Got, Dropped
    <3> QED  BY <3>2, <3>3
  <2>8. SameFiles
    BY <1>2, FilesKept
  <2> QED  BY <2>2, <2>4, <2>6, <2>7, <2>8, TurnLocal
<1>6. ASSUME ino' = Hold(ino, 0, l.dp, m) /\ pc' = [pc EXCEPT ![p] = "put"] /\ loc' = [loc EXCEPT ![p] = PutThen([l EXCEPT !.dp = 0], l.dp, "link_bad")]
      PROVE  IInv' /\ (Normal => Normal')
  <2>1. PICK k : k = PutThen([l EXCEPT !.dp = 0], l.dp, "link_bad")
    OBVIOUS
  <2>2. Moves(p, k, "put", cwd[p])
    BY <1>1, <1>2, <1>3, <1>6, <2>1, SetsOne, SetsNone DEF Moves
  <2>3. /\ DOMAIN k = LocFields /\ k.cur = 0 /\ k.ip = l.ip /\ k.dp = 0 /\ k.puts = <<l.dp>> /\ k.then = "link_bad"
        /\ Put(k, 1) = l.dp /\ Put(k, 2) = 0 /\ Eff("put", k) = "link_bad"
    BY <1>3, <1>6, <2>1 DEF PutThen, LocFields, Put, Eff, Putting, NoLoc, Namex, LinkPuts
  <2>4. Good(p, k, "put", cwd[p])
    BY <1>1, <1>2, <1>3, <1>6, <2>3 DEF Good, LocOK, PutsShape, Thens, Shape, Putting, HasDp, NoIp, CwdOK, ModeOK, Boot, NoCwd
  <2>5. Locked(ino', ino, l.dp, 0)
    BY <1>3, <1>6, HoldFacts DEF Locked, Got, Dropped
  <2>6. Tab(ino')
    BY <1>2, <1>3, <1>6, <2>5 DEF Locked, Got, Dropped
  <2>7. ASSUME NEW i \in Inums PROVE LocalRefs(p, k, cwd[p], i) /\ LockMoves(p, k, "put", i)
    <3>1. i # 0 /\ ino[i].ref \in Int /\ p # 0
      BY <1>3, Bounds DEF Tab
    <3>2. LocalRefs(p, k, cwd[p], i)
      BY <1>1, <1>2, <1>3, <1>6, <2>3, <2>5, <3>1 DEF LocalRefs, Mine, Bit, Locked, Got, Dropped
    <3>3. LockMoves(p, k, "put", i)
      BY <1>1, <1>2, <1>3, <1>6, <2>3, <2>5, <3>1 DEF LockMoves, Has, Holds, Frees, LocksIp, LocksDp, Locked, Got, Dropped
    <3> QED  BY <3>2, <3>3
  <2>8. SameFiles
    BY <1>2, FilesKept
  <2> QED  BY <2>2, <2>4, <2>6, <2>7, <2>8, TurnLocal
<1> QED  BY <1>4, <1>5, <1>6

\* link() takes the count back.
LEMMA LinkBadKeeps ==
  ASSUME IInv, NEW p \in Procs, LinkBad(p)
  PROVE  IInv' /\ (Normal => Normal')
<1>1. PICK l : l = loc[p]
  OBVIOUS
<1>2. pc[p] = "link_bad" /\ ino[l.ip].lock = 0 /\ l.ip # 0 /\ cwd' = cwd /\ ofile' = ofile /\ file' = file
  BY <1>1 DEF LinkBad, At, files, world, Ilock, Wants
<1>3. /\ DOMAIN l = LocFields /\ l.puts = <<>> /\ Put(l, 1) = 0 /\ Put(l, 2) = 0 /\ Eff(pc[p], l) = "link_bad"
      /\ l.cur = 0 /\ l.dp = 0 /\ cwd[p] # 0 /\ Shape(l, "link_bad")
      /\ Tab(ino) /\ DOMAIN loc = Procs /\ DOMAIN pc = Procs /\ DOMAIN cwd = Procs
      /\ \A i \in Inums : ~Has(l, pc[p], i)
  BY <1>1, <1>2, AtLabel DEF CwdOK, NoCwd, Putting, Has, Holds, LocksIp, LocksDp, Shape, HasDp, NoIp
<1>4. PICK m : m = Unlinked(Load(l.ip))
  OBVIOUS
<1>5. ino' = Hold(ino, 0, l.ip, m) /\ pc' = [pc EXCEPT ![p] = "put"] /\ loc' = [loc EXCEPT ![p] = PutThen([l EXCEPT !.ip = 0], l.ip, "end")]
  BY <1>1, <1>4 DEF LinkBad, Keep, Goto
<1>6. ASSUME ino' = Hold(ino, 0, l.ip, m) /\ pc' = [pc EXCEPT ![p] = "put"] /\ loc' = [loc EXCEPT ![p] = PutThen([l EXCEPT !.ip = 0], l.ip, "end")]
      PROVE  IInv' /\ (Normal => Normal')
  <2>1. PICK k : k = PutThen([l EXCEPT !.ip = 0], l.ip, "end")
    OBVIOUS
  <2>2. Moves(p, k, "put", cwd[p])
    BY <1>1, <1>2, <1>3, <1>6, <2>1, SetsOne, SetsNone DEF Moves
  <2>3. /\ DOMAIN k = LocFields /\ k.cur = 0 /\ k.ip = 0 /\ k.dp = 0 /\ k.puts = <<l.ip>> /\ k.then = "end"
        /\ Put(k, 1) = l.ip /\ Put(k, 2) = 0 /\ Eff("put", k) = "end"
    BY <1>3, <1>6, <2>1 DEF PutThen, LocFields, Put, Eff, Putting, NoLoc, Namex, LinkPuts
  <2>4. Good(p, k, "put", cwd[p])
    BY <1>1, <1>2, <1>3, <1>6, <2>3 DEF Good, LocOK, PutsShape, Thens, Shape, Putting, HasDp, NoIp, CwdOK, ModeOK, Boot, NoCwd
  <2>5. Locked(ino', ino, l.ip, 0)
    BY <1>3, <1>6, HoldFacts DEF Locked, Got, Dropped
  <2>6. Tab(ino')
    BY <1>2, <1>3, <1>6, <2>5 DEF Locked, Got, Dropped
  <2>7. ASSUME NEW i \in Inums PROVE LocalRefs(p, k, cwd[p], i) /\ LockMoves(p, k, "put", i)
    <3>1. i # 0 /\ ino[i].ref \in Int /\ p # 0
      BY <1>3, Bounds DEF Tab
    <3>2. LocalRefs(p, k, cwd[p], i)
      BY <1>1, <1>2, <1>3, <1>6, <2>3, <2>5, <3>1 DEF LocalRefs, Mine, Bit, Locked, Got, Dropped
    <3>3. LockMoves(p, k, "put", i)
      BY <1>1, <1>2, <1>3, <1>6, <2>3, <2>5, <3>1 DEF LockMoves, Has, Holds, Frees, LocksIp, LocksDp, Locked, Got, Dropped
    <3> QED  BY <3>2, <3>3
  <2>8. SameFiles
    BY <1>2, FilesKept
  <2> QED  BY <2>2, <2>4, <2>6, <2>7, <2>8, TurnLocal
<1> QED  BY <1>5, <1>6

\* unlink() searches the parent.
LEMMA UnlinkDirKeeps ==
  ASSUME IInv, NEW p \in Procs, UnlinkDir(p)
  PROVE  IInv' /\ (Normal => Normal')
<1>1. PICK l : l = loc[p]
  OBVIOUS
<1>2. pc[p] = "unlink_dir" /\ ino[l.dp].lock = 0 /\ l.dp # 0 /\ cwd' = cwd /\ ofile' = ofile /\ file' = file
  BY <1>1 DEF UnlinkDir, At, files, world, Ilock, Wants
<1>3. /\ DOMAIN l = LocFields /\ l.puts = <<>> /\ Put(l, 1) = 0 /\ Put(l, 2) = 0 /\ Eff(pc[p], l) = "unlink_dir"
      /\ l.cur = 0 /\ l.ip = 0 /\ cwd[p] # 0 /\ Shape(l, "unlink_dir")
      /\ Tab(ino) /\ DOMAIN loc = Procs /\ DOMAIN pc = Procs /\ DOMAIN cwd = Procs
      /\ \A i \in Inums : ~Has(l, pc[p], i)
  BY <1>1, <1>2, AtLabel DEF CwdOK, NoCwd, Putting, Has, Holds, LocksIp, LocksDp, Shape, HasDp, NoIp
<1>4. PICK m, x : m = Load(l.dp) /\ x = Dirlookup(disk, m, l.name)
  OBVIOUS
<1>5. \/ ino' = Hold(ino, 0, l.dp, m) /\ pc' = [pc EXCEPT ![p] = "put"] /\ loc' = [loc EXCEPT ![p] = PutThen([l EXCEPT !.dp = 0], l.dp, "end")]
      \/ ino' = Iget(Hold(ino, p, l.dp, m), x) /\ pc' = [pc EXCEPT ![p] = "unlink_ip"] /\ loc' = [loc EXCEPT ![p] = [l EXCEPT !.ip = x]]
  BY <1>1, <1>4 DEF UnlinkDir, Keep, Goto
<1>6. ASSUME ino' = Hold(ino, 0, l.dp, m) /\ pc' = [pc EXCEPT ![p] = "put"] /\ loc' = [loc EXCEPT ![p] = PutThen([l EXCEPT !.dp = 0], l.dp, "end")]
      PROVE  IInv' /\ (Normal => Normal')
  <2>1. PICK k : k = PutThen([l EXCEPT !.dp = 0], l.dp, "end")
    OBVIOUS
  <2>2. Moves(p, k, "put", cwd[p])
    BY <1>1, <1>2, <1>3, <1>6, <2>1, SetsOne, SetsNone DEF Moves
  <2>3. /\ DOMAIN k = LocFields /\ k.cur = 0 /\ k.ip = 0 /\ k.dp = 0 /\ k.puts = <<l.dp>> /\ k.then = "end"
        /\ Put(k, 1) = l.dp /\ Put(k, 2) = 0 /\ Eff("put", k) = "end"
    BY <1>3, <1>6, <2>1 DEF PutThen, LocFields, Put, Eff, Putting, NoLoc, Namex, LinkPuts
  <2>4. Good(p, k, "put", cwd[p])
    BY <1>1, <1>2, <1>3, <1>6, <2>3 DEF Good, LocOK, PutsShape, Thens, Shape, Putting, HasDp, NoIp, CwdOK, ModeOK, Boot, NoCwd
  <2>5. Locked(ino', ino, l.dp, 0)
    BY <1>3, <1>6, HoldFacts DEF Locked, Got, Dropped
  <2>6. Tab(ino')
    BY <1>2, <1>3, <1>6, <2>5 DEF Locked, Got, Dropped
  <2>7. ASSUME NEW i \in Inums PROVE LocalRefs(p, k, cwd[p], i) /\ LockMoves(p, k, "put", i)
    <3>1. i # 0 /\ ino[i].ref \in Int /\ p # 0
      BY <1>3, Bounds DEF Tab
    <3>2. LocalRefs(p, k, cwd[p], i)
      BY <1>1, <1>2, <1>3, <1>6, <2>3, <2>5, <3>1 DEF LocalRefs, Mine, Bit, Locked, Got, Dropped
    <3>3. LockMoves(p, k, "put", i)
      BY <1>1, <1>2, <1>3, <1>6, <2>3, <2>5, <3>1 DEF LockMoves, Has, Holds, Frees, LocksIp, LocksDp, Locked, Got, Dropped
    <3> QED  BY <3>2, <3>3
  <2>8. SameFiles
    BY <1>2, FilesKept
  <2> QED  BY <2>2, <2>4, <2>6, <2>7, <2>8, TurnLocal
<1>7. ASSUME ino' = Iget(Hold(ino, p, l.dp, m), x) /\ pc' = [pc EXCEPT ![p] = "unlink_ip"] /\ loc' = [loc EXCEPT ![p] = [l EXCEPT !.ip = x]]
      PROVE  IInv' /\ (Normal => Normal')
  <2>1. PICK k : k = [l EXCEPT !.ip = x]
    OBVIOUS
  <2>2. Moves(p, k, "unlink_ip", cwd[p])
    BY <1>1, <1>2, <1>3, <1>7, <2>1, SetsOne, SetsNone DEF Moves
  <2>3. /\ DOMAIN k = LocFields /\ k.cur = 0 /\ k.ip = x /\ k.dp = l.dp /\ k.puts = <<>>
        /\ Put(k, 1) = 0 /\ Put(k, 2) = 0 /\ Eff("unlink_ip", k) = "unlink_ip"
    BY <1>3, <1>7, <2>1 DEF PutThen, LocFields, Put, Eff, Putting, NoLoc, Namex, LinkPuts
  <2>4. Good(p, k, "unlink_ip", cwd[p])
    BY <1>1, <1>2, <1>3, <1>7, <2>3 DEF Good, LocOK, PutsShape, Thens, Shape, Putting, HasDp, NoIp, CwdOK, ModeOK, Boot, NoCwd
  <2>5. PICK t : t = Hold(ino, p, l.dp, m)
    OBVIOUS
  <2>6. Locked(t, ino, l.dp, p)
    BY <1>3, <1>7, <2>5, HoldFacts DEF Locked, Got, Dropped
  <2>7. Got(ino', t, x)
    BY <1>3, <1>7, <2>5, <2>6, IgetFacts DEF Locked, Got, Dropped
  <2>8. Tab(ino')
    BY <1>2, <1>3, <1>7, <2>5, <2>6, <2>7 DEF Locked, Got, Dropped
  <2>9. ASSUME NEW i \in Inums PROVE LocalRefs(p, k, cwd[p], i) /\ LockMoves(p, k, "unlink_ip", i)
    <3>1. i # 0 /\ ino[i].ref \in Int /\ p # 0
      BY <1>3, Bounds DEF Tab
    <3>2. LocalRefs(p, k, cwd[p], i)
      <4>1. ino'[i].ref = ino[i].ref + Bit(x = i)
        BY <1>3, <1>7, <2>5, <2>6, <2>7, <3>1 DEF Locked, Got, Bit
      <4> QED  BY <1>1, <1>2, <1>3, <2>3, <3>1, <4>1 DEF LocalRefs, Mine, Bit
    <3>3. LockMoves(p, k, "unlink_ip", i)
      BY <1>1, <1>2, <1>3, <1>7, <2>3, <2>5, <2>6, <2>7, <3>1 DEF LockMoves, Has, Holds, Frees, LocksIp, LocksDp, Locked, Got, Dropped
    <3> QED  BY <3>2, <3>3
  <2>10. SameFiles
    BY <1>2, FilesKept
  <2> QED  BY <2>2, <2>4, <2>8, <2>9, <2>10, TurnLocal
<1> QED  BY <1>5, <1>6, <1>7

\* unlink() removes the entry.
LEMMA UnlinkIpKeeps ==
  ASSUME IInv, NEW p \in Procs, UnlinkIp(p)
  PROVE  IInv' /\ (Normal => Normal')
<1>1. PICK l : l = loc[p]
  OBVIOUS
<1>2. pc[p] = "unlink_ip" /\ ino[l.ip].lock = 0 /\ l.ip # 0 /\ cwd' = cwd /\ ofile' = ofile /\ file' = file
  BY <1>1 DEF UnlinkIp, At, files, world, Ilock, Wants
<1>3. /\ DOMAIN l = LocFields /\ l.puts = <<>> /\ Put(l, 1) = 0 /\ Put(l, 2) = 0 /\ Eff(pc[p], l) = "unlink_ip"
      /\ l.cur = 0 /\ cwd[p] # 0 /\ Shape(l, "unlink_ip")
      /\ Tab(ino) /\ DOMAIN loc = Procs /\ DOMAIN pc = Procs /\ DOMAIN cwd = Procs
      /\ \A i \in Inums : (Has(l, pc[p], i) <=> l.dp = i) /\ (l.dp = i => ino[i].lock = p)
  BY <1>1, <1>2, AtLabel DEF CwdOK, NoCwd, Putting, Has, Holds, LocksIp, LocksDp, Shape, HasDp, NoIp, IInv, LockInv
<1>4. PICK m1, m2 :
      \/ ino' = ino /\ pc' = pc /\ loc' = loc
      \/ ino' = Hold(ino, 0, l.ip, m1) /\ pc' = [pc EXCEPT ![p] = "put"] /\ loc' = [loc EXCEPT ![p] = PutThen([l EXCEPT !.ip = 0], l.ip, "unlock_dp")]
      \/ ino' = Hold(Hold(ino, p, l.ip, m1), 0, l.dp, m2) /\ pc' = [pc EXCEPT ![p] = "put"] /\ loc' = [loc EXCEPT ![p] = PutThen([l EXCEPT !.dp = 0], l.dp, "unlink_drop")]
  BY <1>1 DEF UnlinkIp, Keep, Goto
<1>5. ASSUME ino' = ino /\ pc' = pc /\ loc' = loc
      PROVE  IInv' /\ (Normal => Normal')
  BY <1>2, <1>5, Still
<1>6. ASSUME ino' = Hold(ino, 0, l.ip, m1) /\ pc' = [pc EXCEPT ![p] = "put"] /\ loc' = [loc EXCEPT ![p] = PutThen([l EXCEPT !.ip = 0], l.ip, "unlock_dp")]
      PROVE  IInv' /\ (Normal => Normal')
  <2>1. PICK k : k = PutThen([l EXCEPT !.ip = 0], l.ip, "unlock_dp")
    OBVIOUS
  <2>2. Moves(p, k, "put", cwd[p])
    BY <1>1, <1>2, <1>3, <1>6, <2>1, SetsOne, SetsNone DEF Moves
  <2>3. /\ DOMAIN k = LocFields /\ k.cur = 0 /\ k.ip = 0 /\ k.dp = l.dp /\ k.puts = <<l.ip>> /\ k.then = "unlock_dp"
        /\ Put(k, 1) = l.ip /\ Put(k, 2) = 0 /\ Eff("put", k) = "unlock_dp"
    BY <1>3, <1>6, <2>1 DEF PutThen, LocFields, Put, Eff, Putting, NoLoc, Namex, LinkPuts
  <2>4. Good(p, k, "put", cwd[p])
    BY <1>1, <1>2, <1>3, <1>6, <2>3 DEF Good, LocOK, PutsShape, Thens, Shape, Putting, HasDp, NoIp, CwdOK, ModeOK, Boot, NoCwd
  <2>5. Locked(ino', ino, l.ip, 0)
    BY <1>3, <1>6, HoldFacts DEF Locked, Got, Dropped
  <2>6. Tab(ino')
    BY <1>2, <1>3, <1>6, <2>5 DEF Locked, Got, Dropped
  <2>7. ASSUME NEW i \in Inums PROVE LocalRefs(p, k, cwd[p], i) /\ LockMoves(p, k, "put", i)
    <3>1. i # 0 /\ ino[i].ref \in Int /\ p # 0
      BY <1>3, Bounds DEF Tab
    <3>2. LocalRefs(p, k, cwd[p], i)
      BY <1>1, <1>2, <1>3, <1>6, <2>3, <2>5, <3>1 DEF LocalRefs, Mine, Bit, Locked, Got, Dropped
    <3>3. LockMoves(p, k, "put", i)
      BY <1>1, <1>2, <1>3, <1>6, <2>3, <2>5, <3>1 DEF LockMoves, Has, Holds, Frees, LocksIp, LocksDp, Locked, Got, Dropped
    <3> QED  BY <3>2, <3>3
  <2>8. SameFiles
    BY <1>2, FilesKept
  <2> QED  BY <2>2, <2>4, <2>6, <2>7, <2>8, TurnLocal
<1>7. ASSUME ino' = Hold(Hold(ino, p, l.ip, m1), 0, l.dp, m2) /\ pc' = [pc EXCEPT ![p] = "put"] /\ loc' = [loc EXCEPT ![p] = PutThen([l EXCEPT !.dp = 0], l.dp, "unlink_drop")]
      PROVE  IInv' /\ (Normal => Normal')
  <2>1. PICK k : k = PutThen([l EXCEPT !.dp = 0], l.dp, "unlink_drop")
    OBVIOUS
  <2>2. Moves(p, k, "put", cwd[p])
    BY <1>1, <1>2, <1>3, <1>7, <2>1, SetsOne, SetsNone DEF Moves
  <2>3. /\ DOMAIN k = LocFields /\ k.cur = 0 /\ k.ip = l.ip /\ k.dp = 0 /\ k.puts = <<l.dp>> /\ k.then = "unlink_drop"
        /\ Put(k, 1) = l.dp /\ Put(k, 2) = 0 /\ Eff("put", k) = "unlink_drop"
    BY <1>3, <1>7, <2>1 DEF PutThen, LocFields, Put, Eff, Putting, NoLoc, Namex, LinkPuts
  <2>4. Good(p, k, "put", cwd[p])
    BY <1>1, <1>2, <1>3, <1>7, <2>3 DEF Good, LocOK, PutsShape, Thens, Shape, Putting, HasDp, NoIp, CwdOK, ModeOK, Boot, NoCwd
  <2>5. PICK t : t = Hold(ino, p, l.ip, m1)
    OBVIOUS
  <2>6. Locked(t, ino, l.ip, p)
    BY <1>3, <1>7, <2>5, HoldFacts DEF Locked, Got, Dropped
  <2>7. Locked(ino', t, l.dp, 0)
    BY <1>3, <1>7, <2>5, <2>6, HoldFacts DEF Locked, Got, Dropped
  <2>8. Tab(ino')
    BY <1>2, <1>3, <1>7, <2>5, <2>6, <2>7 DEF Locked, Got, Dropped
  <2>9. ASSUME NEW i \in Inums PROVE LocalRefs(p, k, cwd[p], i) /\ LockMoves(p, k, "put", i)
    <3>1. i # 0 /\ ino[i].ref \in Int /\ p # 0
      BY <1>3, Bounds DEF Tab
    <3>2. LocalRefs(p, k, cwd[p], i)
      BY <1>1, <1>2, <1>3, <1>7, <2>3, <2>5, <2>6, <2>7, <3>1 DEF LocalRefs, Mine, Bit, Locked, Got, Dropped
    <3>3. LockMoves(p, k, "put", i)
      BY <1>1, <1>2, <1>3, <1>7, <2>3, <2>5, <2>6, <2>7, <3>1 DEF LockMoves, Has, Holds, Frees, LocksIp, LocksDp, Locked, Got, Dropped
    <3> QED  BY <3>2, <3>3
  <2>10. SameFiles
    BY <1>2, FilesKept
  <2> QED  BY <2>2, <2>4, <2>8, <2>9, <2>10, TurnLocal
<1> QED  BY <1>4, <1>5, <1>6, <1>7

\* unlink() takes the link away.
LEMMA UnlinkDropKeeps ==
  ASSUME IInv, NEW p \in Procs, UnlinkDrop(p)
  PROVE  IInv' /\ (Normal => Normal')
<1>1. PICK l : l = loc[p]
  OBVIOUS
<1>2. pc[p] = "unlink_drop" /\ cwd' = cwd /\ ofile' = ofile /\ file' = file
  BY <1>1 DEF UnlinkDrop, At, files, world
<1>3. /\ DOMAIN l = LocFields /\ l.puts = <<>> /\ Put(l, 1) = 0 /\ Put(l, 2) = 0 /\ Eff(pc[p], l) = "unlink_drop"
      /\ l.cur = 0 /\ l.dp = 0 /\ cwd[p] # 0 /\ Shape(l, "unlink_drop")
      /\ Tab(ino) /\ DOMAIN loc = Procs /\ DOMAIN pc = Procs /\ DOMAIN cwd = Procs
      /\ \A i \in Inums : (Has(l, pc[p], i) <=> l.ip = i)
  BY <1>1, <1>2, AtLabel DEF CwdOK, NoCwd, Putting, Has, Holds, LocksIp, LocksDp, Shape, HasDp, NoIp
<1>4. PICK m : m = Unlinked(ino[l.ip].n)
  OBVIOUS
<1>5. ino' = Hold(ino, 0, l.ip, m) /\ pc' = [pc EXCEPT ![p] = "put"] /\ loc' = [loc EXCEPT ![p] = [PutThen(l, l.ip, "end") EXCEPT !.ip = 0, !.res = Ok]]
  BY <1>1, <1>4 DEF UnlinkDrop, Keep, Goto
<1>6. ASSUME ino' = Hold(ino, 0, l.ip, m) /\ pc' = [pc EXCEPT ![p] = "put"] /\ loc' = [loc EXCEPT ![p] = [PutThen(l, l.ip, "end") EXCEPT !.ip = 0, !.res = Ok]]
      PROVE  IInv' /\ (Normal => Normal')
  <2>1. PICK k : k = [PutThen(l, l.ip, "end") EXCEPT !.ip = 0, !.res = Ok]
    OBVIOUS
  <2>2. Moves(p, k, "put", cwd[p])
    BY <1>1, <1>2, <1>3, <1>6, <2>1, SetsOne, SetsNone DEF Moves
  <2>3. /\ DOMAIN k = LocFields /\ k.cur = 0 /\ k.ip = 0 /\ k.dp = 0 /\ k.puts = <<l.ip>> /\ k.then = "end"
        /\ Put(k, 1) = l.ip /\ Put(k, 2) = 0 /\ Eff("put", k) = "end"
    BY <1>3, <1>6, <2>1 DEF PutThen, LocFields, Put, Eff, Putting, NoLoc, Namex, LinkPuts
  <2>4. Good(p, k, "put", cwd[p])
    BY <1>1, <1>2, <1>3, <1>6, <2>3 DEF Good, LocOK, PutsShape, Thens, Shape, Putting, HasDp, NoIp, CwdOK, ModeOK, Boot, NoCwd
  <2>5. Locked(ino', ino, l.ip, 0)
    BY <1>3, <1>6, HoldFacts DEF Locked, Got, Dropped
  <2>6. Tab(ino')
    BY <1>2, <1>3, <1>6, <2>5 DEF Locked, Got, Dropped
  <2>7. ASSUME NEW i \in Inums PROVE LocalRefs(p, k, cwd[p], i) /\ LockMoves(p, k, "put", i)
    <3>1. i # 0 /\ ino[i].ref \in Int /\ p # 0
      BY <1>3, Bounds DEF Tab
    <3>2. LocalRefs(p, k, cwd[p], i)
      BY <1>1, <1>2, <1>3, <1>6, <2>3, <2>5, <3>1 DEF LocalRefs, Mine, Bit, Locked, Got, Dropped
    <3>3. LockMoves(p, k, "put", i)
      BY <1>1, <1>2, <1>3, <1>6, <2>3, <2>5, <3>1 DEF LockMoves, Has, Holds, Frees, LocksIp, LocksDp, Locked, Got, Dropped
    <3> QED  BY <3>2, <3>3
  <2>8. SameFiles
    BY <1>2, FilesKept
  <2> QED  BY <2>2, <2>4, <2>6, <2>7, <2>8, TurnLocal
<1> QED  BY <1>5, <1>6

\* chdir().
LEMMA ChdirIpKeeps ==
  ASSUME IInv, NEW p \in Procs, ChdirIp(p)
  PROVE  IInv' /\ (Normal => Normal')
<1>1. PICK l : l = loc[p]
  OBVIOUS
<1>2. pc[p] = "chdir_ip" /\ ino[l.ip].lock = 0 /\ l.ip # 0 /\ ofile' = ofile /\ file' = file
  BY <1>1 DEF ChdirIp, At, files, world, Ilock, Wants
<1>3. /\ DOMAIN l = LocFields /\ l.puts = <<>> /\ Put(l, 1) = 0 /\ Put(l, 2) = 0 /\ Eff(pc[p], l) = "chdir_ip"
      /\ l.cur = 0 /\ l.dp = 0 /\ cwd[p] # 0 /\ Shape(l, "chdir_ip")
      /\ Tab(ino) /\ DOMAIN loc = Procs /\ DOMAIN pc = Procs /\ DOMAIN cwd = Procs
      /\ \A i \in Inums : ~Has(l, pc[p], i)
  BY <1>1, <1>2, AtLabel DEF CwdOK, NoCwd, Putting, Has, Holds, LocksIp, LocksDp, Shape, HasDp, NoIp
<1>4. PICK m : m = Load(l.ip)
  OBVIOUS
<1>5. \/ ino' = Hold(ino, 0, l.ip, m) /\ cwd' = [cwd EXCEPT ![p] = l.ip] /\ pc' = [pc EXCEPT ![p] = "put"] /\ loc' = [loc EXCEPT ![p] = [PutThen(l, cwd[p], "end") EXCEPT !.ip = 0, !.res = Ok]]
      \/ ino' = Hold(ino, 0, l.ip, m) /\ cwd' = cwd /\ pc' = [pc EXCEPT ![p] = "put"] /\ loc' = [loc EXCEPT ![p] = PutThen([l EXCEPT !.ip = 0], l.ip, "end")]
  BY <1>1, <1>4 DEF ChdirIp, Keep, Goto
<1>6. ASSUME ino' = Hold(ino, 0, l.ip, m) /\ cwd' = [cwd EXCEPT ![p] = l.ip] /\ pc' = [pc EXCEPT ![p] = "put"] /\ loc' = [loc EXCEPT ![p] = [PutThen(l, cwd[p], "end") EXCEPT !.ip = 0, !.res = Ok]]
      PROVE  IInv' /\ (Normal => Normal')
  <2>1. PICK k : k = [PutThen(l, cwd[p], "end") EXCEPT !.ip = 0, !.res = Ok]
    OBVIOUS
  <2>2. Moves(p, k, "put", l.ip)
    BY <1>1, <1>2, <1>3, <1>6, <2>1, SetsOne, SetsNone DEF Moves
  <2>3. /\ DOMAIN k = LocFields /\ k.cur = 0 /\ k.ip = 0 /\ k.dp = 0 /\ k.puts = <<cwd[p]>> /\ k.then = "end"
        /\ Put(k, 1) = cwd[p] /\ Put(k, 2) = 0 /\ Eff("put", k) = "end"
    BY <1>3, <1>6, <2>1 DEF PutThen, LocFields, Put, Eff, Putting, NoLoc, Namex, LinkPuts
  <2>4. Good(p, k, "put", l.ip)
    BY <1>1, <1>2, <1>3, <1>6, <2>3 DEF Good, LocOK, PutsShape, Thens, Shape, Putting, HasDp, NoIp, CwdOK, ModeOK, Boot, NoCwd
  <2>5. Locked(ino', ino, l.ip, 0)
    BY <1>3, <1>6, HoldFacts DEF Locked, Got, Dropped
  <2>6. Tab(ino')
    BY <1>2, <1>3, <1>6, <2>5 DEF Locked, Got, Dropped
  <2>7. ASSUME NEW i \in Inums PROVE LocalRefs(p, k, l.ip, i) /\ LockMoves(p, k, "put", i)
    <3>1. i # 0 /\ ino[i].ref \in Int /\ p # 0
      BY <1>3, Bounds DEF Tab
    <3>2. LocalRefs(p, k, l.ip, i)
      BY <1>1, <1>2, <1>3, <1>6, <2>3, <2>5, <3>1 DEF LocalRefs, Mine, Bit, Locked, Got, Dropped
    <3>3. LockMoves(p, k, "put", i)
      BY <1>1, <1>2, <1>3, <1>6, <2>3, <2>5, <3>1 DEF LockMoves, Has, Holds, Frees, LocksIp, LocksDp, Locked, Got, Dropped
    <3> QED  BY <3>2, <3>3
  <2>8. SameFiles
    BY <1>2, FilesKept
  <2> QED  BY <2>2, <2>4, <2>6, <2>7, <2>8, TurnLocal
<1>7. ASSUME ino' = Hold(ino, 0, l.ip, m) /\ cwd' = cwd /\ pc' = [pc EXCEPT ![p] = "put"] /\ loc' = [loc EXCEPT ![p] = PutThen([l EXCEPT !.ip = 0], l.ip, "end")]
      PROVE  IInv' /\ (Normal => Normal')
  <2>1. PICK k : k = PutThen([l EXCEPT !.ip = 0], l.ip, "end")
    OBVIOUS
  <2>2. Moves(p, k, "put", cwd[p])
    BY <1>1, <1>2, <1>3, <1>7, <2>1, SetsOne, SetsNone DEF Moves
  <2>3. /\ DOMAIN k = LocFields /\ k.cur = 0 /\ k.ip = 0 /\ k.dp = 0 /\ k.puts = <<l.ip>> /\ k.then = "end"
        /\ Put(k, 1) = l.ip /\ Put(k, 2) = 0 /\ Eff("put", k) = "end"
    BY <1>3, <1>7, <2>1 DEF PutThen, LocFields, Put, Eff, Putting, NoLoc, Namex, LinkPuts
  <2>4. Good(p, k, "put", cwd[p])
    BY <1>1, <1>2, <1>3, <1>7, <2>3 DEF Good, LocOK, PutsShape, Thens, Shape, Putting, HasDp, NoIp, CwdOK, ModeOK, Boot, NoCwd
  <2>5. Locked(ino', ino, l.ip, 0)
    BY <1>3, <1>7, HoldFacts DEF Locked, Got, Dropped
  <2>6. Tab(ino')
    BY <1>2, <1>3, <1>7, <2>5 DEF Locked, Got, Dropped
  <2>7. ASSUME NEW i \in Inums PROVE LocalRefs(p, k, cwd[p], i) /\ LockMoves(p, k, "put", i)
    <3>1. i # 0 /\ ino[i].ref \in Int /\ p # 0
      BY <1>3, Bounds DEF Tab
    <3>2. LocalRefs(p, k, cwd[p], i)
      BY <1>1, <1>2, <1>3, <1>7, <2>3, <2>5, <3>1 DEF LocalRefs, Mine, Bit, Locked, Got, Dropped
    <3>3. LockMoves(p, k, "put", i)
      BY <1>1, <1>2, <1>3, <1>7, <2>3, <2>5, <3>1 DEF LockMoves, Has, Holds, Frees, LocksIp, LocksDp, Locked, Got, Dropped
    <3> QED  BY <3>2, <3>3
  <2>8. SameFiles
    BY <1>2, FilesKept
  <2> QED  BY <2>2, <2>4, <2>6, <2>7, <2>8, TurnLocal
<1> QED  BY <1>5, <1>6, <1>7
\* The offset of an open file moves.
LEMMA OffsetMoves ==
  ASSUME IInv, NEW f, NEW o, ofile' = ofile, file' = [file EXCEPT ![f].off = o]
  PROVE  SameFiles
  BY DEF IInv, FileInv, SameFiles, FileFields

LEMMA OffsetMoves2 ==
  ASSUME IInv, NEW f, NEW n, ofile' = ofile, file' = [file EXCEPT ![f].off = Moved(@, n)]
  PROVE  SameFiles
  BY DEF IInv, FileInv, SameFiles, FileFields

LEMMA NoTypeKeeps ==
  ASSUME IInv, NEW p \in Procs, NoType(p)
  PROVE  IInv' /\ (Normal => Normal')
  BY Still DEF NoType, files

LEMMA BadFdKeeps ==
  ASSUME IInv, NEW p \in Procs, BadFd(p)
  PROVE  IInv' /\ (Normal => Normal')
  BY Still DEF BadFd, Return, files

\* The end of a call.
LEMMA EndCallKeeps ==
  ASSUME IInv, NEW p \in Procs, EndCall(p)
  PROVE  IInv' /\ (Normal => Normal')
<1>1. PICK l : l = loc[p]
  OBVIOUS
<1>2. pc[p] = "end" /\ ino' = ino /\ cwd' = cwd /\ ofile' = ofile /\ file' = file
  BY <1>1 DEF EndCall, At, files, world
<1>3. /\ DOMAIN l = LocFields /\ l.puts = <<>> /\ Put(l, 1) = 0 /\ Put(l, 2) = 0 /\ Eff(pc[p], l) = "end"
      /\ l.cur = 0 /\ l.dp = 0 /\ l.ip = 0 /\ Shape(l, "end")
      /\ Tab(ino) /\ DOMAIN loc = Procs /\ DOMAIN pc = Procs /\ DOMAIN cwd = Procs
      /\ \A i \in Inums : ~Has(l, pc[p], i)
  BY <1>1, <1>2, AtLabel DEF CwdOK, NoCwd, Putting, Has, Holds, LocksIp, LocksDp, Shape, HasDp, NoIp
<1>4. \/ pc' = [pc EXCEPT ![p] = "zombie"] /\ loc' = [loc EXCEPT ![p] = NoLoc] /\ cwd[p] = 0
      \/ pc' = [pc EXCEPT ![p] = "user"] /\ loc' = [loc EXCEPT ![p] = NoLoc] /\ cwd[p] # 0
  BY <1>1 DEF EndCall, Keep, Goto
<1>5. ASSUME pc' = [pc EXCEPT ![p] = "zombie"] /\ loc' = [loc EXCEPT ![p] = NoLoc] /\ cwd[p] = 0
      PROVE  IInv' /\ (Normal => Normal')
  <2>1. PICK k : k = NoLoc
    OBVIOUS
  <2>2. Moves(p, k, "zombie", cwd[p])
    BY <1>1, <1>2, <1>3, <1>5, <2>1, SetsOne, SetsNone DEF Moves
  <2>3. /\ DOMAIN k = LocFields /\ k.cur = 0 /\ k.ip = 0 /\ k.dp = 0 /\ k.puts = <<>>
        /\ Put(k, 1) = 0 /\ Put(k, 2) = 0 /\ Eff("zombie", k) = "zombie"
    BY <1>3, <1>5, <2>1 DEF PutThen, LocFields, Put, Eff, Putting, NoLoc, Namex, LinkPuts
  <2>4. Good(p, k, "zombie", cwd[p])
    BY <1>1, <1>2, <1>3, <1>5, <2>3 DEF Good, LocOK, PutsShape, Thens, Shape, Putting, HasDp, NoIp, CwdOK, ModeOK, Boot, NoCwd
  <2>5. Tab(ino')
    BY <1>2, <1>3, <1>5 DEF Locked, Got, Dropped
  <2>6. ASSUME NEW i \in Inums PROVE LocalRefs(p, k, cwd[p], i) /\ LockMoves(p, k, "zombie", i)
    <3>1. i # 0 /\ ino[i].ref \in Int /\ p # 0
      BY <1>3, Bounds DEF Tab
    <3>2. LocalRefs(p, k, cwd[p], i)
      BY <1>1, <1>2, <1>3, <1>5, <2>3, <3>1 DEF LocalRefs, Mine, Bit, Locked, Got, Dropped
    <3>3. LockMoves(p, k, "zombie", i)
      BY <1>1, <1>2, <1>3, <1>5, <2>3, <3>1 DEF LockMoves, Has, Holds, Frees, LocksIp, LocksDp, Locked, Got, Dropped
    <3> QED  BY <3>2, <3>3
  <2>7. SameFiles
    BY <1>2, FilesKept
  <2> QED  BY <2>2, <2>4, <2>5, <2>6, <2>7, TurnLocal
<1>6. ASSUME pc' = [pc EXCEPT ![p] = "user"] /\ loc' = [loc EXCEPT ![p] = NoLoc] /\ cwd[p] # 0
      PROVE  IInv' /\ (Normal => Normal')
  <2>1. PICK k : k = NoLoc
    OBVIOUS
  <2>2. Moves(p, k, "user", cwd[p])
    BY <1>1, <1>2, <1>3, <1>6, <2>1, SetsOne, SetsNone DEF Moves
  <2>3. /\ DOMAIN k = LocFields /\ k.cur = 0 /\ k.ip = 0 /\ k.dp = 0 /\ k.puts = <<>>
        /\ Put(k, 1) = 0 /\ Put(k, 2) = 0 /\ Eff("user", k) = "user"
    BY <1>3, <1>6, <2>1 DEF PutThen, LocFields, Put, Eff, Putting, NoLoc, Namex, LinkPuts
  <2>4. Good(p, k, "user", cwd[p])
    BY <1>1, <1>2, <1>3, <1>6, <2>3 DEF Good, LocOK, PutsShape, Thens, Shape, Putting, HasDp, NoIp, CwdOK, ModeOK, Boot, NoCwd
  <2>5. Tab(ino')
    BY <1>2, <1>3, <1>6 DEF Locked, Got, Dropped
  <2>6. ASSUME NEW i \in Inums PROVE LocalRefs(p, k, cwd[p], i) /\ LockMoves(p, k, "user", i)
    <3>1. i # 0 /\ ino[i].ref \in Int /\ p # 0
      BY <1>3, Bounds DEF Tab
    <3>2. LocalRefs(p, k, cwd[p], i)
      BY <1>1, <1>2, <1>3, <1>6, <2>3, <3>1 DEF LocalRefs, Mine, Bit, Locked, Got, Dropped
    <3>3. LockMoves(p, k, "user", i)
      BY <1>1, <1>2, <1>3, <1>6, <2>3, <3>1 DEF LockMoves, Has, Holds, Frees, LocksIp, LocksDp, Locked, Got, Dropped
    <3> QED  BY <3>2, <3>3
  <2>7. SameFiles
    BY <1>2, FilesKept
  <2> QED  BY <2>2, <2>4, <2>5, <2>6, <2>7, TurnLocal
<1> QED  BY <1>4, <1>5, <1>6

\* The start of read(), write() and fstat().
LEMMA FileCallKeeps ==
  ASSUME IInv, NEW p \in Procs, FileCall(p)
  PROVE  IInv' /\ (Normal => Normal')
<1>1. PICK l : l = loc[p]
  OBVIOUS
<1>2. pc[p] = "user" /\ ino' = ino /\ cwd' = cwd /\ ofile' = ofile /\ file' = file
  BY <1>1 DEF FileCall, At, files, world, Calls
<1>3. /\ DOMAIN l = LocFields /\ l.puts = <<>> /\ Put(l, 1) = 0 /\ Put(l, 2) = 0 /\ Eff(pc[p], l) = "user"
      /\ l.cur = 0 /\ l.dp = 0 /\ l.ip = 0 /\ cwd[p] # 0 /\ Shape(l, "user")
      /\ Tab(ino) /\ DOMAIN loc = Procs /\ DOMAIN pc = Procs /\ DOMAIN cwd = Procs
      /\ \A i \in Inums : ~Has(l, pc[p], i)
  BY <1>1, <1>2, AtLabel DEF CwdOK, NoCwd, Putting, Has, Holds, LocksIp, LocksDp, Shape, HasDp, NoIp
<1>4. PICK e : e = IF Call(p).op = "write" THEN "write" ELSE "read"
  OBVIOUS
<1>5. e \in {"read", "write"}
  BY <1>4
<1>6. \/ pc' = pc /\ loc' = loc
      \/ pc' = [pc EXCEPT ![p] = e] /\ loc' = [loc EXCEPT ![p] = [NoLoc EXCEPT !.f = File(p), !.rest = Call(p).data]]
  BY <1>1, <1>4 DEF FileCall, Keep, Goto, Return
<1>7. ASSUME pc' = pc /\ loc' = loc
      PROVE  IInv' /\ (Normal => Normal')
  BY <1>2, <1>7, Still
<1>8. ASSUME pc' = [pc EXCEPT ![p] = e] /\ loc' = [loc EXCEPT ![p] = [NoLoc EXCEPT !.f = File(p), !.rest = Call(p).data]]
      PROVE  IInv' /\ (Normal => Normal')
  <2>1. PICK k : k = [NoLoc EXCEPT !.f = File(p), !.rest = Call(p).data]
    OBVIOUS
  <2>2. Moves(p, k, e, cwd[p])
    BY <1>1, <1>2, <1>3, <1>8, <2>1, SetsOne, SetsNone DEF Moves
  <2>3. /\ DOMAIN k = LocFields /\ k.cur = 0 /\ k.ip = 0 /\ k.dp = 0 /\ k.puts = <<>>
        /\ Put(k, 1) = 0 /\ Put(k, 2) = 0 /\ Eff(e, k) = e
    BY <1>3, <1>8, <2>1, <1>5 DEF PutThen, LocFields, Put, Eff, Putting, NoLoc, Namex, LinkPuts
  <2>4. Good(p, k, e, cwd[p])
    BY <1>1, <1>2, <1>3, <1>8, <2>3, <1>5 DEF Good, LocOK, PutsShape, Thens, Shape, Putting, HasDp, NoIp, CwdOK, ModeOK, Boot, NoCwd
  <2>5. Tab(ino')
    BY <1>2, <1>3, <1>8, <1>5 DEF Locked, Got, Dropped
  <2>6. ASSUME NEW i \in Inums PROVE LocalRefs(p, k, cwd[p], i) /\ LockMoves(p, k, e, i)
    <3>1. i # 0 /\ ino[i].ref \in Int /\ p # 0
      BY <1>3, Bounds DEF Tab
    <3>2. LocalRefs(p, k, cwd[p], i)
      BY <1>1, <1>2, <1>3, <1>8, <2>3, <3>1, <1>5 DEF LocalRefs, Mine, Bit, Locked, Got, Dropped
    <3>3. LockMoves(p, k, e, i)
      BY <1>1, <1>2, <1>3, <1>8, <2>3, <3>1, <1>5 DEF LockMoves, Has, Holds, Frees, LocksIp, LocksDp, Locked, Got, Dropped
    <3> QED  BY <3>2, <3>3
  <2>7. SameFiles
    BY <1>2, FilesKept
  <2> QED  BY <2>2, <2>4, <2>5, <2>6, <2>7, TurnLocal
<1> QED  BY <1>6, <1>7, <1>8

\* fileread() and filestat().
LEMMA ReadKeeps ==
  ASSUME IInv, NEW p \in Procs, Read(p)
  PROVE  IInv' /\ (Normal => Normal')
<1>1. PICK l : l = loc[p]
  OBVIOUS
<1>2. pc[p] = "read" /\ ino[file[l.f].ip].lock = 0 /\ file[l.f].ip # 0 /\ cwd' = cwd
  BY <1>1 DEF Read, At, files, world, Ilock, Wants
<1>3. /\ DOMAIN l = LocFields /\ l.puts = <<>> /\ Put(l, 1) = 0 /\ Put(l, 2) = 0 /\ Eff(pc[p], l) = "read"
      /\ l.cur = 0 /\ l.dp = 0 /\ l.ip = 0 /\ cwd[p] # 0 /\ Shape(l, "read")
      /\ Tab(ino) /\ DOMAIN loc = Procs /\ DOMAIN pc = Procs /\ DOMAIN cwd = Procs
      /\ \A i \in Inums : ~Has(l, pc[p], i)
  BY <1>1, <1>2, AtLabel DEF CwdOK, NoCwd, Putting, Has, Holds, LocksIp, LocksDp, Shape, HasDp, NoIp
<1>4. PICK m, o :
      ofile' = ofile /\ file' = [file EXCEPT ![l.f].off = o] /\ ino' = Hold(ino, 0, file[l.f].ip, m) /\ pc' = [pc EXCEPT ![p] = "user"] /\ loc' = [loc EXCEPT ![p] = NoLoc]
  BY <1>1 DEF Read, Keep, Goto
<1>5. ASSUME ino' = Hold(ino, 0, file[l.f].ip, m) /\ pc' = [pc EXCEPT ![p] = "user"] /\ loc' = [loc EXCEPT ![p] = NoLoc]
      PROVE  IInv' /\ (Normal => Normal')
  <2>1. PICK k : k = NoLoc
    OBVIOUS
  <2>2. Moves(p, k, "user", cwd[p])
    BY <1>1, <1>2, <1>3, <1>5, <2>1, SetsOne, SetsNone DEF Moves
  <2>3. /\ DOMAIN k = LocFields /\ k.cur = 0 /\ k.ip = 0 /\ k.dp = 0 /\ k.puts = <<>>
        /\ Put(k, 1) = 0 /\ Put(k, 2) = 0 /\ Eff("user", k) = "user"
    BY <1>3, <1>5, <2>1 DEF PutThen, LocFields, Put, Eff, Putting, NoLoc, Namex, LinkPuts
  <2>4. Good(p, k, "user", cwd[p])
    BY <1>1, <1>2, <1>3, <1>5, <2>3 DEF Good, LocOK, PutsShape, Thens, Shape, Putting, HasDp, NoIp, CwdOK, ModeOK, Boot, NoCwd
  <2>5. Locked(ino', ino, file[l.f].ip, 0)
    BY <1>3, <1>5, HoldFacts DEF Locked, Got, Dropped
  <2>6. Tab(ino')
    BY <1>2, <1>3, <1>5, <2>5 DEF Locked, Got, Dropped
  <2>7. ASSUME NEW i \in Inums PROVE LocalRefs(p, k, cwd[p], i) /\ LockMoves(p, k, "user", i)
    <3>1. i # 0 /\ ino[i].ref \in Int /\ p # 0
      BY <1>3, Bounds DEF Tab
    <3>2. LocalRefs(p, k, cwd[p], i)
      BY <1>1, <1>2, <1>3, <1>5, <2>3, <2>5, <3>1 DEF LocalRefs, Mine, Bit, Locked, Got, Dropped
    <3>3. LockMoves(p, k, "user", i)
      BY <1>1, <1>2, <1>3, <1>5, <2>3, <2>5, <3>1 DEF LockMoves, Has, Holds, Frees, LocksIp, LocksDp, Locked, Got, Dropped
    <3> QED  BY <3>2, <3>3
  <2>8. SameFiles
    BY <1>4, OffsetMoves
  <2> QED  BY <2>2, <2>4, <2>6, <2>7, <2>8, TurnLocal
<1> QED  BY <1>4, <1>5

\* filewrite().
LEMMA WriteKeeps ==
  ASSUME IInv, NEW p \in Procs, Write(p)
  PROVE  IInv' /\ (Normal => Normal')
<1>1. PICK l : l = loc[p]
  OBVIOUS
<1>2. pc[p] = "write" /\ ino[file[l.f].ip].lock = 0 /\ file[l.f].ip # 0 /\ cwd' = cwd
  BY <1>1 DEF Write, At, files, world, Ilock, Wants
<1>3. /\ DOMAIN l = LocFields /\ l.puts = <<>> /\ Put(l, 1) = 0 /\ Put(l, 2) = 0 /\ Eff(pc[p], l) = "write"
      /\ l.cur = 0 /\ l.dp = 0 /\ l.ip = 0 /\ cwd[p] # 0 /\ Shape(l, "write")
      /\ Tab(ino) /\ DOMAIN loc = Procs /\ DOMAIN pc = Procs /\ DOMAIN cwd = Procs
      /\ \A i \in Inums : ~Has(l, pc[p], i)
  BY <1>1, <1>2, AtLabel DEF CwdOK, NoCwd, Putting, Has, Holds, LocksIp, LocksDp, Shape, HasDp, NoIp
<1>4. PICK n1, w :
        /\ n1 = Min({Len(l.rest), WMAX})
        /\ w = Writei(disk, Load(file[l.f].ip), file[l.f].ip, file[l.f].off, SubSeq(l.rest, 1, n1), Call(p).ok)
  OBVIOUS
<1>5. PICK e, r, s, m, o :
        /\ e = IF w.n = n1 /\ Len(l.rest) > n1 THEN "write_more" ELSE "end"
        /\ r = SubSeq(l.rest, n1 + 1, Len(l.rest)) /\ s = IF w.n = n1 THEN Ok ELSE Fail
        /\ m = w.m /\ o = Moved(file[l.f].off, w.n)
  OBVIOUS
<1>6. e \in {"write_more", "end"}
  BY <1>5
<1>7. ofile' = ofile /\ file' = [file EXCEPT ![l.f].off = Moved(@, w.n)] /\ ino' = Hold(ino, 0, file[l.f].ip, m) /\ pc' = [pc EXCEPT ![p] = e] /\ loc' = [loc EXCEPT ![p] = [l EXCEPT !.rest = r, !.res = s]]
  <2>1. /\ ino' = Hold(ino, 0, file[l.f].ip, w.m) /\ ofile' = ofile
        /\ file' = [file EXCEPT ![l.f].off = Moved(@, w.n)]
        /\ loc' = [loc EXCEPT ![p] = [l EXCEPT !.rest = SubSeq(@, n1 + 1, Len(@)), !.res = IF w.n = n1 THEN Ok ELSE Fail]]
        /\ pc' = [pc EXCEPT ![p] = IF w.n = n1 /\ Len(l.rest) > n1 THEN "write_more" ELSE "end"]
    BY <1>1, <1>4 DEF Write, Keep, Goto
  <2> QED  BY <1>3, <1>5, <2>1
<1>8. ASSUME ino' = Hold(ino, 0, file[l.f].ip, m) /\ pc' = [pc EXCEPT ![p] = e] /\ loc' = [loc EXCEPT ![p] = [l EXCEPT !.rest = r, !.res = s]]
      PROVE  IInv' /\ (Normal => Normal')
  <2>1. PICK k : k = [l EXCEPT !.rest = r, !.res = s]
    OBVIOUS
  <2>2. Moves(p, k, e, cwd[p])
    BY <1>1, <1>2, <1>3, <1>8, <2>1, SetsOne, SetsNone DEF Moves
  <2>3. /\ DOMAIN k = LocFields /\ k.cur = 0 /\ k.ip = 0 /\ k.dp = 0 /\ k.puts = <<>>
        /\ Put(k, 1) = 0 /\ Put(k, 2) = 0 /\ Eff(e, k) = e
    BY <1>3, <1>8, <2>1, <1>6 DEF PutThen, LocFields, Put, Eff, Putting, NoLoc, Namex, LinkPuts
  <2>4. Good(p, k, e, cwd[p])
    BY <1>1, <1>2, <1>3, <1>8, <2>3, <1>6 DEF Good, LocOK, PutsShape, Thens, Shape, Putting, HasDp, NoIp, CwdOK, ModeOK, Boot, NoCwd
  <2>5. Locked(ino', ino, file[l.f].ip, 0)
    BY <1>3, <1>8, HoldFacts DEF Locked, Got, Dropped
  <2>6. Tab(ino')
    BY <1>2, <1>3, <1>8, <2>5, <1>6 DEF Locked, Got, Dropped
  <2>7. ASSUME NEW i \in Inums PROVE LocalRefs(p, k, cwd[p], i) /\ LockMoves(p, k, e, i)
    <3>1. i # 0 /\ ino[i].ref \in Int /\ p # 0
      BY <1>3, Bounds DEF Tab
    <3>2. LocalRefs(p, k, cwd[p], i)
      BY <1>1, <1>2, <1>3, <1>8, <2>3, <2>5, <3>1, <1>6 DEF LocalRefs, Mine, Bit, Locked, Got, Dropped
    <3>3. LockMoves(p, k, e, i)
      BY <1>1, <1>2, <1>3, <1>8, <2>3, <2>5, <3>1, <1>6 DEF LockMoves, Has, Holds, Frees, LocksIp, LocksDp, Locked, Got, Dropped
    <3> QED  BY <3>2, <3>3
  <2>8. SameFiles
    BY <1>7, OffsetMoves2
  <2> QED  BY <2>2, <2>4, <2>6, <2>7, <2>8, TurnLocal
<1> QED  BY <1>7, <1>8

\* Between two transactions of filewrite().
LEMMA WriteMoreKeeps ==
  ASSUME IInv, NEW p \in Procs, WriteMore(p)
  PROVE  IInv' /\ (Normal => Normal')
<1>1. PICK l : l = loc[p]
  OBVIOUS
<1>2. pc[p] = "write_more" /\ ino' = ino /\ cwd' = cwd /\ ofile' = ofile /\ file' = file
  BY <1>1 DEF WriteMore, At, files, world
<1>3. /\ DOMAIN l = LocFields /\ l.puts = <<>> /\ Put(l, 1) = 0 /\ Put(l, 2) = 0 /\ Eff(pc[p], l) = "write_more"
      /\ l.cur = 0 /\ l.dp = 0 /\ l.ip = 0 /\ cwd[p] # 0 /\ Shape(l, "write_more")
      /\ Tab(ino) /\ DOMAIN loc = Procs /\ DOMAIN pc = Procs /\ DOMAIN cwd = Procs
      /\ \A i \in Inums : ~Has(l, pc[p], i)
  BY <1>1, <1>2, AtLabel DEF CwdOK, NoCwd, Putting, Has, Holds, LocksIp, LocksDp, Shape, HasDp, NoIp
<1>4. pc' = [pc EXCEPT ![p] = "write_begin"] /\ loc' = loc
  BY <1>1 DEF WriteMore, Keep, Goto
<1>5. ASSUME pc' = [pc EXCEPT ![p] = "write_begin"] /\ loc' = loc
      PROVE  IInv' /\ (Normal => Normal')
  <2>1. PICK k : k = l
    OBVIOUS
  <2>2. Moves(p, k, "write_begin", cwd[p])
    BY <1>1, <1>2, <1>3, <1>5, <2>1, SetsOne, SetsNone DEF Moves
  <2>3. /\ DOMAIN k = LocFields /\ k.cur = 0 /\ k.ip = 0 /\ k.dp = 0 /\ k.puts = <<>>
        /\ Put(k, 1) = 0 /\ Put(k, 2) = 0 /\ Eff("write_begin", k) = "write_begin"
    BY <1>3, <1>5, <2>1 DEF PutThen, LocFields, Put, Eff, Putting, NoLoc, Namex, LinkPuts
  <2>4. Good(p, k, "write_begin", cwd[p])
    BY <1>1, <1>2, <1>3, <1>5, <2>3 DEF Good, LocOK, PutsShape, Thens, Shape, Putting, HasDp, NoIp, CwdOK, ModeOK, Boot, NoCwd
  <2>5. Tab(ino')
    BY <1>2, <1>3, <1>5 DEF Locked, Got, Dropped
  <2>6. ASSUME NEW i \in Inums PROVE LocalRefs(p, k, cwd[p], i) /\ LockMoves(p, k, "write_begin", i)
    <3>1. i # 0 /\ ino[i].ref \in Int /\ p # 0
      BY <1>3, Bounds DEF Tab
    <3>2. LocalRefs(p, k, cwd[p], i)
      BY <1>1, <1>2, <1>3, <1>5, <2>3, <3>1 DEF LocalRefs, Mine, Bit, Locked, Got, Dropped
    <3>3. LockMoves(p, k, "write_begin", i)
      BY <1>1, <1>2, <1>3, <1>5, <2>3, <3>1 DEF LockMoves, Has, Holds, Frees, LocksIp, LocksDp, Locked, Got, Dropped
    <3> QED  BY <3>2, <3>3
  <2>7. SameFiles
    BY <1>2, FilesKept
  <2> QED  BY <2>2, <2>4, <2>5, <2>6, <2>7, TurnLocal
<1> QED  BY <1>4, <1>5

LEMMA WriteBeginKeeps ==
  ASSUME IInv, NEW p \in Procs, WriteBegin(p)
  PROVE  IInv' /\ (Normal => Normal')
<1>1. PICK l : l = loc[p]
  OBVIOUS
<1>2. pc[p] = "write_begin" /\ ino' = ino /\ cwd' = cwd /\ ofile' = ofile /\ file' = file
  BY <1>1 DEF WriteBegin, At, files, world
<1>3. /\ DOMAIN l = LocFields /\ l.puts = <<>> /\ Put(l, 1) = 0 /\ Put(l, 2) = 0 /\ Eff(pc[p], l) = "write_begin"
      /\ l.cur = 0 /\ l.dp = 0 /\ l.ip = 0 /\ cwd[p] # 0 /\ Shape(l, "write_begin")
      /\ Tab(ino) /\ DOMAIN loc = Procs /\ DOMAIN pc = Procs /\ DOMAIN cwd = Procs
      /\ \A i \in Inums : ~Has(l, pc[p], i)
  BY <1>1, <1>2, AtLabel DEF CwdOK, NoCwd, Putting, Has, Holds, LocksIp, LocksDp, Shape, HasDp, NoIp
<1>4. pc' = [pc EXCEPT ![p] = "write"] /\ loc' = loc
  BY <1>1 DEF WriteBegin, Keep, Goto
<1>5. ASSUME pc' = [pc EXCEPT ![p] = "write"] /\ loc' = loc
      PROVE  IInv' /\ (Normal => Normal')
  <2>1. PICK k : k = l
    OBVIOUS
  <2>2. Moves(p, k, "write", cwd[p])
    BY <1>1, <1>2, <1>3, <1>5, <2>1, SetsOne, SetsNone DEF Moves
  <2>3. /\ DOMAIN k = LocFields /\ k.cur = 0 /\ k.ip = 0 /\ k.dp = 0 /\ k.puts = <<>>
        /\ Put(k, 1) = 0 /\ Put(k, 2) = 0 /\ Eff("write", k) = "write"
    BY <1>3, <1>5, <2>1 DEF PutThen, LocFields, Put, Eff, Putting, NoLoc, Namex, LinkPuts
  <2>4. Good(p, k, "write", cwd[p])
    BY <1>1, <1>2, <1>3, <1>5, <2>3 DEF Good, LocOK, PutsShape, Thens, Shape, Putting, HasDp, NoIp, CwdOK, ModeOK, Boot, NoCwd
  <2>5. Tab(ino')
    BY <1>2, <1>3, <1>5 DEF Locked, Got, Dropped
  <2>6. ASSUME NEW i \in Inums PROVE LocalRefs(p, k, cwd[p], i) /\ LockMoves(p, k, "write", i)
    <3>1. i # 0 /\ ino[i].ref \in Int /\ p # 0
      BY <1>3, Bounds DEF Tab
    <3>2. LocalRefs(p, k, cwd[p], i)
      BY <1>1, <1>2, <1>3, <1>5, <2>3, <3>1 DEF LocalRefs, Mine, Bit, Locked, Got, Dropped
    <3>3. LockMoves(p, k, "write", i)
      BY <1>1, <1>2, <1>3, <1>5, <2>3, <3>1 DEF LockMoves, Has, Holds, Frees, LocksIp, LocksDp, Locked, Got, Dropped
    <3> QED  BY <3>2, <3>3
  <2>7. SameFiles
    BY <1>2, FilesKept
  <2> QED  BY <2>2, <2>4, <2>5, <2>6, <2>7, TurnLocal
<1> QED  BY <1>4, <1>5

\* ireclaim() after a crash.
LEMMA ReclaimKeeps ==
  ASSUME IInv, NEW p \in Procs, Reclaim(p)
  PROVE  IInv' /\ (Normal => Normal')
<1>1. PICK l : l = loc[p]
  OBVIOUS
<1>2. pc[p] = "boot" /\ cwd' = cwd /\ ofile' = ofile /\ file' = file
  BY <1>1 DEF Reclaim, At, files, world
<1>3. /\ DOMAIN l = LocFields /\ l.puts = <<>> /\ Put(l, 1) = 0 /\ Put(l, 2) = 0 /\ Eff(pc[p], l) = "boot"
      /\ l.cur = 0 /\ l.dp = 0 /\ l.ip = 0 /\ Shape(l, "boot")
      /\ Tab(ino) /\ DOMAIN loc = Procs /\ DOMAIN pc = Procs /\ DOMAIN cwd = Procs
      /\ \A i \in Inums : ~Has(l, pc[p], i)
  BY <1>1, <1>2, AtLabel DEF CwdOK, NoCwd, Putting, Has, Holds, LocksIp, LocksDp, Shape, HasDp, NoIp
<1>4. PICK x :
      \/ ino' = Iget(ino, x) /\ pc' = [pc EXCEPT ![p] = "reclaim"] /\ loc' = [loc EXCEPT ![p] = [NoLoc EXCEPT !.ip = x, !.scan = x]]
      \/ ino' = ino /\ pc' = [pc EXCEPT ![p] = "up"] /\ loc' = loc
  BY <1>1 DEF Reclaim, Keep, Goto
<1>5. ASSUME ino' = Iget(ino, x) /\ pc' = [pc EXCEPT ![p] = "reclaim"] /\ loc' = [loc EXCEPT ![p] = [NoLoc EXCEPT !.ip = x, !.scan = x]]
      PROVE  IInv' /\ (Normal => Normal')
  <2>1. PICK k : k = [NoLoc EXCEPT !.ip = x, !.scan = x]
    OBVIOUS
  <2>2. Moves(p, k, "reclaim", cwd[p])
    BY <1>1, <1>2, <1>3, <1>5, <2>1, SetsOne, SetsNone DEF Moves
  <2>3. /\ DOMAIN k = LocFields /\ k.cur = 0 /\ k.ip = x /\ k.dp = 0 /\ k.puts = <<>>
        /\ Put(k, 1) = 0 /\ Put(k, 2) = 0 /\ Eff("reclaim", k) = "reclaim"
    BY <1>3, <1>5, <2>1 DEF PutThen, LocFields, Put, Eff, Putting, NoLoc, Namex, LinkPuts
  <2>4. Good(p, k, "reclaim", cwd[p])
    BY <1>1, <1>2, <1>3, <1>5, <2>3 DEF Good, LocOK, PutsShape, Thens, Shape, Putting, HasDp, NoIp, CwdOK, ModeOK, Boot, NoCwd
  <2>5. Got(ino', ino, x)
    BY <1>3, <1>5, IgetFacts DEF Locked, Got, Dropped
  <2>6. Tab(ino')
    BY <1>2, <1>3, <1>5, <2>5 DEF Locked, Got, Dropped
  <2>7. ASSUME NEW i \in Inums PROVE LocalRefs(p, k, cwd[p], i) /\ LockMoves(p, k, "reclaim", i)
    <3>1. i # 0 /\ ino[i].ref \in Int /\ p # 0
      BY <1>3, Bounds DEF Tab
    <3>2. LocalRefs(p, k, cwd[p], i)
      <4>1. ino'[i].ref = ino[i].ref + Bit(x = i)
        BY <1>3, <1>5, <2>5, <3>1 DEF Locked, Got, Bit
      <4> QED  BY <1>1, <1>2, <1>3, <2>3, <3>1, <4>1 DEF LocalRefs, Mine, Bit
    <3>3. LockMoves(p, k, "reclaim", i)
      BY <1>1, <1>2, <1>3, <1>5, <2>3, <2>5, <3>1 DEF LockMoves, Has, Holds, Frees, LocksIp, LocksDp, Locked, Got, Dropped
    <3> QED  BY <3>2, <3>3
  <2>8. SameFiles
    BY <1>2, FilesKept
  <2> QED  BY <2>2, <2>4, <2>6, <2>7, <2>8, TurnLocal
<1>6. ASSUME ino' = ino /\ pc' = [pc EXCEPT ![p] = "up"] /\ loc' = loc
      PROVE  IInv' /\ (Normal => Normal')
  <2>1. PICK k : k = l
    OBVIOUS
  <2>2. Moves(p, k, "up", cwd[p])
    BY <1>1, <1>2, <1>3, <1>6, <2>1, SetsOne, SetsNone DEF Moves
  <2>3. /\ DOMAIN k = LocFields /\ k.cur = 0 /\ k.ip = 0 /\ k.dp = 0 /\ k.puts = <<>>
        /\ Put(k, 1) = 0 /\ Put(k, 2) = 0 /\ Eff("up", k) = "up"
    BY <1>3, <1>6, <2>1 DEF PutThen, LocFields, Put, Eff, Putting, NoLoc, Namex, LinkPuts
  <2>4. Good(p, k, "up", cwd[p])
    BY <1>1, <1>2, <1>3, <1>6, <2>3 DEF Good, LocOK, PutsShape, Thens, Shape, Putting, HasDp, NoIp, CwdOK, ModeOK, Boot, NoCwd
  <2>5. Tab(ino')
    BY <1>2, <1>3, <1>6 DEF Locked, Got, Dropped
  <2>6. ASSUME NEW i \in Inums PROVE LocalRefs(p, k, cwd[p], i) /\ LockMoves(p, k, "up", i)
    <3>1. i # 0 /\ ino[i].ref \in Int /\ p # 0
      BY <1>3, Bounds DEF Tab
    <3>2. LocalRefs(p, k, cwd[p], i)
      BY <1>1, <1>2, <1>3, <1>6, <2>3, <3>1 DEF LocalRefs, Mine, Bit, Locked, Got, Dropped
    <3>3. LockMoves(p, k, "up", i)
      BY <1>1, <1>2, <1>3, <1>6, <2>3, <3>1 DEF LockMoves, Has, Holds, Frees, LocksIp, LocksDp, Locked, Got, Dropped
    <3> QED  BY <3>2, <3>3
  <2>7. SameFiles
    BY <1>2, FilesKept
  <2> QED  BY <2>2, <2>4, <2>5, <2>6, <2>7, TurnLocal
<1> QED  BY <1>4, <1>5, <1>6

LEMMA ReclaimLoadKeeps ==
  ASSUME IInv, NEW p \in Procs, ReclaimLoad(p)
  PROVE  IInv' /\ (Normal => Normal')
<1>1. PICK l : l = loc[p]
  OBVIOUS
<1>2. pc[p] = "reclaim" /\ ino[l.ip].lock = 0 /\ l.ip # 0 /\ cwd' = cwd /\ ofile' = ofile /\ file' = file
  BY <1>1 DEF ReclaimLoad, At, files, world, Ilock, Wants
<1>3. /\ DOMAIN l = LocFields /\ l.puts = <<>> /\ Put(l, 1) = 0 /\ Put(l, 2) = 0 /\ Eff(pc[p], l) = "reclaim"
      /\ l.cur = 0 /\ l.dp = 0 /\ Shape(l, "reclaim")
      /\ Tab(ino) /\ DOMAIN loc = Procs /\ DOMAIN pc = Procs /\ DOMAIN cwd = Procs
      /\ \A i \in Inums : ~Has(l, pc[p], i)
  BY <1>1, <1>2, AtLabel DEF CwdOK, NoCwd, Putting, Has, Holds, LocksIp, LocksDp, Shape, HasDp, NoIp
<1>4. PICK m : m = Load(l.ip)
  OBVIOUS
<1>5. ino' = Hold(ino, 0, l.ip, m) /\ pc' = [pc EXCEPT ![p] = "put"] /\ loc' = [loc EXCEPT ![p] = PutThen([l EXCEPT !.ip = 0], l.ip, "reclaim_end")]
  BY <1>1, <1>4 DEF ReclaimLoad, Keep, Goto
<1>6. ASSUME ino' = Hold(ino, 0, l.ip, m) /\ pc' = [pc EXCEPT ![p] = "put"] /\ loc' = [loc EXCEPT ![p] = PutThen([l EXCEPT !.ip = 0], l.ip, "reclaim_end")]
      PROVE  IInv' /\ (Normal => Normal')
  <2>1. PICK k : k = PutThen([l EXCEPT !.ip = 0], l.ip, "reclaim_end")
    OBVIOUS
  <2>2. Moves(p, k, "put", cwd[p])
    BY <1>1, <1>2, <1>3, <1>6, <2>1, SetsOne, SetsNone DEF Moves
  <2>3. /\ DOMAIN k = LocFields /\ k.cur = 0 /\ k.ip = 0 /\ k.dp = 0 /\ k.puts = <<l.ip>> /\ k.then = "reclaim_end"
        /\ Put(k, 1) = l.ip /\ Put(k, 2) = 0 /\ Eff("put", k) = "reclaim_end"
    BY <1>3, <1>6, <2>1 DEF PutThen, LocFields, Put, Eff, Putting, NoLoc, Namex, LinkPuts
  <2>4. Good(p, k, "put", cwd[p])
    BY <1>1, <1>2, <1>3, <1>6, <2>3 DEF Good, LocOK, PutsShape, Thens, Shape, Putting, HasDp, NoIp, CwdOK, ModeOK, Boot, NoCwd
  <2>5. Locked(ino', ino, l.ip, 0)
    BY <1>3, <1>6, HoldFacts DEF Locked, Got, Dropped
  <2>6. Tab(ino')
    BY <1>2, <1>3, <1>6, <2>5 DEF Locked, Got, Dropped
  <2>7. ASSUME NEW i \in Inums PROVE LocalRefs(p, k, cwd[p], i) /\ LockMoves(p, k, "put", i)
    <3>1. i # 0 /\ ino[i].ref \in Int /\ p # 0
      BY <1>3, Bounds DEF Tab
    <3>2. LocalRefs(p, k, cwd[p], i)
      BY <1>1, <1>2, <1>3, <1>6, <2>3, <2>5, <3>1 DEF LocalRefs, Mine, Bit, Locked, Got, Dropped
    <3>3. LockMoves(p, k, "put", i)
      BY <1>1, <1>2, <1>3, <1>6, <2>3, <2>5, <3>1 DEF LockMoves, Has, Holds, Frees, LocksIp, LocksDp, Locked, Got, Dropped
    <3> QED  BY <3>2, <3>3
  <2>8. SameFiles
    BY <1>2, FilesKept
  <2> QED  BY <2>2, <2>4, <2>6, <2>7, <2>8, TurnLocal
<1> QED  BY <1>5, <1>6

LEMMA ReclaimEndKeeps ==
  ASSUME IInv, NEW p \in Procs, ReclaimEnd(p)
  PROVE  IInv' /\ (Normal => Normal')
<1>1. PICK l : l = loc[p]
  OBVIOUS
<1>2. pc[p] = "reclaim_end" /\ ino' = ino /\ cwd' = cwd /\ ofile' = ofile /\ file' = file
  BY <1>1 DEF ReclaimEnd, At, files, world
<1>3. /\ DOMAIN l = LocFields /\ l.puts = <<>> /\ Put(l, 1) = 0 /\ Put(l, 2) = 0 /\ Eff(pc[p], l) = "reclaim_end"
      /\ l.cur = 0 /\ l.dp = 0 /\ l.ip = 0 /\ Shape(l, "reclaim_end")
      /\ Tab(ino) /\ DOMAIN loc = Procs /\ DOMAIN pc = Procs /\ DOMAIN cwd = Procs
      /\ \A i \in Inums : ~Has(l, pc[p], i)
  BY <1>1, <1>2, AtLabel DEF CwdOK, NoCwd, Putting, Has, Holds, LocksIp, LocksDp, Shape, HasDp, NoIp
<1>4. pc' = [pc EXCEPT ![p] = "boot"] /\ loc' = loc
  BY <1>1 DEF ReclaimEnd, Keep, Goto
<1>5. ASSUME pc' = [pc EXCEPT ![p] = "boot"] /\ loc' = loc
      PROVE  IInv' /\ (Normal => Normal')
  <2>1. PICK k : k = l
    OBVIOUS
  <2>2. Moves(p, k, "boot", cwd[p])
    BY <1>1, <1>2, <1>3, <1>5, <2>1, SetsOne, SetsNone DEF Moves
  <2>3. /\ DOMAIN k = LocFields /\ k.cur = 0 /\ k.ip = 0 /\ k.dp = 0 /\ k.puts = <<>>
        /\ Put(k, 1) = 0 /\ Put(k, 2) = 0 /\ Eff("boot", k) = "boot"
    BY <1>3, <1>5, <2>1 DEF PutThen, LocFields, Put, Eff, Putting, NoLoc, Namex, LinkPuts
  <2>4. Good(p, k, "boot", cwd[p])
    BY <1>1, <1>2, <1>3, <1>5, <2>3 DEF Good, LocOK, PutsShape, Thens, Shape, Putting, HasDp, NoIp, CwdOK, ModeOK, Boot, NoCwd
  <2>5. Tab(ino')
    BY <1>2, <1>3, <1>5 DEF Locked, Got, Dropped
  <2>6. ASSUME NEW i \in Inums PROVE LocalRefs(p, k, cwd[p], i) /\ LockMoves(p, k, "boot", i)
    <3>1. i # 0 /\ ino[i].ref \in Int /\ p # 0
      BY <1>3, Bounds DEF Tab
    <3>2. LocalRefs(p, k, cwd[p], i)
      BY <1>1, <1>2, <1>3, <1>5, <2>3, <3>1 DEF LocalRefs, Mine, Bit, Locked, Got, Dropped
    <3>3. LockMoves(p, k, "boot", i)
      BY <1>1, <1>2, <1>3, <1>5, <2>3, <3>1 DEF LockMoves, Has, Holds, Frees, LocksIp, LocksDp, Locked, Got, Dropped
    <3> QED  BY <3>2, <3>3
  <2>7. SameFiles
    BY <1>2, FilesKept
  <2> QED  BY <2>2, <2>4, <2>5, <2>6, <2>7, TurnLocal
<1> QED  BY <1>4, <1>5
\* What is known of a process in iput().
InPut(p, l) ==
  /\ DOMAIN l = LocFields /\ l.then \in Thens /\ l.then \notin Putting /\ Shape(l, l.then)
  /\ \E a, b : l.puts = <<a>> \/ l.puts = <<a, b>>
  /\ CwdOK(l, pc[p], cwd[p]) /\ Tab(ino) /\ DOMAIN loc = Procs /\ DOMAIN pc = Procs /\ DOMAIN cwd = Procs
  /\ \A c \in Putting : Eff(c, l) = l.then
  /\ \A i \in Inums : ino[i].lock = p <=> Has(l, pc[p], i)
  /\ \A i \in Inums : ~(Holds(l, pc[p], i) /\ Frees(l, pc[p], i))

LEMMA AtPut ==
  ASSUME IInv, NEW p \in Procs, NEW l, l = loc[p], pc[p] \in Putting
  PROVE  InPut(p, l)
<1>1. LocOK(l, pc[p]) /\ DOMAIN loc = Procs /\ DOMAIN pc = Procs /\ DOMAIN cwd = Procs
  BY DEF IInv, LocInv
<1>2. \A c \in Putting : Eff(c, l) = l.then
  BY DEF Eff
<1>3. DOMAIN l = LocFields /\ l.then \in Thens /\ Shape(l, l.then) /\ \E a, b : l.puts = <<a>> \/ l.puts = <<a, b>>
  BY <1>1, <1>2 DEF LocOK, PutsShape
<1>4. l.then \notin Putting
  BY <1>3 DEF Thens, Putting
<1>5. CwdOK(l, pc[p], cwd[p]) /\ Tab(ino)
  BY DEF IInv, CwdInv, CwdOK, RefInv
<1>6. \A i \in Inums : /\ ino[i].lock = p <=> Has(l, pc[p], i)
                       /\ ~(Holds(l, pc[p], i) /\ Frees(l, pc[p], i))
  BY DEF IInv, LockInv, Has
<1> QED  BY <1>1, <1>2, <1>3, <1>4, <1>5, <1>6 DEF InPut

\* iput() gives up one reference.
LEMMA PutKeeps ==
  ASSUME IInv, NEW p \in Procs, pc[p] \in {"put", "put_last"}, file' = file, ofile' = ofile, cwd' = cwd,
         ino' = [ino EXCEPT ![Head(loc[p].puts)].ref = @ - 1],
         loc' = [loc EXCEPT ![p] = [loc[p] EXCEPT !.puts = Tail(@)]],
         pc' = [pc EXCEPT ![p] = IF Len(loc[p].puts) = 1 THEN loc[p].then ELSE "put"]
  PROVE  IInv' /\ (Normal => Normal')
<1>1. PICK l : l = loc[p]
  OBVIOUS
<1>2. pc[p] \in Putting
  BY DEF Putting
<1>3. /\ DOMAIN l = LocFields /\ l.then \in Thens /\ l.then \notin Putting /\ Shape(l, l.then)
      /\ \E a, b : l.puts = <<a>> \/ l.puts = <<a, b>>
      /\ CwdOK(l, pc[p], cwd[p]) /\ Tab(ino) /\ DOMAIN loc = Procs /\ DOMAIN pc = Procs /\ DOMAIN cwd = Procs
      /\ \A c \in Putting : Eff(c, l) = l.then
  <2>1. InPut(p, l)
    BY <1>1, <1>2, AtPut
  <2> QED  BY <2>1 DEF InPut
<1>4. PICK a, b : l.puts = <<a>> \/ l.puts = <<a, b>>
  BY <1>3
<1>5. Head(l.puts) = a /\ Put(l, 1) = a /\ (Put(l, 2) = IF l.puts = <<a>> THEN 0 ELSE b)
  BY <1>4 DEF Put
<1>6. PICK k, c : k = [l EXCEPT !.puts = Tail(@)] /\ c = IF Len(l.puts) = 1 THEN l.then ELSE "put"
  OBVIOUS
<1>7. Moves(p, k, c, cwd[p])
  BY <1>1, <1>3, <1>6, SetsOne, SetsNone DEF Moves
<1>8. /\ DOMAIN k = LocFields /\ k.cur = l.cur /\ k.ip = l.ip /\ k.dp = l.dp /\ k.then = l.then
      /\ k.found = l.found /\ k.miss = l.miss /\ k.parent = l.parent /\ k.puts = Tail(l.puts)
  BY <1>3, <1>6 DEF LocFields
<1>9. \/ l.puts = <<a>> /\ k.puts = <<>> /\ c = l.then
      \/ l.puts = <<a, b>> /\ k.puts = <<b>> /\ c = "put"
  <2>1. CASE l.puts = <<a>>
    <3>1. Len(l.puts) = 1 /\ Tail(l.puts) = <<>>
      BY <2>1
    <3> QED  BY <1>6, <1>8, <2>1, <3>1
  <2>2. CASE l.puts = <<a, b>>
    <3>1. Len(l.puts) = 2 /\ Tail(l.puts) = <<b>>
      BY <2>2
    <3> QED  BY <1>6, <1>8, <2>2, <3>1
  <2> QED  BY <1>4, <2>1, <2>2
<1>10. Put(k, 1) = Put(l, 2) /\ Put(k, 2) = 0
  BY <1>5, <1>9 DEF Put
<1>11. Eff(c, k) = l.then /\ Eff(pc[p], l) = l.then
  BY <1>2, <1>3, <1>8, <1>9 DEF Eff, Putting
<1>12. Good(p, k, c, cwd[p])
  <2>1. LocOK(k, c)
    BY <1>3, <1>8, <1>9, <1>11 DEF LocOK, PutsShape, Shape, Putting, Thens
  <2>2. CwdOK(k, c, cwd[p])
    BY <1>3, <1>9, <1>11 DEF CwdOK, Thens
  <2>3. ModeOK(p, k, c) /\ c # "open_done"
    BY <1>1, <1>3, <1>9, <1>11 DEF ModeOK, Thens
  <2> QED  BY <2>1, <2>2, <2>3 DEF Good
<1>13. Dropped(ino', ino, a)
  BY <1>1, <1>3, <1>5, DropFacts
<1>14. ASSUME NEW i \in Inums PROVE LocalRefs(p, k, cwd[p], i) /\ LockMoves(p, k, c, i)
  <2>1. i # 0 /\ ino[i].ref \in Int
    BY <1>3, Bounds DEF Tab
  <2>2. LocalRefs(p, k, cwd[p], i)
    <3>1. ino'[i].ref = ino[i].ref - Bit(a = i)
      BY <1>13 DEF Dropped
    <3>2. PICK x, y : x = Put(l, 1) /\ y = Put(l, 2)
      OBVIOUS
    <3>3. Mine(l, cwd[p], i) = Bit(l.cur = i) + Bit(l.ip = i) + Bit(l.dp = i) + Bit(a = i) + Bit(y = i) + Bit(cwd[p] = i)
      BY <1>5, <3>2 DEF Mine
    <3>4. Mine(k, cwd[p], i) = Bit(l.cur = i) + Bit(l.ip = i) + Bit(l.dp = i) + Bit(y = i) + Bit(0 = i) + Bit(cwd[p] = i)
      BY <1>8, <1>10, <3>2 DEF Mine
    <3> QED  BY <1>1, <2>1, <3>1, <3>3, <3>4 DEF LocalRefs, Bit
  <2>3. Holds(k, c, i) = Holds(l, pc[p], i)
    BY <1>8, <1>11 DEF Holds
  <2>4. ~Frees(k, c, i) /\ ~Frees(l, pc[p], i)
    BY <1>3, <1>9 DEF Frees, Thens
  <2>5. ino'[i].lock = ino[i].lock
    BY <1>13 DEF Dropped
  <2>6. ino[i].lock = p <=> Has(l, pc[p], i)
    BY <1>1, <1>2, AtPut DEF InPut
  <2>7. LockMoves(p, k, c, i)
    BY <1>1, <2>3, <2>4, <2>5, <2>6 DEF LockMoves, Has
  <2> QED  BY <2>2, <2>7
<1>15. SameFiles
  BY FilesKept
<1>16. Tab(ino')
  BY <1>13 DEF Dropped
<1> QED  BY <1>7, <1>12, <1>14, <1>15, <1>16, TurnLocal

LEMMA IputLastKeeps ==
  ASSUME IInv, NEW p \in Procs, IputLast(p)
  PROVE  IInv' /\ (Normal => Normal')
  BY PutKeeps DEF IputLast, At, Keep, Goto, files, world

\* iput() goes from one label to the next under the lock of the inode.
LEMMA PutLockKeeps ==
  ASSUME IInv, NEW p \in Procs, NEW c, NEW x, NEW a, a = Head(loc[p].puts), file' = file, ofile' = ofile, cwd' = cwd,
         loc' = loc, pc' = [pc EXCEPT ![p] = c], Locked(ino', ino, a, x),
         \/ pc[p] = "put" /\ c = "put_free" /\ x = p /\ ino[a].lock = 0
         \/ pc[p] = "put_free" /\ c = "put_last" /\ x = 0
  PROVE  IInv' /\ (Normal => Normal')
<1>1. PICK l : l = loc[p]
  OBVIOUS
<1>2. pc[p] \in Putting /\ c \in Putting
  BY DEF Putting
<1>3. /\ DOMAIN l = LocFields /\ l.then \in Thens /\ l.then \notin Putting /\ Shape(l, l.then)
      /\ \E y, z : l.puts = <<y>> \/ l.puts = <<y, z>>
      /\ CwdOK(l, pc[p], cwd[p]) /\ Tab(ino) /\ DOMAIN loc = Procs /\ DOMAIN pc = Procs /\ DOMAIN cwd = Procs
      /\ \A e \in Putting : Eff(e, l) = l.then
  <2>1. InPut(p, l)
    BY <1>1, <1>2, AtPut
  <2> QED  BY <2>1 DEF InPut
<1>4. l.puts[1] = a
  BY <1>1, <1>3
<1>5. Moves(p, l, c, cwd[p])
  BY <1>1, <1>3, SetsOne, SetsNone DEF Moves
<1>6. Good(p, l, c, cwd[p])
  <2>1. Eff(c, l) = l.then /\ Eff(pc[p], l) = l.then
    BY <1>2, <1>3
  <2>2. LocOK(l, c)
    BY <1>2, <1>3, <2>1 DEF LocOK, PutsShape
  <2>3. CwdOK(l, c, cwd[p]) /\ ModeOK(p, l, c) /\ c # "open_done"
    BY <1>1, <1>2, <1>3, <2>1 DEF CwdOK, ModeOK, Putting
  <2> QED  BY <2>2, <2>3 DEF Good
<1>7. ASSUME NEW i \in Inums PROVE LocalRefs(p, l, cwd[p], i) /\ LockMoves(p, l, c, i)
  <2>1. LocalRefs(p, l, cwd[p], i)
    BY <1>1 DEF LocalRefs, Locked
  <2>2. Holds(l, c, i) = Holds(l, pc[p], i)
    BY <1>2, <1>3 DEF Holds
  <2>3. (ino[i].lock = p <=> Has(l, pc[p], i)) /\ ~(Holds(l, pc[p], i) /\ Frees(l, pc[p], i))
    BY <1>1, <1>2, AtPut DEF InPut
  <2>4. ino'[i].lock = IF i = a THEN x ELSE ino[i].lock
    BY DEF Locked
  <2>5. p # 0
    BY Bounds
  <2>6. LockMoves(p, l, c, i)
    <3>1. CASE pc[p] = "put" /\ c = "put_free" /\ x = p /\ ino[a].lock = 0
      <4>1. (Frees(l, c, i) <=> i = a) /\ ~Frees(l, pc[p], i)
        BY <1>4, <3>1 DEF Frees
      <4> QED  BY <1>1, <2>2, <2>3, <2>4, <2>5, <3>1, <4>1 DEF LockMoves, Has
    <3>2. CASE pc[p] = "put_free" /\ c = "put_last" /\ x = 0
      <4>1. (Frees(l, pc[p], i) <=> i = a) /\ ~Frees(l, c, i)
        BY <1>4, <3>2 DEF Frees
      <4> QED  BY <1>1, <2>2, <2>3, <2>4, <2>5, <3>2, <4>1 DEF LockMoves, Has
    <3> QED  BY <3>1, <3>2
  <2> QED  BY <2>1, <2>6
<1>8. SameFiles
  BY FilesKept
<1>9. Tab(ino')
  BY DEF Locked
<1> QED  BY <1>5, <1>6, <1>7, <1>8, <1>9, TurnLocal

LEMMA IputStartKeeps ==
  ASSUME IInv, NEW p \in Procs, IputStart(p)
  PROVE  IInv' /\ (Normal => Normal')
<1>1. pc[p] = "put" /\ file' = file /\ ofile' = ofile /\ cwd' = cwd /\ Tab(ino)
  BY DEF IputStart, At, files, IInv, RefInv
<1>2. PICK a : a = Head(loc[p].puts)
  OBVIOUS
<1>3. \/ ino[a].lock = 0 /\ ino' = [ino EXCEPT ![a].lock = p] /\ pc' = [pc EXCEPT ![p] = "put_free"] /\ loc' = loc
      \/ ino' = ino /\ pc' = pc /\ loc' = loc
      \/ /\ ino' = [ino EXCEPT ![a].ref = @ - 1] /\ loc' = [loc EXCEPT ![p] = [loc[p] EXCEPT !.puts = Tail(@)]]
         /\ pc' = [pc EXCEPT ![p] = IF Len(loc[p].puts) = 1 THEN loc[p].then ELSE "put"]
  BY <1>2 DEF IputStart, Keep, Goto
<1>4. ASSUME ino[a].lock = 0 /\ ino' = [ino EXCEPT ![a].lock = p] /\ pc' = [pc EXCEPT ![p] = "put_free"] /\ loc' = loc
      PROVE  IInv' /\ (Normal => Normal')
  <2>1. Locked(ino', ino, a, p)
    BY <1>1, <1>4, LockFacts
  <2> QED  BY <1>1, <1>2, <1>4, <2>1, PutLockKeeps
<1>5. ASSUME ino' = ino /\ pc' = pc /\ loc' = loc
      PROVE  IInv' /\ (Normal => Normal')
  BY <1>1, <1>5, Still
<1>6. ASSUME /\ ino' = [ino EXCEPT ![a].ref = @ - 1] /\ loc' = [loc EXCEPT ![p] = [loc[p] EXCEPT !.puts = Tail(@)]]
             /\ pc' = [pc EXCEPT ![p] = IF Len(loc[p].puts) = 1 THEN loc[p].then ELSE "put"]
      PROVE  IInv' /\ (Normal => Normal')
  BY <1>1, <1>2, <1>6, PutKeeps
<1> QED  BY <1>3, <1>4, <1>5, <1>6

LEMMA IputTruncKeeps ==
  ASSUME IInv, NEW p \in Procs, IputTrunc(p)
  PROVE  IInv' /\ (Normal => Normal')
<1>1. PICK a : a = Head(loc[p].puts)
  OBVIOUS
<1>2. /\ pc[p] = "put_free" /\ pc' = [pc EXCEPT ![p] = "put_last"] /\ loc' = loc /\ file' = file /\ ofile' = ofile /\ cwd' = cwd
      /\ ino' = IputFree(ino, a) /\ Tab(ino)
  BY <1>1 DEF IputTrunc, At, Goto, files, IInv, RefInv
<1>3. Locked(ino', ino, a, 0)
  BY <1>2, IputFreeFacts
<1> QED  BY <1>1, <1>2, <1>3, PutLockKeeps

-----------------------------------------------------------------------------
(* Open files                                                              *)

\* Min of FiniteSetsExt, on a set of numbers.
LEMMA Least ==
  ASSUME NEW S, S \subseteq Nat, S # {}
  PROVE  Min(S) \in S /\ \A y \in S : Min(S) <= y
<1> DEFINE Less == {x \in Nat \X Nat : x[1] < x[2]}
<1>1. IsWellFoundedOn(Less, Nat)
  BY NatLessThanWellFounded DEF OpToRel
<1>2. PICK x \in S : \A y \in S : ~(<<y, x>> \in Less)
  <2> HIDE DEF Less
  <2> QED  BY <1>1, WFMin, Zenon
<1>3. ASSUME NEW y \in S PROVE x <= y
  <2>1. x \in Nat /\ y \in Nat
    OBVIOUS
  <2>2. y < x => <<y, x>> \in Less
    BY <2>1
  <2> QED  BY <1>2, <2>1, <2>2
<1>4. \E y \in S : \A z \in S : y <= z
  BY <1>3
<1> QED  BY <1>4 DEF Min

DescsOf(o, g) == {x \in Procs \X Fds : o[x[1]][x[2]] = g}

LEMMA DescsFinite ==
  ASSUME NEW o, NEW g
  PROVE  IsFiniteSet(DescsOf(o, g))
<1>1. IsFiniteSet(Procs \X Fds)
  BY Bounds, FS_Product
<1> QED  BY <1>1, FS_Subset DEF DescsOf

LEMMA DescsNow ==
  ASSUME NEW g
  PROVE  Descs(g) = DescsOf(ofile, g) /\ Descs(g)' = DescsOf(ofile', g)
  BY DEF Descs, DescsOf

\* Descriptor fd of p is set from u to v.
Changes(o, n, p, fd, u, v) ==
  /\ o[p][fd] = u /\ n[p][fd] = v
  /\ \A q \in Procs, d \in Fds : q # p \/ d # fd => n[q][d] = o[q][d]
DescMoved(o, n, u, v, g) ==
  /\ Cardinality(DescsOf(o, g)) \in Nat /\ Cardinality(DescsOf(n, g)) \in Nat
  /\ Cardinality(DescsOf(n, g)) + Bit(u = g) = Cardinality(DescsOf(o, g)) + Bit(v = g)

LEMMA DescMove ==
  ASSUME NEW o, NEW n, NEW p \in Procs, NEW fd \in Fds, NEW u, NEW v, Changes(o, n, p, fd, u, v), NEW g
  PROVE  DescMoved(o, n, u, v, g)
<1>1. PICK S, T, x : S = DescsOf(o, g) /\ T = DescsOf(n, g) /\ x = <<p, fd>>
  OBVIOUS
<1>2. IsFiniteSet(S)
  BY <1>1, DescsFinite
<1>3. S \ {x} = T \ {x}
  <2>1. S \subseteq Procs \X Fds /\ T \subseteq Procs \X Fds
    BY <1>1 DEF DescsOf
  <2>2. ASSUME NEW y \in Procs \X Fds, y # x PROVE y \in S <=> y \in T
    <3>1. PICK q \in Procs, d \in Fds : y = <<q, d>>
      OBVIOUS
    <3>2. q # p \/ d # fd
      BY <1>1, <2>2, <3>1
    <3>3. n[q][d] = o[q][d]
      BY <3>2 DEF Changes
    <3> QED  BY <1>1, <3>1, <3>3 DEF DescsOf
  <2> QED  BY <2>1, <2>2
<1>4. By1(S, T, x)
  BY <1>2, <1>3, MoveOne
<1>5. (x \in S) = (u = g) /\ (x \in T) = (v = g)
  BY <1>1 DEF DescsOf, Changes
<1> QED  BY <1>1, <1>4, <1>5 DEF By1, DescMoved

\* A file with one reference has one descriptor.
LEMMA Sole ==
  ASSUME IInv, NEW g \in Files, file[g].ref = 1, NEW p \in Procs, NEW fd \in Fds, NEW q \in Procs, NEW e \in Fds,
         ofile[p][fd] = g, ofile[q][e] = g
  PROVE  p = q
<1>1. Cardinality(Descs(g)) = 1 /\ IsFiniteSet(Descs(g))
  BY DescsFinite, DescsNow DEF IInv, FileInv
<1>2. PICK x : Descs(g) = {x}
  BY <1>1, FS_Singleton
<1>3. <<p, fd>> \in Descs(g) /\ <<q, e>> \in Descs(g)
  BY DEF Descs
<1> QED  BY <1>2, <1>3

LEMMA FileRefs ==
  ASSUME IInv, NEW g \in Files
  PROVE  /\ file[g].ref \in Nat /\ DOMAIN file = Files /\ DOMAIN file[g] = FileFields /\ (file[g].ref = 0 => file[g].ip = 0)
         /\ \A p \in Procs, fd \in Fds : ofile[p][fd] = g => file[g].ref >= 1
<1>1. /\ DOMAIN file = Files /\ DOMAIN file[g] = FileFields /\ (file[g].ref = 0 => file[g].ip = 0)
      /\ file[g].ref = Cardinality(Descs(g))
  BY DEF IInv, FileInv
<1>2. IsFiniteSet(Descs(g))
  BY DescsFinite, DescsNow
<1>3. file[g].ref \in Nat
  BY <1>1, <1>2, FS_CardinalityType
<1>4. ASSUME NEW p \in Procs, NEW fd \in Fds, ofile[p][fd] = g PROVE file[g].ref >= 1
  <2>1. <<p, fd>> \in Descs(g)
    BY <1>4 DEF Descs
  <2>2. file[g].ref # 0
    BY <1>1, <1>2, <2>1, FS_EmptySet
  <2> QED  BY <1>3, <2>2
<1> QED  BY <1>1, <1>3, <1>4

\* A process that fills in a new file structure is the only one that has it.
LEMMA NotOpening ==
  ASSUME IInv, NEW p \in Procs, NEW q \in Procs, q # p, pc[q] = "open_done", NEW fd \in Fds
  PROVE  ofile[p][fd] # loc[q].f /\ loc[q].f \in Files /\ file[loc[q].f].ref = 1 /\ file[loc[q].f].ip = 0
<1>1. PICK g : g = loc[q].f
  OBVIOUS
<1>2. g \in Files /\ file[g].ref = 1 /\ file[g].ip = 0 /\ \E e \in Fds : ofile[q][e] = g
  BY <1>1 DEF IInv, FileInv
<1>3. PICK e \in Fds : ofile[q][e] = g
  BY <1>2
<1>4. ofile[p][fd] # g
  BY <1>2, <1>3, Sole
<1> QED  BY <1>1, <1>2, <1>4

\* Descriptor fd of p goes from u to v, and the file structures follow.
Follows(p, l, c, u, v) ==
  /\ DOMAIN file' = Files
  /\ \A h \in Files : /\ DOMAIN file'[h] = FileFields /\ file'[h].ref \in Int
                      /\ file'[h].ref + Bit(u = h) = file[h].ref + Bit(v = h)
                      /\ file'[h].ref = 0 => file'[h].ip = 0
  /\ \A q \in Procs \ {p} : pc[q] = "open_done" => file'[loc[q].f].ref = 1 /\ file'[loc[q].f].ip = 0
  /\ c = "open_done" => l.f \in Files /\ file'[l.f].ref = 1 /\ file'[l.f].ip = 0 /\ v = l.f

LEMMA FileMoves ==
  ASSUME IInv, NEW p \in Procs, NEW l, NEW c, NEW d, Moves(p, l, c, d), NEW fd \in Fds, NEW u, NEW v \in 0..NFILE,
         u = ofile[p][fd], ofile' = [ofile EXCEPT ![p][fd] = v], Follows(p, l, c, u, v)
  PROVE  FileInv' /\ \A q \in Procs \ {p} : ofile'[q] = ofile[q]
<1>1. DOMAIN ofile = Procs /\ \A q \in Procs : ofile[q] \in [Fds -> 0..NFILE]
  BY DEF IInv, FileInv
<1>2. /\ DOMAIN ofile' = Procs /\ ofile'[p][fd] = v /\ \A q \in Procs \ {p} : ofile'[q] = ofile[q]
      /\ \A q \in Procs : ofile'[q] \in [Fds -> 0..NFILE]
      /\ \A q \in Procs, e \in Fds : q # p \/ e # fd => ofile'[q][e] = ofile[q][e]
  BY <1>1
<1>3. ASSUME NEW h \in Files PROVE file'[h].ref = Cardinality(Descs(h)')
  <2>1. PICK o, n : o = ofile /\ n = ofile'
    OBVIOUS
  <2>2. DescMoved(o, n, u, v, h)
    <3>1. Changes(o, n, p, fd, u, v)
      BY <1>2, <2>1 DEF Changes
    <3> QED  BY <3>1, DescMove
  <2>3. file[h].ref = Cardinality(DescsOf(o, h)) /\ Descs(h)' = DescsOf(n, h)
    <3>1. file[h].ref = Cardinality(Descs(h))
      BY DEF IInv, FileInv
    <3>2. Descs(h) = DescsOf(ofile, h) /\ Descs(h)' = DescsOf(ofile', h)
      BY DescsNow
    <3> QED  BY <2>1, <3>1, <3>2
  <2>4. Bit(u = h) \in Nat /\ Bit(v = h) \in Nat
    BY BitNat
  <2>5. file'[h].ref \in Int /\ file'[h].ref + Bit(u = h) = file[h].ref + Bit(v = h)
    BY DEF Follows
  <2> QED  BY <2>2, <2>3, <2>4, <2>5 DEF DescMoved
<1>4. pc'[p] = c /\ loc'[p] = l /\ \A q \in Procs \ {p} : loc'[q] = loc[q] /\ pc'[q] = pc[q]
  BY DEF Moves, Sets
<1>5. ASSUME NEW q \in Procs, pc'[q] = "open_done"
      PROVE  /\ loc'[q].f \in Files /\ file'[loc'[q].f].ref = 1 /\ file'[loc'[q].f].ip = 0
             /\ \E e \in Fds : ofile'[q][e] = loc'[q].f
  <2>1. CASE q = p
    BY <1>2, <1>4, <1>5, <2>1 DEF Follows
  <2>2. CASE q # p
    <3>1. pc[q] = "open_done" /\ loc'[q] = loc[q]
      BY <1>4, <1>5, <2>2
    <3>2. loc[q].f \in Files /\ \E e \in Fds : ofile[q][e] = loc[q].f
      BY <3>1 DEF IInv, FileInv
    <3> QED  BY <1>2, <2>2, <3>1, <3>2 DEF Follows
  <2> QED  BY <2>1, <2>2
<1>6. DOMAIN file' = Files /\ \A h \in Files : DOMAIN file'[h] = FileFields /\ (file'[h].ref = 0 => file'[h].ip = 0)
  BY DEF Follows
<1> QED  BY <1>2, <1>3, <1>5, <1>6 DEF FileInv

\* filealloc() and fdalloc().
LEMMA OpenAllocKeeps ==
  ASSUME IInv, NEW p \in Procs, OpenAlloc(p)
  PROVE  IInv' /\ (Normal => Normal')
<1>1. PICK l : l = loc[p]
  OBVIOUS
<1>2. pc[p] = "open_alloc" /\ cwd' = cwd
  BY <1>1 DEF OpenAlloc, At, files, world
<1>3. /\ DOMAIN l = LocFields /\ l.puts = <<>> /\ Put(l, 1) = 0 /\ Put(l, 2) = 0 /\ Eff(pc[p], l) = "open_alloc"
      /\ l.cur = 0 /\ l.dp = 0 /\ cwd[p] # 0 /\ Shape(l, "open_alloc")
      /\ Tab(ino) /\ DOMAIN loc = Procs /\ DOMAIN pc = Procs /\ DOMAIN cwd = Procs
      /\ \A i \in Inums : (Has(l, pc[p], i) <=> l.ip = i)
  BY <1>1, <1>2, AtLabel DEF CwdOK, NoCwd, Putting, Has, Holds, LocksIp, LocksDp, Shape, HasDp, NoIp
<1>4. PICK f, fd : f = Min(FreeFiles) /\ fd = Min(FreeFds(p))
  OBVIOUS
<1>5. \/ /\ FreeFiles # {} /\ FreeFds(p) # {} /\ ino' = ino
         /\ file' = [file EXCEPT ![f].ref = 1] /\ ofile' = [ofile EXCEPT ![p][fd] = f]
         /\ pc' = [pc EXCEPT ![p] = "open_done"] /\ loc' = [loc EXCEPT ![p] = [l EXCEPT !.f = f]]
      \/ ino' = Iunlock(ino, l.ip) /\ file' = file /\ ofile' = ofile /\ pc' = [pc EXCEPT ![p] = "put"] /\ loc' = [loc EXCEPT ![p] = PutThen([l EXCEPT !.ip = 0], l.ip, "end")]
  BY <1>1, <1>4 DEF OpenAlloc, Keep, Goto, files
<1>6. ASSUME /\ FreeFiles # {} /\ FreeFds(p) # {} /\ ino' = ino
             /\ file' = [file EXCEPT ![f].ref = 1] /\ ofile' = [ofile EXCEPT ![p][fd] = f]
             /\ pc' = [pc EXCEPT ![p] = "open_done"] /\ loc' = [loc EXCEPT ![p] = [l EXCEPT !.f = f]]
      PROVE  IInv' /\ (Normal => Normal')
  <2>1. f \in Files /\ file[f].ref = 0 /\ fd \in Fds /\ ofile[p][fd] = 0
    <3>1. FreeFiles \subseteq Nat /\ FreeFds(p) \subseteq Nat
      BY Bounds DEF FreeFiles, FreeFds
    <3>2. f \in FreeFiles /\ fd \in FreeFds(p)
      BY <1>4, <1>6, <3>1, Least
    <3> QED  BY <3>2 DEF FreeFiles, FreeFds
  <2>2. PICK k : k = [l EXCEPT !.f = f]
    OBVIOUS
  <2>3. Moves(p, k, "open_done", cwd[p])
    BY <1>1, <1>2, <1>3, <1>6, <2>2, SetsOne, SetsNone DEF Moves
  <2>4. /\ DOMAIN k = LocFields /\ k.cur = 0 /\ k.ip = l.ip /\ k.dp = 0 /\ k.puts = <<>> /\ k.f = f
        /\ Put(k, 1) = 0 /\ Put(k, 2) = 0 /\ Eff("open_done", k) = "open_done"
    BY <1>3, <2>2 DEF LocFields, Put, Eff, Putting
  <2>5. LocOK(k, "open_done") /\ CwdOK(k, "open_done", cwd[p]) /\ ModeOK(p, k, "open_done")
    BY <1>1, <1>2, <1>3, <2>4 DEF LocOK, PutsShape, Shape, Putting, HasDp, NoIp, CwdOK, ModeOK, Boot, NoCwd
  <2>6. \A h \in Files : /\ DOMAIN file'[h] = FileFields /\ file'[h].ref \in Int
                         /\ file'[h].ref + Bit(0 = h) = file[h].ref + Bit(f = h)
                         /\ file'[h].ref = 0 => file'[h].ip = 0
    <3>1. SUFFICES ASSUME NEW h \in Files
                   PROVE  /\ DOMAIN file'[h] = FileFields /\ file'[h].ref \in Int
                          /\ file'[h].ref + Bit(0 = h) = file[h].ref + Bit(f = h)
                          /\ file'[h].ref = 0 => file'[h].ip = 0
      OBVIOUS
    <3>2. file[h].ref \in Nat /\ DOMAIN file = Files /\ DOMAIN file[h] = FileFields /\ (file[h].ref = 0 => file[h].ip = 0) /\ h # 0
      BY FileRefs, Bounds
    <3>3. file'[h] = IF h = f THEN [file[h] EXCEPT !.ref = 1] ELSE file[h]
      BY <1>6, <2>1, <3>2
    <3> QED  BY <2>1, <3>2, <3>3 DEF Bit, FileFields
  <2>7. /\ DOMAIN file' = Files /\ file'[f].ref = 1 /\ file'[f].ip = 0 /\ file[f].ip = 0
        /\ \A h \in Files \ {f} : file'[h] = file[h]
    <3>1. DOMAIN file = Files /\ DOMAIN file[f] = FileFields /\ file[f].ip = 0
      BY <2>1, FileRefs
    <3> QED  BY <1>6, <2>1, <3>1 DEF FileFields
  <2>8. ASSUME NEW q \in Procs \ {p}, pc[q] = "open_done" PROVE file'[loc[q].f].ref = 1 /\ file'[loc[q].f].ip = 0
    BY <2>1, <2>7, <2>8, NotOpening
  <2>9. f \in 0..NFILE
    BY <2>1, Bounds
  <2>10. FileInv' /\ \A q \in Procs \ {p} : ofile'[q] = ofile[q]
    <3>1. ofile' = [ofile EXCEPT ![p][fd] = f]
      BY <1>6
    <3>2. Follows(p, k, "open_done", 0, f)
      BY <2>1, <2>4, <2>6, <2>7, <2>8 DEF Follows
    <3> QED  BY <2>1, <2>3, <2>9, <3>1, <3>2, FileMoves
  <2>11. FdsOK(p, cwd[p])
    BY <1>3, <2>10 DEF FdsOK
  <2>12. ASSUME NEW i \in Inums PROVE RefMoves(p, k, cwd[p], f, i) /\ LockMoves(p, k, "open_done", i)
    <3>1. i # 0 /\ ino[i].ref \in Int /\ p # 0
      BY <1>3, Bounds DEF Tab
    <3>2. Opens(file[f], i) = 0 /\ Opens(file'[f], i) = 0
      BY <2>7, <3>1 DEF Opens, Bit
    <3>3. Mine(k, cwd[p], i) = Mine(l, cwd[p], i)
      BY <1>3, <2>4 DEF Mine
    <3>4. RefMoves(p, k, cwd[p], f, i)
      BY <1>1, <1>6, <2>7, <3>2, <3>3 DEF RefMoves
    <3>5. ino[i].lock = p <=> l.ip = i
      BY <1>1, <1>3 DEF IInv, LockInv, Has
    <3>6. LockMoves(p, k, "open_done", i)
      BY <1>1, <1>2, <1>3, <1>6, <2>4, <3>1, <3>5 DEF LockMoves, Has, Holds, Frees, LocksIp, LocksDp
    <3> QED  BY <3>4, <3>6
  <2>13. Tab(ino')
    BY <1>3, <1>6
  <2> QED  BY <2>1, <2>3, <2>5, <2>10, <2>11, <2>12, <2>13, Turn
<1>7. ASSUME ino' = Iunlock(ino, l.ip) /\ file' = file /\ ofile' = ofile /\ pc' = [pc EXCEPT ![p] = "put"] /\ loc' = [loc EXCEPT ![p] = PutThen([l EXCEPT !.ip = 0], l.ip, "end")]
      PROVE  IInv' /\ (Normal => Normal')
  <2>1. PICK k : k = PutThen([l EXCEPT !.ip = 0], l.ip, "end")
    OBVIOUS
  <2>2. Moves(p, k, "put", cwd[p])
    BY <1>1, <1>2, <1>3, <1>7, <2>1, SetsOne, SetsNone DEF Moves
  <2>3. /\ DOMAIN k = LocFields /\ k.cur = 0 /\ k.ip = 0 /\ k.dp = 0 /\ k.puts = <<l.ip>> /\ k.then = "end"
        /\ Put(k, 1) = l.ip /\ Put(k, 2) = 0 /\ Eff("put", k) = "end"
    BY <1>3, <1>7, <2>1 DEF PutThen, LocFields, Put, Eff, Putting, NoLoc, Namex, LinkPuts
  <2>4. Good(p, k, "put", cwd[p])
    BY <1>1, <1>2, <1>3, <1>7, <2>3 DEF Good, LocOK, PutsShape, Thens, Shape, Putting, HasDp, NoIp, CwdOK, ModeOK, Boot, NoCwd
  <2>5. Locked(ino', ino, l.ip, 0)
    BY <1>3, <1>7, IunlockFacts DEF Locked, Got, Dropped
  <2>6. Tab(ino')
    BY <1>2, <1>3, <1>7, <2>5 DEF Locked, Got, Dropped
  <2>7. ASSUME NEW i \in Inums PROVE LocalRefs(p, k, cwd[p], i) /\ LockMoves(p, k, "put", i)
    <3>1. i # 0 /\ ino[i].ref \in Int /\ p # 0
      BY <1>3, Bounds DEF Tab
    <3>2. LocalRefs(p, k, cwd[p], i)
      BY <1>1, <1>2, <1>3, <1>7, <2>3, <2>5, <3>1 DEF LocalRefs, Mine, Bit, Locked, Got, Dropped
    <3>3. LockMoves(p, k, "put", i)
      BY <1>1, <1>2, <1>3, <1>7, <2>3, <2>5, <3>1 DEF LockMoves, Has, Holds, Frees, LocksIp, LocksDp, Locked, Got, Dropped
    <3> QED  BY <3>2, <3>3
  <2>8. SameFiles
    BY <1>7, FilesKept
  <2> QED  BY <2>2, <2>4, <2>6, <2>7, <2>8, TurnLocal
<1> QED  BY <1>5, <1>6, <1>7

\* open() fills in the file structure.
LEMMA OpenDoneKeeps ==
  ASSUME IInv, NEW p \in Procs, OpenDone(p)
  PROVE  IInv' /\ (Normal => Normal')
<1>1. PICK l : l = loc[p]
  OBVIOUS
<1>2. pc[p] = "open_done" /\ cwd' = cwd /\ ofile' = ofile
  BY <1>1 DEF OpenDone, At, files, world
<1>3. /\ DOMAIN l = LocFields /\ l.puts = <<>> /\ Put(l, 1) = 0 /\ Put(l, 2) = 0 /\ Eff(pc[p], l) = "open_done"
      /\ l.cur = 0 /\ l.dp = 0 /\ cwd[p] # 0 /\ Shape(l, "open_done")
      /\ Tab(ino) /\ DOMAIN loc = Procs /\ DOMAIN pc = Procs /\ DOMAIN cwd = Procs
      /\ \A i \in Inums : (Has(l, pc[p], i) <=> l.ip = i)
  BY <1>1, <1>2, AtLabel DEF CwdOK, NoCwd, Putting, Has, Holds, LocksIp, LocksDp, Shape, HasDp, NoIp
<1>4. PICK m, r :
      /\ r = [ref |-> 1, ip |-> l.ip, off |-> 0, mode |-> Call(p).mode] /\ file' = [file EXCEPT ![l.f] = r]
      /\ ino' = Hold(ino, 0, l.ip, m) /\ pc' = [pc EXCEPT ![p] = "end"] /\ loc' = [loc EXCEPT ![p] = [l EXCEPT !.ip = 0, !.res = Ok]]
  BY <1>1 DEF OpenDone, Keep, Goto
<1>5. PICK k, f : k = [l EXCEPT !.ip = 0, !.res = Ok] /\ f = l.f
  OBVIOUS
<1>6. f \in Files /\ file[f].ref = 1 /\ file[f].ip = 0 /\ \E fd \in Fds : ofile[p][fd] = f
  BY <1>1, <1>2, <1>5 DEF IInv, FileInv
<1>7. Moves(p, k, "end", cwd[p])
  BY <1>1, <1>2, <1>3, <1>4, <1>5, SetsOne, SetsNone DEF Moves
<1>8. /\ DOMAIN k = LocFields /\ k.cur = 0 /\ k.ip = 0 /\ k.dp = 0 /\ k.puts = <<>>
      /\ Put(k, 1) = 0 /\ Put(k, 2) = 0 /\ Eff("end", k) = "end"
  BY <1>3, <1>5 DEF LocFields, Put, Eff, Putting
<1>9. LocOK(k, "end") /\ CwdOK(k, "end", cwd[p]) /\ ModeOK(p, k, "end")
  BY <1>1, <1>2, <1>3, <1>8 DEF LocOK, PutsShape, Shape, Putting, HasDp, NoIp, CwdOK, ModeOK, Boot, NoCwd
<1>10. /\ DOMAIN file' = Files /\ file'[f] = r /\ \A h \in Files \ {f} : file'[h] = file[h]
  BY <1>4, <1>5, <1>6, FileRefs
<1>11. DOMAIN r = FileFields /\ r.ref = 1 /\ r.ip = l.ip
  BY <1>4 DEF FileFields
<1>12. FileInv'
  <2>1. DOMAIN ofile' = Procs /\ \A q \in Procs : ofile'[q] \in [Fds -> 0..NFILE]
    BY <1>2 DEF IInv, FileInv
  <2>2. ASSUME NEW h \in Files
        PROVE  DOMAIN file'[h] = FileFields /\ file'[h].ref = file[h].ref /\ (file'[h].ref = 0 => file'[h].ip = 0)
    <3>1. DOMAIN file[h] = FileFields /\ (file[h].ref = 0 => file[h].ip = 0)
      BY FileRefs
    <3> QED  BY <1>6, <1>10, <1>11, <3>1
  <2>3. \A h \in Files : file'[h].ref = Cardinality(Descs(h)')
    <3>1. \A h : Descs(h)' = Descs(h)
      BY <1>2 DEF Descs
    <3> QED  BY <2>2, <3>1 DEF IInv, FileInv
  <2>4. ASSUME NEW q \in Procs, pc'[q] = "open_done"
        PROVE  /\ loc'[q].f \in Files /\ file'[loc'[q].f].ref = 1 /\ file'[loc'[q].f].ip = 0
               /\ \E e \in Fds : ofile'[q][e] = loc'[q].f
    <3>1. q # p /\ pc[q] = "open_done" /\ loc'[q] = loc[q]
      BY <1>7, <2>4 DEF Moves, Sets
    <3>2. loc[q].f # f /\ loc[q].f \in Files /\ file[loc[q].f].ref = 1 /\ file[loc[q].f].ip = 0
      BY <1>6, <3>1, NotOpening
    <3>3. \E e \in Fds : ofile[q][e] = loc[q].f
      BY <3>1 DEF IInv, FileInv
    <3> QED  BY <1>2, <1>10, <3>1, <3>2, <3>3
  <2> QED  BY <1>10, <2>1, <2>2, <2>3, <2>4 DEF FileInv
<1>13. FdsOK(p, cwd[p])
  BY <1>2, <1>3 DEF FdsOK
<1>14. Locked(ino', ino, l.ip, 0)
  BY <1>3, <1>4, HoldFacts
<1>15. ASSUME NEW i \in Inums PROVE RefMoves(p, k, cwd[p], f, i) /\ LockMoves(p, k, "end", i)
  <2>1. i # 0 /\ ino[i].ref \in Int /\ p # 0
    BY <1>3, Bounds DEF Tab
  <2>2. Opens(file[f], i) = 0 /\ Opens(file'[f], i) = Bit(l.ip = i)
    BY <1>6, <1>10, <1>11, <2>1 DEF Opens, Bit
  <2>3. Mine(l, cwd[p], i) = Bit(l.ip = i) + Bit(cwd[p] = i) /\ Mine(k, cwd[p], i) = Bit(cwd[p] = i)
    BY <1>3, <1>8, <2>1 DEF Mine, Bit
  <2>4. ino'[i].ref = ino[i].ref
    BY <1>14 DEF Locked
  <2>5. RefMoves(p, k, cwd[p], f, i)
    <3>1. \A g \in Files \ {f} : Opens(file'[g], i) = Opens(file[g], i)
      BY <1>10
    <3> QED  BY <1>1, <2>1, <2>2, <2>3, <2>4, <3>1, BitNat DEF RefMoves
  <2>6. LockMoves(p, k, "end", i)
    BY <1>1, <1>2, <1>3, <1>8, <1>14, <2>1 DEF LockMoves, Has, Holds, Frees, LocksIp, LocksDp, Locked
  <2> QED  BY <2>5, <2>6
<1>16. Tab(ino')
  BY <1>14 DEF Locked
<1> QED  BY <1>6, <1>7, <1>9, <1>12, <1>13, <1>15, <1>16, Turn
\* What is known of a process that is not in a system call.
InUser(p, l) ==
  /\ DOMAIN l = LocFields /\ l.puts = <<>> /\ Put(l, 1) = 0 /\ Put(l, 2) = 0 /\ Eff(pc[p], l) = "user"
  /\ l.cur = 0 /\ l.ip = 0 /\ l.dp = 0 /\ cwd[p] # 0
  /\ Tab(ino) /\ DOMAIN loc = Procs /\ DOMAIN pc = Procs /\ DOMAIN cwd = Procs
  /\ \A i \in Inums : ~Has(l, pc[p], i)

LEMMA AtUser ==
  ASSUME IInv, NEW p \in Procs, NEW l, l = loc[p], pc[p] = "user"
  PROVE  InUser(p, l)
  BY AtLabel DEF InUser, CwdOK, NoCwd, Putting, Has, Holds, LocksIp, LocksDp, Shape, HasDp, NoIp

\* The file structures when descriptor fd of p, for file f, is closed.
Closes(p, l, c, f) ==
  /\ Follows(p, l, c, f, 0)
  /\ \A h \in Files \ {f} : file'[h] = file[h]
  /\ file[f].ref \in Nat /\ file[f].ref >= 1
  /\ file[f].ref = 1 => file'[f].ref = 0
  /\ file[f].ref # 1 => file'[f].ref = file[f].ref - 1 /\ file'[f].ip = file[f].ip

LEMMA CloseFollows ==
  ASSUME IInv, NEW p \in Procs, NEW l, NEW c, c # "open_done", NEW fd \in Fds, NEW f \in Files, f = ofile[p][fd],
         file' = [file EXCEPT ![f] = IF file[f].ref = 1 THEN NoFile ELSE [file[f] EXCEPT !.ref = @ - 1]]
  PROVE  Closes(p, l, c, f)
<1>1. file[f].ref \in Nat /\ DOMAIN file = Files /\ DOMAIN file[f] = FileFields /\ file[f].ref >= 1
  BY FileRefs
<1>2. /\ DOMAIN file' = Files /\ \A h \in Files \ {f} : file'[h] = file[h]
      /\ file'[f] = IF file[f].ref = 1 THEN NoFile ELSE [file[f] EXCEPT !.ref = @ - 1]
  <2>1. PICK r : r = IF file[f].ref = 1 THEN NoFile ELSE [file[f] EXCEPT !.ref = @ - 1]
    OBVIOUS
  <2>2. file' = [file EXCEPT ![f] = r]
    BY <2>1
  <2> QED  BY <1>1, <2>1, <2>2
<1>3. DOMAIN NoFile = FileFields /\ NoFile.ref = 0 /\ NoFile.ip = 0
  BY DEF NoFile, FileFields
<1>4. /\ file[f].ref = 1 => DOMAIN file'[f] = FileFields /\ file'[f].ref = 0 /\ file'[f].ip = 0
      /\ file[f].ref # 1 => DOMAIN file'[f] = FileFields /\ file'[f].ref = file[f].ref - 1 /\ file'[f].ip = file[f].ip
  BY <1>1, <1>2, <1>3 DEF FileFields
<1>5. ASSUME NEW h \in Files
      PROVE  /\ DOMAIN file'[h] = FileFields /\ file'[h].ref \in Int
             /\ file'[h].ref + Bit(f = h) = file[h].ref + Bit(0 = h)
             /\ file'[h].ref = 0 => file'[h].ip = 0
  <2>1. CASE h = f
    <3>1. h # 0
      BY Bounds
    <3> QED  BY <1>1, <1>4, <2>1, <3>1 DEF Bit
  <2>2. CASE h # f
    <3>1. file[h].ref \in Nat /\ DOMAIN file[h] = FileFields /\ (file[h].ref = 0 => file[h].ip = 0) /\ h # 0
      BY FileRefs, Bounds
    <3> QED  BY <1>2, <2>2, <3>1 DEF Bit
  <2> QED  BY <2>1, <2>2
<1>6. ASSUME NEW q \in Procs \ {p}, pc[q] = "open_done" PROVE file'[loc[q].f].ref = 1 /\ file'[loc[q].f].ip = 0
  BY <1>2, <1>6, NotOpening
<1> QED  BY <1>1, <1>2, <1>4, <1>5, <1>6 DEF Follows, Closes

\* fileclose().
LEMMA FileCloseKeeps ==
  ASSUME IInv, NEW p \in Procs, pc[p] = "user", NEW fd \in Fds, ofile[p][fd] # 0, FileClose(p, fd)
  PROVE  IInv' /\ (Normal => Normal')
<1>1. PICK l, f : l = loc[p] /\ f = ofile[p][fd]
  OBVIOUS
<1>2. InUser(p, l)
  BY <1>1, AtUser
<1>3. f \in Files
  <2>1. f \in 0..NFILE /\ f # 0 /\ NFILE \in Nat
    BY <1>1, FsAssumption DEF IInv, FileInv
  <2> QED  BY <2>1 DEF Files
<1>4. /\ ofile' = [ofile EXCEPT ![p][fd] = 0] /\ ino' = ino /\ cwd' = cwd
      /\ file' = [file EXCEPT ![f] = IF file[f].ref = 1 THEN NoFile ELSE [file[f] EXCEPT !.ref = @ - 1]]
  BY <1>1 DEF FileClose
<1>5. PICK k, c : /\ k = IF file[f].ref = 1 THEN [PutThen(NoLoc, file[f].ip, "end") EXCEPT !.res = Ok] ELSE l
                  /\ c = IF file[f].ref = 1 THEN "put" ELSE "user"
  OBVIOUS
<1>6. Moves(p, k, c, cwd[p])
  <2>1. CASE file[f].ref = 1
    <3>1. loc' = [loc EXCEPT ![p] = k] /\ pc' = [pc EXCEPT ![p] = c]
      BY <1>1, <1>5, <2>1 DEF FileClose, Keep, Goto
    <3> QED  BY <1>2, <1>4, <3>1, SetsOne, SetsNone DEF Moves, InUser
  <2>2. CASE file[f].ref # 1
    <3>1. loc' = loc /\ pc' = pc
      BY <1>1, <2>2 DEF FileClose, Return
    <3> QED  BY <1>1, <1>2, <1>4, <1>5, <2>2, <3>1, SetsNone DEF Moves, InUser
  <2> QED  BY <2>1, <2>2
<1>7. /\ DOMAIN k = LocFields /\ k.cur = 0 /\ k.ip = 0 /\ k.dp = 0
      /\ file[f].ref = 1 => k.puts = <<file[f].ip>> /\ Put(k, 1) = file[f].ip /\ Put(k, 2) = 0 /\ k.then = "end" /\ Eff(c, k) = "end"
      /\ file[f].ref # 1 => k.puts = <<>> /\ Put(k, 1) = 0 /\ Put(k, 2) = 0 /\ Eff(c, k) = "user"
  <2>1. CASE file[f].ref = 1
    BY <1>5, <2>1 DEF PutThen, NoLoc, LocFields, Put, Eff, Putting
  <2>2. CASE file[f].ref # 1
    BY <1>2, <1>5, <2>2 DEF Eff, Putting, InUser
  <2> QED  BY <2>1, <2>2
<1>8. LocOK(k, c) /\ CwdOK(k, c, cwd[p]) /\ ModeOK(p, k, c) /\ c # "open_done"
  BY <1>1, <1>2, <1>5, <1>7
  DEF LocOK, PutsShape, Thens, Shape, Putting, HasDp, NoIp, CwdOK, ModeOK, Boot, NoCwd, InUser
<1>9. Closes(p, k, c, f)
  BY <1>1, <1>3, <1>4, <1>8, CloseFollows
<1>10. FileInv' /\ \A q \in Procs \ {p} : ofile'[q] = ofile[q]
  <2>1. 0 \in 0..NFILE /\ f = ofile[p][fd] /\ ofile' = [ofile EXCEPT ![p][fd] = 0] /\ Follows(p, k, c, f, 0)
    BY <1>1, <1>4, <1>9, Bounds DEF Closes
  <2> QED  BY <1>6, <2>1, FileMoves
<1>11. FdsOK(p, cwd[p])
  BY <1>2, <1>10 DEF FdsOK, InUser
<1>12. ASSUME NEW i \in Inums PROVE RefMoves(p, k, cwd[p], f, i) /\ LockMoves(p, k, c, i)
  <2>1. i # 0 /\ ino[i].ref \in Int /\ p # 0
    BY <1>2, Bounds DEF Tab, InUser
  <2>2. Mine(l, cwd[p], i) = Bit(cwd[p] = i)
    BY <1>2, <2>1 DEF Mine, Bit, InUser
  <2>3. file[f].ref = 1 => /\ Mine(k, cwd[p], i) = Bit(file[f].ip = i) + Bit(cwd[p] = i)
                           /\ Opens(file[f], i) = Bit(file[f].ip = i) /\ Opens(file'[f], i) = 0
    BY <1>7, <1>9, <2>1 DEF Mine, Bit, Opens, Closes
  <2>4. file[f].ref # 1 => Mine(k, cwd[p], i) = Bit(cwd[p] = i) /\ Opens(file'[f], i) = Opens(file[f], i)
    BY <1>7, <1>9, <2>1 DEF Mine, Bit, Opens, Closes
  <2>5. RefMoves(p, k, cwd[p], f, i)
    <3>1. \A g \in Files \ {f} : Opens(file'[g], i) = Opens(file[g], i)
      BY <1>9 DEF Closes
    <3>2. Bit(cwd[p] = i) \in Nat /\ Bit(file[f].ip = i) \in Nat /\ ino'[i].ref = ino[i].ref
      BY <1>4, BitNat
    <3> QED  BY <1>1, <2>1, <2>2, <2>3, <2>4, <3>1, <3>2 DEF RefMoves
  <2>6. ~Has(k, c, i)
    BY <1>5, <1>7 DEF Has, Holds, Frees, LocksIp, LocksDp
  <2>7. LockMoves(p, k, c, i)
    BY <1>1, <1>2, <1>4, <2>6 DEF LockMoves, InUser, Has
  <2> QED  BY <2>5, <2>7
<1>13. Tab(ino')
  BY <1>2, <1>4 DEF InUser
<1> QED  BY <1>3, <1>6, <1>8, <1>10, <1>11, <1>12, <1>13, Turn

LEMMA CloseKeeps ==
  ASSUME IInv, NEW p \in Procs, Close(p)
  PROVE  IInv' /\ (Normal => Normal')
<1>1. pc[p] = "user" /\ File(p) # 0 /\ FileClose(p, Call(p).fd)
  BY DEF Close, Calls, At
<1>2. Call(p).fd \in Fds /\ ofile[p][Call(p).fd] # 0
  BY <1>1 DEF File
<1> QED  BY <1>1, <1>2, FileCloseKeeps

\* kexit().
LEMMA ExitKeeps ==
  ASSUME IInv, NEW p \in Procs, Exit(p)
  PROVE  IInv' /\ (Normal => Normal')
<1>1. PICK S, l : S = {fd \in Fds : ofile[p][fd] # 0} /\ l = loc[p]
  OBVIOUS
<1>2. pc[p] = "user" /\ ((S # {} /\ FileClose(p, Min(S))) \/ S = {})
  BY <1>1 DEF Exit, At
<1>3. CASE S # {} /\ FileClose(p, Min(S))
  <2>1. S \subseteq Nat
    BY <1>1, Bounds
  <2>2. Min(S) \in S
    BY <1>3, <2>1, Least
  <2>3. Min(S) \in Fds /\ ofile[p][Min(S)] # 0
    BY <1>1, <2>2
  <2> QED  BY <1>2, <1>3, <2>3, FileCloseKeeps
<1>4. CASE S = {}
  <2>1. PICK k : k = PutThen(NoLoc, cwd[p], "end")
    OBVIOUS
  <2>2. /\ loc' = [loc EXCEPT ![p] = k] /\ pc' = [pc EXCEPT ![p] = "put"] /\ cwd' = [cwd EXCEPT ![p] = 0]
        /\ ino' = ino /\ file' = file /\ ofile' = ofile
    BY <1>1, <1>4, <2>1 DEF Exit, Keep, Goto, files
  <2>3. InUser(p, l)
    BY <1>1, <1>2, AtUser
  <2>4. Moves(p, k, "put", 0)
    BY <2>2, <2>3, SetsOne DEF Moves, InUser
  <2>5. /\ DOMAIN k = LocFields /\ k.cur = 0 /\ k.ip = 0 /\ k.dp = 0 /\ k.puts = <<cwd[p]>> /\ k.then = "end"
        /\ Put(k, 1) = cwd[p] /\ Put(k, 2) = 0 /\ Eff("put", k) = "end"
    BY <2>1 DEF PutThen, NoLoc, LocFields, Put, Eff, Putting
  <2>6. LocOK(k, "put") /\ CwdOK(k, "put", 0) /\ ModeOK(p, k, "put")
    BY <1>1, <1>2, <2>3, <2>5
    DEF LocOK, PutsShape, Thens, Shape, Putting, HasDp, NoIp, CwdOK, ModeOK, Boot, NoCwd, InUser
  <2>7. SameFiles
    BY <2>2, FilesKept
  <2>8. FileInv'
    BY <2>4, <2>7, FilesSame
  <2>9. FdsOK(p, 0)
    BY <1>1, <1>4, <2>2 DEF FdsOK
  <2>10. ASSUME NEW i \in Inums PROVE RefMoves(p, k, 0, 1, i) /\ LockMoves(p, k, "put", i)
    <3>1. i # 0 /\ ino[i].ref \in Int /\ Opens(file[1], i) \in Nat
      BY <2>3, Bounds DEF Tab, InUser, Opens, Bit
    <3>2. Mine(l, cwd[p], i) = Mine(k, 0, i) /\ Mine(k, 0, i) \in Nat
      BY <2>3, <2>5, <3>1 DEF Mine, Bit, InUser
    <3>3. RefMoves(p, k, 0, 1, i)
      BY <1>1, <2>2, <3>1, <3>2 DEF RefMoves
    <3>4. ~Has(k, "put", i)
      BY <2>5 DEF Has, Holds, Frees, LocksIp, LocksDp
    <3>5. LockMoves(p, k, "put", i)
      BY <1>1, <2>2, <2>3, <3>4 DEF LockMoves, InUser, Has
    <3> QED  BY <3>3, <3>5
  <2>11. Tab(ino') /\ 1 \in Files
    BY <2>2, <2>3, Bounds DEF InUser
  <2> QED  BY <2>4, <2>6, <2>8, <2>9, <2>10, <2>11, Turn
<1> QED  BY <1>2, <1>3, <1>4

\* dup().
LEMMA DupKeeps ==
  ASSUME IInv, NEW p \in Procs, Dup(p)
  PROVE  IInv' /\ (Normal => Normal')
<1>1. PICK l, f, fd : l = loc[p] /\ f = File(p) /\ fd = Min(FreeFds(p))
  OBVIOUS
<1>2. pc[p] = "user" /\ f # 0 /\ pc' = pc /\ loc' = loc /\ ino' = ino /\ cwd' = cwd
  BY <1>1 DEF Dup, Calls, At, Return
<1>3. \/ file' = file /\ ofile' = ofile
      \/ FreeFds(p) # {} /\ ofile' = [ofile EXCEPT ![p][fd] = f] /\ file' = [file EXCEPT ![f].ref = @ + 1]
  BY <1>1 DEF Dup, files
<1>4. CASE file' = file /\ ofile' = ofile
  BY <1>2, <1>4, Still
<1>5. CASE FreeFds(p) # {} /\ ofile' = [ofile EXCEPT ![p][fd] = f] /\ file' = [file EXCEPT ![f].ref = @ + 1]
  <2>1. InUser(p, l)
    BY <1>1, <1>2, AtUser
  <2>2. fd \in Fds /\ ofile[p][fd] = 0
    <3>1. FreeFds(p) \subseteq Nat
      BY Bounds DEF FreeFds
    <3>2. fd \in FreeFds(p)
      BY <1>1, <1>5, <3>1, Least
    <3> QED  BY <3>2 DEF FreeFds
  <2>3. PICK e \in Fds : f = ofile[p][e]
    BY <1>1, <1>2 DEF File
  <2>4. f \in Files /\ f \in 0..NFILE
    <3>1. f \in 0..NFILE /\ f # 0 /\ NFILE \in Nat
      BY <1>2, <2>3, FsAssumption DEF IInv, FileInv
    <3> QED  BY <3>1 DEF Files
  <2>5. /\ file[f].ref \in Nat /\ file[f].ref >= 1 /\ DOMAIN file = Files /\ DOMAIN file[f] = FileFields
    BY <2>3, <2>4, FileRefs
  <2>6. /\ DOMAIN file' = Files /\ \A h \in Files \ {f} : file'[h] = file[h]
        /\ file'[f].ref = file[f].ref + 1 /\ file'[f].ip = file[f].ip /\ DOMAIN file'[f] = FileFields
    BY <1>5, <2>4, <2>5 DEF FileFields
  <2>7. Follows(p, l, "user", 0, f)
    <3>1. ASSUME NEW h \in Files
          PROVE  /\ DOMAIN file'[h] = FileFields /\ file'[h].ref \in Int
                 /\ file'[h].ref + Bit(0 = h) = file[h].ref + Bit(f = h)
                 /\ file'[h].ref = 0 => file'[h].ip = 0
      <4>1. file[h].ref \in Nat /\ DOMAIN file[h] = FileFields /\ (file[h].ref = 0 => file[h].ip = 0) /\ h # 0
        BY FileRefs, Bounds
      <4> QED  BY <2>5, <2>6, <4>1 DEF Bit
    <3>2. ASSUME NEW q \in Procs \ {p}, pc[q] = "open_done" PROVE file'[loc[q].f].ref = 1 /\ file'[loc[q].f].ip = 0
      BY <2>3, <2>6, <3>2, NotOpening
    <3> QED  BY <2>6, <3>1, <3>2 DEF Follows
  <2>8. Moves(p, l, "user", cwd[p])
    BY <1>1, <1>2, <2>1, SetsNone DEF Moves, InUser
  <2>9. FileInv' /\ \A q \in Procs \ {p} : ofile'[q] = ofile[q]
    <3>1. 0 = ofile[p][fd] /\ ofile' = [ofile EXCEPT ![p][fd] = f]
      BY <1>5, <2>2
    <3> QED  BY <2>2, <2>4, <2>7, <2>8, <3>1, FileMoves
  <2>10. LocOK(l, "user") /\ CwdOK(l, "user", cwd[p]) /\ ModeOK(p, l, "user")
    BY <1>1, <1>2, <2>1 DEF IInv, LocInv, CwdOK, ModeOK, Boot, NoCwd, InUser
  <2>11. FdsOK(p, cwd[p])
    BY <2>1, <2>9 DEF FdsOK, InUser
  <2>12. ASSUME NEW i \in Inums PROVE RefMoves(p, l, cwd[p], f, i) /\ LockMoves(p, l, "user", i)
    <3>1. Opens(file'[f], i) = Opens(file[f], i) /\ \A g \in Files \ {f} : Opens(file'[g], i) = Opens(file[g], i)
      BY <2>5, <2>6 DEF Opens
    <3>2. RefMoves(p, l, cwd[p], f, i)
      BY <1>1, <1>2, <3>1 DEF RefMoves
    <3>3. LockMoves(p, l, "user", i)
      BY <1>1, <1>2, <2>1 DEF LockMoves, InUser, Has
    <3> QED  BY <3>2, <3>3
  <2>13. Tab(ino')
    BY <1>2, <2>1 DEF InUser
  <2> QED  BY <2>4, <2>8, <2>9, <2>10, <2>11, <2>12, <2>13, Turn
<1> QED  BY <1>3, <1>4, <1>5


-----------------------------------------------------------------------------
(* Processes                                                               *)

\* p is in a call or in the user program, so the recovery is over.
LEMMA UserNormal ==
  ASSUME IInv, NEW p \in Procs, pc[p] = "user"
  PROVE  Normal
<1>1. Eff(pc[p], loc[p]) = "user"
  BY DEF Eff, Putting
<1> QED  BY <1>1 DEF IInv, Alone, Boot

\* Slot q is not in use, or its process is a zombie.
LEMMA AtSlot ==
  ASSUME IInv, NEW q \in Procs, pc[q] \in {"unused", "zombie"}, NEW l, l = loc[q], NEW c \in {"user", "unused"}
  PROVE  /\ LocOK(l, c) /\ cwd[q] = 0 /\ \A fd \in Fds : ofile[q][fd] = 0
         /\ l.cur = 0 /\ l.ip = 0 /\ l.dp = 0 /\ Put(l, 1) = 0 /\ Put(l, 2) = 0
         /\ Eff(c, l) = c /\ \A i \in Inums : ~Has(l, c, i) /\ ~Has(l, pc[q], i)
         /\ Tab(ino) /\ DOMAIN loc = Procs /\ DOMAIN pc = Procs /\ DOMAIN cwd = Procs
<1>1. /\ DOMAIN l = LocFields /\ l.puts = <<>> /\ Put(l, 1) = 0 /\ Put(l, 2) = 0 /\ Shape(l, pc[q])
      /\ Tab(ino) /\ DOMAIN loc = Procs /\ DOMAIN pc = Procs /\ DOMAIN cwd = Procs
  BY AtLabel DEF Putting
<1>2. cwd[q] = 0 /\ \A fd \in Fds : ofile[q][fd] = 0
  BY DEF IInv, CwdInv
<1>3. l.cur = 0 /\ l.ip = 0 /\ l.dp = 0
  BY <1>1 DEF Shape, NoIp, HasDp
<1>4. Eff(c, l) = c
  BY DEF Eff, Putting
<1>5. LocOK(l, c)
  BY <1>1, <1>3, <1>4 DEF LocOK, PutsShape, Shape, Putting
<1>6. \A i \in Inums : ~Has(l, c, i) /\ ~Has(l, pc[q], i)
  BY DEF Has, Holds, Frees, Eff, Putting, LocksIp, LocksDp
<1> QED  BY <1>1, <1>2, <1>3, <1>4, <1>5, <1>6

\* The descriptors when slot q, which has none, gets those of p.
Copied(o, n, f, D) == Cardinality(D) \in Nat /\ Cardinality(DescsOf(n, f)) = Cardinality(DescsOf(o, f)) + Cardinality(D)

LEMMA DescsCopied ==
  ASSUME NEW o, NEW n, NEW p \in Procs, NEW q \in Procs, n[q] = o[p], \A r \in Procs \ {q} : n[r] = o[r],
         NEW f, f # 0, \A fd \in Fds : o[q][fd] = 0,
         NEW D, D = {fd \in Fds : o[p][fd] = f}
  PROVE  Copied(o, n, f, D)
<1>1. PICK S, T, N : S = DescsOf(o, f) /\ T = {q} \X D /\ N = DescsOf(n, f)
  OBVIOUS
<1>2. IsFiniteSet(S) /\ Cardinality(S) \in Nat
  BY <1>1, DescsFinite, FS_CardinalityType
<1>3. IsFiniteSet(D) /\ Cardinality(D) \in Nat
  BY Bounds, FS_Subset, FS_CardinalityType
<1>4. IsFiniteSet({q}) /\ Cardinality({q}) = 1
  BY FS_Singleton
<1>5. IsFiniteSet(T) /\ Cardinality(T) = 1 * Cardinality(D)
  BY <1>1, <1>3, <1>4, FS_Product
<1>6. S \cap T = {}
  BY <1>1 DEF DescsOf
<1>7. N = S \cup T
  <2>1. N \subseteq Procs \X Fds /\ S \subseteq Procs \X Fds /\ T \subseteq Procs \X Fds
    BY <1>1 DEF DescsOf
  <2>2. ASSUME NEW y \in Procs \X Fds PROVE y \in N <=> y \in S \/ y \in T
    <3>1. PICK r \in Procs, e \in Fds : y = <<r, e>>
      OBVIOUS
    <3>2. (y \in N <=> n[r][e] = f) /\ (y \in S <=> o[r][e] = f) /\ (y \in T <=> r = q /\ o[p][e] = f)
      BY <1>1, <3>1 DEF DescsOf
    <3>3. CASE r = q
      BY <3>2, <3>3
    <3>4. CASE r # q
      BY <3>2, <3>4
    <3> QED  BY <3>3, <3>4
  <2> QED  BY <2>1, <2>2
<1>8. Cardinality({}) = 0
  BY FS_EmptySet
<1>9. Cardinality(S \cup T) = Cardinality(S) + Cardinality(T) - Cardinality(S \cap T)
  BY <1>2, <1>5, FS_Union
<1>10. Cardinality(T) = Cardinality(D)
  BY <1>3, <1>5
<1>11. Cardinality(N) = Cardinality(S) + Cardinality(D)
  <2>1. Cardinality(N) = Cardinality(S) + Cardinality(T) - Cardinality({})
    BY <1>6, <1>7, <1>9
  <2> QED  BY <1>2, <1>3, <1>8, <1>10, <2>1
<1> QED  BY <1>1, <1>3, <1>11 DEF Copied

\* kfork().
LEMMA ForkKeeps ==
  ASSUME IInv, NEW p \in Procs, Fork(p)
  PROVE  IInv' /\ (Normal => Normal')
<1>1. PICK free, q, l, d : free = {r \in Procs : pc[r] = "unused"} /\ q = Min(free) /\ l = loc[q] /\ d = cwd[p]
  OBVIOUS
<1>2. pc[p] = "user" /\ free # {}
  BY <1>1 DEF Fork, Calls, At
<1>3. /\ file' = [f \in Files |-> [file[f] EXCEPT !.ref = @ + Shares(p, f)]]
      /\ ofile' = [ofile EXCEPT ![q] = ofile[p]] /\ ino' = Iget(ino, d) /\ cwd' = [cwd EXCEPT ![q] = d]
      /\ pc' = [pc EXCEPT ![q] = "user"] /\ loc' = loc
  BY <1>1 DEF Fork, Goto
<1>4. q \in Procs /\ pc[q] = "unused" /\ q # p
  <2>1. free \subseteq Nat
    BY <1>1, Bounds
  <2>2. q \in free
    BY <1>1, <1>2, <2>1, Least
  <2> QED  BY <1>1, <1>2, <2>2
<1>5. /\ LocOK(l, "user") /\ cwd[q] = 0 /\ \A fd \in Fds : ofile[q][fd] = 0
      /\ l.cur = 0 /\ l.ip = 0 /\ l.dp = 0 /\ Put(l, 1) = 0 /\ Put(l, 2) = 0
      /\ Eff("user", l) = "user" /\ \A i \in Inums : ~Has(l, "user", i) /\ ~Has(l, pc[q], i)
      /\ Tab(ino) /\ DOMAIN loc = Procs /\ DOMAIN pc = Procs /\ DOMAIN cwd = Procs
  BY <1>1, <1>4, AtSlot
<1>6. d # 0
  <2>1. InUser(p, loc[p])
    BY <1>2, AtUser
  <2> QED  BY <1>1, <2>1 DEF InUser
<1>7. Moves(q, l, "user", d)
  <2>1. Sets(cwd', cwd, q, d) /\ Sets(pc', pc, q, "user")
    BY <1>3, <1>4, <1>5, SetsOne
  <2>2. Sets(loc', loc, q, l)
    BY <1>1, <1>3, <1>4, <1>5, SetsNone
  <2> QED  BY <2>1, <2>2 DEF Moves
<1>8. CwdOK(l, "user", d)
  BY <1>6 DEF CwdOK
<1>9. DOMAIN ofile = Procs /\ \A r \in Procs : ofile[r] \in [Fds -> 0..NFILE]
  BY DEF IInv, FileInv
<1>10. /\ DOMAIN ofile' = Procs /\ ofile'[q] = ofile[p] /\ \A r \in Procs \ {q} : ofile'[r] = ofile[r]
       /\ \A r \in Procs : ofile'[r] \in [Fds -> 0..NFILE]
  BY <1>3, <1>4, <1>9
<1>11. FdsOK(q, d)
  BY <1>6, <1>10 DEF FdsOK
<1>12. ASSUME NEW f \in Files
       PROVE  /\ file'[f].ref = file[f].ref + Shares(p, f) /\ file'[f].ip = file[f].ip /\ DOMAIN file'[f] = FileFields
              /\ file[f].ref \in Nat /\ Shares(p, f) \in Nat /\ file'[f].ref = Cardinality(Descs(f)')
              /\ file[f].ref = 0 => file[f].ip = 0
  <2>1. DOMAIN file = Files /\ DOMAIN file[f] = FileFields /\ file[f].ref \in Nat /\ (file[f].ref = 0 => file[f].ip = 0)
    BY FileRefs
  <2>2. file'[f] = [file[f] EXCEPT !.ref = @ + Shares(p, f)]
    BY <1>3
  <2>3. file'[f].ref = file[f].ref + Shares(p, f) /\ file'[f].ip = file[f].ip /\ DOMAIN file'[f] = FileFields
    BY <2>1, <2>2 DEF FileFields
  <2>4. PICK o, n, D : o = ofile /\ n = ofile' /\ D = {fd \in Fds : o[p][fd] = f}
    OBVIOUS
  <2>5. Copied(o, n, f, D)
    <3>1. n[q] = o[p] /\ \A r \in Procs \ {q} : n[r] = o[r]
      BY <1>10, <2>4
    <3>2. f # 0 /\ \A fd \in Fds : o[q][fd] = 0
      BY <1>5, <2>4, Bounds
    <3> QED  BY <1>4, <2>4, <3>1, <3>2, DescsCopied
  <2>6. Shares(p, f) = Cardinality(D)
    BY <2>4 DEF Shares
  <2>7. file[f].ref = Cardinality(DescsOf(o, f))
    <3>1. file[f].ref = Cardinality(Descs(f))
      BY DEF IInv, FileInv
    <3> QED  BY <2>4, <3>1, DescsNow
  <2>8. Descs(f)' = DescsOf(n, f)
    BY <2>4, DescsNow
  <2> QED  BY <2>1, <2>3, <2>5, <2>6, <2>7, <2>8 DEF Copied
<1>13. FileInv'
  <2>1. DOMAIN file' = Files /\ \A f \in Files : DOMAIN file'[f] = FileFields
    BY <1>3, <1>12
  <2>2. ASSUME NEW f \in Files PROVE file'[f].ref = Cardinality(Descs(f)') /\ (file'[f].ref = 0 => file'[f].ip = 0)
    <3>1. /\ file'[f].ref = file[f].ref + Shares(p, f) /\ file'[f].ip = file[f].ip
          /\ file[f].ref \in Nat /\ Shares(p, f) \in Nat /\ file'[f].ref = Cardinality(Descs(f)')
          /\ file[f].ref = 0 => file[f].ip = 0
      BY <1>12
    <3>2. file'[f].ref = 0 => file[f].ref = 0
      BY <3>1
    <3> QED  BY <3>1, <3>2
  <2>3. ASSUME NEW r \in Procs, pc'[r] = "open_done"
        PROVE  /\ loc'[r].f \in Files /\ file'[loc'[r].f].ref = 1 /\ file'[loc'[r].f].ip = 0
               /\ \E fd \in Fds : ofile'[r][fd] = loc'[r].f
    <3>1. r # q /\ pc[r] = "open_done" /\ r # p /\ loc'[r] = loc[r] /\ ofile'[r] = ofile[r]
      BY <1>2, <1>3, <1>4, <1>5, <1>10, <2>3
    <3>2. PICK f : f = loc[r].f
      OBVIOUS
    <3>3. f \in Files /\ file[f].ref = 1 /\ file[f].ip = 0 /\ \E fd \in Fds : ofile[r][fd] = f
      BY <3>1, <3>2 DEF IInv, FileInv
    <3>4. {fd \in Fds : ofile[p][fd] = f} = {}
      BY <3>1, <3>2, NotOpening
    <3>5. Shares(p, f) = 0
      BY <3>4, FS_EmptySet DEF Shares
    <3>6. file'[f].ref = 1 /\ file'[f].ip = 0
      BY <1>12, <3>3, <3>5
    <3> QED  BY <3>1, <3>2, <3>3, <3>6
  <2> QED  BY <1>10, <2>1, <2>2, <2>3 DEF FileInv
<1>14. Got(ino', ino, d)
  BY <1>3, <1>5, IgetFacts
<1>15. ASSUME NEW i \in Inums PROVE RefMoves(q, l, d, 1, i) /\ LockMoves(q, l, "user", i)
  <2>1. i # 0 /\ ino[i].ref \in Int
    BY <1>5, Bounds DEF Tab
  <2>2. \A g \in Files : Opens(file'[g], i) = Opens(file[g], i)
    <3>1. SUFFICES ASSUME NEW g \in Files PROVE file'[g].ref > 0 /\ file'[g].ip = i <=> file[g].ref > 0 /\ file[g].ip = i
      BY DEF Opens, Bit
    <3>2. /\ file'[g].ref = file[g].ref + Shares(p, g) /\ file'[g].ip = file[g].ip
          /\ file[g].ref \in Nat /\ Shares(p, g) \in Nat /\ (file[g].ref = 0 => file[g].ip = 0)
      BY <1>12
    <3> QED  BY <2>1, <3>2
  <2>3. Mine(loc[q], cwd[q], i) = 0 /\ Mine(l, d, i) = Bit(d = i) /\ Bit(d = i) \in Nat
    BY <1>1, <1>5, <2>1 DEF Mine, Bit
  <2>4. ino'[i].ref = ino[i].ref + Bit(d = i) /\ ino'[i].lock = ino[i].lock
    BY <1>14 DEF Got
  <2>5. Opens(file[1], i) \in Nat /\ Opens(file'[1], i) = Opens(file[1], i)
    BY <2>2, Bounds DEF Opens, Bit
  <2>6. RefMoves(q, l, d, 1, i)
    BY <2>1, <2>2, <2>3, <2>4, <2>5 DEF RefMoves
  <2>7. ~Has(l, "user", i) /\ ~Has(l, pc[q], i)
    BY <1>5
  <2>8. LockMoves(q, l, "user", i)
    BY <1>1, <2>4, <2>7 DEF LockMoves, Has
  <2> QED  BY <2>6, <2>8
<1>16. Core'
  <2>1. Core /\ Tab(ino') /\ 1 \in Files
    BY <1>14, Bounds DEF IInv, Core, Got
  <2> QED  BY <1>4, <1>5, <1>7, <1>8, <1>11, <1>13, <1>15, <2>1, TurnCore
<1>17. Normal'
  <2>1. Normal
    BY <1>2, UserNormal
  <2>2. ASSUME NEW r \in Procs PROVE Eff(pc'[r], loc'[r]) \notin Boot
    <3>1. CASE r = q
      BY <1>1, <1>3, <1>4, <1>5, <3>1 DEF Boot
    <3>2. CASE r # q
      BY <1>3, <1>5, <2>1, <3>2 DEF Normal
    <3> QED  BY <3>1, <3>2
  <2> QED  BY <2>2 DEF Normal
<1> QED  BY <1>16, <1>17 DEF IInv, Core

\* kwait().
LEMMA WaitKeeps ==
  ASSUME IInv, NEW p \in Procs, Wait(p)
  PROVE  IInv' /\ (Normal => Normal')
<1>1. PICK S, q, l : S = {r \in Procs : par[r] = p /\ pc[r] = "zombie"} /\ q = Min(S) /\ l = loc[q]
  OBVIOUS
<1>2. /\ pc[p] = "user" /\ S # {} /\ pc' = [pc EXCEPT ![q] = "unused"]
      /\ loc' = loc /\ ino' = ino /\ cwd' = cwd /\ file' = file /\ ofile' = ofile
  BY <1>1 DEF Wait, Calls, At, files
<1>3. q \in Procs /\ pc[q] = "zombie"
  <2>1. S \subseteq Nat
    BY <1>1, Bounds
  <2>2. q \in S
    BY <1>1, <1>2, <2>1, Least
  <2> QED  BY <1>1, <2>2
<1>4. /\ LocOK(l, "unused") /\ cwd[q] = 0 /\ \A fd \in Fds : ofile[q][fd] = 0
      /\ Eff("unused", l) = "unused" /\ \A i \in Inums : ~Has(l, "unused", i) /\ ~Has(l, pc[q], i)
      /\ Tab(ino) /\ DOMAIN loc = Procs /\ DOMAIN pc = Procs /\ DOMAIN cwd = Procs
  BY <1>1, <1>3, AtSlot
<1>5. Moves(q, l, "unused", cwd[q])
  <2>1. Sets(pc', pc, q, "unused")
    BY <1>2, <1>3, <1>4, SetsOne
  <2>2. Sets(loc', loc, q, l) /\ Sets(cwd', cwd, q, cwd[q])
    BY <1>1, <1>2, <1>3, <1>4, SetsNone
  <2> QED  BY <2>1, <2>2 DEF Moves
<1>6. CwdOK(l, "unused", cwd[q])
  BY <1>4 DEF CwdOK, NoCwd
<1>7. FileInv'
  <2>1. SameFiles
    BY <1>2, FilesKept
  <2> QED  BY <1>3, <1>5, <2>1, FilesSame
<1>8. FdsOK(q, cwd[q])
  BY <1>2, <1>4 DEF FdsOK
<1>9. ASSUME NEW i \in Inums PROVE RefMoves(q, l, cwd[q], 1, i) /\ LockMoves(q, l, "unused", i)
  BY <1>1, <1>2, <1>4 DEF RefMoves, LockMoves, Has
<1>10. Core'
  <2>1. Core /\ Tab(ino') /\ 1 \in Files
    BY <1>2, <1>4, Bounds DEF IInv, Core
  <2> QED  BY <1>3, <1>4, <1>5, <1>6, <1>7, <1>8, <1>9, <2>1, TurnCore
<1>11. Normal'
  <2>1. Normal
    BY <1>2, UserNormal
  <2>2. ASSUME NEW r \in Procs PROVE Eff(pc'[r], loc'[r]) \notin Boot
    <3>1. CASE r = q
      BY <1>1, <1>2, <1>3, <1>4, <3>1 DEF Boot
    <3>2. CASE r # q
      BY <1>2, <1>4, <2>1, <3>2 DEF Normal
    <3> QED  BY <3>1, <3>2
  <2> QED  BY <2>2 DEF Normal
<1> QED  BY <1>10, <1>11 DEF IInv, Core

-----------------------------------------------------------------------------
(* Start, crash and the specification                                      *)

\* No call runs, no file is open, and only process 1 may have a directory.
LEMMA Blank ==
  ASSUME NEW L, L = [p \in Procs |-> NoLoc], NEW F, F = [f \in Files |-> NoFile], NEW C, NEW i \in Inums
  PROVE  Count(L, C, F, i) = Cardinality(InCwd(C, i))
<1>1. NoLoc.cur = 0 /\ NoLoc.ip = 0 /\ NoLoc.dp = 0 /\ NoLoc.puts = <<>> /\ NoFile.ref = 0 /\ i # 0
  BY Bounds DEF NoLoc, NoFile
<1>2. \A p \in Procs : L[p] = NoLoc
  OBVIOUS
<1>3. InLocals(L, i) = {}
  <2>1. ASSUME NEW x \in Procs \X Kinds PROVE L[x[1]][x[2]] # i
    <3>1. PICK p \in Procs, k \in Kinds : x = <<p, k>>
      OBVIOUS
    <3>2. NoLoc[k] = 0
      BY DEF Kinds, NoLoc
    <3> QED  BY <1>1, <1>2, <3>1, <3>2
  <2> QED  BY <2>1 DEF InLocals
<1>4. InPuts(L, i) = {}
  <2>1. \A p \in Procs : DOMAIN L[p].puts = {}
    BY <1>1, <1>2
  <2> QED  BY <2>1 DEF InPuts
<1>5. InFiles(F, i) = {}
  BY <1>1 DEF InFiles
<1>6. Cardinality({}) = 0
  BY FS_EmptySet
<1>7. Cardinality(InCwd(C, i)) \in Nat
  <2>1. IsFiniteSet(InCwd(C, i))
    BY Bounds, FS_Subset DEF InCwd
  <2> QED  BY <2>1, FS_CardinalityType
<1> QED  BY <1>3, <1>4, <1>5, <1>6, <1>7 DEF Count

\* What Init and Crash have in common, with d the current directory of process 1,
\* which is at label c.
Started(t, f, o, C, P, L, d, c) ==
  /\ t = [i \in Inums |-> [ref |-> Bit(i = d), valid |-> FALSE, lock |-> 0, n |-> Fresh("free")]]
  /\ f = [g \in Files |-> NoFile]
  /\ o = [p \in Procs |-> [fd \in Fds |-> 0]]
  /\ C = [p \in Procs |-> IF p = 1 THEN d ELSE 0]
  /\ P = [p \in Procs |-> IF p = 1 THEN c ELSE "unused"]
  /\ L = [p \in Procs |-> NoLoc]

\* So the counts are right, no lock is held, and every process is where it should be.
StartOK(t, F, o, C, P, L) ==
  /\ Tab(t) /\ \A i \in Inums : t[i].ref = Count(L, C, F, i) /\ t[i].lock = 0
  /\ DOMAIN L = Procs /\ DOMAIN P = Procs /\ DOMAIN C = Procs
  /\ \A p \in Procs : /\ LocOK(L[p], P[p]) /\ CwdOK(L[p], P[p], C[p]) /\ P[p] # "open_done"
                      /\ \A i \in Inums : ~Holds(L[p], P[p], i) /\ ~Frees(L[p], P[p], i)
  /\ DOMAIN F = Files /\ DOMAIN o = Procs
  /\ \A p \in Procs : o[p] \in [Fds -> 0..NFILE] /\ \A fd \in Fds : o[p][fd] = 0
  /\ \A f \in Files : DOMAIN F[f] = FileFields /\ F[f].ip = 0 /\ F[f].ref = Cardinality(DescsOf(o, f))

LEMMA Starting ==
  ASSUME NEW t, NEW F, NEW o, NEW C, NEW P, NEW L, NEW d, NEW c, Started(t, F, o, C, P, L, d, c),
         (c = "user" /\ d # 0) \/ (c = "boot" /\ d = 0)
  PROVE  StartOK(t, F, o, C, P, L)
<1>1. /\ t = [i \in Inums |-> [ref |-> Bit(i = d), valid |-> FALSE, lock |-> 0, n |-> Fresh("free")]]
      /\ F = [g \in Files |-> NoFile]
      /\ o = [p \in Procs |-> [fd \in Fds |-> 0]]
      /\ C = [p \in Procs |-> IF p = 1 THEN d ELSE 0]
      /\ P = [p \in Procs |-> IF p = 1 THEN c ELSE "unused"]
      /\ L = [p \in Procs |-> NoLoc]
  BY DEF Started
<1>2. Tab(t)
  BY <1>1 DEF Tab, InoFields, Bit
<1>3. ASSUME NEW i \in Inums PROVE t[i].ref = Count(L, C, F, i) /\ t[i].lock = 0
  <2>1. t[i].ref = Bit(i = d) /\ t[i].lock = 0
    BY <1>1
  <2>2. Count(L, C, F, i) = Cardinality(InCwd(C, i))
    BY <1>1, Blank
  <2>3. Cardinality(InCwd(C, i)) = Bit(i = d)
    <3>1. CASE i = d
      <4>1. InCwd(C, i) = {1}
        BY <1>1, <3>1, Bounds DEF InCwd
      <4>2. Cardinality({1}) = 1
        BY FS_Singleton
      <4> QED  BY <3>1, <4>1, <4>2 DEF Bit
    <3>2. CASE i # d
      <4>1. InCwd(C, i) = {}
        BY <1>1, <3>2, Bounds DEF InCwd
      <4> QED  BY <3>2, <4>1, FS_EmptySet DEF Bit
    <3> QED  BY <3>1, <3>2
  <2> QED  BY <2>1, <2>2, <2>3
<1>4. DOMAIN L = Procs /\ DOMAIN P = Procs /\ DOMAIN C = Procs /\ DOMAIN F = Files /\ DOMAIN o = Procs
  BY <1>1
<1>5. ASSUME NEW p \in Procs
      PROVE  /\ LocOK(L[p], P[p]) /\ CwdOK(L[p], P[p], C[p]) /\ P[p] # "open_done"
             /\ \A i \in Inums : ~Holds(L[p], P[p], i) /\ ~Frees(L[p], P[p], i)
  <2>1. PICK l, b : l = L[p] /\ b = P[p] /\ l = NoLoc /\ b \in {"user", "boot", "unused"}
    BY <1>1
  <2>2. DOMAIN l = LocFields /\ l.puts = <<>> /\ l.cur = 0 /\ l.ip = 0 /\ l.dp = 0
    BY <2>1 DEF NoLoc, LocFields
  <2>3. Eff(b, l) = b /\ b \notin Putting
    BY <2>1 DEF Eff, Putting
  <2>4. LocOK(l, b)
    BY <2>1, <2>2, <2>3 DEF LocOK, PutsShape, Shape
  <2>5. CwdOK(l, b, C[p])
    BY <1>1, <2>1, <2>3 DEF CwdOK, NoCwd
  <2>6. \A i \in Inums : ~Holds(l, b, i) /\ ~Frees(l, b, i)
    BY <2>1, <2>3 DEF Holds, Frees, LocksIp, LocksDp
  <2> QED  BY <2>1, <2>4, <2>5, <2>6
<1>6. ASSUME NEW p \in Procs PROVE o[p] \in [Fds -> 0..NFILE] /\ \A fd \in Fds : o[p][fd] = 0
  BY <1>1, Bounds
<1>7. ASSUME NEW f \in Files PROVE DOMAIN F[f] = FileFields /\ F[f].ip = 0 /\ F[f].ref = Cardinality(DescsOf(o, f))
  <2>1. F[f] = NoFile /\ f # 0
    BY <1>1, Bounds
  <2>2. DescsOf(o, f) = {}
    BY <1>6, <2>1 DEF DescsOf
  <2> QED  BY <2>1, <2>2, FS_EmptySet DEF NoFile, FileFields
<1> QED  BY <1>2, <1>3, <1>4, <1>5, <1>6, <1>7 DEF StartOK

LEMMA InitEstablishes ==
  ASSUME Init
  PROVE  IInv
<1>1. Started(ino, file, ofile, cwd, pc, loc, ROOTINO, "user")
  BY DEF Init, Started, Bit
<1>2. ROOTINO # 0
  BY DEF ROOTINO
<1>3. StartOK(ino, file, ofile, cwd, pc, loc)
  BY <1>1, <1>2, Starting
<1>4. LocInv /\ CwdInv /\ LockInv
  BY <1>3, Bounds DEF StartOK, LocInv, CwdInv, CwdOK, LockInv
<1>5. FileInv
  BY <1>3, DescsNow DEF StartOK, FileInv
<1>6. RefInv
  BY <1>3, PointersNow DEF StartOK, RefInv
<1>7. Normal
  BY DEF Init, Normal, Eff, Putting, Boot
<1> QED  BY <1>4, <1>5, <1>6, <1>7 DEF IInv

\* A crash and the restart.
LEMMA CrashKeeps ==
  ASSUME IInv, Crash
  PROVE  IInv'
<1>1. Started(ino', file', ofile', cwd', pc', loc', 0, "boot")
  <2>1. \A i \in Inums : Bit(i = 0) = 0
    BY Bounds DEF Bit
  <2> QED  BY <2>1 DEF Crash, Started
<1>2. StartOK(ino', file', ofile', cwd', pc', loc')
  BY <1>1, Starting
<1>3. LocInv' /\ CwdInv' /\ LockInv'
  BY <1>2, Bounds DEF StartOK, LocInv, CwdInv, CwdOK, LockInv
<1>4. FileInv'
  BY <1>2, DescsNow DEF StartOK, FileInv
<1>5. RefInv'
  BY <1>2, PointersNext DEF StartOK, RefInv
<1>6. Alone'
  BY Bounds DEF Crash, Alone, Eff, Putting, Boot
<1> QED  BY <1>3, <1>4, <1>5, <1>6 DEF IInv

LEMMA StepKeeps ==
  ASSUME IInv, NEW p \in Procs, Step(p)
  PROVE  IInv' /\ (Normal => Normal')
<1>1. CASE NoType(p)
  BY <1>1, NoTypeKeeps
<1>2. CASE IputStart(p)
  BY <1>2, IputStartKeeps
<1>3. CASE IputTrunc(p)
  BY <1>3, IputTruncKeeps
<1>4. CASE IputLast(p)
  BY <1>4, IputLastKeeps
<1>5. CASE EndCall(p)
  BY <1>5, EndCallKeeps
<1>6. CASE NamexDone(p)
  BY <1>6, NamexDoneKeeps
<1>7. CASE NamexStep(p)
  BY <1>7, NamexStepKeeps
<1>8. CASE PathCall(p)
  BY <1>8, PathCallKeeps
<1>9. CASE CreateDir(p)
  BY <1>9, CreateDirKeeps
<1>10. CASE CreateOld(p)
  BY <1>10, CreateOldKeeps
<1>11. CASE CreateNew(p)
  BY <1>11, CreateNewKeeps
<1>12. CASE CreateDone(p)
  BY <1>12, CreateDoneKeeps
<1>13. CASE UnlockDp(p)
  BY <1>13, UnlockDpKeeps
<1>14. CASE OpenLock(p)
  BY <1>14, OpenLockKeeps
<1>15. CASE OpenAlloc(p)
  BY <1>15, OpenAllocKeeps
<1>16. CASE OpenDone(p)
  BY <1>16, OpenDoneKeeps
<1>17. CASE LinkIp(p)
  BY <1>17, LinkIpKeeps
<1>18. CASE LinkDir(p)
  BY <1>18, LinkDirKeeps
<1>19. CASE LinkBad(p)
  BY <1>19, LinkBadKeeps
<1>20. CASE UnlinkDir(p)
  BY <1>20, UnlinkDirKeeps
<1>21. CASE UnlinkIp(p)
  BY <1>21, UnlinkIpKeeps
<1>22. CASE UnlinkDrop(p)
  BY <1>22, UnlinkDropKeeps
<1>23. CASE ChdirIp(p)
  BY <1>23, ChdirIpKeeps
<1>24. CASE BadFd(p)
  BY <1>24, BadFdKeeps
<1>25. CASE Close(p)
  BY <1>25, CloseKeeps
<1>26. CASE Dup(p)
  BY <1>26, DupKeeps
<1>27. CASE FileCall(p)
  BY <1>27, FileCallKeeps
<1>28. CASE Read(p)
  BY <1>28, ReadKeeps
<1>29. CASE Write(p)
  BY <1>29, WriteKeeps
<1>30. CASE WriteMore(p)
  BY <1>30, WriteMoreKeeps
<1>31. CASE WriteBegin(p)
  BY <1>31, WriteBeginKeeps
<1>32. CASE Fork(p)
  BY <1>32, ForkKeeps
<1>33. CASE Exit(p)
  BY <1>33, ExitKeeps
<1>34. CASE Wait(p)
  BY <1>34, WaitKeeps
<1>35. CASE Reclaim(p)
  BY <1>35, ReclaimKeeps
<1>36. CASE ReclaimLoad(p)
  BY <1>36, ReclaimLoadKeeps
<1>37. CASE ReclaimEnd(p)
  BY <1>37, ReclaimEndKeeps
<1> QED  BY <1>1, <1>2, <1>3, <1>4, <1>5, <1>6, <1>7, <1>8, <1>9, <1>10, <1>11, <1>12, <1>13, <1>14, <1>15, <1>16, <1>17, <1>18, <1>19, <1>20, <1>21, <1>22, <1>23, <1>24, <1>25, <1>26, <1>27, <1>28, <1>29, <1>30, <1>31, <1>32, <1>33, <1>34, <1>35, <1>36, <1>37 DEF Step

LEMMA NextKeeps ==
  ASSUME IInv, [Next]_vars
  PROVE  IInv'
<1>1. CASE \E p \in Procs : Step(p)
  BY <1>1, StepKeeps
<1>2. CASE Crash
  BY <1>2, CrashKeeps
<1>3. CASE UNCHANGED vars
  BY <1>3, Still DEF vars
<1> QED  BY <1>1, <1>2, <1>3 DEF Next, Stop

\* The invariant of the file system holds in every state, for every number of
\* processes, files, descriptors, inodes and blocks, every program and every crash.
THEOREM FsInvariant == Spec => []IInv
<1>1. Init => IInv
  BY InitEstablishes
<1>2. IInv /\ [Next]_vars => IInv'
  BY NextKeeps
<1> QED  BY <1>1, <1>2, PTL DEF Spec

\* ip->ref counts exactly the pointers to the table entry of the inode, after every
\* step of every call, its error paths included: no reference leaks, none is dropped twice.
THEOREM FsRefsCounted == Spec => []RefsCounted
<1>1. IInv => RefsCounted
  BY DEF IInv, RefInv, RefsCounted
<1> QED  BY <1>1, FsInvariant, PTL

\* f->ref counts exactly the descriptors of f, whatever fork, dup, close, exit and a
\* failed open did; a file structure that no descriptor names is free.
FilesCounted == \A f \in Files : file[f].ref = Cardinality(Descs(f)) /\ (Descs(f) = {} => file[f].ip = 0)
THEOREM FsFilesCounted == Spec => []FilesCounted
<1>1. ASSUME IInv PROVE FilesCounted
  <2>1. ASSUME NEW f \in Files PROVE file[f].ref = Cardinality(Descs(f)) /\ (Descs(f) = {} => file[f].ip = 0)
    BY <1>1, FS_EmptySet DEF IInv, FileInv
  <2> QED  BY <2>1 DEF FilesCounted
<1> QED  BY <1>1, FsInvariant, PTL

-----------------------------------------------------------------------------
(* Who has the lock of an inode has a pointer to it                        *)

\* The pointers of one process, and of two, are among those that are counted.
LEMMA CountsMine ==
  ASSUME NEW L, NEW C, NEW F, NEW p \in Procs, NEW i \in Inums, \A q \in Procs : PutsOK(L[q])
  PROVE  /\ Count(L, C, F, i) \in Nat /\ Count(L, C, F, i) >= Mine(L[p], C[p], i)
         /\ \A q \in Procs \ {p} : Count(L, C, F, i) >= Mine(L[p], C[p], i) + Mine(L[q], C[q], i)
<1>1. PICK M, D : M = [q \in Procs |-> IF q = p THEN NoLoc ELSE L[q]] /\ D = [q \in Procs |-> IF q = p THEN 0 ELSE C[q]]
  OBVIOUS
<1>2. PutsOK(NoLoc) /\ Mine(NoLoc, 0, i) = 0
  BY Bounds DEF PutsOK, NoLoc, Mine, Put, Bit
<1>3. \A q \in Procs : PutsOK(L[q]) /\ PutsOK(M[q])
  BY <1>1, <1>2
<1>4. \A q \in Procs \ {p} : M[q] = L[q] /\ D[q] = C[q]
  BY <1>1
<1>5. M[p] = NoLoc /\ D[p] = 0
  BY <1>1
<1>6. 1 \in Files
  BY Bounds
<1>7. Balanced(L, M, C, D, F, F, p, 1, i)
  BY <1>3, <1>4, <1>6, Balance
<1>8. \A l, d : Mine(l, d, i) \in Nat
  BY DEF Mine, Bit
<1>9. Opens(F[1], i) \in Nat
  BY DEF Opens, Bit
<1>10. Count(L, C, F, i) \in Nat /\ Count(M, D, F, i) \in Nat /\ Count(L, C, F, i) = Count(M, D, F, i) + Mine(L[p], C[p], i)
  <2>1. /\ Count(L, C, F, i) \in Nat /\ Count(M, D, F, i) \in Nat
        /\ Count(M, D, F, i) + Mine(L[p], C[p], i) + Opens(F[1], i) = Count(L, C, F, i) + 0 + Opens(F[1], i)
    BY <1>2, <1>5, <1>7 DEF Balanced
  <2>2. Mine(L[p], C[p], i) \in Nat
    BY <1>8
  <2> QED  BY <1>9, <2>1, <2>2
<1>11. ASSUME NEW q \in Procs \ {p} PROVE Count(M, D, F, i) >= Mine(L[q], C[q], i)
  <2>1. PICK N, E : N = [r \in Procs |-> IF r = q THEN NoLoc ELSE M[r]] /\ E = [r \in Procs |-> IF r = q THEN 0 ELSE D[r]]
    OBVIOUS
  <2>2. \A r \in Procs : PutsOK(M[r]) /\ PutsOK(N[r])
    BY <1>2, <1>3, <2>1
  <2>3. \A r \in Procs \ {q} : N[r] = M[r] /\ E[r] = D[r]
    BY <2>1
  <2>4. N[q] = NoLoc /\ E[q] = 0 /\ M[q] = L[q] /\ D[q] = C[q]
    BY <1>4, <2>1
  <2>5. Balanced(M, N, D, E, F, F, q, 1, i)
    BY <1>6, <2>2, <2>3, Balance
  <2> QED  BY <1>2, <1>8, <1>9, <2>4, <2>5 DEF Balanced
<1>12. Count(L, C, F, i) >= Mine(L[p], C[p], i)
  BY <1>8, <1>10
<1>13. \A q \in Procs \ {p} : Count(L, C, F, i) >= Mine(L[p], C[p], i) + Mine(L[q], C[q], i)
  BY <1>8, <1>10, <1>11
<1> QED  BY <1>10, <1>12, <1>13

LEMMA HasPoints ==
  ASSUME IInv, NEW q \in Procs, NEW i \in Inums, Has(loc[q], pc[q], i)
  PROVE  Mine(loc[q], cwd[q], i) >= 1
<1>1. Mine(loc[q], cwd[q], i) \in Nat
  BY DEF Mine, Bit
<1>2. CASE loc[q].ip = i \/ loc[q].dp = i
  BY <1>2 DEF Mine, Bit
<1>3. CASE Frees(loc[q], pc[q], i)
  <2>1. PutsShape(loc[q], pc[q])
    BY DEF IInv, LocInv, LocOK
  <2>2. Put(loc[q], 1) = i
    BY <1>3, <2>1 DEF Frees, PutsShape, Putting, Put
  <2> QED  BY <2>2 DEF Mine, Bit
<1> QED  BY <1>2, <1>3 DEF Has, Holds

LEMMA RefsMine ==
  ASSUME IInv, NEW p \in Procs, NEW i \in Inums
  PROVE  /\ ino[i].ref \in Nat /\ ino[i].ref >= Mine(loc[p], cwd[p], i)
         /\ \A q \in Procs \ {p} : ino[i].ref >= Mine(loc[p], cwd[p], i) + Mine(loc[q], cwd[q], i)
<1>1. ino[i].ref = Count(loc, cwd, file, i)
  BY PointersNow DEF IInv, RefInv
<1>2. \A q \in Procs : PutsOK(loc[q])
  BY PutsFine DEF IInv, LocInv
<1> QED  BY <1>1, <1>2, CountsMine

\* The sleep lock of an inode is held by a process that is in a system call and has a
\* pointer to the inode, so that the table entry under the lock is never recycled.
LocksReferenced ==
  \A i \in Inums : ino[i].lock # 0 =>
    /\ ino[i].lock \in Procs /\ ino[i].ref > 0
    /\ pc[ino[i].lock] \notin {"user", "unused", "zombie", "up"}
THEOREM FsLocksReferenced == Spec => []LocksReferenced
<1>1. ASSUME IInv PROVE LocksReferenced
  <2>1. SUFFICES ASSUME NEW i \in Inums, ino[i].lock # 0
                 PROVE  /\ ino[i].lock \in Procs /\ ino[i].ref > 0
                        /\ pc[ino[i].lock] \notin {"user", "unused", "zombie", "up"}
    BY DEF LocksReferenced
  <2>2. PICK q \in Procs : q = ino[i].lock /\ Has(loc[q], pc[q], i)
    BY <1>1, <2>1 DEF IInv, LockInv, Has
  <2>3. Mine(loc[q], cwd[q], i) >= 1 /\ Mine(loc[q], cwd[q], i) \in Nat
    BY <1>1, <2>2, HasPoints DEF Mine, Bit
  <2>4. ino[i].ref \in Nat /\ ino[i].ref >= Mine(loc[q], cwd[q], i)
    BY <1>1, RefsMine
  <2>5. pc[q] \notin {"user", "unused", "zombie", "up"}
    BY <2>2 DEF Has, Holds, Frees, Eff, Putting, LocksIp, LocksDp
  <2> QED  BY <2>2, <2>3, <2>4, <2>5
<1> QED  BY <1>1, FsInvariant, PTL

\* iput() finds the inode that it is about to free unlocked: whoever had the lock
\* would have a second pointer to it.
THEOREM FsIputUnlocked == Spec => []IputUnlocked
<1>1. ASSUME IInv PROVE IputUnlocked
  <2>1. SUFFICES ASSUME NEW p \in Procs, NEW i \in Inums, pc[p] = "put", Head(loc[p].puts) = i, ino[i].ref = 1
                 PROVE  ino[i].lock = 0
    BY DEF IputUnlocked, At, Unused
  <2>2. Put(loc[p], 1) = i
    <3>1. PutsShape(loc[p], pc[p])
      BY <1>1 DEF IInv, LocInv, LocOK
    <3> QED  BY <2>1, <3>1 DEF PutsShape, Putting, Put
  <2>3. \A q \in Procs : Mine(loc[q], cwd[q], i) \in Nat
    BY DEF Mine, Bit
  <2>4. Mine(loc[p], cwd[p], i) >= 1
    BY <2>2 DEF Mine, Bit
  <2>5. SUFFICES ASSUME NEW q \in Procs, q = ino[i].lock, Has(loc[q], pc[q], i) PROVE FALSE
    BY <1>1 DEF IInv, LockInv, Has
  <2>6. CASE q = p
    <3>1. loc[p].ip = i \/ loc[p].dp = i
      BY <2>1, <2>5, <2>6 DEF Has, Holds, Frees
    <3>2. Mine(loc[p], cwd[p], i) >= 2
      BY <2>2, <3>1 DEF Mine, Bit
    <3>3. ino[i].ref >= Mine(loc[p], cwd[p], i)
      BY <1>1, RefsMine
    <3> QED  BY <2>1, <2>3, <3>2, <3>3
  <2>7. CASE q # p
    <3>1. Mine(loc[q], cwd[q], i) >= 1
      BY <1>1, <2>5, HasPoints
    <3>2. ino[i].ref >= Mine(loc[p], cwd[p], i) + Mine(loc[q], cwd[q], i)
      BY <1>1, <2>7, RefsMine
    <3> QED  BY <2>1, <2>3, <2>4, <3>1, <3>2
  <2> QED  BY <2>6, <2>7
<1> QED  BY <1>1, FsInvariant, PTL

-----------------------------------------------------------------------------
(* The inodes on the disk                                                  *)

\* The inode table of disk d has every inode, which is all that the recovery needs.
DiskOK(d) == "dino" \in DOMAIN d /\ DOMAIN d.dino = Inums
DiskInv == DiskOK(disk) /\ DiskOK(durable)

LEMMA IupdateOK ==
  ASSUME NEW d, DiskOK(d), NEW i, NEW m
  PROVE  DiskOK(Iupdate(d, i, m)) /\ \A j \in Inums : Iupdate(d, i, m).dino[j] = IF j = i THEN m ELSE d.dino[j]
  BY DEF DiskOK, Iupdate

LEMMA ItruncOK ==
  ASSUME NEW d, DiskOK(d), NEW i, NEW m
  PROVE  DiskOK(Itrunc(d, i, m).d) /\ \A j \in Inums : j # i => Itrunc(d, i, m).d.dino[j] = d.dino[j]
<1>1. PICK u : u = [d EXCEPT !.used = @ \ Truncated(d, m)]
  OBVIOUS
<1>2. DiskOK(u) /\ u.dino = d.dino
  BY <1>1 DEF DiskOK
<1>3. Itrunc(d, i, m).d = Iupdate(u, i, [m EXCEPT !.addrs = NoAddrs, !.size = 0])
  BY <1>1 DEF Itrunc
<1> QED  BY <1>2, <1>3, IupdateOK

LEMMA WriteiOK ==
  ASSUME NEW d, DiskOK(d), NEW m, NEW i, NEW off, NEW data, NEW ok
  PROVE  DiskOK(Writei(d, m, i, off, data, ok).d)
<1>1. CASE off > m.size \/ off + Len(data) > MAXFILE * BSIZE
  <2>1. Writei(d, m, i, off, data, ok) = [d |-> d, m |-> m, n |-> -1]
    BY <1>1 DEF Writei
  <2> QED  BY <2>1
<1>2. CASE ~(off > m.size \/ off + Len(data) > MAXFILE * BSIZE)
  <2>1. PICK w : w = Written(d, m, off, data, ok)
    OBVIOUS
  <2> DEFINE Size(x) == [x.m EXCEPT !.size = Max({@, off + x.n})]
             Blks(x) == [d EXCEPT !.blk = x.d.blk, !.used = x.d.used]
             F(x) == [d |-> Iupdate(Blks(x), i, Size(x)), m |-> Size(x), n |-> x.n]
  <2>2. Writei(d, m, i, off, data, ok) = CHOOSE y \in {F(x) : x \in {w}} : TRUE
    BY <1>2, <2>1 DEF Writei, With
  <2>3. DiskOK(Blks(w))
    BY DEF DiskOK
  <2>4. F(w).d = Iupdate(Blks(w), i, Size(w))
    OBVIOUS
  <2>5. DiskOK(F(w).d)
    BY <2>3, <2>4, IupdateOK
  <2> HIDE DEF F
  <2>6. {F(x) : x \in {w}} = {F(w)}
    OBVIOUS
  <2> QED  BY <2>2, <2>5, <2>6
<1> QED  BY <1>1, <1>2

LEMMA DirlinkOK ==
  ASSUME NEW d, DiskOK(d), NEW m, NEW i, NEW name, NEW inum
  PROVE  DiskOK(Dirlink(d, m, i, name, inum).d)
<1>1. CASE Dirlookup(d, m, name) # 0
  <2>1. Dirlink(d, m, i, name, inum) = [d |-> d, m |-> m, ok |-> FALSE]
    BY <1>1 DEF Dirlink
  <2> QED  BY <2>1
<1>2. CASE ~(Dirlookup(d, m, name) # 0)
  <2>1. PICK w : w = Writei(d, m, i, FreeSlot(d, m), <<<<name, inum>>>>, TRUE)
    OBVIOUS
  <2> DEFINE F(x) == [d |-> x.d, m |-> x.m, ok |-> x.n = 1]
  <2>2. Dirlink(d, m, i, name, inum) = CHOOSE y \in {F(x) : x \in {w}} : TRUE
    BY <1>2, <2>1 DEF Dirlink, With
  <2>3. DiskOK(F(w).d)
    BY <2>1, WriteiOK
  <2> HIDE DEF F
  <2>4. {F(x) : x \in {w}} = {F(w)}
    OBVIOUS
  <2> QED  BY <2>2, <2>3, <2>4
<1> QED  BY <1>1, <1>2

LEMMA DotsOK ==
  ASSUME NEW d, DiskOK(d), NEW m, NEW i, NEW parent
  PROVE  DiskOK(Dots(d, m, i, parent).d)
<1>1. CASE m.type # "dir"
  <2>1. Dots(d, m, i, parent) = [d |-> d, m |-> m, ok |-> TRUE]
    BY <1>1 DEF Dots
  <2> QED  BY <2>1
<1>2. CASE ~(m.type # "dir")
  <2>1. PICK r : r = Dirlink(d, m, i, ".", i)
    OBVIOUS
  <2> DEFINE F(x) == IF x.ok THEN Dirlink(x.d, x.m, i, "..", parent) ELSE x
  <2>2. Dots(d, m, i, parent) = CHOOSE y \in {F(x) : x \in {r}} : TRUE
    BY <1>2, <2>1 DEF Dots, With
  <2>3. DiskOK(r.d)
    BY <2>1, DirlinkOK
  <2>4. DiskOK(F(r).d)
    BY <2>3, DirlinkOK
  <2> HIDE DEF F
  <2>5. {F(x) : x \in {r}} = {F(r)}
    OBVIOUS
  <2> QED  BY <2>2, <2>4, <2>5
<1> QED  BY <1>1, <1>2


\* Every call leaves the table whole, and end_op() makes it durable.
LEMMA StepDisk ==
  ASSUME DiskInv, NEW p \in Procs, Step(p)
  PROVE  DiskInv'
<1>1. DiskOK(disk) /\ DiskOK(durable)
  BY DEF DiskInv
<1>2. ASSUME disk' = disk, durable' \in {disk, durable} PROVE DiskInv'
  BY <1>1, <1>2 DEF DiskInv
<1>3. ASSUME DiskOK(disk'), durable' = durable PROVE DiskInv'
  BY <1>1, <1>3 DEF DiskInv
<1>4. ASSUME IputTrunc(p) PROVE DiskInv'
  <2>1. PICK i, m : disk' = disk \/ disk' = Iupdate(Itrunc(disk, i, m).d, i, Fresh("free"))
    BY <1>4 DEF IputTrunc
  <2>2. DiskOK(disk')
    BY <1>1, <2>1, ItruncOK, IupdateOK
  <2> QED  BY <1>3, <1>4, <2>2 DEF IputTrunc
<1>5. ASSUME CreateDir(p) PROVE DiskInv'
  <2>1. PICK i, m : disk' = disk \/ disk' = Iupdate(disk, i, m)
    BY <1>5 DEF CreateDir, Iupdate
  <2>2. DiskOK(disk')
    BY <1>1, <2>1, IupdateOK
  <2> QED  BY <1>3, <1>5, <2>2 DEF CreateDir, world
<1>6. ASSUME CreateNew(p) PROVE DiskInv'
  <2>1. PICK a, b, l, m : 
          /\ a = Dots(Iupdate(disk, l.ip, m), m, l.ip, l.dp)
          /\ b = IF a.ok THEN Dirlink(a.d, ino[l.dp].n, l.dp, l.name, l.ip)
                 ELSE [d |-> a.d, m |-> ino[l.dp].n, ok |-> FALSE]
          /\ \E i, n : disk' = Iupdate(b.d, i, n)
    BY <1>6 DEF CreateNew
  <2>2. DiskOK(a.d)
    BY <1>1, <2>1, IupdateOK, DotsOK
  <2>3. DiskOK(b.d)
    BY <2>1, <2>2, DirlinkOK
  <2>4. DiskOK(disk')
    BY <2>1, <2>3, IupdateOK
  <2> QED  BY <1>3, <1>6, <2>4 DEF CreateNew
<1>7. ASSUME OpenDone(p) PROVE DiskInv'
  <2>1. PICK i, m : disk' = disk \/ disk' = Itrunc(disk, i, m).d
    BY <1>7 DEF OpenDone
  <2>2. DiskOK(disk')
    BY <1>1, <2>1, ItruncOK
  <2> QED  BY <1>3, <1>7, <2>2 DEF OpenDone, world
<1>8. ASSUME LinkIp(p) \/ LinkBad(p) \/ UnlinkDrop(p) PROVE DiskInv'
  <2>1. PICK i, m : disk' = disk \/ disk' = Iupdate(disk, i, m)
    BY <1>8 DEF LinkIp, LinkBad, UnlinkDrop
  <2>2. DiskOK(disk')
    BY <1>1, <2>1, IupdateOK
  <2> QED  BY <1>3, <1>8, <2>2 DEF LinkIp, LinkBad, UnlinkDrop, world
<1>9. ASSUME LinkDir(p) PROVE DiskInv'
  <2>1. PICK m, i, n, k : disk' = Dirlink(disk, m, i, n, k).d
    BY <1>9 DEF LinkDir
  <2>2. DiskOK(disk')
    BY <1>1, <2>1, DirlinkOK
  <2> QED  BY <1>3, <1>9, <2>2 DEF LinkDir
<1>10. ASSUME UnlinkIp(p) PROVE DiskInv'
  <2>1. PICK m, i, off, k, n : disk' = disk \/ disk' = Iupdate(Writei(disk, m, i, off, <<Zero>>, TRUE).d, k, n)
    BY <1>10 DEF UnlinkIp, ClearEntry
  <2>2. DiskOK(Writei(disk, m, i, off, <<Zero>>, TRUE).d)
    BY <1>1, WriteiOK
  <2>3. DiskOK(disk')
    <3>1. PICK d : d = Writei(disk, m, i, off, <<Zero>>, TRUE).d
      OBVIOUS
    <3>2. DiskOK(Iupdate(d, k, n))
      BY <2>2, <3>1, IupdateOK
    <3> QED  BY <1>1, <2>1, <3>1, <3>2, Zenon
  <2> QED  BY <1>3, <1>10, <2>3 DEF UnlinkIp
<1>11. ASSUME Write(p) PROVE DiskInv'
  <2>1. PICK m, i, off, data, ok : disk' = Writei(disk, m, i, off, data, ok).d
    <3>1. PICK w : disk' = w.d /\ w \in {Writei(disk, Load(file[loc[p].f].ip), file[loc[p].f].ip, file[loc[p].f].off,
                      SubSeq(loc[p].rest, 1, Min({Len(loc[p].rest), WMAX})), Call(p).ok)}
      BY <1>11, Zenon DEF Write
    <3> QED  BY <3>1
  <2>2. DiskOK(disk')
    BY <1>1, <2>1, WriteiOK
  <2> QED  BY <1>3, <1>11, <2>2 DEF Write, world
<1>12. ASSUME \/ NoType(p) \/ IputStart(p) \/ IputLast(p) \/ EndCall(p) \/ NamexDone(p) \/ NamexStep(p) \/ PathCall(p)
              \/ CreateOld(p) \/ CreateDone(p) \/ UnlockDp(p) \/ OpenLock(p) \/ OpenAlloc(p) \/ UnlinkDir(p)
       PROVE  DiskInv'
  BY <1>2, <1>12 DEF NoType, IputStart, IputLast, EndCall, EndOp, NamexDone, NamexStep, PathCall,
       CreateOld, CreateDone, UnlockDp, OpenLock, OpenAlloc, UnlinkDir, world
<1>13. ASSUME \/ ChdirIp(p) \/ BadFd(p) \/ Close(p) \/ Dup(p) \/ FileCall(p) \/ Read(p) \/ WriteMore(p) \/ WriteBegin(p)
              \/ Fork(p) \/ Exit(p) \/ Wait(p) \/ Reclaim(p) \/ ReclaimLoad(p) \/ ReclaimEnd(p)
       PROVE  DiskInv'
  BY <1>2, <1>13 DEF ChdirIp, BadFd, Close, FileClose, Dup, FileCall, Read, WriteMore, WriteBegin, EndOp,
       Fork, Exit, Wait, Reclaim, ReclaimLoad, ReclaimEnd, world
<1> QED  BY <1>4, <1>5, <1>6, <1>7, <1>8, <1>9, <1>10, <1>11, <1>12, <1>13 DEF Step

-----------------------------------------------------------------------------
(* The recovery                                                            *)

\* Only inode s is referenced, once; nothing if s is 0.
OnlyRef(t, s) == \A i \in Inums : t[i].ref = Bit(i = s)

\* ireclaim() with locals l at label c, on table t and disk d: the inodes before the one
\* it works on, s, have no orphan among them, and s itself is one until iput() frees it.
\* That needs ilock() to read s from the disk (the entry was not valid) and iput() to
\* find the only reference.
Recovers(l, c, t, d, stopped) ==
  LET s == l.scan IN
  /\ s \in Inums \cup {0}
  /\ \A i \in Inums : i < s => ~Orphan(d.dino[i])
  /\ c \in {"boot", "reclaim_end"} => OnlyRef(t, 0) /\ (s # 0 => ~Orphan(d.dino[s]))
  /\ c = "reclaim" => s # 0 /\ l.ip = s /\ OnlyRef(t, s) /\ t[s].valid = FALSE /\ Orphan(d.dino[s])
  /\ c \in Putting => s # 0 /\ l.puts = <<s>> /\ OnlyRef(t, s)
  /\ c = "put" => t[s].valid /\ t[s].n.nlink = 0
  /\ c = "put_last" => stopped # "none" \/ ~Orphan(d.dino[s])
  /\ c = "up" => \A i \in Inums : ~Orphan(d.dino[i])
RecoverInv == Alone => Recovers(loc[1], pc[1], ino, disk, panic)

LEMMA BootAlone ==
  ASSUME Alone, NEW p \in Procs
  PROVE  /\ pc[1] \in Boot \cup Putting
         /\ p # 1 => pc[p] = "unused"
  BY DEF Alone, Eff

\* While it runs, nothing else does.
LEMMA BootSteps ==
  ASSUME Alone, NEW p \in Procs, Step(p)
  PROVE  \/ NoType(p)
         \/ p = 1 /\ (IputStart(1) \/ IputTrunc(1) \/ IputLast(1) \/ Reclaim(1) \/ ReclaimLoad(1) \/ ReclaimEnd(1))
<1>1. pc[p] \in Boot \cup Putting \cup {"unused"} /\ (p # 1 => pc[p] = "unused")
  BY BootAlone
<1>2. pc[p] \in {"boot", "reclaim", "reclaim_end", "up", "put", "put_free", "put_last", "unused"}
  BY <1>1 DEF Boot, Putting
<1>3. /\ ~EndCall(p) /\ ~NamexDone(p) /\ ~NamexStep(p) /\ ~PathCall(p) /\ ~CreateDir(p) /\ ~CreateOld(p)
      /\ ~CreateNew(p) /\ ~CreateDone(p) /\ ~UnlockDp(p) /\ ~OpenLock(p) /\ ~OpenAlloc(p) /\ ~OpenDone(p)
  BY <1>2 DEF EndCall, NamexDone, NamexStep, PathCall, CreateDir, CreateOld, CreateNew, CreateDone, UnlockDp,
       OpenLock, OpenAlloc, OpenDone, Ilock, Calls, At
<1>4. /\ ~LinkIp(p) /\ ~LinkDir(p) /\ ~LinkBad(p) /\ ~UnlinkDir(p) /\ ~UnlinkIp(p) /\ ~UnlinkDrop(p) /\ ~ChdirIp(p)
      /\ ~BadFd(p) /\ ~Close(p) /\ ~Dup(p) /\ ~FileCall(p) /\ ~Read(p)
  BY <1>2 DEF LinkIp, LinkDir, LinkBad, UnlinkDir, UnlinkIp, UnlinkDrop, ChdirIp, BadFd, Close, Dup, FileCall, Read,
       Ilock, Calls, At
<1>5. ~Write(p) /\ ~WriteMore(p) /\ ~WriteBegin(p) /\ ~Fork(p) /\ ~Exit(p) /\ ~Wait(p)
  BY <1>2 DEF Write, WriteMore, WriteBegin, Fork, Exit, Wait, Ilock, Calls, At
<1>6. NoType(p) \/ IputStart(p) \/ IputTrunc(p) \/ IputLast(p) \/ Reclaim(p) \/ ReclaimLoad(p) \/ ReclaimEnd(p)
  BY <1>3, <1>4, <1>5 DEF Step
<1>7. ASSUME pc[p] = "unused"
      PROVE  ~IputStart(p) /\ ~IputTrunc(p) /\ ~IputLast(p) /\ ~Reclaim(p) /\ ~ReclaimLoad(p) /\ ~ReclaimEnd(p)
  BY <1>7 DEF IputStart, IputTrunc, IputLast, Reclaim, ReclaimLoad, ReclaimEnd, Ilock, At
<1> QED  BY <1>1, <1>6, <1>7

\* What is known of the recovery.
LEMMA AtBoot ==
  ASSUME IInv, Alone
  PROVE  /\ 1 \in Procs /\ DOMAIN loc[1] = LocFields /\ Tab(ino) /\ DOMAIN loc = Procs /\ DOMAIN pc = Procs
         /\ pc[1] \in Putting => loc[1].then = "reclaim_end"
<1>1. 1 \in Procs
  BY Bounds
<1>2. LocOK(loc[1], pc[1]) /\ DOMAIN loc = Procs /\ DOMAIN pc = Procs /\ Tab(ino)
  BY <1>1 DEF IInv, LocInv, RefInv
<1>3. pc[1] \in Putting => loc[1].then \in Boot /\ loc[1].then \in Thens
  BY <1>2 DEF Alone, Eff, LocOK, PutsShape
<1> QED  BY <1>1, <1>2, <1>3 DEF LocOK, Boot, Thens

LEMMA ReclaimRecovers ==
  ASSUME IInv, Alone, Recovers(loc[1], pc[1], ino, disk, panic), Reclaim(1)
  PROVE  Recovers(loc'[1], pc'[1], ino', disk', panic')
<1>1. PICK s, S : s = loc[1].scan /\ S = {i \in Inums : i > s /\ Orphan(disk.dino[i])}
  OBVIOUS
<1>2. pc[1] = "boot" /\ disk' = disk
  BY DEF Reclaim, At
<1>3. s \in Inums \cup {0} /\ OnlyRef(ino, 0) /\ \A i \in Inums : i <= s => ~Orphan(disk.dino[i])
  <2>1. /\ s \in Inums \cup {0} /\ OnlyRef(ino, 0) /\ (s # 0 => ~Orphan(disk.dino[s]))
        /\ \A i \in Inums : i < s => ~Orphan(disk.dino[i])
    BY <1>1, <1>2 DEF Recovers
  <2>2. \A i \in Inums : i <= s => i < s \/ (i = s /\ s # 0)
    BY <2>1, Bounds
  <2> QED  BY <2>1, <2>2
<1>4. 1 \in Procs /\ Tab(ino) /\ DOMAIN loc = Procs /\ DOMAIN pc = Procs
  BY AtBoot
<1>5. CASE S # {}
  <2>1. PICK x : x = Min(S)
    OBVIOUS
  <2>2. x \in S /\ \A i \in S : x <= i
    BY <1>1, <1>5, <2>1, Bounds, Least
  <2>3. x \in Inums /\ Orphan(disk.dino[x]) /\ x # 0 /\ x \in Nat
    BY <1>1, <2>2, Bounds
  <2>4. ASSUME NEW i \in Inums, i < x PROVE ~Orphan(disk.dino[i])
    BY <1>1, <1>3, <2>2, <2>3, <2>4, Bounds
  <2>5. ino' = Iget(ino, x) /\ loc'[1] = [NoLoc EXCEPT !.ip = x, !.scan = x] /\ pc'[1] = "reclaim"
    BY <1>1, <1>4, <1>5, <2>1 DEF Reclaim, Keep, Goto
  <2>6. loc'[1].ip = x /\ loc'[1].scan = x
    BY <2>5 DEF NoLoc
  <2>7. OnlyRef(ino', x)
    <3>1. Got(ino', ino, x)
      BY <1>4, <2>5, IgetFacts
    <3> QED  BY <1>3, <2>3, <3>1, Bounds DEF OnlyRef, Got, Bit
  <2>8. ino'[x].valid = FALSE
    <3>1. ino[x].ref = 0
      BY <1>3, <2>3 DEF OnlyRef, Bit
    <3>2. x \in DOMAIN ino /\ "valid" \in DOMAIN ino[x] /\ "ref" \in DOMAIN ino[x]
      BY <1>4, <2>3 DEF Tab, InoFields
    <3>3. ino'[x].valid = (ino[x].valid /\ ino[x].ref > 0)
      BY <2>5, <3>2 DEF Iget
    <3>4. ~(ino[x].ref > 0)
      BY <3>1
    <3> QED  BY <3>3, <3>4, Zenon
  <2> QED  BY <1>2, <2>3, <2>4, <2>5, <2>6, <2>7, <2>8 DEF Recovers, Putting
<1>6. CASE S = {}
  <2>1. loc'[1] = loc[1] /\ pc'[1] = "up"
    BY <1>1, <1>4, <1>6 DEF Reclaim, Goto
  <2>2. \A i \in Inums : ~Orphan(disk.dino[i])
    BY <1>1, <1>3, <1>6, Bounds
  <2> QED  BY <1>1, <1>2, <1>3, <2>1, <2>2 DEF Recovers, Putting
<1> QED  BY <1>5, <1>6

LEMMA ReclaimLoadRecovers ==
  ASSUME IInv, Alone, Recovers(loc[1], pc[1], ino, disk, panic), ReclaimLoad(1)
  PROVE  Recovers(loc'[1], pc'[1], ino', disk', panic')
<1>1. PICK s : s = loc[1].scan
  OBVIOUS
<1>2. pc[1] = "reclaim" /\ disk' = disk
  BY DEF ReclaimLoad, Ilock, At
<1>3. /\ s \in Inums /\ loc[1].ip = s /\ OnlyRef(ino, s) /\ ino[s].valid = FALSE /\ Orphan(disk.dino[s]) /\ s # 0
      /\ \A i \in Inums : i < s => ~Orphan(disk.dino[i])
  BY <1>1, <1>2 DEF Recovers
<1>4. 1 \in Procs /\ Tab(ino) /\ DOMAIN loc = Procs /\ DOMAIN pc = Procs /\ DOMAIN loc[1] = LocFields
  BY AtBoot
<1>5. ino' = Hold(ino, 0, s, disk.dino[s])
  BY <1>3 DEF ReclaimLoad, Load
<1>6. pc'[1] = "put" /\ loc'[1] = PutThen([loc[1] EXCEPT !.ip = 0], s, "reclaim_end")
  BY <1>3, <1>4 DEF ReclaimLoad, Goto, Keep
<1>7. loc'[1].puts = <<s>> /\ loc'[1].scan = s
  BY <1>1, <1>4, <1>6 DEF PutThen, LocFields
<1>8. OnlyRef(ino', s)
  BY <1>3, <1>4, <1>5, HoldFacts DEF OnlyRef, Locked
<1>9. ino'[s].valid /\ ino'[s].n.nlink = 0
  BY <1>3, <1>4, <1>5 DEF Hold, Tab, InoFields, Orphan
<1> QED  BY <1>2, <1>3, <1>6, <1>7, <1>8, <1>9 DEF Recovers

LEMMA ReclaimEndRecovers ==
  ASSUME IInv, Alone, Recovers(loc[1], pc[1], ino, disk, panic), ReclaimEnd(1)
  PROVE  Recovers(loc'[1], pc'[1], ino', disk', panic')
<1>1. 1 \in Procs /\ DOMAIN pc = Procs
  BY AtBoot
<1>2. pc[1] = "reclaim_end" /\ pc'[1] = "boot" /\ loc' = loc /\ disk' = disk /\ ino' = ino
  BY <1>1 DEF ReclaimEnd, At, Goto
<1> QED  BY <1>2 DEF Recovers, Putting

\* iput() finds the only reference and no link.
LEMMA IputStartRecovers ==
  ASSUME IInv, Alone, Recovers(loc[1], pc[1], ino, disk, panic), IputStart(1)
  PROVE  Recovers(loc'[1], pc'[1], ino', disk', panic')
<1>1. PICK s : s = loc[1].scan
  OBVIOUS
<1>2. pc[1] = "put" /\ disk' = disk
  BY DEF IputStart, At
<1>3. /\ s \in Inums /\ loc[1].puts = <<s>> /\ OnlyRef(ino, s) /\ ino[s].valid /\ ino[s].n.nlink = 0 /\ s # 0
      /\ \A i \in Inums : i < s => ~Orphan(disk.dino[i])
  BY <1>1, <1>2 DEF Recovers, Putting
<1>4. 1 \in Procs /\ Tab(ino) /\ DOMAIN pc = Procs
  BY AtBoot
<1>5. Head(loc[1].puts) = s
  BY <1>3
<1>6. Unused(s)
  BY <1>3 DEF Unused, OnlyRef, Bit
<1>7. loc' = loc
  BY <1>5, <1>6 DEF IputStart
<1>8. CASE ino[s].lock = 0
  <2>1. ino' = [ino EXCEPT ![s].lock = 1] /\ pc'[1] = "put_free"
    BY <1>4, <1>5, <1>6, <1>8 DEF IputStart, Goto
  <2>2. OnlyRef(ino', s)
    BY <1>3, <1>4, <2>1, LockFacts DEF OnlyRef, Locked
  <2> QED  BY <1>1, <1>2, <1>3, <1>7, <2>1, <2>2 DEF Recovers
<1>9. CASE ino[s].lock # 0
  <2>1. ino' = ino /\ pc' = pc
    BY <1>5, <1>6, <1>9 DEF IputStart
  <2> QED  BY <1>1, <1>2, <1>3, <1>7, <2>1 DEF Recovers
<1> QED  BY <1>8, <1>9

LEMMA IputTruncRecovers ==
  ASSUME IInv, DiskInv, Alone, Recovers(loc[1], pc[1], ino, disk, panic), IputTrunc(1)
  PROVE  Recovers(loc'[1], pc'[1], ino', disk', panic')
<1>1. PICK s, m : s = loc[1].scan /\ m = ino[s].n
  OBVIOUS
<1>2. pc[1] = "put_free" /\ loc' = loc
  BY DEF IputTrunc, At
<1>3. /\ s \in Inums /\ loc[1].puts = <<s>> /\ OnlyRef(ino, s) /\ s # 0
      /\ \A i \in Inums : i < s => ~Orphan(disk.dino[i])
  BY <1>1, <1>2 DEF Recovers, Putting
<1>4. 1 \in Procs /\ Tab(ino) /\ DOMAIN pc = Procs
  BY AtBoot
<1>5. Head(loc[1].puts) = s
  BY <1>3
<1>6. ino' = IputFree(ino, s) /\ pc'[1] = "put_last"
  BY <1>4, <1>5 DEF IputTrunc, Goto
<1>7. OnlyRef(ino', s)
  BY <1>3, <1>4, <1>6, IputFreeFacts DEF OnlyRef, Locked
<1>8. /\ \A i \in Inums : i < s => ~Orphan(disk'.dino[i])
      /\ panic' # "none" \/ ~Orphan(disk'.dino[s])
  <2>1. CASE disk' = disk /\ panic' = "freeing free block"
    BY <1>3, <2>1
  <2>2. CASE disk' = Iupdate(Itrunc(disk, s, m).d, s, Fresh("free"))
    <3>1. PICK d : d = Itrunc(disk, s, m).d
      OBVIOUS
    <3>2. DiskOK(d) /\ \A i \in Inums : i # s => d.dino[i] = disk.dino[i]
      BY <3>1, ItruncOK DEF DiskInv
    <3>3. \A i \in Inums : disk'.dino[i] = IF i = s THEN Fresh("free") ELSE d.dino[i]
      BY <2>2, <3>1, <3>2, IupdateOK
    <3>4. ~Orphan(Fresh("free"))
      BY DEF Orphan, Fresh
    <3>5. \A i \in Inums : i < s => i # s
      BY <1>3, Bounds
    <3> QED  BY <1>3, <3>2, <3>3, <3>4, <3>5
  <2> QED  BY <1>1, <1>5, <2>1, <2>2 DEF IputTrunc
<1> QED  BY <1>1, <1>2, <1>3, <1>6, <1>7, <1>8 DEF Recovers

LEMMA IputLastRecovers ==
  ASSUME IInv, Alone, Recovers(loc[1], pc[1], ino, disk, panic), IputLast(1)
  PROVE  Recovers(loc'[1], pc'[1], ino', disk', panic')
<1>1. PICK s : s = loc[1].scan
  OBVIOUS
<1>2. pc[1] = "put_last" /\ disk' = disk /\ panic = "none"
  BY DEF IputLast, At
<1>3. /\ s \in Inums /\ loc[1].puts = <<s>> /\ OnlyRef(ino, s) /\ s # 0 /\ ~Orphan(disk.dino[s])
      /\ \A i \in Inums : i < s => ~Orphan(disk.dino[i])
  BY <1>1, <1>2 DEF Recovers, Putting
<1>4. 1 \in Procs /\ Tab(ino) /\ DOMAIN pc = Procs /\ DOMAIN loc = Procs /\ DOMAIN loc[1] = LocFields
      /\ loc[1].then = "reclaim_end"
  BY <1>2, AtBoot DEF Putting
<1>5. Head(loc[1].puts) = s /\ Len(loc[1].puts) = 1
  BY <1>3
<1>6. ino' = [ino EXCEPT ![s].ref = @ - 1] /\ pc'[1] = "reclaim_end" /\ loc'[1] = [loc[1] EXCEPT !.puts = Tail(@)]
  BY <1>4, <1>5 DEF IputLast, Goto, Keep
<1>7. loc'[1].scan = s
  BY <1>1, <1>4, <1>6 DEF LocFields
<1>8. OnlyRef(ino', 0)
  <2>1. Dropped(ino', ino, s)
    BY <1>4, <1>6, DropFacts
  <2> QED  BY <1>3, <2>1, Bounds DEF OnlyRef, Dropped, Bit
<1> QED  BY <1>2, <1>3, <1>6, <1>7, <1>8 DEF Recovers, Putting

LEMMA RecoverKeeps ==
  ASSUME IInv, DiskInv, RecoverInv, [Next]_vars
  PROVE  RecoverInv'
<1>1. Normal => ~Alone
  BY Bounds DEF Normal, Alone
<1>2. ASSUME NEW p \in Procs, Step(p) PROVE RecoverInv'
  <2>1. CASE Normal
    <3>1. Normal'
      BY <1>2, <2>1, StepKeeps
    <3> QED  BY <3>1, Bounds DEF Normal, Alone, RecoverInv
  <2>2. CASE Alone
    <3>1. Recovers(loc[1], pc[1], ino, disk, panic)
      BY <2>2 DEF RecoverInv
    <3>2. CASE NoType(p)
      <4>1. loc' = loc /\ pc' = pc /\ ino' = ino /\ disk' = disk /\ panic' # "none"
        BY <3>2 DEF NoType
      <4>2. Recovers(loc'[1], pc'[1], ino', disk', panic')
        BY <3>1, <4>1 DEF Recovers
      <4> QED  BY <4>2 DEF RecoverInv
    <3>3. CASE p = 1 /\ (IputStart(1) \/ IputTrunc(1) \/ IputLast(1) \/ Reclaim(1) \/ ReclaimLoad(1) \/ ReclaimEnd(1))
      <4>1. Recovers(loc'[1], pc'[1], ino', disk', panic')
        BY <2>2, <3>1, <3>3, IputStartRecovers, IputTruncRecovers, IputLastRecovers, ReclaimRecovers, ReclaimLoadRecovers,
           ReclaimEndRecovers
      <4> QED  BY <4>1 DEF RecoverInv
    <3> QED  BY <1>2, <2>2, <3>2, <3>3, BootSteps
  <2> QED  BY <2>1, <2>2 DEF IInv
<1>3. CASE Crash
  <2>1. loc'[1] = NoLoc /\ pc'[1] = "boot" /\ \A i \in Inums : ino'[i].ref = 0
    BY <1>3, Bounds DEF Crash
  <2>2. OnlyRef(ino', 0)
    BY <2>1, Bounds DEF OnlyRef, Bit
  <2>3. loc'[1].scan = 0
    BY <2>1 DEF NoLoc
  <2>4. \A i \in Inums : ~(i < 0)
    BY Bounds
  <2>5. Recovers(loc'[1], pc'[1], ino', disk', panic')
    BY <2>1, <2>2, <2>3, <2>4 DEF Recovers, Putting
  <2> QED  BY <2>5 DEF RecoverInv
<1>4. CASE UNCHANGED vars
  <2>1. loc' = loc /\ pc' = pc /\ ino' = ino /\ disk' = disk /\ panic' = panic
    BY <1>4 DEF vars
  <2> QED  BY <2>1 DEF RecoverInv, Alone
<1> QED  BY <1>2, <1>3, <1>4 DEF Next, Stop

LEMMA DiskKeeps ==
  ASSUME DiskInv, [Next]_vars
  PROVE  DiskInv'
<1>1. CASE \E p \in Procs : Step(p)
  BY <1>1, StepDisk
<1>2. CASE Crash
  BY <1>2 DEF Crash, DiskInv
<1>3. CASE UNCHANGED vars
  BY <1>3 DEF vars, DiskInv
<1> QED  BY <1>1, <1>2, <1>3 DEF Next, Stop

\* After a crash at any moment and the recovery of ireclaim(), no inode without a name
\* is left on the disk: files that were open and unlinked are free again.
THEOREM FsOrphansReclaimed == Spec => []OrphansReclaimed
<1>1. Init => DiskInv /\ RecoverInv
  <2>1. ASSUME Init PROVE DiskInv
    BY <2>1, DiskAssumption DEF Init, DiskInv, DiskOK
  <2>2. ASSUME Init PROVE RecoverInv
    <3>1. pc[1] = "user"
      BY <2>2, Bounds DEF Init
    <3> QED  BY <3>1 DEF RecoverInv, Alone, Eff, Putting, Boot
  <2> QED  BY <2>1, <2>2
<1>2. IInv /\ DiskInv /\ RecoverInv /\ [Next]_vars => (DiskInv /\ RecoverInv)'
  BY DiskKeeps, RecoverKeeps
<1>3. ASSUME IInv, RecoverInv PROVE OrphansReclaimed
  <2>1. SUFFICES ASSUME NEW p \in Procs, pc[p] = "up", NEW i \in Inums PROVE ~Orphan(disk.dino[i])
    BY DEF OrphansReclaimed, Allocated, Orphan
  <2>2. Alone
    BY <1>3, <2>1 DEF IInv, Normal, Eff, Putting, Boot
  <2>3. pc[1] = "up"
    BY <2>1, <2>2 DEF Alone
  <2> QED  BY <1>3, <2>2, <2>3 DEF RecoverInv, Recovers
<1> QED  BY <1>1, <1>2, <1>3, FsInvariant, PTL DEF Spec
=============================================================================
