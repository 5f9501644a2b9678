------------------------------ MODULE VmProofs ------------------------------
(***************************************************************************)
(* Proofs about Vm for every size of memory, of page tables and of pages,  *)
(* every number of processes and every set of programs that fit below the  *)
(* trapframe.                                                              *)
(***************************************************************************)
EXTENDS Vm, FiniteSetTheorems, SequenceTheorems, WellFoundedInduction, TLAPS

\* The pages below TRAPFRAME, which a process may use.
LowPages == 0..TRAPFRAME - 1

Pte == [pa : 0..NPAGES + 1, perm : SUBSET {"u", "w", "x"}]
Table == [tab : [Tables -> 0..NPAGES], pte : [VPages -> Pte]]
Contents == {"junk", "zero", "w2", "w3", "text", "data", "args"}

Locals == [a : Nat, new : Nat, np : Procs \cup {0}, npt : Table, nsz : Nat, segs : Seq(SUBSET {"u", "w", "x"})]

\* Types.
TypeOK ==
  /\ free \subseteq Pages
  /\ mem \in [Pages -> Contents]
  /\ pt \in [Procs -> Table]
  /\ tf \in [Procs -> 0..NPAGES]
  /\ sz \in [Procs -> Nat]
  /\ st \in [Procs -> {"unused", "used", "run", "zombie"}]
  /\ par \in [Procs -> Procs \cup {0}]
  /\ pc \in [Procs -> {"none", "user", "forkret", "grow", "copyin", "copyout", "copy", "load"}]
  /\ loc \in [Procs -> Locals]
  /\ calls \in Nat

\* The pages that a table holds, and that it holds each in one place.
PagesOf(t) == Freewalk(t) \cup Mapped(t, LowPages)
TableOK(t) ==
  /\ \A k, l \in Tables : t.tab[k] # 0 /\ t.tab[k] = t.tab[l] => k = l
  /\ \A v, w \in LowPages : t.pte[v].pa # 0 /\ t.pte[v].pa = t.pte[w].pa => v = w
  /\ \A k \in Tables, v \in LowPages : t.tab[k] # 0 => t.tab[k] # t.pte[v].pa
  /\ \A v \in LowPages : t.pte[v].pa # Trampoline
  /\ \A v \in VPages : t.pte[v].pa = 0 \/ v \notin LowPages => "u" \notin t.pte[v].perm

\* Who has pages: a process its trapframe and its page table, exec() a new one.
Owners == {"tf", "pt", "new"} \X Procs
PageOf(x) == {x} \ {0}
Own(T, P, L) == [o \in Owners |->
  CASE o[1] = "tf" -> PageOf(T[o[2]])
    [] o[1] = "pt" -> PagesOf(P[o[2]])
    [] o[1] = "new" -> PagesOf(L[o[2]].npt)]

\* Each page is free or has one owner.
Partition(own, f) ==
  /\ \A o \in Owners : own[o] \subseteq Pages \ f
  /\ \A o, q \in Owners : o # q => own[o] \cap own[q] = {}
  /\ \A k \in Pages \ f : \E o \in Owners : k \in own[o]

OwnInv ==
  /\ Partition(Own(tf, pt, loc), free)
  /\ \A p \in Procs : TableOK(pt[p]) /\ TableOK(loc[p].npt)

\* Which processes are in a call, and what they have there: fork() a child that is
\* nobody else's, exec() alone a new table.
CtlInv ==
  \A p \in Procs :
    /\ st[p] = "run" <=> pc[p] # "none"
    /\ st[p] = "unused" => pt[p] = NoTable /\ tf[p] = 0
    /\ st[p] \in {"unused", "used"} => sz[p] = 0
    /\ pc[p] # "load" => loc[p].npt = NoTable
    /\ pc[p] = "copy" =>
         /\ loc[p].np \in Procs /\ st[loc[p].np] = "used"
         /\ \A q \in Procs \ {p} : pc[q] = "copy" => loc[q].np # loc[p].np

\* A process has a trapframe.
TfInv == \A p \in Procs : st[p] # "unused" => tf[p] # 0

\* Sizes stay below TRAPFRAME, also the ones that sbrk() and exec() work towards.
SizeInv ==
  \A p \in Procs :
    /\ Pg(sz[p]) <= TRAPFRAME
    /\ pc[p] = "grow" =>
         /\ sz[p] <= loc[p].new /\ loc[p].new <= MaxSz
         /\ Pg(sz[p]) <= loc[p].a /\ loc[p].a <= Pg(loc[p].new)
    /\ pc[p] = "copy" => loc[p].a <= Pg(sz[p])
    /\ pc[p] = "load" =>
         /\ Pg(loc[p].nsz) <= loc[p].a /\ loc[p].a <= Pg(loc[p].nsz) + USERSTACK + 1
         /\ loc[p].segs # <<>> => loc[p].a = Pg(loc[p].nsz)
         /\ Pg(loc[p].nsz) + Len(loc[p].segs) + USERSTACK + 1 <= TRAPFRAME

\* Nothing is mapped from page a on.
EmptyFrom(t, a) == \A v \in LowPages : v >= a => t.pte[v].pa = 0

\* What a loop has not reached, and what is beyond the size, is not mapped.
MapInv ==
  \A p \in Procs :
    /\ st[p] \in {"run", "zombie"} /\ pc[p] # "grow" => EmptyFrom(pt[p], Pg(sz[p]))
    /\ pc[p] = "grow" => EmptyFrom(pt[p], loc[p].a)
    /\ pc[p] = "copy" => EmptyFrom(pt[loc[p].np], loc[p].a)
    /\ pc[p] = "load" => EmptyFrom(loc[p].npt, loc[p].a)

\* Only init's exec() can run out of memory in a way that stops the kernel.
PanicInv == panic \in {"none", "exec"}

IInv == TypeOK /\ OwnInv /\ CtlInv /\ TfInv /\ SizeInv /\ MapInv /\ PanicInv

\* What pages hold, with contents m.  Text is not writable.
TextOf(t, m) == \A v \in LowPages : t.pte[v].pa # 0 /\ "w" \in t.pte[v].perm => m[t.pte[v].pa] # "text"

\* The pages from a on are zeros.
ZeroFrom(t, m, a) == \A v \in LowPages : v >= a /\ t.pte[v].pa # 0 => m[t.pte[v].pa] = "zero"

\* The pages below a are the same in both tables.
SameBelow(t, u, m, a) ==
  \A v \in LowPages : v < a =>
    /\ t.pte[v].pa = 0 <=> u.pte[v].pa = 0
    /\ t.pte[v].pa # 0 => m[t.pte[v].pa] = m[u.pte[v].pa]

\* exec() has loaded what comes before the remaining segments of program s.
Loaded(l, m, s) ==
  /\ Len(s) = Pg(l.nsz) + Len(l.segs)
  /\ \A k \in 1..Len(l.segs) : l.segs[k] = s[Pg(l.nsz) + k]
  /\ \A v \in LowPages : v < l.a =>
       /\ l.npt.pte[v].pa # 0
       /\ m[l.npt.pte[v].pa] = IF v >= Pg(l.nsz) THEN "zero"
                               ELSE IF "w" \in s[v + 1] THEN "data" ELSE "text"

\* A process with table t, size n and locals l, that is at c.
DataOf(t, n, l, c, m) ==
  /\ TextOf(t, m) /\ TextOf(l.npt, m)
  /\ c = "grow" => ZeroFrom(t, m, Pg(n))
  /\ c = "load" => \E s \in Segments : Loaded(l, m, s)

\* The new pages of a process that grows are zeros, the pages that fork() has passed are
\* the same in parent and child, and those that exec() has passed are the program's.
DataInv ==
  \A p \in Procs :
    /\ DataOf(pt[p], sz[p], loc[p], pc[p], mem)
    /\ pc[p] = "copy" => SameBelow(pt[p], pt[loc[p].np], mem, loc[p].a)
-----------------------------------------------------------------------------
(* Numbers, and the operators of kalloc.c and vm.c.                        *)

\* What \div gives.
LEMMA DivFacts ==
  ASSUME NEW a \in Nat, NEW b \in Nat \ {0}
  PROVE  /\ a \div b \in Nat /\ b * (a \div b) <= a /\ a < b * (a \div b) + b
         /\ \A c \in Nat : a < c * b => a \div b < c
<1>1. a \div b \in Nat /\ b * (a \div b) <= a /\ a < b * (a \div b) + b
  OBVIOUS
<1>2. ASSUME NEW c \in Nat, a < c * b, a \div b >= c PROVE FALSE
  <2>1. PICK q \in Nat : q = a \div b
    BY <1>1
  <2>2. b * q >= b * c
    BY <1>2, <2>1
  <2> QED  BY <1>1, <1>2, <2>1, <2>2
<1> QED  BY <1>1, <1>2

LEMMA TimesMonotone ==
  ASSUME NEW a \in Nat, NEW b \in Nat, NEW c \in Nat, a <= b
  PROVE  a * c <= b * c
  OBVIOUS

\* PGROUNDUP: the pages that begin below n.
LEMMA PgBelow ==
  ASSUME NEW n \in Nat
  PROVE  Pg(n) \in Nat /\ \A v \in Nat : v < Pg(n) <=> v * PGSIZE < n
<1>1. PGSIZE \in Nat \ {0}
  BY VmAssumption
<1>2. PICK q \in Nat : q = Pg(n) /\ PGSIZE * q <= n + PGSIZE - 1 /\ n + PGSIZE - 1 < PGSIZE * q + PGSIZE
  BY <1>1, DivFacts DEF Pg
<1>3. ASSUME NEW v \in Nat, v < q PROVE v * PGSIZE < n
  <2>1. (v + 1) * PGSIZE <= q * PGSIZE
    BY <1>1, <1>3, TimesMonotone
  <2>2. (v + 1) * PGSIZE = v * PGSIZE + PGSIZE /\ q * PGSIZE = PGSIZE * q /\ v * PGSIZE \in Nat
    BY <1>1
  <2> QED  BY <1>1, <1>2, <2>1, <2>2
<1>4. ASSUME NEW v \in Nat, ~(v < q) PROVE ~(v * PGSIZE < n)
  <2>1. q * PGSIZE <= v * PGSIZE
    BY <1>1, <1>4, TimesMonotone
  <2>2. q * PGSIZE = PGSIZE * q /\ v * PGSIZE \in Nat /\ PGSIZE * q \in Nat
    BY <1>1
  <2> QED  BY <1>1, <1>2, <2>1, <2>2
<1> QED  BY <1>2, <1>3, <1>4

\* Rounding keeps the order, and is exact for whole pages.
LEMMA PgOrder ==
  ASSUME NEW n \in Nat, NEW m \in Nat, n <= m
  PROVE  Pg(n) <= Pg(m)
<1> SUFFICES ASSUME Pg(m) < Pg(n) PROVE FALSE
  BY PgBelow
<1>1. Pg(m) \in Nat /\ Pg(n) \in Nat
  BY PgBelow
<1>2. PICK k \in Nat : k = Pg(m) /\ k * PGSIZE \in Nat
  BY <1>1, VmAssumption
<1>3. k * PGSIZE < n /\ ~(k * PGSIZE < m)
  BY <1>1, <1>2, PgBelow
<1> QED  BY <1>2, <1>3

LEMMA PgWhole ==
  ASSUME NEW k \in Nat
  PROVE  k * PGSIZE \in Nat /\ Pg(k * PGSIZE) = k
<1>1. k * PGSIZE \in Nat /\ PGSIZE \in Nat \ {0}
  BY VmAssumption
<1>2. PICK q \in Nat : q = Pg(k * PGSIZE)
  BY <1>1, PgBelow
<1>3. CASE q < k
  <2>1. (q + 1) * PGSIZE <= k * PGSIZE /\ (q + 1) * PGSIZE = q * PGSIZE + PGSIZE /\ q * PGSIZE \in Nat
    BY <1>1, <1>3, TimesMonotone
  <2>2. q * PGSIZE < k * PGSIZE
    BY <1>1, <2>1
  <2> QED  BY <1>1, <1>2, <2>2, PgBelow
<1>4. CASE k < q
  BY <1>1, <1>2, <1>4, PgBelow
<1> QED  BY <1>1, <1>2, <1>3, <1>4

\* Page table sizes.
LEMMA Bounds ==
  /\ NPAGES \in Nat \ {0} /\ PGSIZE \in Nat \ {0} /\ USERSTACK \in Nat \ {0} /\ NPROC \in Nat \ {0}
  /\ MAXVA \in Nat /\ TRAPFRAME \in Nat /\ TRAPFRAME = MAXVA - 2 /\ TRAMPOLINE = MAXVA - 1
  /\ TRAPFRAME >= 1
  /\ Pages \subseteq Nat /\ 0 \notin Pages /\ Pages \cup {0} = 0..NPAGES /\ IsFiniteSet(Pages)
  /\ LowPages \subseteq VPages /\ TRAPFRAME \in VPages /\ TRAMPOLINE \in VPages
  /\ Trampoline \notin Pages /\ Trampoline # 0
  /\ TRAPFRAME \notin LowPages /\ TRAMPOLINE \notin LowPages
<1>1. PICK f \in Nat : f = FAN /\ f >= 2
  BY VmAssumption
<1>2. f * f \in Nat /\ f * f >= 4
  BY <1>1
<1>3. (f * f) * f \in Nat /\ (f * f) * f >= 8
  BY <1>1, <1>2
<1>4. MAXVA \in Nat /\ MAXVA >= 8
  BY <1>1, <1>3 DEF MAXVA
<1>5. IsFiniteSet(Pages)
  BY FS_Interval, VmAssumption DEF Pages
<1> QED  BY <1>4, <1>5, VmAssumption DEF TRAPFRAME, TRAMPOLINE, Pages, LowPages, VPages, Trampoline

\* The tables on the way to a page.
LEMMA WalkTables ==
  ASSUME NEW v \in VPages
  PROVE  <<1, v \div (FAN * FAN)>> \in Tables /\ <<0, v \div FAN>> \in Tables
<1>1. FAN \in Nat \ {0} /\ FAN * FAN \in Nat \ {0} /\ v \in Nat /\ v < FAN * FAN * FAN
  BY VmAssumption, Bounds DEF VPages, MAXVA
<1>2. FAN * FAN * FAN = FAN * (FAN * FAN) /\ FAN * FAN * FAN = (FAN * FAN) * FAN
  BY <1>1
<1>3. v \div (FAN * FAN) \in Nat /\ v \div (FAN * FAN) < FAN
  BY <1>1, <1>2, DivFacts
<1>4. v \div FAN \in Nat /\ v \div FAN < FAN * FAN
  BY <1>1, <1>2, DivFacts
<1>5. v \div (FAN * FAN) \in 0..FAN - 1 /\ v \div FAN \in 0..FAN * FAN - 1
  BY <1>1, <1>3, <1>4
<1> QED  BY <1>5 DEF Tables

\* Min of FiniteSetsExt, on a set of numbers.
LEMMA LeastPage ==
  ASSUME NEW S, S \subseteq Nat, S # {}
  PROVE  Min(S) \in S /\ \A x \in S : Min(S) <= x
<1> DEFINE Less == {p \in Nat \X Nat : p[1] < p[2]}
<1>1. IsWellFoundedOn(Less, Nat)
  BY NatLessThanWellFounded DEF OpToRel
<1>2. PICK x \in S : \A y \in S : ~(<<y, x>> \in Less)
  <2> HIDE DEF Less
  <2> QED  BY <1>1, WFMin, Zenon
<1>3. ASSUME NEW y \in S PROVE x <= y
  <2>1. x \in Nat /\ y \in Nat
    OBVIOUS
  <2>2. y < x => <<y, x>> \in Less
    BY <2>1
  <2> QED  BY <1>2, <2>1, <2>2
<1>4. \E y \in S : \A z \in S : y <= z
  BY <1>3
<1> QED  BY <1>4 DEF Min

\* kalloc() takes a page off the free list, or fails if there is none.
LEMMA KallocFacts ==
  ASSUME NEW f, f \subseteq Pages
  PROVE  /\ f = {} => Kalloc(f) = 0
         /\ f # {} => Kalloc(f) \in f /\ Kalloc(f) \in Pages /\ Kalloc(f) # 0
  BY Bounds, LeastPage DEF Kalloc
\* Where the pages of a table are.
LEMMA InPages ==
  ASSUME NEW t, NEW x
  PROVE  x \in PagesOf(t) <=>
           x # 0 /\ ((\E k \in Tables : t.tab[k] = x) \/ (\E v \in LowPages : t.pte[v].pa = x))
  BY DEF PagesOf, Freewalk, Mapped

\* The records that the operators of vm.c take and return.
IsRun(r) == r = [i \in DOMAIN r |-> r[i]] /\ {"f", "t", "ok", "panic"} \subseteq DOMAIN r

\* r has a free list and a table without common pages.
Good(r) ==
  /\ IsRun(r) /\ r.f \subseteq Pages /\ r.t \in Table /\ TableOK(r.t)
  /\ r.f \cap PagesOf(r.t) = {} /\ r.ok \in BOOLEAN

\* s is r after some page table pages have been taken from the free list.
Walked(r, s) ==
  /\ DOMAIN s = DOMAIN r
  /\ s.f \subseteq r.f /\ PagesOf(s.t) = PagesOf(r.t) \cup (r.f \ s.f)
  /\ s.t.pte = r.t.pte
  /\ s.panic = r.panic /\ ("m" \in DOMAIN r => s.m = r.m)
  /\ s.ok => r.ok

LEMMA WalkedTrans ==
  ASSUME NEW r, NEW s, NEW u, Walked(r, s), Walked(s, u)
  PROVE  Walked(r, u)
<1>1. u.f \subseteq r.f /\ PagesOf(u.t) = PagesOf(r.t) \cup (r.f \ u.f)
  BY DEF Walked
<1> QED  BY <1>1 DEF Walked

\* A table page is added to a table.
LEMMA AddTable ==
  ASSUME NEW t \in Table, TableOK(t), NEW k \in Tables, t.tab[k] = 0, NEW x \in Pages,
         x \notin PagesOf(t)
  PROVE  LET u == [t EXCEPT !.tab[k] = x] IN
         u \in Table /\ TableOK(u) /\ PagesOf(u) = PagesOf(t) \cup {x} /\ u.pte = t.pte
<1> DEFINE u == [t EXCEPT !.tab[k] = x]
<1>1. u.pte = t.pte /\ u.tab = [t.tab EXCEPT ![k] = x]
  BY DEF Table
<1>2. u.tab[k] = x /\ \A l \in Tables : l # k => u.tab[l] = t.tab[l]
  BY <1>1 DEF Table
<1>3. x # 0 /\ x \in 0..NPAGES
  BY Bounds
<1>4. u \in Table
  BY <1>1, <1>3 DEF Table
<1>5. (\A l \in Tables : t.tab[l] # x) /\ (\A v \in LowPages : t.pte[v].pa # x)
  BY <1>3, InPages
<1> HIDE DEF u
<1>6. TableOK(u)
  BY <1>1, <1>2, <1>5 DEF TableOK
<1>7. \A y : y \in PagesOf(u) <=> y \in PagesOf(t) \cup {x}
  <2> SUFFICES ASSUME NEW y PROVE y \in PagesOf(u) <=> y \in PagesOf(t) \cup {x}
    OBVIOUS
  <2>1. (\E v \in LowPages : u.pte[v].pa = y) <=> (\E v \in LowPages : t.pte[v].pa = y)
    BY <1>1
  <2>2. y # 0 => ((\E l \in Tables : u.tab[l] = y) <=> (y = x \/ \E l \in Tables : t.tab[l] = y))
    BY <1>2
  <2>3. y \in PagesOf(u) <=>
          y # 0 /\ ((\E l \in Tables : u.tab[l] = y) \/ (\E v \in LowPages : u.pte[v].pa = y))
    BY InPages
  <2>4. y \in PagesOf(t) <=>
          y # 0 /\ ((\E l \in Tables : t.tab[l] = y) \/ (\E v \in LowPages : t.pte[v].pa = y))
    BY InPages
  <2> QED  BY <1>3, <2>1, <2>2, <2>3, <2>4
<1> QED  BY <1>1, <1>4, <1>6, <1>7 DEF u

\* One level of walk().
LEMMA LevelWalks ==
  ASSUME NEW r, Good(r), NEW k \in Tables
  PROVE  Good(Level(r, k)) /\ Walked(r, Level(r, k))
<1>1. CASE ~r.ok \/ r.t.tab[k] # 0
  <2>1. Level(r, k) = r
    BY <1>1 DEF Level
  <2> QED  BY <2>1 DEF Walked
<1>2. CASE r.ok /\ r.t.tab[k] = 0 /\ Kalloc(r.f) = 0
  <2> DEFINE s == [r EXCEPT !.ok = FALSE]
  <2>1. Level(r, k) = s
    BY <1>2 DEF Level
  <2>2. /\ DOMAIN s = DOMAIN r /\ s = [i \in DOMAIN s |-> s[i]] /\ s.f = r.f /\ s.t = r.t /\ s.ok = FALSE
        /\ s.panic = r.panic /\ ("m" \in DOMAIN r => s.m = r.m)
    BY DEF Good, IsRun
  <2> HIDE DEF s
  <2> QED  BY <2>1, <2>2 DEF Good, Walked, IsRun
<1>3. CASE r.ok /\ r.t.tab[k] = 0 /\ Kalloc(r.f) # 0
  <2>1. PICK x \in Pages : x = Kalloc(r.f) /\ x \in r.f
    BY <1>3, KallocFacts DEF Good
  <2> DEFINE s == [r EXCEPT !.f = @ \ {x}, !.t.tab[k] = x]
             u == [r.t EXCEPT !.tab[k] = x]
  <2>2. Level(r, k) = s
    BY <1>3, <2>1 DEF Level
  <2>3. /\ DOMAIN s = DOMAIN r /\ s = [i \in DOMAIN s |-> s[i]] /\ s.f = r.f \ {x} /\ s.t = u /\ s.ok = r.ok
        /\ s.panic = r.panic /\ ("m" \in DOMAIN r => s.m = r.m)
    BY DEF Good, IsRun
  <2>4. u \in Table /\ TableOK(u) /\ PagesOf(u) = PagesOf(r.t) \cup {x} /\ u.pte = r.t.pte
    BY <1>3, <2>1, AddTable DEF Good
  <2> HIDE DEF s, u
  <2>5. s.f \cap PagesOf(s.t) = {} /\ PagesOf(s.t) = PagesOf(r.t) \cup (r.f \ s.f)
    BY <2>1, <2>3, <2>4 DEF Good
  <2> QED  BY <2>2, <2>3, <2>4, <2>5 DEF Good, Walked, IsRun
<1> QED  BY <1>1, <1>2, <1>3

\* walk()
LEMMA WalkWalks ==
  ASSUME NEW r, Good(r), NEW v \in VPages
  PROVE  Good(Walk(r, v)) /\ Walked(r, Walk(r, v))
  BY WalkTables, LevelWalks, WalkedTrans DEF Walk

\* A page is mapped at v in a table.
Put(t, v, x, perm) == [t EXCEPT !.pte[v] = [pa |-> x, perm |-> perm]]

\* One of the process's own memory.
LEMMA AddPage ==
  ASSUME NEW t \in Table, TableOK(t), NEW v \in LowPages, t.pte[v].pa = 0, NEW x \in Pages,
         x \notin PagesOf(t), NEW perm \in SUBSET {"u", "w", "x"}
  PROVE  /\ Put(t, v, x, perm) \in Table /\ TableOK(Put(t, v, x, perm))
         /\ PagesOf(Put(t, v, x, perm)) = PagesOf(t) \cup {x}
<1> DEFINE e == [pa |-> x, perm |-> perm]
<1>0. PICK u : u = [t EXCEPT !.pte[v] = e] /\ u = Put(t, v, x, perm)
  BY DEF Put
<1>1. u.tab = t.tab /\ u.pte = [t.pte EXCEPT ![v] = e]
  BY <1>0 DEF Table
<1>2. v \in VPages /\ e.pa = x /\ e.perm = perm
  BY Bounds
<1>3. x # 0 /\ x \in 0..NPAGES + 1 /\ x # Trampoline
  BY Bounds DEF Pages, Trampoline
<1>4. e \in Pte
  BY <1>2, <1>3 DEF Pte
<1>5. u \in Table
  BY <1>0, <1>1, <1>2, <1>4 DEF Table
<1> HIDE DEF e
<1>6. (\A l \in Tables : t.tab[l] # x) /\ (\A w \in LowPages : t.pte[w].pa # x)
  BY <1>3, InPages
<1>7. u.pte[v] = e /\ \A w \in VPages : w # v => u.pte[w] = t.pte[w]
  BY <1>1, <1>2 DEF Table
<1>8. LowPages \subseteq VPages
  BY Bounds
<1>9. TableOK(u)
  <2>1. \A k, l \in Tables : u.tab[k] # 0 /\ u.tab[k] = u.tab[l] => k = l
    BY <1>1 DEF TableOK
  <2>2. \A w, z \in LowPages : u.pte[w].pa # 0 /\ u.pte[w].pa = u.pte[z].pa => w = z
    BY <1>2, <1>6, <1>7, <1>8 DEF TableOK
  <2>3. \A k \in Tables, w \in LowPages : u.tab[k] # 0 => u.tab[k] # u.pte[w].pa
    BY <1>1, <1>2, <1>6, <1>7, <1>8 DEF TableOK
  <2>4. \A w \in LowPages : u.pte[w].pa # Trampoline
    BY <1>2, <1>3, <1>7, <1>8 DEF TableOK
  <2>5. \A w \in VPages : u.pte[w].pa = 0 \/ w \notin LowPages => "u" \notin u.pte[w].perm
    BY <1>2, <1>3, <1>7 DEF TableOK
  <2> QED  BY <2>1, <2>2, <2>3, <2>4, <2>5 DEF TableOK
<1>10. \A y : y \in PagesOf(u) <=> y \in PagesOf(t) \cup {x}
  <2> SUFFICES ASSUME NEW y PROVE y \in PagesOf(u) <=> y \in PagesOf(t) \cup {x}
    OBVIOUS
  <2>1. y # 0 => ((\E w \in LowPages : u.pte[w].pa = y) <=> (y = x \/ \E w \in LowPages : t.pte[w].pa = y))
    BY <1>2, <1>7, <1>8
  <2>2. y \in PagesOf(u) <=>
          y # 0 /\ ((\E l \in Tables : u.tab[l] = y) \/ (\E w \in LowPages : u.pte[w].pa = y))
    BY InPages
  <2>3. y \in PagesOf(t) <=>
          y # 0 /\ ((\E l \in Tables : t.tab[l] = y) \/ (\E w \in LowPages : t.pte[w].pa = y))
    BY InPages
  <2> QED  BY <1>1, <1>3, <2>1, <2>2, <2>3
<1>11. PagesOf(u) = PagesOf(t) \cup {x}
  BY <1>10
<1> QED  BY <1>0, <1>1, <1>5, <1>9, <1>11 DEF e
\* The loop body of uvmalloc() and uvmcopy(), and vmfault(): a page is mapped at v, or
\* nothing is; walk() may have added page table pages in both cases.
Added(r, f, m, t, v, perm, x) ==
  /\ r.panic = "none" /\ r.ok \in BOOLEAN
  /\ r.f \subseteq f /\ r.t \in Table /\ TableOK(r.t) /\ PagesOf(r.t) = PagesOf(t) \cup (f \ r.f)
  /\ r.ok => \E pa \in f \ r.f : /\ r.t.pte = [t.pte EXCEPT ![v] = [pa |-> pa, perm |-> perm]]
                                 /\ r.m = [m EXCEPT ![pa] = x]
  /\ ~r.ok => r.t.pte = t.pte /\ r.m = m

LEMMA MapNewFacts ==
  ASSUME NEW f, f \subseteq Pages, NEW t \in Table, TableOK(t), f \cap PagesOf(t) = {},
         NEW v \in LowPages, t.pte[v].pa = 0, NEW perm \in SUBSET {"u", "w", "x"}, NEW m, NEW x,
         m \in [Pages -> Contents]
  PROVE  Added(MapNew(f, m, t, v, perm, x), f, m, t, v, perm, x)
<1> DEFINE pa == Kalloc(f)
           b == [f |-> f \ {pa}, m |-> m, t |-> t, ok |-> TRUE, panic |-> "none"]
           w == Walk(b, v)
           y == Mappages(b, v, pa, perm)
           r == MapNew(f, m, t, v, perm, x)
           e == [pa |-> pa, perm |-> perm]
<1>1. CASE pa = 0
  <2>1. r = [f |-> f, m |-> m, t |-> t, ok |-> FALSE, panic |-> "none"]
    BY <1>1 DEF MapNew
  <2> HIDE DEF r, Added
  <2>2. r.f = f /\ r.t = t /\ r.ok = FALSE /\ r.panic = "none" /\ r.m = m
    BY <2>1
  <2>3. PagesOf(r.t) = PagesOf(t) \cup (f \ r.f)
    BY <2>2
  <2> QED  BY <2>2, <2>3 DEF r, Added
<1>2. CASE pa # 0
  <2>1. pa \in f /\ pa \in Pages
    BY <1>2, KallocFacts
  <2>2. /\ b.f = f \ {pa} /\ b.t = t /\ b.ok = TRUE /\ b.panic = "none" /\ b.m = m
        /\ DOMAIN b = {"f", "m", "t", "ok", "panic"} /\ b = [i \in DOMAIN b |-> b[i]]
    OBVIOUS
  <2>3. v \in VPages
    BY Bounds
  <2> HIDE DEF b, pa
  <2>4. Good(b)
    BY <2>2 DEF Good, IsRun
  <2>5. Good(w) /\ Walked(b, w)
    BY <2>3, <2>4, WalkWalks
  <2>6. /\ w.f \subseteq f \ {pa} /\ PagesOf(w.t) = PagesOf(t) \cup ((f \ {pa}) \ w.f)
        /\ w.t.pte = t.pte /\ w.panic = "none" /\ w.m = m /\ w.t \in Table /\ TableOK(w.t) /\ w.ok \in BOOLEAN
        /\ DOMAIN w = {"f", "m", "t", "ok", "panic"} /\ w = [i \in DOMAIN w |-> w[i]]
    BY <2>2, <2>5 DEF Walked, Good, IsRun
  <2>7. y = IF ~w.ok THEN w ELSE [w EXCEPT !.t.pte[v] = e]
    BY <2>6 DEF Mappages
  <2>8. r = IF ~y.ok THEN Unmapped(y, pa) ELSE [y EXCEPT !.m[pa] = x]
    BY <1>2 DEF MapNew, b, pa
  <2> HIDE DEF w, y, r
  <2>9. CASE ~w.ok
    <3>1. r = [w EXCEPT !.f = @ \cup {pa}]
      BY <2>7, <2>8, <2>9 DEF Unmapped
    <3>2. r.f = w.f \cup {pa} /\ r.t = w.t /\ r.ok = w.ok /\ r.panic = w.panic /\ r.m = w.m
      BY <2>6, <3>1
    <3>3. r.f \subseteq f /\ f \ r.f = (f \ {pa}) \ w.f
      BY <2>1, <2>6, <3>2
    <3> QED  BY <2>6, <2>9, <3>2, <3>3 DEF r, Added
  <2>10. CASE w.ok
    <3> DEFINE u == Put(w.t, v, pa, perm)
    <3>1. y = [w EXCEPT !.t = u]
      BY <2>6, <2>7, <2>10 DEF e, Put
    <3> HIDE DEF u
    <3>2. /\ y.f = w.f /\ y.t = u /\ y.ok = w.ok /\ y.panic = w.panic /\ y.m = m
          /\ DOMAIN y = {"f", "m", "t", "ok", "panic"} /\ y = [i \in DOMAIN y |-> y[i]]
      BY <2>6, <3>1
    <3>3. r = [y EXCEPT !.m[pa] = x]
      BY <2>8, <2>10, <3>2
    <3>4. r.f = w.f /\ r.t = u /\ r.ok = w.ok /\ r.panic = "none" /\ r.m = [m EXCEPT ![pa] = x]
      BY <2>6, <3>2, <3>3
    <3>5. pa \notin PagesOf(w.t)
      BY <2>1, <2>6
    <3>6. u \in Table /\ TableOK(u) /\ PagesOf(u) = PagesOf(w.t) \cup {pa} /\ u.pte = [w.t.pte EXCEPT ![v] = e]
      <4>1. PICK tt \in Table : tt = w.t /\ TableOK(tt) /\ tt.pte[v].pa = 0 /\ pa \notin PagesOf(tt)
        BY <2>6, <3>5
      <4>2. PICK q \in Pages : q = pa
        BY <2>1
      <4>3. q \notin PagesOf(tt)
        BY <4>1, <4>2
      <4> HIDE DEF e
      <4>4. /\ Put(tt, v, q, perm) \in Table /\ TableOK(Put(tt, v, q, perm))
            /\ PagesOf(Put(tt, v, q, perm)) = PagesOf(tt) \cup {q}
        BY <4>1, <4>3, AddPage
      <4>5. Put(tt, v, q, perm).pte = [tt.pte EXCEPT ![v] = [pa |-> q, perm |-> perm]]
        BY <2>3 DEF Put, Table
      <4> QED  BY <4>1, <4>2, <4>4, <4>5 DEF u, e
    <3> HIDE DEF u, e
    <3>7. PagesOf(u) = PagesOf(t) \cup (f \ w.f) /\ pa \in f \ w.f
      <4>1. PICK X, Y, F : X = PagesOf(u) /\ Y = PagesOf(t) /\ F = w.f
        OBVIOUS
      <4>2. X = Y \cup ((f \ {pa}) \ F) \cup {pa} /\ F \subseteq f \ {pa}
        BY <2>6, <3>6, <4>1
      <4> QED  BY <2>1, <4>1, <4>2
    <3>8. u.pte = [t.pte EXCEPT ![v] = e]
      BY <2>6, <3>6
    <3> QED  BY <2>6, <2>10, <3>4, <3>6, <3>7, <3>8 DEF r, e, Added
  <2> QED  BY <2>6, <2>9, <2>10
<1> QED  BY <1>1, <1>2

\* Other pages are as before.
LEMMA AddedElsewhere ==
  ASSUME NEW f, NEW m, NEW t \in Table, NEW v, NEW perm, NEW x,
         NEW r, Added(r, f, m, t, v, perm, x)
  PROVE  \A w \in VPages : w # v => r.t.pte[w] = t.pte[w]
<1>1. CASE r.ok
  <2>1. PICK pa \in f \ r.f : /\ r.t.pte = [t.pte EXCEPT ![v] = [pa |-> pa, perm |-> perm]]
                             /\ r.m = [m EXCEPT ![pa] = x]
    BY <1>1 DEF Added
  <2>2. t.pte \in [VPages -> Pte]
    BY DEF Table
  <2>3. \A w \in VPages : w # v => r.t.pte[w] = t.pte[w]
    BY <2>1, <2>2
  <2> QED  BY <2>3
<1>2. CASE ~r.ok
  BY <1>2 DEF Added
<1> QED  BY <1>1, <1>2 DEF Added

LEMMA AddedContents ==
  ASSUME NEW f, NEW m \in [Pages -> Contents], NEW t, NEW v, NEW perm, NEW x \in Contents,
         NEW r, Added(r, f, m, t, v, perm, x)
  PROVE  r.m \in [Pages -> Contents]
  BY DEF Added

\* A page at or above TRAPFRAME is mapped: it is not one of the table's own.
LEMMA AddHighPage ==
  ASSUME NEW t \in Table, TableOK(t), NEW v \in VPages \ LowPages, NEW x \in 0..NPAGES + 1,
         NEW perm \in SUBSET {"w", "x"}
  PROVE  /\ Put(t, v, x, perm) \in Table /\ TableOK(Put(t, v, x, perm))
         /\ PagesOf(Put(t, v, x, perm)) = PagesOf(t)
         /\ \A w \in LowPages : Put(t, v, x, perm).pte[w] = t.pte[w]
<1> DEFINE e == [pa |-> x, perm |-> perm]
<1>0. PICK u : u = [t EXCEPT !.pte[v] = e] /\ u = Put(t, v, x, perm)
  BY DEF Put
<1>1. u.tab = t.tab /\ u.pte = [t.pte EXCEPT ![v] = e]
  BY <1>0 DEF Table
<1>2. e \in Pte /\ e.perm = perm /\ LowPages \subseteq VPages
  BY Bounds DEF Pte
<1>3. u \in Table
  BY <1>0, <1>1, <1>2 DEF Table
<1> HIDE DEF e
<1>4. \A w \in VPages : u.pte[w] = IF w = v THEN e ELSE t.pte[w]
  BY <1>1 DEF Table
<1>5. \A w \in LowPages : u.pte[w] = t.pte[w]
  BY <1>2, <1>4
<1>6. TableOK(u)
  BY <1>1, <1>2, <1>4, <1>5 DEF TableOK
<1>7. \A y : y \in PagesOf(u) <=> y \in PagesOf(t)
  <2> SUFFICES ASSUME NEW y PROVE y \in PagesOf(u) <=> y \in PagesOf(t)
    OBVIOUS
  <2>1. y \in PagesOf(u) <=>
          y # 0 /\ ((\E l \in Tables : u.tab[l] = y) \/ (\E w \in LowPages : u.pte[w].pa = y))
    BY InPages
  <2>2. y \in PagesOf(t) <=>
          y # 0 /\ ((\E l \in Tables : t.tab[l] = y) \/ (\E w \in LowPages : t.pte[w].pa = y))
    BY InPages
  <2> QED  BY <1>1, <1>5, <2>1, <2>2
<1>8. PagesOf(u) = PagesOf(t)
  BY <1>7
<1> QED  BY <1>0, <1>3, <1>5, <1>6, <1>8

\* mappages() of the trampoline or the trapframe in a new table.
MapsHigh(r, s, v) ==
  /\ Good(s) /\ s.panic = "none" /\ s.f \subseteq r.f /\ PagesOf(s.t) = PagesOf(r.t) \cup (r.f \ s.f)
  /\ \A w \in VPages : w # v => s.t.pte[w] = r.t.pte[w]
  /\ s.ok => r.ok

LEMMA MapHigh ==
  ASSUME NEW r, Good(r), r.panic = "none", NEW v \in VPages \ LowPages, r.t.pte[v].pa = 0,
         NEW x \in 0..NPAGES + 1, NEW perm \in SUBSET {"w", "x"}, NEW s, s = Mappages(r, v, x, perm)
  PROVE  MapsHigh(r, s, v)
<1> DEFINE w == Walk(r, v)
           e == [pa |-> x, perm |-> perm]
<1>1. Good(w) /\ Walked(r, w)
  BY WalkWalks
<1>2. /\ w.f \subseteq r.f /\ PagesOf(w.t) = PagesOf(r.t) \cup (r.f \ w.f) /\ w.t.pte = r.t.pte
      /\ w.panic = "none" /\ w.t \in Table /\ TableOK(w.t) /\ w.ok \in BOOLEAN /\ IsRun(w) /\ (w.ok => r.ok)
      /\ w.f \cap PagesOf(w.t) = {}
  BY <1>1 DEF Walked, Good
<1>3. s = IF ~w.ok THEN w ELSE [w EXCEPT !.t.pte[v] = e]
  BY <1>2 DEF Mappages
<1> HIDE DEF w
<1>4. CASE ~w.ok
  <2>1. s = w
    BY <1>3, <1>4
  <2> QED  BY <1>1, <1>2, <2>1 DEF MapsHigh
<1>5. CASE w.ok
  <2> DEFINE u == Put(w.t, v, x, perm)
  <2>1. s = [w EXCEPT !.t = u]
    BY <1>2, <1>3, <1>5 DEF IsRun, e, Put
  <2> HIDE DEF u
  <2>2. s.f = w.f /\ s.t = u /\ s.ok = w.ok /\ s.panic = "none" /\ IsRun(s)
    BY <1>2, <2>1 DEF IsRun
  <2>3. u \in Table /\ TableOK(u) /\ PagesOf(u) = PagesOf(w.t)
    <3>1. PICK tt \in Table : tt = w.t /\ TableOK(tt)
      BY <1>2
    <3>2. /\ Put(tt, v, x, perm) \in Table /\ TableOK(Put(tt, v, x, perm))
          /\ PagesOf(Put(tt, v, x, perm)) = PagesOf(tt)
      BY <3>1, AddHighPage
    <3> QED  BY <3>1, <3>2 DEF u
  <2>4. \A z \in VPages : z # v => u.pte[z] = w.t.pte[z]
    BY <1>2 DEF Table, u, Put
  <2> HIDE DEF u
  <2>5. Good(s)
    BY <1>1, <1>2, <2>2, <2>3 DEF Good
  <2> QED  BY <1>2, <2>2, <2>3, <2>4, <2>5 DEF MapsHigh
<1> QED  BY <1>2, <1>4, <1>5
\* The pages of a table are pages of memory.
LEMMA PagesArePages ==
  ASSUME NEW t \in Table, TableOK(t)
  PROVE  PagesOf(t) \subseteq Pages
<1> SUFFICES ASSUME NEW x, x \in PagesOf(t) PROVE x \in Pages
  OBVIOUS
<1>1. x # 0 /\ ((\E k \in Tables : t.tab[k] = x) \/ (\E v \in LowPages : t.pte[v].pa = x))
  BY InPages
<1>2. ASSUME NEW k \in Tables, t.tab[k] = x PROVE x \in Pages
  BY <1>1, <1>2, Bounds DEF Table
<1>3. ASSUME NEW v \in LowPages, t.pte[v].pa = x PROVE x \in Pages
  <2>1. v \in VPages /\ x # Trampoline
    BY <1>3, Bounds DEF TableOK
  <2>2. x \in 0..NPAGES + 1
    BY <1>3, <2>1 DEF Table, Pte
  <2> QED  BY <1>1, <2>1, <2>2, Bounds DEF Pages, Trampoline
<1> QED  BY <1>1, <1>2, <1>3

\* A table without entries.
LEMMA NoTableFacts ==
  /\ NoTable \in Table /\ TableOK(NoTable) /\ PagesOf(NoTable) = {}
  /\ \A v \in VPages : NoTable.pte[v].pa = 0
<1>1. /\ NoTable.tab = [k \in Tables |-> 0] /\ NoTable.pte = [v \in VPages |-> NoPte]
      /\ NoPte.pa = 0 /\ NoPte.perm = {} /\ NoPte \in Pte
  BY Bounds DEF NoTable, NoPte, Pte
<1>2. NoTable \in Table
  BY <1>1, Bounds DEF NoTable, Table
<1>3. LowPages \subseteq VPages /\ Trampoline # 0
  BY Bounds
<1>4. /\ \A k \in Tables : NoTable.tab[k] = 0
      /\ \A v \in VPages : NoTable.pte[v] = NoPte
  BY <1>1
<1>5. TableOK(NoTable)
  BY <1>1, <1>3, <1>4 DEF TableOK
<1>6. ASSUME NEW x, x \in PagesOf(NoTable) PROVE FALSE
  BY <1>1, <1>3, <1>4, <1>6, InPages
<1>7. PagesOf(NoTable) = {}
  BY <1>6
<1> QED  BY <1>1, <1>2, <1>4, <1>5, <1>7

\* proc_pagetable() gives a table with none of the process's memory, or nothing.
LEMMA ProcPagetableFacts ==
  ASSUME NEW f, f \subseteq Pages, NEW tp \in 0..NPAGES, NEW r, r = ProcPagetable(f, tp)
  PROVE  /\ r.f \subseteq f /\ r.t \in Table /\ TableOK(r.t) /\ PagesOf(r.t) = f \ r.f
         /\ EmptyFrom(r.t, 0) /\ r.ok \in BOOLEAN
<1>1. CASE r = [f |-> f, t |-> NoTable, ok |-> FALSE, panic |-> "none"]
  <2>1. r.f = f /\ r.t = NoTable /\ r.ok = FALSE
    BY <1>1
  <2> QED  BY <2>1, NoTableFacts, Bounds DEF EmptyFrom
<1>2. CASE r # [f |-> f, t |-> NoTable, ok |-> FALSE, panic |-> "none"]
  <2>1. PICK root : root = Kalloc(f)
    OBVIOUS
  <2>2. PICK b : b = [f |-> f \ {root}, t |-> [NoTable EXCEPT !.tab[Root] = root], ok |-> TRUE, panic |-> "none"]
    OBVIOUS
  <2>3. PICK c : c = Mappages(b, TRAMPOLINE, Trampoline, {"x"})
    OBVIOUS
  <2>4. root # 0 /\ c.ok /\ Mappages(c, TRAPFRAME, tp, {"w"}).ok /\ r = Mappages(c, TRAPFRAME, tp, {"w"})
    BY <1>2, <2>1, <2>2, <2>3 DEF ProcPagetable
  <2>5. root \in f /\ root \in Pages
    BY <2>1, <2>4, KallocFacts
  <2>6. PICK u : u = [NoTable EXCEPT !.tab[Root] = root]
    OBVIOUS
  <2>7. Root \in Tables /\ NoTable.tab[Root] = 0
    BY DEF Tables, NoTable
  <2>8. u \in Table /\ TableOK(u) /\ PagesOf(u) = {root} /\ u.pte = NoTable.pte
    BY <2>5, <2>6, <2>7, NoTableFacts, AddTable
  <2>9. b.f = f \ {root} /\ b.t = u /\ b.ok = TRUE /\ b.panic = "none" /\ IsRun(b)
    BY <2>2, <2>6 DEF IsRun
  <2>10. Good(b)
    BY <2>5, <2>8, <2>9 DEF Good
  <2>11. TRAMPOLINE \in VPages \ LowPages /\ TRAPFRAME \in VPages \ LowPages /\ TRAMPOLINE # TRAPFRAME
    BY Bounds
  <2>12. /\ Trampoline \in 0..NPAGES + 1 /\ tp \in 0..NPAGES + 1
         /\ {"w"} \in SUBSET {"w", "x"} /\ {"x"} \in SUBSET {"w", "x"}
    BY Bounds DEF Trampoline
  <2>13. b.t.pte[TRAMPOLINE].pa = 0 /\ b.t.pte[TRAPFRAME].pa = 0
    BY <2>8, <2>9, <2>11, NoTableFacts
  <2>14. /\ Good(c) /\ c.panic = "none" /\ c.f \subseteq b.f /\ PagesOf(c.t) = PagesOf(b.t) \cup (b.f \ c.f)
         /\ \A w \in VPages : w # TRAMPOLINE => c.t.pte[w] = b.t.pte[w]
    <3>1. MapsHigh(b, c, TRAMPOLINE)
      BY <2>3, <2>9, <2>10, <2>11, <2>12, <2>13, MapHigh
    <3> QED  BY <3>1 DEF MapsHigh
  <2>15. c.t.pte[TRAPFRAME].pa = 0
    BY <2>11, <2>13, <2>14
  <2>16. /\ Good(r) /\ r.f \subseteq c.f /\ PagesOf(r.t) = PagesOf(c.t) \cup (c.f \ r.f)
         /\ \A w \in VPages : w # TRAPFRAME => r.t.pte[w] = c.t.pte[w]
    <3>1. MapsHigh(c, r, TRAPFRAME)
      BY <2>4, <2>11, <2>12, <2>14, <2>15, MapHigh
    <3> QED  BY <3>1 DEF MapsHigh
  <2>17. PagesOf(r.t) = f \ r.f /\ r.f \subseteq f
    <3>1. PICK X, Y, F, G : X = PagesOf(r.t) /\ Y = PagesOf(c.t) /\ F = c.f /\ G = r.f
      OBVIOUS
    <3>2. Y = {root} \cup ((f \ {root}) \ F) /\ F \subseteq f \ {root} /\ X = Y \cup (F \ G) /\ G \subseteq F
      BY <2>8, <2>9, <2>14, <2>16, <3>1
    <3> QED  BY <2>5, <3>1, <3>2
  <2>18. EmptyFrom(r.t, 0)
    BY <2>8, <2>9, <2>11, <2>14, <2>16, NoTableFacts, Bounds DEF EmptyFrom
  <2> QED  BY <2>16, <2>17, <2>18 DEF Good
<1> QED  BY <1>1, <1>2

\* uvmunmap(): the pages that it frees are the ones that the table loses.
LEMMA UnmapFacts ==
  ASSUME NEW t \in Table, TableOK(t), NEW S \in SUBSET LowPages, NEW u, u = Uvmunmap(t, S)
  PROVE  /\ u \in Table /\ TableOK(u) /\ PagesOf(u) = PagesOf(t) \ Mapped(t, S)
         /\ Mapped(t, S) \subseteq PagesOf(t) /\ Mapped(t, S) \subseteq Pages
         /\ \A v \in VPages : u.pte[v] = IF v \in S THEN NoPte ELSE t.pte[v]
<1>1. u.tab = t.tab /\ u.pte = [v \in VPages |-> IF v \in S THEN NoPte ELSE t.pte[v]]
  BY DEF Uvmunmap, Table
<1>2. NoPte.pa = 0 /\ NoPte.perm = {} /\ NoPte \in Pte
  BY Bounds DEF NoPte, Pte
<1>3. u \in Table
  BY <1>1, <1>2 DEF Uvmunmap, Table
<1>4. \A v \in VPages : u.pte[v] = IF v \in S THEN NoPte ELSE t.pte[v]
  BY <1>1
<1>5. LowPages \subseteq VPages /\ Trampoline # 0
  BY Bounds
<1>6. TableOK(u)
  <2>1. \A k, l \in Tables : u.tab[k] # 0 /\ u.tab[k] = u.tab[l] => k = l
    BY <1>1 DEF TableOK
  <2>2. \A v, w \in LowPages : u.pte[v].pa # 0 /\ u.pte[v].pa = u.pte[w].pa => v = w
    BY <1>2, <1>4, <1>5 DEF TableOK
  <2>3. \A k \in Tables, v \in LowPages : u.tab[k] # 0 => u.tab[k] # u.pte[v].pa
    BY <1>1, <1>2, <1>4, <1>5 DEF TableOK
  <2>4. \A v \in LowPages : u.pte[v].pa # Trampoline
    BY <1>2, <1>4, <1>5 DEF TableOK
  <2>5. \A v \in VPages : u.pte[v].pa = 0 \/ v \notin LowPages => "u" \notin u.pte[v].perm
    BY <1>2, <1>4 DEF TableOK
  <2> QED  BY <2>1, <2>2, <2>3, <2>4, <2>5 DEF TableOK
<1>7. Mapped(t, S) \subseteq PagesOf(t)
  BY DEF PagesOf, Mapped
<1>8. ASSUME NEW x PROVE x \in PagesOf(u) <=> x \in PagesOf(t) /\ x \notin Mapped(t, S)
  <2>1. x \in PagesOf(u) <=>
          x # 0 /\ ((\E l \in Tables : u.tab[l] = x) \/ (\E w \in LowPages : u.pte[w].pa = x))
    BY InPages
  <2>2. x \in PagesOf(t) <=>
          x # 0 /\ ((\E l \in Tables : t.tab[l] = x) \/ (\E w \in LowPages : t.pte[w].pa = x))
    BY InPages
  <2>3. x \in Mapped(t, S) <=> x # 0 /\ \E w \in S : t.pte[w].pa = x
    BY DEF Mapped
  <2>4. x # 0 => ((\E w \in LowPages : u.pte[w].pa = x) <=> \E w \in LowPages : w \notin S /\ t.pte[w].pa = x)
    BY <1>2, <1>4, <1>5
  <2>5. ASSUME x # 0, NEW w \in S, t.pte[w].pa = x, NEW l \in Tables, t.tab[l] = x PROVE FALSE
    BY <2>5 DEF TableOK
  <2>6. ASSUME x # 0, NEW w \in S, t.pte[w].pa = x, NEW y \in LowPages, y \notin S, t.pte[y].pa = x PROVE FALSE
    BY <2>6 DEF TableOK
  <2> QED  BY <1>1, <2>1, <2>2, <2>3, <2>4, <2>5, <2>6
<1>9. PagesOf(u) = PagesOf(t) \ Mapped(t, S)
  BY <1>8
<1> QED  BY <1>3, <1>4, <1>6, <1>7, <1>9, PagesArePages

\* proc_freepagetable() frees everything if the size covers what is mapped, and
\* freewalk() then meets no leaf.
LEMMA FreeFacts ==
  ASSUME NEW t, NEW n, Pg(n) \in Nat, Pg(n) <= TRAPFRAME, EmptyFrom(t, Pg(n))
  PROVE  FreePages(t, n) = PagesOf(t) /\ FreePanic(t, n) = "none"
<1>1. TRAPFRAME \in Nat
  BY Bounds
<1>2. ~\E v \in Pg(n)..TRAPFRAME - 1 : t.pte[v].pa # 0
  BY <1>1 DEF EmptyFrom, LowPages
<1>3. ASSUME NEW v \in LowPages, t.pte[v].pa # 0 PROVE v \in 0..Pg(n) - 1
  BY <1>1, <1>3 DEF EmptyFrom, LowPages
<1>4. 0..Pg(n) - 1 \subseteq LowPages
  BY <1>1 DEF LowPages
<1>5. \A x : x \in Mapped(t, 0..Pg(n) - 1) <=> x \in Mapped(t, LowPages)
  BY <1>3, <1>4 DEF Mapped
<1>6. Mapped(t, 0..Pg(n) - 1) = Mapped(t, LowPages)
  BY <1>5
<1> QED  BY <1>2, <1>6 DEF FreePages, FreePanic, PagesOf

\* uvmclear()
LEMMA GuardFacts ==
  ASSUME NEW t \in Table, TableOK(t), NEW v \in VPages, NEW u, u = Guarded(t, v)
  PROVE  /\ u \in Table /\ TableOK(u) /\ PagesOf(u) = PagesOf(t)
         /\ \A w \in VPages : u.pte[w].pa = t.pte[w].pa /\ u.pte[w].perm \subseteq t.pte[w].perm
<1>1. u.tab = t.tab /\ u.pte = [t.pte EXCEPT ![v] = [t.pte[v] EXCEPT !.perm = @ \ {"u"}]]
  BY DEF Guarded, Table
<1>2. t.pte[v] \in Pte /\ [t.pte[v] EXCEPT !.perm = @ \ {"u"}] \in Pte
  BY DEF Table, Pte
<1>3. u \in Table
  BY <1>1, <1>2 DEF Guarded, Table
<1>4. \A w \in VPages : u.pte[w].pa = t.pte[w].pa /\ u.pte[w].perm \subseteq t.pte[w].perm
  BY <1>1, <1>2 DEF Table, Pte
<1>5. LowPages \subseteq VPages
  BY Bounds
<1>6. TableOK(u)
  BY <1>1, <1>4, <1>5 DEF TableOK
<1>7. ASSUME NEW x PROVE x \in PagesOf(u) <=> x \in PagesOf(t)
  <2>1. x \in PagesOf(u) <=>
          x # 0 /\ ((\E l \in Tables : u.tab[l] = x) \/ (\E w \in LowPages : u.pte[w].pa = x))
    BY InPages
  <2>2. x \in PagesOf(t) <=>
          x # 0 /\ ((\E l \in Tables : t.tab[l] = x) \/ (\E w \in LowPages : t.pte[w].pa = x))
    BY InPages
  <2> QED  BY <1>1, <1>4, <1>5, <2>1, <2>2
<1>8. PagesOf(u) = PagesOf(t)
  BY <1>7
<1> QED  BY <1>3, <1>4, <1>6, <1>8

LEMMA JunkType ==
  ASSUME NEW m \in [Pages -> Contents], NEW S
  PROVE  Junk(m, S) \in [Pages -> Contents]
  BY DEF Junk, Contents
-----------------------------------------------------------------------------
(* Pages change hands.                                                     *)

LEMMA IsOwner ==
  ASSUME NEW p \in Procs
  PROVE  <<"tf", p>> \in Owners /\ <<"pt", p>> \in Owners /\ <<"new", p>> \in Owners
  BY DEF Owners

LEMMA OwnTf ==
  ASSUME NEW T, NEW P, NEW L, NEW p \in Procs
  PROVE  Own(T, P, L)[<<"tf", p>>] = PageOf(T[p])
  BY IsOwner DEF Own

LEMMA OwnPt ==
  ASSUME NEW T, NEW P, NEW L, NEW p \in Procs
  PROVE  Own(T, P, L)[<<"pt", p>>] = PagesOf(P[p])
  BY IsOwner DEF Own

LEMMA OwnNew ==
  ASSUME NEW T, NEW P, NEW L, NEW p \in Procs
  PROVE  Own(T, P, L)[<<"new", p>>] = PagesOf(L[p].npt)
  BY IsOwner DEF Own

LEMMA OwnerCases ==
  ASSUME NEW o \in Owners
  PROVE  \E p \in Procs : o \in {<<"tf", p>>, <<"pt", p>>, <<"new", p>>}
  BY DEF Owners

\* Two owners and the free list exchange pages.
LEMMA Exchange ==
  ASSUME NEW own, NEW f, Partition(own, f), NEW own2, NEW f2, f2 \subseteq Pages, f \subseteq Pages,
         NEW a \in Owners, NEW b \in Owners, a # b,
         \A q \in Owners : q \notin {a, b} => own2[q] = own[q],
         own2[a] \cup own2[b] \cup f2 = own[a] \cup own[b] \cup f,
         own2[a] \cap own2[b] = {}, own2[a] \cap f2 = {}, own2[b] \cap f2 = {}
  PROVE  Partition(own2, f2)
<1>1. \A k : k \in own2[a] \/ k \in own2[b] \/ k \in f2 <=> k \in own[a] \/ k \in own[b] \/ k \in f
  OBVIOUS
<1>2. \A o \in Owners : \A k \in own[o] : k \in Pages /\ k \notin f
  BY DEF Partition
<1>3. \A o, q \in Owners : o # q => \A k \in own[o] : k \notin own[q]
  BY DEF Partition
<1>4. \A o \in Owners : \A k \in own2[o] : k \in Pages /\ k \notin f2
  <2> SUFFICES ASSUME NEW o \in Owners, NEW k \in own2[o] PROVE k \in Pages /\ k \notin f2
    OBVIOUS
  <2>1. CASE o \in {a, b}
    BY <1>1, <1>2, <2>1
  <2>2. CASE o \notin {a, b}
    BY <1>1, <1>2, <1>3, <2>2
  <2> QED  BY <2>1, <2>2
<1>5. \A o, q \in Owners : o # q => \A k \in own2[o] : k \notin own2[q]
  <2> SUFFICES ASSUME NEW o \in Owners, NEW q \in Owners, o # q, NEW k, k \in own2[o], k \in own2[q] PROVE FALSE
    OBVIOUS
  <2>1. CASE o \in {a, b} /\ q \in {a, b}
    BY <2>1
  <2>2. CASE o \notin {a, b} /\ q \notin {a, b}
    BY <1>3, <2>2
  <2>3. CASE o \in {a, b} /\ q \notin {a, b}
    BY <1>1, <1>2, <1>3, <2>3
  <2>4. CASE o \notin {a, b} /\ q \in {a, b}
    BY <1>1, <1>2, <1>3, <2>4
  <2> QED  BY <2>1, <2>2, <2>3, <2>4
<1>6. \A k \in Pages \ f2 : \E o \in Owners : k \in own2[o]
  <2> SUFFICES ASSUME NEW k \in Pages, k \notin f2 PROVE \E o \in Owners : k \in own2[o]
    OBVIOUS
  <2>1. CASE k \in own2[a] \/ k \in own2[b]
    BY <2>1
  <2>2. CASE k \notin own2[a] /\ k \notin own2[b]
    <3>1. k \notin own[a] /\ k \notin own[b] /\ k \notin f
      BY <1>1, <2>2
    <3>2. PICK o \in Owners : k \in own[o]
      BY <3>1 DEF Partition
    <3> QED  BY <3>1, <3>2
  <2> QED  BY <2>1, <2>2
<1> QED  BY <1>4, <1>5, <1>6 DEF Partition

\* Processes other than p keep what they have.
Others(p, T, P, L, T2, P2, L2) ==
  \A q \in Procs \ {p} : T2[q] = T[q] /\ P2[q] = P[q] /\ L2[q].npt = L[q].npt

LEMMA OthersOwn ==
  ASSUME NEW T, NEW P, NEW L, NEW T2, NEW P2, NEW L2, NEW p \in Procs, Others(p, T, P, L, T2, P2, L2)
  PROVE  \A q \in Owners : q \notin {<<"tf", p>>, <<"pt", p>>, <<"new", p>>} => Own(T2, P2, L2)[q] = Own(T, P, L)[q]
<1> SUFFICES ASSUME NEW o \in Owners, o \notin {<<"tf", p>>, <<"pt", p>>, <<"new", p>>}
             PROVE  Own(T2, P2, L2)[o] = Own(T, P, L)[o]
  OBVIOUS
<1>1. PICK q \in Procs : o \in {<<"tf", q>>, <<"pt", q>>, <<"new", q>>}
  BY OwnerCases
<1>2. q # p
  BY <1>1
<1>3. T2[q] = T[q] /\ P2[q] = P[q] /\ L2[q].npt = L[q].npt
  BY <1>2 DEF Others
<1>4. CASE o = <<"tf", q>>
  BY <1>3, <1>4, OwnTf, OwnPt, OwnNew
<1>5. CASE o = <<"pt", q>>
  BY <1>3, <1>5, OwnTf, OwnPt, OwnNew
<1>6. CASE o = <<"new", q>>
  BY <1>3, <1>6, OwnTf, OwnPt, OwnNew
<1> QED  BY <1>1, <1>4, <1>5, <1>6

\* A process and the free list exchange pages of its page table ...
LEMMA PtMoves ==
  ASSUME NEW T, NEW P, NEW L, NEW f, Partition(Own(T, P, L), f), f \subseteq Pages,
         NEW T2, NEW P2, NEW L2, NEW f2, f2 \subseteq Pages,
         NEW p \in Procs, Others(p, T, P, L, T2, P2, L2), T2[p] = T[p], L2[p].npt = L[p].npt,
         PagesOf(P2[p]) \cup f2 = PagesOf(P[p]) \cup f, PagesOf(P2[p]) \cap f2 = {}
  PROVE  Partition(Own(T2, P2, L2), f2)
<1>1. PICK own, own2 : own = Own(T, P, L) /\ own2 = Own(T2, P2, L2)
  OBVIOUS
<1>2. PICK a \in Owners, b \in Owners : a = <<"pt", p>> /\ b = <<"tf", p>>
  BY IsOwner
<1>3. a # b
  BY <1>2
<1>4. own[a] = PagesOf(P[p]) /\ own2[a] = PagesOf(P2[p]) /\ own2[b] = own[b]
  BY <1>1, <1>2, OwnTf, OwnPt, OwnNew
<1>5. \A q \in Owners : q \notin {a, b} => own2[q] = own[q]
  <2>1. own2[<<"new", p>>] = own[<<"new", p>>]
    BY <1>1, OwnNew
  <2>2. \A q \in Owners : q \notin {<<"tf", p>>, <<"pt", p>>, <<"new", p>>} => own2[q] = own[q]
    BY <1>1, OthersOwn
  <2> QED  BY <1>2, <1>4, <2>1, <2>2
<1>6. own[b] \cap f = {} /\ own[b] \cap own[a] = {}
  BY <1>1, <1>2, <1>3 DEF Partition
<1>7. own2[b] \cap f2 = {} /\ own2[a] \cap own2[b] = {} /\ own2[a] \cap f2 = {}
  BY <1>4, <1>6
<1>8. own2[a] \cup own2[b] \cup f2 = own[a] \cup own[b] \cup f
  BY <1>4
<1>9. Partition(own2, f2)
  BY <1>1, <1>3, <1>5, <1>7, <1>8, Exchange
<1> QED  BY <1>1, <1>9

\* ... or of exec()'s new one.
LEMMA NewMoves ==
  ASSUME NEW T, NEW P, NEW L, NEW f, Partition(Own(T, P, L), f), f \subseteq Pages,
         NEW T2, NEW P2, NEW L2, NEW f2, f2 \subseteq Pages,
         NEW p \in Procs, Others(p, T, P, L, T2, P2, L2), T2[p] = T[p], P2[p] = P[p],
         PagesOf(L2[p].npt) \cup f2 = PagesOf(L[p].npt) \cup f, PagesOf(L2[p].npt) \cap f2 = {}
  PROVE  Partition(Own(T2, P2, L2), f2)
<1>1. PICK own, own2 : own = Own(T, P, L) /\ own2 = Own(T2, P2, L2)
  OBVIOUS
<1>2. PICK a \in Owners, b \in Owners : a = <<"new", p>> /\ b = <<"tf", p>>
  BY IsOwner
<1>3. a # b
  BY <1>2
<1>4. own[a] = PagesOf(L[p].npt) /\ own2[a] = PagesOf(L2[p].npt) /\ own2[b] = own[b]
  BY <1>1, <1>2, OwnTf, OwnPt, OwnNew
<1>5. \A q \in Owners : q \notin {a, b} => own2[q] = own[q]
  <2>1. own2[<<"pt", p>>] = own[<<"pt", p>>]
    BY <1>1, OwnPt
  <2>2. \A q \in Owners : q \notin {<<"tf", p>>, <<"pt", p>>, <<"new", p>>} => own2[q] = own[q]
    BY <1>1, OthersOwn
  <2> QED  BY <1>2, <1>4, <2>1, <2>2
<1>6. own[b] \cap f = {} /\ own[b] \cap own[a] = {}
  BY <1>1, <1>2, <1>3 DEF Partition
<1>7. own2[b] \cap f2 = {} /\ own2[a] \cap own2[b] = {} /\ own2[a] \cap f2 = {}
  BY <1>4, <1>6
<1>8. own2[a] \cup own2[b] \cup f2 = own[a] \cup own[b] \cup f
  BY <1>4
<1>9. Partition(own2, f2)
  BY <1>1, <1>3, <1>5, <1>7, <1>8, Exchange
<1> QED  BY <1>1, <1>9

\* fork() and wait(): a process gets or loses its trapframe and its page table.
LEMMA ProcMoves ==
  ASSUME NEW T, NEW P, NEW L, NEW f, Partition(Own(T, P, L), f), f \subseteq Pages,
         NEW T2, NEW P2, NEW L2, NEW f2, f2 \subseteq Pages,
         NEW p \in Procs, Others(p, T, P, L, T2, P2, L2), L2[p].npt = L[p].npt,
         PageOf(T2[p]) \cup PagesOf(P2[p]) \cup f2 = PageOf(T[p]) \cup PagesOf(P[p]) \cup f,
         PagesOf(P2[p]) \cap f2 = {}, T2[p] # 0 => T2[p] \notin f2 /\ T2[p] \notin PagesOf(P2[p])
  PROVE  Partition(Own(T2, P2, L2), f2)
<1>1. PICK own, own2 : own = Own(T, P, L) /\ own2 = Own(T2, P2, L2)
  OBVIOUS
<1>2. PICK a \in Owners, b \in Owners : a = <<"tf", p>> /\ b = <<"pt", p>>
  BY IsOwner
<1>3. a # b
  BY <1>2
<1>4. own[b] = PagesOf(P[p]) /\ own2[b] = PagesOf(P2[p]) /\ own[a] = PageOf(T[p]) /\ own2[a] = PageOf(T2[p])
  BY <1>1, <1>2, OwnTf, OwnPt, OwnNew
<1>5. \A q \in Owners : q \notin {a, b} => own2[q] = own[q]
  <2>1. own2[<<"new", p>>] = own[<<"new", p>>]
    BY <1>1, OwnNew
  <2>2. \A q \in Owners : q \notin {<<"tf", p>>, <<"pt", p>>, <<"new", p>>} => own2[q] = own[q]
    BY <1>1, OthersOwn
  <2> QED  BY <1>2, <1>4, <2>1, <2>2
<1>6. own2[b] \cap f2 = {} /\ own2[a] \cap own2[b] = {} /\ own2[a] \cap f2 = {}
  BY <1>4 DEF PageOf
<1>7. own2[a] \cup own2[b] \cup f2 = own[a] \cup own[b] \cup f
  BY <1>4
<1>8. Partition(own2, f2)
  BY <1>1, <1>3, <1>5, <1>6, <1>7, Exchange
<1> QED  BY <1>1, <1>8

\* exec() replaces the page table by the new one.
LEMMA ExecMoves ==
  ASSUME NEW T, NEW P, NEW L, NEW f, Partition(Own(T, P, L), f), f \subseteq Pages,
         NEW T2, NEW P2, NEW L2, NEW f2, f2 \subseteq Pages,
         NEW p \in Procs, Others(p, T, P, L, T2, P2, L2), T2[p] = T[p],
         PagesOf(P2[p]) = PagesOf(L[p].npt), PagesOf(L2[p].npt) = {}, f2 = f \cup PagesOf(P[p])
  PROVE  Partition(Own(T2, P2, L2), f2)
<1>1. PICK own, own2 : own = Own(T, P, L) /\ own2 = Own(T2, P2, L2)
  OBVIOUS
<1>2. PICK a \in Owners, b \in Owners : a = <<"new", p>> /\ b = <<"pt", p>>
  BY IsOwner
<1>3. a # b
  BY <1>2
<1>4. /\ own[b] = PagesOf(P[p]) /\ own2[b] = PagesOf(P2[p])
      /\ own[a] = PagesOf(L[p].npt) /\ own2[a] = PagesOf(L2[p].npt)
  BY <1>1, <1>2, OwnTf, OwnPt, OwnNew
<1>5. \A q \in Owners : q \notin {a, b} => own2[q] = own[q]
  <2>1. own2[<<"tf", p>>] = own[<<"tf", p>>]
    BY <1>1, OwnTf
  <2>2. \A q \in Owners : q \notin {<<"tf", p>>, <<"pt", p>>, <<"new", p>>} => own2[q] = own[q]
    BY <1>1, OthersOwn
  <2> QED  BY <1>2, <1>4, <2>1, <2>2
<1>6. own[a] \cap f = {} /\ own[a] \cap own[b] = {}
  BY <1>1, <1>3 DEF Partition
<1>7. own2[b] \cap f2 = {} /\ own2[a] \cap own2[b] = {} /\ own2[a] \cap f2 = {}
  BY <1>4, <1>6
<1>8. own2[a] \cup own2[b] \cup f2 = own[a] \cup own[b] \cup f
  BY <1>4
<1>9. Partition(own2, f2)
  BY <1>1, <1>3, <1>5, <1>7, <1>8, Exchange
<1> QED  BY <1>1, <1>9

\* What the partition says of a process's own pages.
LEMMA PartitionFacts ==
  ASSUME NEW T, NEW P, NEW L, NEW f, Partition(Own(T, P, L), f), NEW p \in Procs
  PROVE  /\ f \cap PagesOf(P[p]) = {} /\ f \cap PagesOf(L[p].npt) = {}
         /\ T[p] # 0 => T[p] \in Pages /\ T[p] \notin f /\ T[p] \notin PagesOf(P[p])
<1>1. PICK own : own = Own(T, P, L)
  OBVIOUS
<1>2. PICK a \in Owners, b \in Owners, c \in Owners : a = <<"tf", p>> /\ b = <<"pt", p>> /\ c = <<"new", p>>
  BY IsOwner
<1>3. own[a] = PageOf(T[p]) /\ own[b] = PagesOf(P[p]) /\ own[c] = PagesOf(L[p].npt) /\ a # b
  BY <1>1, <1>2, OwnTf, OwnPt, OwnNew
<1>4. own[b] \cap f = {} /\ own[c] \cap f = {} /\ own[a] \subseteq Pages \ f /\ own[a] \cap own[b] = {}
  BY <1>1, <1>3 DEF Partition
<1> QED  BY <1>3, <1>4 DEF PageOf
-----------------------------------------------------------------------------
(* The invariant is inductive.                                             *)

\* p has table t, size n and locals l afterwards, and goes to c; the pages that its table
\* gains or loses come from or go to the free list.
UserStep(p, t, n, l, c) ==
  /\ panic = "none" /\ panic' = "none"
  /\ pc[p] \notin {"none", "load", "copy"}
  /\ pt' = [pt EXCEPT ![p] = t] /\ sz' = [sz EXCEPT ![p] = n] /\ tf' = tf
  /\ loc' = [loc EXCEPT ![p] = l] /\ pc' = [pc EXCEPT ![p] = c]
  /\ st' = [st EXCEPT ![p] = IF c = "none" THEN "zombie" ELSE "run"]
  /\ par' \in [Procs -> Procs \cup {0}] /\ calls' \in Nat /\ mem' \in [Pages -> Contents]
  /\ c \in {"none", "user", "forkret", "grow", "copyin", "copyout"}
  /\ t \in Table /\ TableOK(t)
  /\ free' \subseteq Pages /\ PagesOf(t) \cup free' = PagesOf(pt[p]) \cup free /\ PagesOf(t) \cap free' = {}
  /\ n \in Nat /\ Pg(n) <= TRAPFRAME
  /\ l \in Locals /\ l.npt = NoTable
  /\ c # "grow" => EmptyFrom(t, Pg(n))
  /\ c = "grow" => /\ n <= l.new /\ l.new <= MaxSz /\ Pg(n) <= l.a /\ l.a <= Pg(l.new)
                   /\ EmptyFrom(t, l.a)

LEMMA UserSteps ==
  ASSUME IInv, NEW p \in Procs, NEW t, NEW n, NEW l, NEW c, UserStep(p, t, n, l, c)
  PROVE  IInv'
<1>1. TypeOK /\ OwnInv /\ CtlInv /\ TfInv /\ SizeInv /\ MapInv
  BY DEF IInv
<1>2. /\ pt'[p] = t /\ sz'[p] = n /\ loc'[p] = l /\ pc'[p] = c /\ st[p] = "run" /\ loc[p].npt = NoTable
      /\ st'[p] = IF c = "none" THEN "zombie" ELSE "run"
      /\ \A q \in Procs \ {p} : /\ pt'[q] = pt[q] /\ sz'[q] = sz[q] /\ loc'[q] = loc[q]
                                /\ pc'[q] = pc[q] /\ st'[q] = st[q]
      /\ tf' = tf
  BY <1>1 DEF UserStep, TypeOK, CtlInv
<1>3. TypeOK'
  BY <1>1 DEF UserStep, TypeOK
<1>4. OwnInv'
  <2>1. Others(p, tf, pt, loc, tf', pt', loc')
    BY <1>2 DEF Others
  <2>2. PagesOf(pt'[p]) \cup free' = PagesOf(pt[p]) \cup free /\ PagesOf(pt'[p]) \cap free' = {}
    BY <1>2 DEF UserStep
  <2>3. tf'[p] = tf[p] /\ loc'[p].npt = loc[p].npt /\ free' \subseteq Pages /\ free \subseteq Pages
    BY <1>1, <1>2 DEF UserStep, TypeOK
  <2>4. Partition(Own(tf, pt, loc), free)
    BY <1>1 DEF OwnInv
  <2>5. Partition(Own(tf', pt', loc'), free')
    BY <2>1, <2>2, <2>3, <2>4, PtMoves
  <2>6. \A q \in Procs : TableOK(pt'[q]) /\ TableOK(loc'[q].npt)
    BY <1>1, <1>2 DEF OwnInv, UserStep
  <2> QED  BY <2>5, <2>6 DEF OwnInv
<1>5. CtlInv'
  <2> SUFFICES ASSUME NEW q \in Procs
               PROVE  /\ st'[q] = "run" <=> pc'[q] # "none"
                      /\ st'[q] = "unused" => pt'[q] = NoTable /\ tf'[q] = 0
                      /\ st'[q] \in {"unused", "used"} => sz'[q] = 0
                      /\ pc'[q] # "load" => loc'[q].npt = NoTable
                      /\ pc'[q] = "copy" =>
                           /\ loc'[q].np \in Procs /\ st'[loc'[q].np] = "used"
                           /\ \A r \in Procs \ {q} : pc'[r] = "copy" => loc'[r].np # loc'[q].np
    BY DEF CtlInv
  <2>1. CASE q = p
    BY <1>2, <2>1 DEF UserStep
  <2>2. CASE q # p
    BY <1>1, <1>2, <2>2 DEF CtlInv, UserStep
  <2> QED  BY <2>1, <2>2
<1>6. SizeInv'
  BY <1>1, <1>2 DEF SizeInv, UserStep
<1>7. MapInv'
  <2> SUFFICES ASSUME NEW q \in Procs
               PROVE  /\ st'[q] \in {"run", "zombie"} /\ pc'[q] # "grow" => EmptyFrom(pt'[q], Pg(sz'[q]))
                      /\ pc'[q] = "grow" => EmptyFrom(pt'[q], loc'[q].a)
                      /\ pc'[q] = "copy" => EmptyFrom(pt'[loc'[q].np], loc'[q].a)
                      /\ pc'[q] = "load" => EmptyFrom(loc'[q].npt, loc'[q].a)
    BY DEF MapInv, EmptyFrom
  <2>1. CASE q = p
    BY <1>2, <2>1 DEF UserStep
  <2>2. CASE q # p
    <3>1. pc[q] = "copy" => loc[q].np \in Procs /\ loc[q].np # p
      BY <1>1, <1>2 DEF CtlInv
    <3> QED  BY <1>1, <1>2, <2>2, <3>1 DEF MapInv
  <2> QED  BY <2>1, <2>2
<1>8. TfInv'
  BY <1>1, <1>2 DEF TfInv, UserStep
<1> QED  BY <1>3, <1>4, <1>5, <1>6, <1>7, <1>8 DEF IInv, PanicInv, UserStep
\* exec() has locals l afterwards and goes to c.
ExecStep(p, l, c) ==
  /\ panic = "none" /\ panic' \in {"none", "exec"}
  /\ pc[p] \in {"user", "forkret", "load"}
  /\ UNCHANGED <<pt, sz, tf, st, par>>
  /\ loc' = [loc EXCEPT ![p] = l] /\ pc' = [pc EXCEPT ![p] = c]
  /\ calls' \in Nat /\ mem' \in [Pages -> Contents]
  /\ c \in {"user", "load"} /\ l \in Locals /\ TableOK(l.npt)
  /\ free' \subseteq Pages
  /\ PagesOf(l.npt) \cup free' = PagesOf(loc[p].npt) \cup free /\ PagesOf(l.npt) \cap free' = {}
  /\ c = "user" => l.npt = NoTable
  /\ c = "load" => /\ Pg(l.nsz) <= l.a /\ l.a <= Pg(l.nsz) + USERSTACK + 1
                   /\ l.segs # <<>> => l.a = Pg(l.nsz)
                   /\ Pg(l.nsz) + Len(l.segs) + USERSTACK + 1 <= TRAPFRAME
                   /\ EmptyFrom(l.npt, l.a)

LEMMA ExecSteps ==
  ASSUME IInv, NEW p \in Procs, NEW l, NEW c, ExecStep(p, l, c)
  PROVE  IInv'
<1>1. TypeOK /\ OwnInv /\ CtlInv /\ TfInv /\ SizeInv /\ MapInv
  BY DEF IInv
<1>2. /\ loc'[p] = l /\ pc'[p] = c /\ st[p] = "run"
      /\ \A q \in Procs \ {p} : loc'[q] = loc[q] /\ pc'[q] = pc[q]
      /\ tf' = tf /\ pt' = pt /\ sz' = sz /\ st' = st
  BY <1>1 DEF ExecStep, TypeOK, CtlInv
<1>3. TypeOK'
  BY <1>1 DEF ExecStep, TypeOK
<1>4. OwnInv'
  <2>1. Others(p, tf, pt, loc, tf', pt', loc')
    BY <1>2 DEF Others
  <2>2. /\ PagesOf(loc'[p].npt) \cup free' = PagesOf(loc[p].npt) \cup free
        /\ PagesOf(loc'[p].npt) \cap free' = {}
    BY <1>2 DEF ExecStep
  <2>3. tf'[p] = tf[p] /\ pt'[p] = pt[p] /\ free' \subseteq Pages /\ free \subseteq Pages
    BY <1>1, <1>2 DEF ExecStep, TypeOK
  <2>4. Partition(Own(tf, pt, loc), free)
    BY <1>1 DEF OwnInv
  <2>5. Partition(Own(tf', pt', loc'), free')
    BY <2>1, <2>2, <2>3, <2>4, NewMoves
  <2>6. \A q \in Procs : TableOK(pt'[q]) /\ TableOK(loc'[q].npt)
    BY <1>1, <1>2 DEF OwnInv, ExecStep
  <2> QED  BY <2>5, <2>6 DEF OwnInv
<1>5. CtlInv'
  BY <1>1, <1>2 DEF CtlInv, ExecStep
<1>6. SizeInv'
  BY <1>1, <1>2 DEF SizeInv, ExecStep
<1>7. MapInv'
  <2> SUFFICES ASSUME NEW q \in Procs
               PROVE  /\ st'[q] \in {"run", "zombie"} /\ pc'[q] # "grow" => EmptyFrom(pt'[q], Pg(sz'[q]))
                      /\ pc'[q] = "grow" => EmptyFrom(pt'[q], loc'[q].a)
                      /\ pc'[q] = "copy" => EmptyFrom(pt'[loc'[q].np], loc'[q].a)
                      /\ pc'[q] = "load" => EmptyFrom(loc'[q].npt, loc'[q].a)
    BY DEF MapInv, EmptyFrom
  <2>1. CASE q = p
    BY <1>1, <1>2, <2>1 DEF ExecStep, MapInv
  <2>2. CASE q # p
    BY <1>1, <1>2, <2>2 DEF MapInv
  <2> QED  BY <2>1, <2>2
<1>8. TfInv'
  BY <1>1, <1>2 DEF TfInv, ExecStep
<1> QED  BY <1>3, <1>4, <1>5, <1>6, <1>7, <1>8 DEF IInv, PanicInv, ExecStep

\* What every step of p knows.
LEMMA Known ==
  ASSUME IInv, NEW p \in Procs
  PROVE  /\ pt[p] \in Table /\ TableOK(pt[p]) /\ PagesOf(pt[p]) \subseteq Pages /\ free \cap PagesOf(pt[p]) = {}
         /\ loc[p] \in Locals /\ loc[p].npt \in Table /\ TableOK(loc[p].npt)
         /\ PagesOf(loc[p].npt) \subseteq Pages /\ free \cap PagesOf(loc[p].npt) = {}
         /\ free \subseteq Pages /\ sz[p] \in Nat /\ Pg(sz[p]) \in Nat /\ Pg(sz[p]) <= TRAPFRAME
         /\ mem \in [Pages -> Contents] /\ calls \in Nat /\ par \in [Procs -> Procs \cup {0}]
         /\ NoLoc \in Locals /\ NoLoc.npt = NoTable
<1>1. TypeOK /\ OwnInv /\ SizeInv
  BY DEF IInv
<1>2. pt[p] \in Table /\ loc[p] \in Locals /\ free \subseteq Pages /\ sz[p] \in Nat
  BY <1>1 DEF TypeOK
<1>3. loc[p].npt \in Table
  BY <1>2 DEF Locals
<1>4. TableOK(pt[p]) /\ TableOK(loc[p].npt) /\ Partition(Own(tf, pt, loc), free)
  BY <1>1 DEF OwnInv
<1>5. free \cap PagesOf(pt[p]) = {} /\ free \cap PagesOf(loc[p].npt) = {}
  BY <1>4, PartitionFacts
<1>6. Pg(sz[p]) \in Nat /\ Pg(sz[p]) <= TRAPFRAME
  BY <1>1, <1>2, PgBelow DEF SizeInv
<1>7. NoLoc \in Locals /\ NoLoc.npt = NoTable
  BY NoTableFacts DEF NoLoc, Locals
<1>8. mem \in [Pages -> Contents] /\ calls \in Nat /\ par \in [Procs -> Procs \cup {0}]
  BY <1>1 DEF TypeOK
<1>9. PagesOf(pt[p]) \subseteq Pages /\ PagesOf(loc[p].npt) \subseteq Pages
  BY <1>2, <1>3, <1>4, PagesArePages
<1> QED  BY <1>2, <1>3, <1>4, <1>5, <1>6, <1>7, <1>8, <1>9

\* A process that makes a call runs, and nothing is mapped beyond its size.
LEMMA CallFacts ==
  ASSUME IInv, NEW p \in Procs, pc[p] \notin {"none", "grow"}
  PROVE  st[p] = "run" /\ EmptyFrom(pt[p], Pg(sz[p]))
  BY DEF IInv, CtlInv, MapInv

\* The same function again.
LEMMA Same ==
  ASSUME NEW S, NEW R, NEW f \in [S -> R], NEW x \in S
  PROVE  f = [f EXCEPT ![x] = f[x]]
  OBVIOUS

\* vmfault()
LEMMA VmfaultFacts ==
  ASSUME IInv, NEW p \in Procs, EmptyFrom(pt[p], Pg(sz[p])), NEW v \in Nat, NEW r, r = Vmfault(p, v)
  PROVE  /\ r.panic = "none" /\ r.ok \in BOOLEAN /\ r.m \in [Pages -> Contents]
         /\ r.f \subseteq free /\ r.t \in Table /\ TableOK(r.t) /\ PagesOf(r.t) = PagesOf(pt[p]) \cup (free \ r.f)
         /\ EmptyFrom(r.t, Pg(sz[p]))
<1>1. /\ pt[p] \in Table /\ TableOK(pt[p]) /\ free \cap PagesOf(pt[p]) = {} /\ free \subseteq Pages
      /\ sz[p] \in Nat /\ Pg(sz[p]) \in Nat /\ Pg(sz[p]) <= TRAPFRAME /\ mem \in [Pages -> Contents]
  BY Known
<1>2. CASE v * PGSIZE >= sz[p] \/ pt[p].pte[v].pa # 0
  <2>1. r = [f |-> free, m |-> mem, t |-> pt[p], ok |-> FALSE, panic |-> "none"]
    BY <1>2 DEF Vmfault
  <2>2. r.panic = "none" /\ r.ok = FALSE /\ r.m = mem /\ r.f = free /\ r.t = pt[p]
    BY <2>1
  <2> QED  BY <1>1, <2>2
<1>3. CASE ~(v * PGSIZE >= sz[p] \/ pt[p].pte[v].pa # 0)
  <2>1. r = MapNew(free, mem, pt[p], v, {"u", "w"}, "zero")
    BY <1>3 DEF Vmfault
  <2>2. v * PGSIZE \in Nat
    BY VmAssumption
  <2>3. v < Pg(sz[p])
    BY <1>1, <1>3, <2>2, PgBelow
  <2>4. v \in LowPages /\ v \in VPages
    BY <1>1, <2>3, Bounds DEF LowPages
  <2>5. {"u", "w"} \in SUBSET {"u", "w", "x"} /\ "zero" \in Contents /\ pt[p].pte[v].pa = 0
    BY <1>3 DEF Contents
  <2>6. Added(MapNew(free, mem, pt[p], v, {"u", "w"}, "zero"), free, mem, pt[p], v, {"u", "w"}, "zero")
    BY <1>1, <2>4, <2>5, MapNewFacts
  <2>7. Added(r, free, mem, pt[p], v, {"u", "w"}, "zero")
    BY <2>1, <2>6
  <2>8. r.m \in [Pages -> Contents]
    BY <1>1, <2>5, <2>7, AddedContents
  <2>9. \A w \in VPages : w # v => r.t.pte[w] = pt[p].pte[w]
    <3>1. PICK t \in Table : t = pt[p] /\ Added(r, free, mem, t, v, {"u", "w"}, "zero")
      BY <1>1, <2>7
    <3>2. \A w \in VPages : w # v => r.t.pte[w] = t.pte[w]
      BY <3>1, AddedElsewhere
    <3> QED  BY <3>1, <3>2
  <2>10. EmptyFrom(r.t, Pg(sz[p]))
    BY <1>1, <2>3, <2>4, <2>9, Bounds DEF EmptyFrom, LowPages
  <2> QED  BY <2>7, <2>8, <2>10 DEF Added
<1> QED  BY <1>2, <1>3
\* sbrk() with n < 0.
LEMMA ShrinkSteps ==
  ASSUME IInv, NEW p \in Procs, NEW n \in Int, Shrink(p, n)
  PROVE  IInv'
<1>1. /\ pt[p] \in Table /\ TableOK(pt[p]) /\ free \cap PagesOf(pt[p]) = {} /\ free \subseteq Pages
      /\ sz[p] \in Nat /\ Pg(sz[p]) \in Nat /\ Pg(sz[p]) <= TRAPFRAME /\ mem \in [Pages -> Contents]
      /\ loc[p] \in Locals /\ par \in [Procs -> Procs \cup {0}] /\ calls \in Nat
  BY Known
<1>2. /\ panic = "none" /\ panic' = "none" /\ pc[p] = "user" /\ n < 0 /\ calls' \in Nat
      /\ tf' = tf /\ st' = st /\ par' = par /\ pc' = pc /\ loc' = loc
  BY <1>1 DEF Shrink, Calls, At, Counted
<1>3. st[p] = "run" /\ EmptyFrom(pt[p], Pg(sz[p])) /\ loc[p].npt = NoTable
  BY <1>2, CallFacts DEF IInv, CtlInv
<1>4. st' = [st EXCEPT ![p] = "run"] /\ pc' = [pc EXCEPT ![p] = "user"] /\ loc' = [loc EXCEPT ![p] = loc[p]]
  BY <1>2, <1>3, Same DEF IInv, TypeOK
<1>5. CASE sz[p] + n < 0 /\ UNCHANGED <<free, mem, pt, sz>>
  <2>1. pt' = [pt EXCEPT ![p] = pt[p]] /\ sz' = [sz EXCEPT ![p] = sz[p]]
    BY <1>5, Same DEF IInv, TypeOK
  <2>2. UserStep(p, pt[p], sz[p], loc[p], "user")
    BY <1>1, <1>2, <1>3, <1>4, <1>5, <2>1 DEF UserStep
  <2> QED  BY <2>2, UserSteps
<1>6. CASE /\ sz[p] + n >= 0
           /\ free' = free \cup Mapped(pt[p], Cut(p, sz[p] + n))
           /\ mem' = Junk(mem, Mapped(pt[p], Cut(p, sz[p] + n)))
           /\ pt' = [pt EXCEPT ![p] = Uvmunmap(pt[p], Cut(p, sz[p] + n))]
           /\ sz' = [sz EXCEPT ![p] = sz[p] + n]
  <2>1. PICK k \in Nat : k = sz[p] + n /\ k <= sz[p]
    BY <1>1, <1>2, <1>6
  <2>2. Pg(k) \in Nat /\ Pg(k) <= Pg(sz[p])
    BY <1>1, <2>1, PgBelow, PgOrder
  <2>3. PICK S \in SUBSET LowPages : S = Pg(k)..Pg(sz[p]) - 1
    BY <1>1, <2>2, Bounds DEF LowPages
  <2>4. Cut(p, sz[p] + n) = S
    BY <2>1, <2>3 DEF Cut
  <2>5. PICK u : u = Uvmunmap(pt[p], S)
    OBVIOUS
  <2>6. /\ u \in Table /\ TableOK(u) /\ PagesOf(u) = PagesOf(pt[p]) \ Mapped(pt[p], S)
        /\ Mapped(pt[p], S) \subseteq PagesOf(pt[p]) /\ Mapped(pt[p], S) \subseteq Pages
        /\ \A v \in VPages : u.pte[v] = IF v \in S THEN NoPte ELSE pt[p].pte[v]
    BY <1>1, <2>5, UnmapFacts
  <2>7. EmptyFrom(u, Pg(k))
    BY <1>1, <1>3, <2>2, <2>3, <2>6, Bounds DEF EmptyFrom, NoPte, LowPages
  <2>8. PagesOf(u) \cup free' = PagesOf(pt[p]) \cup free /\ PagesOf(u) \cap free' = {} /\ free' \subseteq Pages
    <3>1. PICK X, Y, M : X = PagesOf(u) /\ Y = PagesOf(pt[p]) /\ M = Mapped(pt[p], S)
      OBVIOUS
    <3>2. free' = free \cup M /\ X = Y \ M /\ M \subseteq Y /\ M \subseteq Pages /\ free \cap Y = {} /\ free \subseteq Pages
      BY <1>1, <1>6, <2>4, <2>6, <3>1
    <3> QED  BY <3>1, <3>2
  <2>9. mem' \in [Pages -> Contents]
    BY <1>1, <1>6, JunkType
  <2>10. pt' = [pt EXCEPT ![p] = u] /\ sz' = [sz EXCEPT ![p] = k] /\ Pg(k) <= TRAPFRAME
    <3>1. Pg(k) <= TRAPFRAME
      BY <1>1, <2>2, Bounds
    <3>2. sz' = [sz EXCEPT ![p] = k]
      BY <1>6, <2>1
    <3>3. pt' = [pt EXCEPT ![p] = u]
      BY <1>6, <2>4, <2>5
    <3> QED  BY <3>1, <3>2, <3>3
  <2>11. UserStep(p, u, k, loc[p], "user")
    BY <1>1, <1>2, <1>3, <1>4, <2>6, <2>7, <2>8, <2>9, <2>10 DEF UserStep
  <2> QED  BY <2>11, UserSteps
<1> QED  BY <1>5, <1>6 DEF Shrink

\* Sizes up to MaxSz end below TRAPFRAME.
LEMMA MaxPages ==
  ASSUME NEW n \in Nat, n <= MaxSz
  PROVE  Pg(n) \in Nat /\ Pg(n) <= TRAPFRAME
<1>1. PICK k \in Nat : k = TRAPFRAME
  BY Bounds
<1>2. MaxSz \in Nat /\ MaxSz <= k * PGSIZE /\ k * PGSIZE \in Nat
  BY <1>1, VmAssumption, Bounds DEF TRAPFRAME, MAXVA
<1>3. Pg(n) <= Pg(k * PGSIZE) /\ Pg(k * PGSIZE) = k
  BY <1>2, PgOrder, PgWhole
<1> QED  BY <1>1, <1>3, PgBelow

\* sbrk() with n >= 0: lazy, or the beginning of an eager one.
LEMMA GrowLazySteps ==
  ASSUME IInv, NEW p \in Procs, NEW n \in Int, GrowLazy(p, n)
  PROVE  IInv'
<1>1. /\ pt[p] \in Table /\ TableOK(pt[p]) /\ free \cap PagesOf(pt[p]) = {} /\ free \subseteq Pages
      /\ sz[p] \in Nat /\ Pg(sz[p]) \in Nat /\ Pg(sz[p]) <= TRAPFRAME /\ mem \in [Pages -> Contents]
      /\ loc[p] \in Locals /\ par \in [Procs -> Procs \cup {0}] /\ calls \in Nat
  BY Known
<1>2. /\ panic = "none" /\ panic' = "none" /\ pc[p] = "user" /\ n >= 0 /\ calls' \in Nat
      /\ tf' = tf /\ st' = st /\ par' = par /\ pc' = pc /\ loc' = loc /\ pt' = pt /\ free' = free /\ mem' = mem
      /\ sz[p] + n <= MaxSz /\ sz' = [sz EXCEPT ![p] = sz[p] + n]
  BY <1>1 DEF GrowLazy, Calls, At, Counted
<1>3. st[p] = "run" /\ EmptyFrom(pt[p], Pg(sz[p])) /\ loc[p].npt = NoTable
  BY <1>2, CallFacts DEF IInv, CtlInv
<1>4. /\ st' = [st EXCEPT ![p] = "run"] /\ pc' = [pc EXCEPT ![p] = "user"] /\ loc' = [loc EXCEPT ![p] = loc[p]]
      /\ pt' = [pt EXCEPT ![p] = pt[p]]
  BY <1>2, <1>3, Same DEF IInv, TypeOK
<1>5. PICK k \in Nat : k = sz[p] + n /\ sz[p] <= k /\ k <= MaxSz
  BY <1>1, <1>2
<1>6. Pg(k) \in Nat /\ Pg(sz[p]) <= Pg(k) /\ Pg(k) <= TRAPFRAME
  BY <1>1, <1>5, PgBelow, PgOrder, MaxPages
<1>7. EmptyFrom(pt[p], Pg(k))
  BY <1>1, <1>3, <1>6, Bounds DEF EmptyFrom, LowPages
<1>8. UserStep(p, pt[p], k, loc[p], "user")
  BY <1>1, <1>2, <1>3, <1>4, <1>5, <1>6, <1>7 DEF UserStep
<1> QED  BY <1>8, UserSteps

LEMMA GrowEagerSteps ==
  ASSUME IInv, NEW p \in Procs, NEW n \in Int, GrowEager(p, n)
  PROVE  IInv'
<1>1. /\ pt[p] \in Table /\ TableOK(pt[p]) /\ free \cap PagesOf(pt[p]) = {} /\ free \subseteq Pages
      /\ sz[p] \in Nat /\ Pg(sz[p]) \in Nat /\ Pg(sz[p]) <= TRAPFRAME /\ mem \in [Pages -> Contents]
      /\ par \in [Procs -> Procs \cup {0}] /\ calls \in Nat /\ NoLoc \in Locals /\ NoLoc.npt = NoTable
  BY Known
<1>2. PICK l : l = [NoLoc EXCEPT !.a = Pg(sz[p]), !.new = sz[p] + n]
  OBVIOUS
<1>3. /\ panic = "none" /\ panic' = "none" /\ pc[p] = "user" /\ n > 0 /\ calls' \in Nat
      /\ tf' = tf /\ st' = st /\ par' = par /\ sz' = sz /\ pt' = pt /\ free' = free /\ mem' = mem
      /\ sz[p] + n <= MaxSz /\ pc' = [pc EXCEPT ![p] = "grow"] /\ loc' = [loc EXCEPT ![p] = l]
  BY <1>1, <1>2 DEF GrowEager, Calls, At, Counted, Keep, Goto, procs
<1>4. st[p] = "run" /\ EmptyFrom(pt[p], Pg(sz[p]))
  BY <1>3, CallFacts
<1>5. /\ st' = [st EXCEPT ![p] = "run"] /\ pt' = [pt EXCEPT ![p] = pt[p]] /\ sz' = [sz EXCEPT ![p] = sz[p]]
  BY <1>3, <1>4, Same DEF IInv, TypeOK
<1>6. sz[p] + n \in Nat /\ sz[p] <= sz[p] + n
  BY <1>1, <1>3
<1>7. l \in Locals /\ l.npt = NoTable /\ l.a = Pg(sz[p]) /\ l.new = sz[p] + n
  BY <1>1, <1>2, <1>6 DEF Locals
<1>8. Pg(sz[p]) <= Pg(sz[p] + n)
  BY <1>1, <1>6, PgOrder
<1>9. /\ sz[p] <= l.new /\ l.new <= MaxSz /\ Pg(sz[p]) <= l.a /\ l.a <= Pg(l.new) /\ EmptyFrom(pt[p], l.a)
  BY <1>1, <1>3, <1>4, <1>6, <1>7, <1>8
<1>10. PagesOf(pt[p]) \cup free' = PagesOf(pt[p]) \cup free /\ PagesOf(pt[p]) \cap free' = {}
  BY <1>1, <1>3
<1>11. UserStep(p, pt[p], sz[p], l, "grow")
  BY <1>1, <1>3, <1>5, <1>7, <1>9, <1>10 DEF UserStep
<1> QED  BY <1>11, UserSteps
\* The locals of a loop that goes on, and of one that starts.
LEMMA LocalsNext ==
  ASSUME NEW l \in Locals, NEW x \in Nat, NEW m, m = [l EXCEPT !.a = x]
  PROVE  /\ m \in Locals /\ m.a = x /\ m.new = l.new /\ m.np = l.np /\ m.npt = l.npt
         /\ m.nsz = l.nsz /\ m.segs = l.segs
  BY DEF Locals

LEMMA LocalsFirst ==
  ASSUME NEW x \in Nat, NEW y \in Nat, NEW m, m = [NoLoc EXCEPT !.a = x, !.new = y]
  PROVE  m \in Locals /\ m.npt = NoTable
<1>1. NoLoc \in Locals /\ NoLoc.npt = NoTable
  BY NoTableFacts DEF NoLoc, Locals
<1> QED  BY <1>1 DEF Locals

\* A turn of uvmalloc(), or its unwinding.
LEMMA GrowPageSteps ==
  ASSUME IInv, NEW p \in Procs, GrowPage(p)
  PROVE  IInv'
<1>1. PICK t \in Table : t = pt[p]
  BY Known
<1>2. /\ TableOK(t) /\ free \cap PagesOf(t) = {} /\ free \subseteq Pages
      /\ sz[p] \in Nat /\ Pg(sz[p]) \in Nat /\ Pg(sz[p]) <= TRAPFRAME /\ mem \in [Pages -> Contents]
      /\ par \in [Procs -> Procs \cup {0}] /\ calls \in Nat /\ NoLoc \in Locals /\ NoLoc.npt = NoTable
      /\ loc[p] \in Locals
  BY <1>1, Known
<1>3. /\ panic = "none" /\ pc[p] = "grow" /\ loc[p].a * PGSIZE < loc[p].new
      /\ tf' = tf /\ sz' = sz /\ st' = st /\ par' = par /\ calls' = calls
  BY DEF GrowPage, At, procs
<1>4. /\ loc[p].a \in Nat /\ loc[p].new \in Nat /\ sz[p] <= loc[p].new /\ loc[p].new <= MaxSz
      /\ Pg(sz[p]) <= loc[p].a /\ EmptyFrom(t, loc[p].a) /\ loc[p].npt = NoTable /\ st[p] = "run"
  BY <1>1, <1>2, <1>3 DEF IInv, SizeInv, MapInv, CtlInv, Locals
<1>5. PICK v \in Nat : v = loc[p].a
  BY <1>4
<1>6. v < Pg(loc[p].new) /\ Pg(loc[p].new) <= TRAPFRAME /\ Pg(loc[p].new) \in Nat
  BY <1>3, <1>4, <1>5, PgBelow, MaxPages
<1>7. v \in LowPages /\ v \in VPages
  BY <1>6, Bounds DEF LowPages
<1>8. t.pte[v].pa = 0 /\ {"u", "w"} \in SUBSET {"u", "w", "x"} /\ "zero" \in Contents
  BY <1>4, <1>5, <1>7 DEF EmptyFrom, Contents
<1>9. PICK r : r = MapNew(free, mem, t, v, {"u", "w"}, "zero")
  OBVIOUS
<1>10. Added(MapNew(free, mem, t, v, {"u", "w"}, "zero"), free, mem, t, v, {"u", "w"}, "zero")
  BY <1>2, <1>7, <1>8, MapNewFacts
<1>11. Added(r, free, mem, t, v, {"u", "w"}, "zero")
  BY <1>9, <1>10
<1>12. /\ r.m \in [Pages -> Contents] /\ r.panic = "none" /\ r.ok \in BOOLEAN
       /\ r.f \subseteq free /\ r.t \in Table /\ TableOK(r.t) /\ PagesOf(r.t) = PagesOf(t) \cup (free \ r.f)
  <2>1. r.m \in [Pages -> Contents]
    BY <1>2, <1>8, <1>11, AddedContents
  <2> QED  BY <1>11, <2>1 DEF Added
<1>13. \A w \in VPages : w # v => r.t.pte[w] = t.pte[w]
  BY <1>11, AddedElsewhere
<1>14. st' = [st EXCEPT ![p] = "run"] /\ sz' = [sz EXCEPT ![p] = sz[p]] /\ panic' = "none"
  <2>1. panic' = r.panic
    BY <1>1, <1>5, <1>9 DEF GrowPage
  <2> QED  BY <1>3, <1>4, <1>12, <2>1, Same DEF IInv, TypeOK
<1>15. CASE r.ok
  <2>1. PICK l : l = [loc[p] EXCEPT !.a = v + 1]
    OBVIOUS
  <2>2. /\ free' = r.f /\ mem' = r.m /\ pt' = [pt EXCEPT ![p] = r.t] /\ loc' = [loc EXCEPT ![p] = l] /\ pc' = pc
    BY <1>1, <1>5, <1>9, <1>15, <2>1 DEF GrowPage, Keep
  <2>3. l \in Locals /\ l.npt = NoTable /\ l.a = v + 1 /\ l.new = loc[p].new
    BY <1>2, <1>4, <1>5, <2>1, LocalsNext
  <2>4. pc' = [pc EXCEPT ![p] = "grow"]
    BY <1>3, <2>2, Same DEF IInv, TypeOK
  <2>5. EmptyFrom(r.t, v + 1)
    BY <1>4, <1>5, <1>13, Bounds DEF EmptyFrom, LowPages
  <2>6. PagesOf(r.t) \cup free' = PagesOf(pt[p]) \cup free /\ PagesOf(r.t) \cap free' = {} /\ free' \subseteq Pages
    <3>1. PICK X, Y, F : X = PagesOf(r.t) /\ Y = PagesOf(pt[p]) /\ F = r.f
      OBVIOUS
    <3>2. X = Y \cup (free \ F) /\ F \subseteq free /\ free \cap Y = {} /\ free' = F /\ free \subseteq Pages
      BY <1>1, <1>2, <1>12, <2>2, <3>1
    <3> QED  BY <3>1, <3>2
  <2>7. /\ sz[p] <= l.new /\ l.new <= MaxSz /\ Pg(sz[p]) <= l.a /\ l.a <= Pg(l.new) /\ EmptyFrom(r.t, l.a)
    BY <1>2, <1>4, <1>5, <1>6, <2>3, <2>5
  <2>8. UserStep(p, r.t, sz[p], l, "grow")
    BY <1>2, <1>3, <1>12, <1>14, <2>2, <2>3, <2>4, <2>6, <2>7 DEF UserStep
  <2> QED  BY <2>8, UserSteps
<1>16. CASE ~r.ok
  <2>1. PICK S \in SUBSET LowPages : S = Pg(sz[p])..v - 1
    BY <1>2, <1>7, Bounds DEF LowPages
  <2>2. PICK u : u = Uvmunmap(r.t, S)
    OBVIOUS
  <2>3. /\ free' = r.f \cup Mapped(r.t, S) /\ mem' = Junk(mem, Mapped(r.t, S)) /\ pt' = [pt EXCEPT ![p] = u]
        /\ loc' = [loc EXCEPT ![p] = NoLoc] /\ pc' = [pc EXCEPT ![p] = "user"]
    BY <1>1, <1>5, <1>9, <1>16, <2>1, <2>2 DEF GrowPage, Return, Goto, Keep
  <2>4. /\ u \in Table /\ TableOK(u) /\ PagesOf(u) = PagesOf(r.t) \ Mapped(r.t, S)
        /\ Mapped(r.t, S) \subseteq PagesOf(r.t) /\ Mapped(r.t, S) \subseteq Pages
        /\ \A w \in VPages : u.pte[w] = IF w \in S THEN NoPte ELSE r.t.pte[w]
    BY <1>12, <2>2, UnmapFacts
  <2>5. r.t.pte = t.pte
    BY <1>11, <1>16 DEF Added
  <2>6. EmptyFrom(u, Pg(sz[p]))
    BY <1>2, <1>4, <1>5, <2>1, <2>4, <2>5, Bounds, SMTT(30) DEF EmptyFrom, NoPte, LowPages
  <2>7. PagesOf(u) \cup free' = PagesOf(pt[p]) \cup free /\ PagesOf(u) \cap free' = {} /\ free' \subseteq Pages
    <3>1. PICK X, Y, Z, F, M : X = PagesOf(r.t) /\ Y = PagesOf(pt[p]) /\ F = r.f /\ Z = PagesOf(u) /\ M = Mapped(r.t, S)
      OBVIOUS
    <3>2. /\ X = Y \cup (free \ F) /\ F \subseteq free /\ free \cap Y = {} /\ free' = F \cup M /\ free \subseteq Pages
          /\ Z = X \ M /\ M \subseteq X /\ M \subseteq Pages
      BY <1>1, <1>2, <1>12, <2>3, <2>4, <3>1
    <3> QED  BY <3>1, <3>2
  <2>8. mem' \in [Pages -> Contents]
    BY <1>2, <2>3, JunkType
  <2>9. UserStep(p, u, sz[p], NoLoc, "user")
    BY <1>2, <1>3, <1>14, <2>3, <2>4, <2>6, <2>7, <2>8 DEF UserStep
  <2> QED  BY <2>9, UserSteps
<1> QED  BY <1>12, <1>15, <1>16

LEMMA GrowDoneSteps ==
  ASSUME IInv, NEW p \in Procs, GrowDone(p)
  PROVE  IInv'
<1>1. /\ pt[p] \in Table /\ TableOK(pt[p]) /\ free \cap PagesOf(pt[p]) = {} /\ free \subseteq Pages
      /\ sz[p] \in Nat /\ Pg(sz[p]) \in Nat /\ Pg(sz[p]) <= TRAPFRAME /\ mem \in [Pages -> Contents]
      /\ par \in [Procs -> Procs \cup {0}] /\ calls \in Nat /\ NoLoc \in Locals /\ NoLoc.npt = NoTable
      /\ loc[p] \in Locals
  BY Known
<1>2. /\ panic = "none" /\ panic' = "none" /\ pc[p] = "grow" /\ loc[p].a * PGSIZE >= loc[p].new
      /\ tf' = tf /\ st' = st /\ par' = par /\ calls' = calls /\ pt' = pt /\ free' = free /\ mem' = mem
      /\ sz' = [sz EXCEPT ![p] = loc[p].new] /\ loc' = [loc EXCEPT ![p] = NoLoc] /\ pc' = [pc EXCEPT ![p] = "user"]
  BY DEF GrowDone, At, Return, Goto, Keep
<1>3. /\ loc[p].a \in Nat /\ loc[p].new \in Nat /\ loc[p].new <= MaxSz
      /\ loc[p].a <= Pg(loc[p].new) /\ EmptyFrom(pt[p], loc[p].a) /\ st[p] = "run"
  BY <1>1, <1>2 DEF IInv, SizeInv, MapInv, CtlInv, Locals
<1>4. Pg(loc[p].new) \in Nat /\ Pg(loc[p].new) <= TRAPFRAME
  BY <1>3, MaxPages
<1>5. EmptyFrom(pt[p], Pg(loc[p].new))
  BY <1>3, <1>4, Bounds DEF EmptyFrom, LowPages
<1>6. st' = [st EXCEPT ![p] = "run"] /\ pt' = [pt EXCEPT ![p] = pt[p]]
  BY <1>2, <1>3, Same DEF IInv, TypeOK
<1>7. PagesOf(pt[p]) \cup free' = PagesOf(pt[p]) \cup free /\ PagesOf(pt[p]) \cap free' = {}
  BY <1>1, <1>2
<1>8. UserStep(p, pt[p], loc[p].new, NoLoc, "user")
  BY <1>1, <1>2, <1>3, <1>4, <1>5, <1>6, <1>7 DEF UserStep
<1> QED  BY <1>8, UserSteps

\* A store of the process, and the beginning of a copy.
LEMMA UserStoreSteps ==
  ASSUME IInv, NEW p \in Procs, NEW v, UserStore(p, v)
  PROVE  IInv'
<1>1. /\ pt[p] \in Table /\ TableOK(pt[p]) /\ free \cap PagesOf(pt[p]) = {} /\ free \subseteq Pages
      /\ sz[p] \in Nat /\ Pg(sz[p]) \in Nat /\ Pg(sz[p]) <= TRAPFRAME /\ mem \in [Pages -> Contents]
      /\ loc[p] \in Locals /\ par \in [Procs -> Procs \cup {0}] /\ calls \in Nat
  BY Known
<1>2. /\ panic = "none" /\ panic' = "none" /\ pc[p] = "user" /\ calls' \in Nat
      /\ tf' = tf /\ st' = st /\ par' = par /\ pc' = pc /\ loc' = loc /\ pt' = pt /\ free' = free /\ sz' = sz
      /\ mem' = [mem EXCEPT ![pt[p].pte[v].pa] = Value(p)]
  BY <1>1 DEF UserStore, Calls, At, Counted, procs
<1>3. st[p] = "run" /\ EmptyFrom(pt[p], Pg(sz[p])) /\ loc[p].npt = NoTable
  BY <1>2, CallFacts DEF IInv, CtlInv
<1>4. /\ st' = [st EXCEPT ![p] = "run"] /\ pc' = [pc EXCEPT ![p] = "user"] /\ loc' = [loc EXCEPT ![p] = loc[p]]
      /\ pt' = [pt EXCEPT ![p] = pt[p]] /\ sz' = [sz EXCEPT ![p] = sz[p]]
  BY <1>2, <1>3, Same DEF IInv, TypeOK
<1>5. mem' \in [Pages -> Contents]
  BY <1>1, <1>2 DEF Contents, Value
<1>6. PagesOf(pt[p]) \cup free' = PagesOf(pt[p]) \cup free /\ PagesOf(pt[p]) \cap free' = {}
  BY <1>1, <1>2
<1>7. UserStep(p, pt[p], sz[p], loc[p], "user")
  BY <1>1, <1>2, <1>3, <1>4, <1>5, <1>6 DEF UserStep
<1> QED  BY <1>7, UserSteps

LEMMA CopyCallSteps ==
  ASSUME IInv, NEW p \in Procs, NEW v \in Nat, NEW n \in 1..2, NEW dir \in {"copyin", "copyout"},
         CopyCall(p, v, n, dir)
  PROVE  IInv'
<1>1. /\ pt[p] \in Table /\ TableOK(pt[p]) /\ free \cap PagesOf(pt[p]) = {} /\ free \subseteq Pages
      /\ sz[p] \in Nat /\ Pg(sz[p]) \in Nat /\ Pg(sz[p]) <= TRAPFRAME /\ mem \in [Pages -> Contents]
      /\ par \in [Procs -> Procs \cup {0}] /\ calls \in Nat /\ NoLoc \in Locals /\ NoLoc.npt = NoTable
  BY Known
<1>2. PICK l : l = [NoLoc EXCEPT !.a = v, !.new = v + n]
  OBVIOUS
<1>3. /\ panic = "none" /\ panic' = "none" /\ pc[p] = "user" /\ calls' \in Nat
      /\ tf' = tf /\ st' = st /\ par' = par /\ sz' = sz /\ pt' = pt /\ free' = free /\ mem' = mem
      /\ pc' = [pc EXCEPT ![p] = dir] /\ loc' = [loc EXCEPT ![p] = l]
  BY <1>1, <1>2 DEF CopyCall, Calls, At, Counted, Keep, Goto, procs
<1>4. st[p] = "run" /\ EmptyFrom(pt[p], Pg(sz[p]))
  BY <1>3, CallFacts
<1>5. /\ st' = [st EXCEPT ![p] = "run"] /\ pt' = [pt EXCEPT ![p] = pt[p]] /\ sz' = [sz EXCEPT ![p] = sz[p]]
  BY <1>3, <1>4, Same DEF IInv, TypeOK
<1>6. l \in Locals /\ l.npt = NoTable
  <2>1. v + n \in Nat
    OBVIOUS
  <2> QED  BY <1>2, <2>1, LocalsFirst
<1>7. PagesOf(pt[p]) \cup free' = PagesOf(pt[p]) \cup free /\ PagesOf(pt[p]) \cap free' = {}
  BY <1>1, <1>3
<1>8. UserStep(p, pt[p], sz[p], l, dir)
  BY <1>1, <1>3, <1>4, <1>5, <1>6, <1>7 DEF UserStep
<1> QED  BY <1>8, UserSteps

LEMMA InitProc ==
  1 \in Procs
  BY VmAssumption DEF Procs

\* kexit()
LEMMA UserExitSteps ==
  ASSUME IInv, NEW p \in Procs, UserExit(p)
  PROVE  IInv'
<1>1. /\ pt[p] \in Table /\ TableOK(pt[p]) /\ free \cap PagesOf(pt[p]) = {} /\ free \subseteq Pages
      /\ sz[p] \in Nat /\ Pg(sz[p]) \in Nat /\ Pg(sz[p]) <= TRAPFRAME /\ mem \in [Pages -> Contents]
      /\ par \in [Procs -> Procs \cup {0}] /\ calls \in Nat /\ NoLoc \in Locals /\ NoLoc.npt = NoTable
  BY Known
<1>2. /\ panic = "none" /\ panic' = "none" /\ pc[p] = "user" /\ calls' = calls
      /\ tf' = tf /\ sz' = sz /\ pt' = pt /\ free' = free /\ mem' = mem
      /\ pc' = [pc EXCEPT ![p] = "none"] /\ loc' = [loc EXCEPT ![p] = NoLoc]
      /\ st' = [st EXCEPT ![p] = "zombie"] /\ par' \in [Procs -> Procs \cup {0}]
  BY <1>1, InitProc DEF UserExit, At, Exit, Keep, Goto
<1>3. EmptyFrom(pt[p], Pg(sz[p]))
  BY <1>2, CallFacts
<1>4. pt' = [pt EXCEPT ![p] = pt[p]] /\ sz' = [sz EXCEPT ![p] = sz[p]]
  BY <1>2, Same DEF IInv, TypeOK
<1>5. PagesOf(pt[p]) \cup free' = PagesOf(pt[p]) \cup free /\ PagesOf(pt[p]) \cap free' = {}
  BY <1>1, <1>2
<1>6. UserStep(p, pt[p], sz[p], NoLoc, "none")
  BY <1>1, <1>2, <1>3, <1>4, <1>5 DEF UserStep
<1> QED  BY <1>6, UserSteps

\* A page fault: memory, or the end of the process.
LEMMA PageFaultSteps ==
  ASSUME IInv, NEW p \in Procs, NEW v \in Nat, NEW write, PageFault(p, v, write)
  PROVE  IInv'
<1>1. /\ pt[p] \in Table /\ TableOK(pt[p]) /\ free \cap PagesOf(pt[p]) = {} /\ free \subseteq Pages
      /\ sz[p] \in Nat /\ Pg(sz[p]) \in Nat /\ Pg(sz[p]) <= TRAPFRAME /\ mem \in [Pages -> Contents]
      /\ par \in [Procs -> Procs \cup {0}] /\ calls \in Nat /\ NoLoc \in Locals /\ NoLoc.npt = NoTable
      /\ loc[p] \in Locals
  BY Known
<1>2. PICK r : r = Vmfault(p, v)
  OBVIOUS
<1>3. /\ panic = "none" /\ panic' = r.panic /\ pc[p] = "user" /\ calls' \in Nat
      /\ tf' = tf /\ sz' = sz /\ pt' = [pt EXCEPT ![p] = r.t] /\ free' = r.f /\ mem' = r.m
      /\ (r.ok /\ UNCHANGED <<st, par, pc, loc>>) \/ (~r.ok /\ Exit(p))
  BY <1>1, <1>2 DEF PageFault, Calls, At, Counted
<1>4. st[p] = "run" /\ EmptyFrom(pt[p], Pg(sz[p])) /\ loc[p].npt = NoTable
  BY <1>3, CallFacts DEF IInv, CtlInv
<1>5. /\ r.panic = "none" /\ r.ok \in BOOLEAN /\ r.m \in [Pages -> Contents]
      /\ r.f \subseteq free /\ r.t \in Table /\ TableOK(r.t) /\ PagesOf(r.t) = PagesOf(pt[p]) \cup (free \ r.f)
      /\ EmptyFrom(r.t, Pg(sz[p]))
  BY <1>2, <1>4, VmfaultFacts
<1>6. PagesOf(r.t) \cup free' = PagesOf(pt[p]) \cup free /\ PagesOf(r.t) \cap free' = {} /\ free' \subseteq Pages
  <2>1. PICK X, Y, F : X = PagesOf(r.t) /\ Y = PagesOf(pt[p]) /\ F = r.f
    OBVIOUS
  <2>2. X = Y \cup (free \ F) /\ F \subseteq free /\ free \cap Y = {} /\ free' = F /\ free \subseteq Pages
    BY <1>1, <1>3, <1>5, <2>1
  <2> QED  BY <2>1, <2>2
<1>7. sz' = [sz EXCEPT ![p] = sz[p]]
  BY <1>3, Same DEF IInv, TypeOK
<1>8. CASE r.ok
  <2>1. st' = [st EXCEPT ![p] = "run"] /\ pc' = [pc EXCEPT ![p] = "user"] /\ loc' = [loc EXCEPT ![p] = loc[p]]
    BY <1>3, <1>4, <1>8, Same DEF IInv, TypeOK
  <2>2. par' \in [Procs -> Procs \cup {0}]
    BY <1>1, <1>3, <1>8
  <2>3. UserStep(p, r.t, sz[p], loc[p], "user")
    BY <1>1, <1>3, <1>4, <1>5, <1>6, <1>7, <2>1, <2>2 DEF UserStep
  <2> QED  BY <2>3, UserSteps
<1>9. CASE ~r.ok
  <2>1. /\ pc' = [pc EXCEPT ![p] = "none"] /\ loc' = [loc EXCEPT ![p] = NoLoc]
        /\ st' = [st EXCEPT ![p] = "zombie"] /\ par' \in [Procs -> Procs \cup {0}]
    BY <1>1, <1>3, <1>9, InitProc DEF Exit, Keep, Goto
  <2>2. UserStep(p, r.t, sz[p], NoLoc, "none")
    BY <1>1, <1>3, <1>5, <1>6, <1>7, <2>1 DEF UserStep
  <2> QED  BY <2>2, UserSteps
<1> QED  BY <1>5, <1>8, <1>9

\* A page of a copy.
LEMMA CopyPageSteps ==
  ASSUME IInv, NEW p \in Procs, NEW dir \in {"copyin", "copyout"}, CopyPage(p, dir)
  PROVE  IInv'
<1>1. /\ pt[p] \in Table /\ TableOK(pt[p]) /\ free \cap PagesOf(pt[p]) = {} /\ free \subseteq Pages
      /\ sz[p] \in Nat /\ Pg(sz[p]) \in Nat /\ Pg(sz[p]) <= TRAPFRAME /\ mem \in [Pages -> Contents]
      /\ par \in [Procs -> Procs \cup {0}] /\ calls \in Nat /\ NoLoc \in Locals /\ NoLoc.npt = NoTable
      /\ loc[p] \in Locals
  BY Known
<1>2. PICK v \in Nat : v = loc[p].a
  BY <1>1 DEF Locals
<1>3. PICK r : r = IF Allowed(p, v, FALSE) THEN [f |-> free, m |-> mem, t |-> pt[p], ok |-> TRUE, panic |-> "none"]
                   ELSE Vmfault(p, v)
  OBVIOUS
<1>4. /\ panic = "none" /\ panic' = r.panic /\ pc[p] = dir /\ calls' = calls
      /\ tf' = tf /\ sz' = sz /\ st' = st /\ par' = par /\ pt' = [pt EXCEPT ![p] = r.t] /\ free' = r.f
  BY <1>2, <1>3 DEF CopyPage, At, procs
<1>5. /\ mem' = r.m \/ \E x : mem' = [r.m EXCEPT ![x] = Value(p)]
      /\ \/ loc' = [loc EXCEPT ![p] = [loc[p] EXCEPT !.a = v + 1]] /\ pc' = pc
         \/ loc' = [loc EXCEPT ![p] = NoLoc] /\ pc' = [pc EXCEPT ![p] = "user"]
  BY <1>2, <1>3 DEF CopyPage, Keep, Return, Goto
<1>6. st[p] = "run" /\ EmptyFrom(pt[p], Pg(sz[p])) /\ loc[p].npt = NoTable
  BY <1>4, CallFacts DEF IInv, CtlInv
<1>7. /\ r.panic = "none" /\ r.m \in [Pages -> Contents]
      /\ r.f \subseteq free /\ r.t \in Table /\ TableOK(r.t) /\ PagesOf(r.t) = PagesOf(pt[p]) \cup (free \ r.f)
      /\ EmptyFrom(r.t, Pg(sz[p]))
  <2>1. CASE Allowed(p, v, FALSE)
    <3>1. r.panic = "none" /\ r.m = mem /\ r.f = free /\ r.t = pt[p]
      BY <1>3, <2>1
    <3> QED  BY <1>1, <1>6, <3>1
  <2>2. CASE ~Allowed(p, v, FALSE)
    <3>1. r = Vmfault(p, v)
      BY <1>3, <2>2
    <3> QED  BY <1>6, <3>1, VmfaultFacts
  <2> QED  BY <2>1, <2>2
<1>8. PagesOf(r.t) \cup free' = PagesOf(pt[p]) \cup free /\ PagesOf(r.t) \cap free' = {} /\ free' \subseteq Pages
  <2>1. PICK X, Y, F : X = PagesOf(r.t) /\ Y = PagesOf(pt[p]) /\ F = r.f
    OBVIOUS
  <2>2. X = Y \cup (free \ F) /\ F \subseteq free /\ free \cap Y = {} /\ free' = F /\ free \subseteq Pages
    BY <1>1, <1>4, <1>7, <2>1
  <2> QED  BY <2>1, <2>2
<1>9. sz' = [sz EXCEPT ![p] = sz[p]] /\ st' = [st EXCEPT ![p] = "run"]
  BY <1>4, <1>6, Same DEF IInv, TypeOK
<1>10. mem' \in [Pages -> Contents]
  BY <1>5, <1>7 DEF Contents, Value
<1>11. CASE loc' = [loc EXCEPT ![p] = [loc[p] EXCEPT !.a = v + 1]] /\ pc' = pc
  <2>1. PICK l : l = [loc[p] EXCEPT !.a = v + 1]
    OBVIOUS
  <2>2. l \in Locals /\ l.npt = NoTable
    BY <1>1, <1>2, <1>6, <2>1, LocalsNext
  <2>3. pc' = [pc EXCEPT ![p] = dir]
    BY <1>4, <1>11, Same DEF IInv, TypeOK
  <2>4. UserStep(p, r.t, sz[p], l, dir)
    BY <1>1, <1>4, <1>7, <1>8, <1>9, <1>10, <1>11, <2>1, <2>2, <2>3 DEF UserStep
  <2> QED  BY <2>4, UserSteps
<1>12. CASE loc' = [loc EXCEPT ![p] = NoLoc] /\ pc' = [pc EXCEPT ![p] = "user"]
  <2>1. UserStep(p, r.t, sz[p], NoLoc, "user")
    BY <1>1, <1>4, <1>7, <1>8, <1>9, <1>10, <1>12 DEF UserStep
  <2> QED  BY <2>1, UserSteps
<1> QED  BY <1>5, <1>11, <1>12
\* exec() begins: a page table without memory.
LEMMA ExecBegins ==
  ASSUME IInv, NEW p \in Procs, Exec(p)
  PROVE  IInv'
<1>1. /\ free \subseteq Pages /\ mem \in [Pages -> Contents] /\ calls \in Nat /\ NoLoc \in Locals
      /\ tf[p] \in 0..NPAGES
  BY Known DEF IInv, TypeOK
<1>2. PICK r : r = ProcPagetable(free, tf[p])
  OBVIOUS
<1>3. /\ r.f \subseteq free /\ r.t \in Table /\ TableOK(r.t) /\ PagesOf(r.t) = free \ r.f
      /\ EmptyFrom(r.t, 0)
  BY <1>1, <1>2, ProcPagetableFacts
<1>4. PICK s \in Segments : Keep(p, [NoLoc EXCEPT !.npt = r.t, !.segs = s])
  BY <1>2 DEF Exec
<1>5. PICK l : l = [NoLoc EXCEPT !.npt = r.t, !.segs = s]
  OBVIOUS
<1>6. /\ panic = "none" /\ panic' = "none" /\ pc[p] \in {"user", "forkret"} /\ calls' \in Nat
      /\ free' = r.f /\ mem' = mem /\ UNCHANGED <<pt, sz, tf, st, par>>
      /\ loc' = [loc EXCEPT ![p] = l] /\ pc' = [pc EXCEPT ![p] = "load"]
  <2>1. panic = "none" /\ pc[p] \in {"user", "forkret"} /\ calls' \in Nat
    BY <1>1 DEF Exec, Calls, Counted, At
  <2>2. loc' = [loc EXCEPT ![p] = l]
    BY <1>4, <1>5 DEF Keep
  <2>3. panic' = panic /\ free' = r.f /\ mem' = mem /\ UNCHANGED <<pt, sz, tf, st, par>> /\ pc' = [pc EXCEPT ![p] = "load"]
    BY <1>2 DEF Exec, Goto, procs
  <2> QED  BY <2>1, <2>2, <2>3
<1>7. PagesOf(loc[p].npt) = {}
  BY <1>6, NoTableFacts DEF IInv, CtlInv
<1>8. s \in Seq(SUBSET {"u", "w", "x"}) /\ Len(s) + USERSTACK + 1 <= TRAPFRAME /\ Len(s) \in Nat
  BY VmAssumption DEF TRAPFRAME, MAXVA
<1>9. l \in Locals /\ l.npt = r.t /\ l.segs = s /\ l.nsz = 0 /\ l.a = 0
  <2>1. NoLoc.a = 0 /\ NoLoc.nsz = 0
    BY DEF NoLoc
  <2> QED  BY <1>1, <1>3, <1>5, <1>8, <2>1 DEF Locals
<1>10. Pg(0) = 0
  BY PgWhole, VmAssumption
<1>11. PagesOf(l.npt) \cup free' = PagesOf(loc[p].npt) \cup free /\ PagesOf(l.npt) \cap free' = {} /\ free' \subseteq Pages
  BY <1>1, <1>3, <1>6, <1>7, <1>9
<1>12. /\ Pg(l.nsz) <= l.a /\ l.a <= Pg(l.nsz) + USERSTACK + 1
       /\ l.segs # <<>> => l.a = Pg(l.nsz)
       /\ Pg(l.nsz) + Len(l.segs) + USERSTACK + 1 <= TRAPFRAME
       /\ EmptyFrom(l.npt, l.a)
  BY <1>3, <1>8, <1>9, <1>10, Bounds
<1>13. ExecStep(p, l, "load")
  BY <1>1, <1>3, <1>6, <1>9, <1>11, <1>12 DEF ExecStep
<1> QED  BY <1>13, ExecSteps

\* What exec() knows while it loads.
LEMMA LoadFacts ==
  ASSUME IInv, NEW p \in Procs, pc[p] = "load"
  PROVE  /\ loc[p].nsz \in Nat /\ loc[p].a \in Nat /\ Pg(loc[p].nsz) \in Nat
         /\ loc[p].segs \in Seq(SUBSET {"u", "w", "x"}) /\ Len(loc[p].segs) \in Nat
         /\ Pg(loc[p].nsz) <= loc[p].a /\ loc[p].a <= Pg(loc[p].nsz) + USERSTACK + 1
         /\ loc[p].segs # <<>> => loc[p].a = Pg(loc[p].nsz)
         /\ Pg(loc[p].nsz) + Len(loc[p].segs) + USERSTACK + 1 <= TRAPFRAME
         /\ EmptyFrom(loc[p].npt, loc[p].a)
         /\ loc[p].a <= TRAPFRAME
<1>1. loc[p] \in Locals
  BY Known
<1>2. loc[p].nsz \in Nat /\ loc[p].a \in Nat /\ loc[p].segs \in Seq(SUBSET {"u", "w", "x"})
  BY <1>1 DEF Locals
<1>3. Len(loc[p].segs) \in Nat /\ Pg(loc[p].nsz) \in Nat
  <2>1. Pg(loc[p].nsz) \in Nat
    BY <1>2, PgBelow
  <2>2. PICK s \in Seq(SUBSET {"u", "w", "x"}) : s = loc[p].segs
    BY <1>2
  <2>3. Len(s) \in Nat
    OBVIOUS
  <2> QED  BY <2>1, <2>2, <2>3
<1>4. /\ Pg(loc[p].nsz) <= loc[p].a /\ loc[p].a <= Pg(loc[p].nsz) + USERSTACK + 1
      /\ loc[p].segs # <<>> => loc[p].a = Pg(loc[p].nsz)
      /\ Pg(loc[p].nsz) + Len(loc[p].segs) + USERSTACK + 1 <= TRAPFRAME
      /\ EmptyFrom(loc[p].npt, loc[p].a)
  BY DEF IInv, SizeInv, MapInv
<1>5. loc[p].a <= TRAPFRAME
  BY <1>2, <1>3, <1>4, Bounds, SMTT(30)
<1> QED  BY <1>2, <1>3, <1>4, <1>5

\* goto bad frees the new table and everything in it.
LEMMA ExecBadSteps ==
  ASSUME IInv, NEW p \in Procs, pc[p] = "load", panic = "none", NEW r, NEW x \in Nat,
         r.f \subseteq free, r.t \in Table, TableOK(r.t), PagesOf(r.t) = PagesOf(loc[p].npt) \cup (free \ r.f),
         Pg(loc[p].nsz) <= x, x <= TRAPFRAME, EmptyFrom(r.t, x),
         ExecBad(p, r, x), UNCHANGED <<procs, calls>>
  PROVE  IInv'
<1>1. /\ free \subseteq Pages /\ mem \in [Pages -> Contents] /\ calls \in Nat /\ NoLoc \in Locals
      /\ NoLoc.npt = NoTable /\ PagesOf(loc[p].npt) \subseteq Pages
  BY Known
<1>2. Pg(loc[p].nsz) \in Nat /\ Pg(loc[p].nsz) <= TRAPFRAME
  BY LoadFacts, Bounds
<1>3. PICK S \in SUBSET LowPages : S = Pg(loc[p].nsz)..x - 1
  BY <1>2, Bounds DEF LowPages
<1>4. PICK u : u = Uvmunmap(r.t, S)
  OBVIOUS
<1>5. /\ u \in Table /\ TableOK(u) /\ PagesOf(u) = PagesOf(r.t) \ Mapped(r.t, S)
      /\ Mapped(r.t, S) \subseteq PagesOf(r.t)
      /\ \A v \in VPages : u.pte[v] = IF v \in S THEN NoPte ELSE r.t.pte[v]
  BY <1>4, UnmapFacts
<1>6. EmptyFrom(u, Pg(loc[p].nsz))
  BY <1>2, <1>3, <1>5, Bounds DEF EmptyFrom, NoPte, LowPages
<1>7. FreePages(u, loc[p].nsz) = PagesOf(u) /\ FreePanic(u, loc[p].nsz) = "none"
  BY <1>2, <1>6, FreeFacts
<1>8. PICK gone : gone = Mapped(r.t, S) \cup FreePages(u, loc[p].nsz)
  OBVIOUS
<1>9. /\ panic' \in {"none", FreePanic(u, loc[p].nsz), "exec"} /\ pt' = pt
      /\ free' = r.f \cup gone /\ mem' = Junk(mem, gone)
      /\ loc' = [loc EXCEPT ![p] = NoLoc] /\ pc' = [pc EXCEPT ![p] = "user"]
  BY <1>3, <1>4, <1>8 DEF ExecBad, Return, Goto, Keep
<1>10. free' = PagesOf(loc[p].npt) \cup free
  <2>1. PICK X, Y, Z, F, M : X = PagesOf(r.t) /\ Y = PagesOf(loc[p].npt) /\ F = r.f /\ Z = PagesOf(u) /\ M = Mapped(r.t, S)
    OBVIOUS
  <2>2. X = Y \cup (free \ F) /\ F \subseteq free /\ Z = X \ M /\ M \subseteq X /\ free' = F \cup (M \cup Z)
    BY <1>5, <1>7, <1>8, <1>9, <2>1
  <2> QED  BY <2>1, <2>2
<1>11. mem' \in [Pages -> Contents] /\ panic' \in {"none", "exec"}
  BY <1>1, <1>7, <1>9, JunkType
<1>12. PagesOf(NoLoc.npt) \cup free' = PagesOf(loc[p].npt) \cup free /\ PagesOf(NoLoc.npt) \cap free' = {}
  BY <1>1, <1>10, NoTableFacts
<1>13. free' \subseteq Pages /\ UNCHANGED <<pt, sz, tf, st, par>> /\ TableOK(NoLoc.npt)
  BY <1>1, <1>9, <1>10, NoTableFacts DEF procs
<1>14. calls' \in Nat
  BY <1>1
<1>15. ExecStep(p, NoLoc, "user")
  BY <1>1, <1>9, <1>11, <1>12, <1>13, <1>14 DEF ExecStep
<1> QED  BY <1>15, ExecSteps

LEMMA ExecUnreadableSteps ==
  ASSUME IInv, NEW p \in Procs, ExecUnreadable(p)
  PROVE  IInv'
<1>1. pc[p] = "load" /\ panic = "none" /\ UNCHANGED <<procs, calls>> /\ loc[p].segs # <<>>
  BY DEF ExecUnreadable, At
<1>2. PICK r : r = [f |-> free, t |-> loc[p].npt]
  OBVIOUS
<1>3. ExecBad(p, r, Pg(loc[p].nsz))
  BY <1>2 DEF ExecUnreadable
<1>4. /\ loc[p].npt \in Table /\ TableOK(loc[p].npt) /\ Pg(loc[p].nsz) \in Nat /\ Pg(loc[p].nsz) <= TRAPFRAME
      /\ EmptyFrom(loc[p].npt, Pg(loc[p].nsz))
  BY <1>1, Known, LoadFacts
<1>5. r.f = free /\ r.t = loc[p].npt
  BY <1>2
<1>6. PagesOf(r.t) = PagesOf(loc[p].npt) \cup (free \ r.f)
  BY <1>5
<1> QED  BY <1>1, <1>3, <1>4, <1>5, <1>6, ExecBadSteps
\* A page is added to exec()'s table at x, from where nothing is mapped.
Longer(r, t, x) ==
  /\ r.panic = "none" /\ r.ok \in BOOLEAN /\ r.m \in [Pages -> Contents]
  /\ r.f \subseteq free /\ r.t \in Table /\ TableOK(r.t)
  /\ PagesOf(r.t) = PagesOf(t) \cup (free \ r.f)
  /\ EmptyFrom(r.t, x + 1) /\ (~r.ok => EmptyFrom(r.t, x))

LEMMA ExecMapFacts ==
  ASSUME IInv, NEW p \in Procs, pc[p] = "load", NEW x \in Nat, x = loc[p].a, x < TRAPFRAME,
         NEW perm \in SUBSET {"u", "w", "x"}, NEW y \in Contents,
         NEW r, r = MapNew(free, mem, loc[p].npt, x, perm, y)
  PROVE  Longer(r, loc[p].npt, x)
<1>1. PICK t \in Table : t = loc[p].npt
  BY Known
<1>2. TableOK(t) /\ free \cap PagesOf(t) = {} /\ free \subseteq Pages /\ mem \in [Pages -> Contents]
  BY <1>1, Known
<1>3. EmptyFrom(t, x)
  BY <1>1, LoadFacts
<1>4. x \in LowPages /\ x \in VPages
  BY Bounds DEF LowPages
<1>5. t.pte[x].pa = 0
  BY <1>3, <1>4 DEF EmptyFrom
<1>6. Added(MapNew(free, mem, t, x, perm, y), free, mem, t, x, perm, y)
  BY <1>2, <1>4, <1>5, MapNewFacts
<1>7. Added(r, free, mem, t, x, perm, y)
  BY <1>1, <1>6
<1>8. r.m \in [Pages -> Contents]
  BY <1>2, <1>7, AddedContents
<1>9. \A w \in VPages : w # x => r.t.pte[w] = t.pte[w]
  BY <1>7, AddedElsewhere
<1>10. EmptyFrom(r.t, x + 1)
  BY <1>3, <1>9, Bounds DEF EmptyFrom, LowPages
<1>11. ~r.ok => EmptyFrom(r.t, x)
  BY <1>3, <1>7 DEF EmptyFrom, Added
<1> QED  BY <1>1, <1>7, <1>8, <1>10, <1>11 DEF Added, Longer

\* The page is there and exec() goes on with locals l.
LEMMA ExecMapped ==
  ASSUME IInv, NEW p \in Procs, pc[p] = "load", panic = "none", NEW r, NEW l, l \in Locals,
         r.m \in [Pages -> Contents], r.f \subseteq free, r.t \in Table, TableOK(r.t),
         PagesOf(r.t) = PagesOf(loc[p].npt) \cup (free \ r.f),
         panic' = "none", free' = r.f, mem' = r.m, loc' = [loc EXCEPT ![p] = l], UNCHANGED <<pc, pt, procs, calls>>,
         l.npt = r.t, Pg(l.nsz) <= l.a, l.a <= Pg(l.nsz) + USERSTACK + 1, l.segs # <<>> => l.a = Pg(l.nsz),
         Pg(l.nsz) + Len(l.segs) + USERSTACK + 1 <= TRAPFRAME, EmptyFrom(l.npt, l.a)
  PROVE  IInv'
<1>1. /\ free \subseteq Pages /\ calls \in Nat /\ free \cap PagesOf(loc[p].npt) = {}
  BY Known
<1>2. pc' = [pc EXCEPT ![p] = "load"]
  BY Same DEF IInv, TypeOK
<1>3. PagesOf(l.npt) \cup free' = PagesOf(loc[p].npt) \cup free /\ PagesOf(l.npt) \cap free' = {} /\ free' \subseteq Pages
  <2>1. PICK X, Y, F : X = PagesOf(l.npt) /\ Y = PagesOf(loc[p].npt) /\ F = r.f
    OBVIOUS
  <2>2. X = Y \cup (free \ F) /\ F \subseteq free /\ free \cap Y = {} /\ free' = F /\ free \subseteq Pages
    BY <1>1, <2>1
  <2> QED  BY <2>1, <2>2
<1>4. UNCHANGED <<pt, sz, tf, st, par>> /\ calls' \in Nat
  BY <1>1 DEF procs
<1>5. mem' \in [Pages -> Contents] /\ TableOK(l.npt)
  OBVIOUS
<1>6. ExecStep(p, l, "load")
  BY <1>2, <1>3, <1>4, <1>5 DEF ExecStep
<1> QED  BY <1>6, ExecSteps

LEMMA ExecSegmentSteps ==
  ASSUME IInv, NEW p \in Procs, ExecSegment(p)
  PROVE  IInv'
<1>1. pc[p] = "load" /\ panic = "none" /\ UNCHANGED <<procs, calls>> /\ loc[p].segs # <<>>
  BY DEF ExecSegment, At
<1>2. PICK v \in Nat : v = Pg(loc[p].nsz) /\ v = loc[p].a
  BY <1>1, LoadFacts
<1>3. PICK s \in Seq(SUBSET {"u", "w", "x"}) : s = loc[p].segs /\ s # <<>> /\ v + Len(s) + USERSTACK + 1 <= TRAPFRAME
  BY <1>1, <1>2, LoadFacts
<1>4. PICK perm \in SUBSET {"u", "w", "x"} : perm = Head(s)
  BY <1>3
<1>5. Tail(s) \in Seq(SUBSET {"u", "w", "x"}) /\ Len(s) \in Nat /\ Len(Tail(s)) = Len(s) - 1 /\ Len(s) >= 1
  BY <1>3
<1>6. PICK y \in Contents : y = IF "w" \in perm THEN "data" ELSE "text"
  BY DEF Contents
<1>7. PICK r : r = MapNew(free, mem, loc[p].npt, v, perm, y)
  OBVIOUS
<1>8. v < TRAPFRAME /\ v + 1 + Len(Tail(s)) + USERSTACK + 1 <= TRAPFRAME
  <2>1. PICK n \in Nat, m \in Nat, k \in Nat : n = Len(s) /\ m = TRAPFRAME /\ k = USERSTACK
    BY <1>5, Bounds
  <2>2. PICK h \in Int : h = n - 1
    OBVIOUS
  <2>3. v + n + k + 1 <= m
    BY <1>3, <2>1
  <2>4. n >= 1 /\ Len(Tail(s)) = h
    BY <1>5, <2>1, <2>2
  <2>5. v < m /\ v + 1 + h + k + 1 <= m
    BY <2>2, <2>3, <2>4
  <2> QED  BY <2>1, <2>4, <2>5
<1>9. /\ r.panic = "none" /\ r.ok \in BOOLEAN /\ r.m \in [Pages -> Contents]
      /\ r.f \subseteq free /\ r.t \in Table /\ TableOK(r.t)
      /\ PagesOf(r.t) = PagesOf(loc[p].npt) \cup (free \ r.f)
      /\ EmptyFrom(r.t, v + 1) /\ (~r.ok => EmptyFrom(r.t, v))
  <2>1. Longer(r, loc[p].npt, v)
    BY <1>1, <1>2, <1>7, <1>8, ExecMapFacts
  <2> QED  BY <2>1 DEF Longer
<1>10. CASE r.ok
  <2>1. PICK l : l = [loc[p] EXCEPT !.npt = r.t, !.segs = Tail(s), !.nsz = (v + 1) * PGSIZE, !.a = v + 1]
    OBVIOUS
  <2>2. /\ panic' = r.panic /\ free' = r.f /\ mem' = r.m /\ UNCHANGED <<pc, pt>> /\ loc' = [loc EXCEPT ![p] = l]
    BY <1>2, <1>3, <1>4, <1>6, <1>7, <1>10, <2>1 DEF ExecSegment, Keep
  <2>3. (v + 1) * PGSIZE \in Nat /\ Pg((v + 1) * PGSIZE) = v + 1 /\ v + 1 \in Nat
    BY PgWhole
  <2>4. l \in Locals /\ l.npt = r.t /\ l.segs = Tail(s) /\ l.nsz = (v + 1) * PGSIZE /\ l.a = v + 1
    <3>1. loc[p] \in Locals
      BY Known
    <3>2. PICK m \in Locals : m = loc[p]
      BY <3>1
    <3>3. PICK t \in Table, y1 \in Seq(SUBSET {"u", "w", "x"}), n \in Nat, x \in Nat :
            t = r.t /\ y1 = Tail(s) /\ n = (v + 1) * PGSIZE /\ x = v + 1
      BY <1>5, <1>9, <2>3
    <3>4. l = [m EXCEPT !.npt = t, !.segs = y1, !.nsz = n, !.a = x]
      BY <2>1, <3>2, <3>3
    <3>5. l \in Locals /\ l.npt = t /\ l.segs = y1 /\ l.nsz = n /\ l.a = x
      BY <3>4 DEF Locals
    <3> QED  BY <3>3, <3>5
  <2>5. /\ Pg(l.nsz) <= l.a /\ l.a <= Pg(l.nsz) + USERSTACK + 1 /\ (l.segs # <<>> => l.a = Pg(l.nsz))
        /\ Pg(l.nsz) + Len(l.segs) + USERSTACK + 1 <= TRAPFRAME /\ EmptyFrom(l.npt, l.a)
    BY <1>8, <1>9, <2>3, <2>4, Bounds
  <2> QED  BY <1>1, <1>9, <2>2, <2>4, <2>5, ExecMapped
<1>11. CASE ~r.ok
  <2>1. ExecBad(p, r, v)
    BY <1>2, <1>3, <1>4, <1>6, <1>7, <1>11 DEF ExecSegment
  <2>2. Pg(loc[p].nsz) <= v /\ v <= TRAPFRAME
    BY <1>2, <1>8, Bounds
  <2> QED  BY <1>1, <1>9, <1>11, <2>1, <2>2, ExecBadSteps
<1> QED  BY <1>9, <1>10, <1>11

LEMMA ExecStackSteps ==
  ASSUME IInv, NEW p \in Procs, ExecStack(p)
  PROVE  IInv'
<1>1. /\ pc[p] = "load" /\ panic = "none" /\ UNCHANGED <<procs, calls>> /\ loc[p].segs = <<>>
      /\ loc[p].a < Pg(loc[p].nsz) + USERSTACK + 1
  BY DEF ExecStack, At
<1>2. PICK v \in Nat : v = loc[p].a
  BY <1>1, LoadFacts
<1>3. {"u", "w"} \in SUBSET {"u", "w", "x"} /\ "zero" \in Contents
  BY DEF Contents
<1>4. PICK r : r = MapNew(free, mem, loc[p].npt, v, {"u", "w"}, "zero")
  OBVIOUS
<1>5. /\ Pg(loc[p].nsz) \in Nat /\ Pg(loc[p].nsz) <= v /\ v < TRAPFRAME
      /\ Pg(loc[p].nsz) + Len(loc[p].segs) + USERSTACK + 1 <= TRAPFRAME
  BY <1>1, <1>2, LoadFacts, Bounds
<1>6. /\ r.panic = "none" /\ r.ok \in BOOLEAN /\ r.m \in [Pages -> Contents]
      /\ r.f \subseteq free /\ r.t \in Table /\ TableOK(r.t)
      /\ PagesOf(r.t) = PagesOf(loc[p].npt) \cup (free \ r.f)
      /\ EmptyFrom(r.t, v + 1) /\ (~r.ok => EmptyFrom(r.t, v))
  <2>1. PICK perm \in SUBSET {"u", "w", "x"}, y \in Contents : r = MapNew(free, mem, loc[p].npt, v, perm, y)
    BY <1>3, <1>4
  <2>2. Longer(r, loc[p].npt, v)
    BY <1>1, <1>2, <1>5, <2>1, ExecMapFacts
  <2> QED  BY <2>2 DEF Longer
<1>7. CASE r.ok
  <2>1. PICK l : l = [loc[p] EXCEPT !.npt = r.t, !.a = v + 1]
    OBVIOUS
  <2>2. /\ panic' = r.panic /\ free' = r.f /\ mem' = r.m /\ UNCHANGED <<pc, pt>> /\ loc' = [loc EXCEPT ![p] = l]
    BY <1>2, <1>4, <1>7, <2>1 DEF ExecStack, Keep
  <2>3. l \in Locals /\ l.npt = r.t /\ l.segs = loc[p].segs /\ l.nsz = loc[p].nsz /\ l.a = v + 1
    <3>1. loc[p] \in Locals
      BY Known
    <3>2. PICK m \in Locals : m = loc[p]
      BY <3>1
    <3>3. PICK t \in Table, x \in Nat : t = r.t /\ x = v + 1
      BY <1>6
    <3>4. l = [m EXCEPT !.npt = t, !.a = x]
      BY <2>1, <3>2, <3>3
    <3>5. l \in Locals /\ l.npt = t /\ l.segs = m.segs /\ l.nsz = m.nsz /\ l.a = x
      BY <3>4 DEF Locals
    <3> QED  BY <3>2, <3>3, <3>5
  <2>4. /\ Pg(l.nsz) <= l.a /\ l.a <= Pg(l.nsz) + USERSTACK + 1 /\ (l.segs # <<>> => l.a = Pg(l.nsz))
        /\ Pg(l.nsz) + Len(l.segs) + USERSTACK + 1 <= TRAPFRAME /\ EmptyFrom(l.npt, l.a)
    BY <1>1, <1>2, <1>5, <1>6, <2>3, Bounds
  <2> QED  BY <1>1, <1>6, <2>2, <2>3, <2>4, ExecMapped
<1>8. CASE ~r.ok
  <2>1. ExecBad(p, r, v)
    BY <1>2, <1>4, <1>8 DEF ExecStack
  <2>2. v <= TRAPFRAME
    BY <1>5, Bounds
  <2> QED  BY <1>1, <1>5, <1>6, <1>8, <2>1, <2>2, ExecBadSteps
<1> QED  BY <1>6, <1>7, <1>8
\* fork() or wait() of p: the other process q has table t, trapframe x, size n and state s
\* afterwards, and p has locals l and goes to c.
ForkStep(p, q, t, x, n, s, l, c) ==
  /\ panic = "none" /\ panic' = "none"
  /\ p # q /\ pc[p] \in {"user", "copy"} /\ c \in {"user", "copy"} /\ pc[q] = "none"
  /\ \A r \in Procs \ {p} : pc[r] = "copy" => loc[r].np # q
  /\ pt' = [pt EXCEPT ![q] = t] /\ tf' = [tf EXCEPT ![q] = x] /\ sz' = [sz EXCEPT ![q] = n]
  /\ st' = [st EXCEPT ![q] = s]
  /\ loc' = [loc EXCEPT ![p] = l]
  /\ pc' = [pc EXCEPT ![p] = c, ![q] = IF s = "run" THEN "user" ELSE "none"]
  /\ par' \in [Procs -> Procs \cup {0}] /\ calls' \in Nat /\ mem' \in [Pages -> Contents]
  /\ s \in {"unused", "used", "run"}
  /\ t \in Table /\ TableOK(t) /\ x \in 0..NPAGES /\ n \in Nat /\ Pg(n) <= TRAPFRAME
  /\ l \in Locals /\ l.npt = NoTable
  /\ free' \subseteq Pages
  /\ PageOf(x) \cup PagesOf(t) \cup free' = PageOf(tf[q]) \cup PagesOf(pt[q]) \cup free
  /\ PagesOf(t) \cap free' = {} /\ (x # 0 => x \notin free' /\ x \notin PagesOf(t))
  /\ s = "unused" => t = NoTable /\ x = 0
  /\ s # "unused" => x # 0
  /\ s \in {"unused", "used"} => n = 0
  /\ s = "run" => EmptyFrom(t, Pg(n))
  /\ c = "copy" => l.np = q /\ s = "used" /\ l.a <= Pg(sz[p]) /\ EmptyFrom(t, l.a)

LEMMA ForkSteps ==
  ASSUME IInv, NEW p \in Procs, NEW q \in Procs, NEW t, NEW x, NEW n, NEW s, NEW l, NEW c,
         ForkStep(p, q, t, x, n, s, l, c)
  PROVE  IInv'
<1>1. TypeOK /\ OwnInv /\ CtlInv /\ TfInv /\ SizeInv /\ MapInv
  BY DEF IInv
<1>2. /\ pt'[q] = t /\ tf'[q] = x /\ sz'[q] = n /\ st'[q] = s /\ loc'[q] = loc[q]
      /\ pc'[q] = IF s = "run" THEN "user" ELSE "none"
      /\ p # q /\ st[p] = "run" /\ st[q] # "run" /\ loc[q].npt = NoTable /\ loc[p].npt = NoTable
      /\ pt'[p] = pt[p] /\ tf'[p] = tf[p] /\ sz'[p] = sz[p] /\ st'[p] = st[p] /\ loc'[p] = l /\ pc'[p] = c
      /\ \A r \in Procs \ {p, q} : /\ pt'[r] = pt[r] /\ tf'[r] = tf[r] /\ sz'[r] = sz[r] /\ loc'[r] = loc[r]
                                   /\ pc'[r] = pc[r] /\ st'[r] = st[r]
  BY <1>1 DEF ForkStep, TypeOK, CtlInv
<1>3. TypeOK'
  BY <1>1 DEF ForkStep, TypeOK
<1>4. OwnInv'
  <2>1. Others(q, tf, pt, loc, tf', pt', loc')
    BY <1>2 DEF Others, ForkStep
  <2>2. /\ PageOf(tf'[q]) \cup PagesOf(pt'[q]) \cup free' = PageOf(tf[q]) \cup PagesOf(pt[q]) \cup free
        /\ PagesOf(pt'[q]) \cap free' = {}
        /\ tf'[q] # 0 => tf'[q] \notin free' /\ tf'[q] \notin PagesOf(pt'[q])
    BY <1>2 DEF ForkStep
  <2>3. loc'[q].npt = loc[q].npt /\ free' \subseteq Pages /\ free \subseteq Pages
    BY <1>1, <1>2 DEF ForkStep, TypeOK
  <2>4. Partition(Own(tf, pt, loc), free)
    BY <1>1 DEF OwnInv
  <2>5. Partition(Own(tf', pt', loc'), free')
    BY <2>1, <2>2, <2>3, <2>4, ProcMoves
  <2>6. \A r \in Procs : TableOK(pt'[r]) /\ TableOK(loc'[r].npt)
    BY <1>1, <1>2, NoTableFacts DEF OwnInv, ForkStep
  <2> QED  BY <2>5, <2>6 DEF OwnInv
<1>5. CtlInv'
  <2> SUFFICES ASSUME NEW r \in Procs
               PROVE  /\ st'[r] = "run" <=> pc'[r] # "none"
                      /\ st'[r] = "unused" => pt'[r] = NoTable /\ tf'[r] = 0
                      /\ st'[r] \in {"unused", "used"} => sz'[r] = 0
                      /\ pc'[r] # "load" => loc'[r].npt = NoTable
                      /\ pc'[r] = "copy" =>
                           /\ loc'[r].np \in Procs /\ st'[loc'[r].np] = "used"
                           /\ \A u \in Procs \ {r} : pc'[u] = "copy" => loc'[u].np # loc'[r].np
    BY DEF CtlInv
  <2>1. CASE r = p
    <3>1. c = "copy" => \A u \in Procs \ {p} : pc'[u] = "copy" => loc'[u].np # q
      BY <1>2 DEF ForkStep
    <3>2. st'[p] = "run" /\ c # "none" /\ pc'[p] = c /\ loc'[p] = l /\ l.npt = NoTable
      BY <1>2 DEF ForkStep
    <3>3. c = "copy" => l.np = q /\ st'[q] = "used"
      BY <1>2 DEF ForkStep
    <3> QED  BY <2>1, <3>1, <3>2, <3>3
  <2>2. CASE r = q
    BY <1>2, <2>2 DEF ForkStep
  <2>3. CASE r \notin {p, q}
    <3>1. /\ st'[r] = "run" <=> pc'[r] # "none"
          /\ st'[r] = "unused" => pt'[r] = NoTable /\ tf'[r] = 0
          /\ st'[r] \in {"unused", "used"} => sz'[r] = 0
          /\ pc'[r] # "load" => loc'[r].npt = NoTable
      BY <1>1, <1>2, <2>3 DEF CtlInv
    <3>2. ASSUME pc'[r] = "copy"
          PROVE  /\ loc'[r].np \in Procs /\ st'[loc'[r].np] = "used"
                 /\ \A u \in Procs \ {r} : pc'[u] = "copy" => loc'[u].np # loc'[r].np
      <4>1. pc[r] = "copy" /\ loc'[r] = loc[r] /\ loc[r].np # q
        BY <1>2, <2>3, <3>2 DEF ForkStep
      <4>2. loc[r].np \in Procs /\ st[loc[r].np] = "used" /\ loc[r].np # p
        BY <1>1, <1>2, <4>1 DEF CtlInv
      <4>3. \A u \in Procs \ {r} : pc[u] = "copy" => loc[u].np # loc[r].np
        BY <1>1, <4>1 DEF CtlInv
      <4>4. \A u \in Procs \ {r} : pc'[u] = "copy" => loc'[u].np # loc'[r].np
        BY <1>2, <4>1, <4>3 DEF ForkStep
      <4> QED  BY <1>2, <4>1, <4>2, <4>4
    <3> QED  BY <3>1, <3>2
  <2> QED  BY <2>1, <2>2, <2>3
<1>6. SizeInv'
  <2>1. \A r \in Procs : pc'[r] \in {"grow", "load"} => r \notin {p, q}
    BY <1>2 DEF ForkStep
  <2>2. pc'[q] # "copy" /\ (pc'[p] = "copy" => l.a <= Pg(sz[p]))
    BY <1>2 DEF ForkStep
  <2>3. Pg(n) <= TRAPFRAME
    BY DEF ForkStep
  <2> QED  BY <1>1, <1>2, <2>1, <2>2, <2>3 DEF SizeInv
<1>7. MapInv'
  <2> SUFFICES ASSUME NEW r \in Procs
               PROVE  /\ st'[r] \in {"run", "zombie"} /\ pc'[r] # "grow" => EmptyFrom(pt'[r], Pg(sz'[r]))
                      /\ pc'[r] = "grow" => EmptyFrom(pt'[r], loc'[r].a)
                      /\ pc'[r] = "copy" => EmptyFrom(pt'[loc'[r].np], loc'[r].a)
                      /\ pc'[r] = "load" => EmptyFrom(loc'[r].npt, loc'[r].a)
    BY DEF MapInv, EmptyFrom
  <2>1. CASE r = p
    BY <1>1, <1>2, <2>1 DEF ForkStep, MapInv
  <2>2. CASE r = q
    BY <1>1, <1>2, <2>2 DEF ForkStep
  <2>3. CASE r \notin {p, q}
    <3>1. pc[r] = "copy" => loc[r].np \in Procs /\ loc[r].np # p /\ loc[r].np # q
      BY <1>1, <1>2, <2>3 DEF CtlInv, ForkStep
    <3>2. pc[r] = "copy" => pt'[loc[r].np] = pt[loc[r].np]
      BY <1>2, <3>1
    <3> QED  BY <1>1, <1>2, <2>3, <3>2 DEF MapInv
  <2> QED  BY <2>1, <2>2, <2>3
<1>8. TfInv'
  BY <1>1, <1>2 DEF TfInv, ForkStep
<1> QED  BY <1>3, <1>4, <1>5, <1>6, <1>7, <1>8 DEF IInv, PanicInv, ForkStep

LEMMA UnusedSlot ==
  ASSUME IInv, NEW S, S = {q \in Procs : st[q] = "unused"}, S # {}
  PROVE  Min(S) \in Procs /\ st[Min(S)] = "unused"
<1>1. S \subseteq Nat
  BY DEF Procs
<1> QED  BY <1>1, LeastPage

\* fork() begins.
LEMMA ForkBegins ==
  ASSUME IInv, NEW p \in Procs, Fork(p)
  PROVE  IInv'
<1>1. PICK S : S = {q \in Procs : st[q] = "unused"}
  OBVIOUS
<1>2. PICK tp, q, r : tp = Kalloc(free) /\ q = Min(S) /\ r = ProcPagetable(free \ {tp}, tp)
  OBVIOUS
<1>3. PICK l : l = [NoLoc EXCEPT !.np = q]
  OBVIOUS
<1>4. /\ panic = "none" /\ panic' = "none" /\ pc[p] = "user" /\ S # {} /\ tp # 0
  BY <1>1, <1>2 DEF Fork, At
<1>5. /\ free' = r.f /\ pt' = [pt EXCEPT ![q] = r.t] /\ tf' = [tf EXCEPT ![q] = tp]
      /\ st' = [st EXCEPT ![q] = "used"] /\ loc' = [loc EXCEPT ![p] = l] /\ pc' = [pc EXCEPT ![p] = "copy"]
      /\ mem' = mem /\ sz' = sz /\ par' = par
  BY <1>1, <1>2, <1>3 DEF Fork, Keep, Goto
<1>6. /\ free \subseteq Pages /\ mem \in [Pages -> Contents] /\ par \in [Procs -> Procs \cup {0}]
      /\ NoLoc \in Locals /\ NoLoc.npt = NoTable /\ Pg(sz[p]) \in Nat /\ calls \in Nat
  BY Known
<1>7. calls' \in Nat
  BY <1>6 DEF Fork, Counted
<1>8. q \in Procs /\ st[q] = "unused"
  BY <1>1, <1>2, <1>4, UnusedSlot
<1>9. /\ pt[q] = NoTable /\ tf[q] = 0 /\ sz[q] = 0 /\ pc[q] = "none" /\ p # q
      /\ \A u \in Procs : pc[u] = "copy" => loc[u].np # q
  BY <1>4, <1>8 DEF IInv, CtlInv
<1>10. tp \in free /\ tp \in Pages /\ tp \in 0..NPAGES
  BY <1>2, <1>4, <1>6, KallocFacts, Bounds
<1>11. /\ r.f \subseteq free \ {tp} /\ r.t \in Table /\ TableOK(r.t) /\ PagesOf(r.t) = (free \ {tp}) \ r.f
       /\ EmptyFrom(r.t, 0)
  BY <1>2, <1>6, <1>10, ProcPagetableFacts
<1>12. sz' = [sz EXCEPT ![q] = 0] /\ pc' = [pc EXCEPT ![p] = "copy", ![q] = "none"]
  BY <1>5, <1>8, <1>9 DEF IInv, TypeOK
<1>13. l \in Locals /\ l.npt = NoTable /\ l.np = q /\ l.a = 0
  <2>1. NoLoc.a = 0
    BY DEF NoLoc
  <2> QED  BY <1>3, <1>6, <1>8, <2>1 DEF Locals
<1>14. Pg(0) = 0 /\ TRAPFRAME \in Nat
  BY PgWhole, Bounds, VmAssumption
<1>15. /\ PageOf(tp) \cup PagesOf(r.t) \cup free' = PageOf(tf[q]) \cup PagesOf(pt[q]) \cup free
       /\ PagesOf(r.t) \cap free' = {} /\ tp \notin free' /\ tp \notin PagesOf(r.t) /\ free' \subseteq Pages
  <2>1. PICK X, F : X = PagesOf(r.t) /\ F = r.f
    OBVIOUS
  <2>2. PageOf(tp) = {tp} /\ PageOf(tf[q]) = {} /\ PagesOf(pt[q]) = {}
    BY <1>4, <1>9, NoTableFacts DEF PageOf
  <2>3. X = (free \ {tp}) \ F /\ F \subseteq free \ {tp} /\ free' = F
    BY <1>5, <1>11, <2>1
  <2>4. {tp} \cup X \cup free' = free /\ X \cap free' = {} /\ tp \notin free' /\ tp \notin X /\ free' \subseteq Pages
    BY <1>6, <1>10, <2>3
  <2>5. PageOf(tf[q]) \cup PagesOf(pt[q]) \cup free = free
    BY <2>2
  <2> QED  BY <2>1, <2>2, <2>4, <2>5
<1>16. 0 \in Nat /\ Pg(0) <= TRAPFRAME /\ l.a <= Pg(sz[p]) /\ EmptyFrom(r.t, l.a) /\ par' \in [Procs -> Procs \cup {0}]
       /\ mem' \in [Pages -> Contents] /\ \A u \in Procs \ {p} : pc[u] = "copy" => loc[u].np # q
  BY <1>5, <1>6, <1>9, <1>11, <1>13, <1>14
<1>17. PICK t, x : t = r.t /\ x = tp
  OBVIOUS
<1>18. ForkStep(p, q, t, x, 0, "used", l, "copy")
  <2>1. pc' = [pc EXCEPT ![p] = "copy", ![q] = IF "used" = "run" THEN "user" ELSE "none"]
    BY <1>12
  <2>2. t \in Table /\ TableOK(t) /\ x \in 0..NPAGES /\ EmptyFrom(t, l.a)
    BY <1>10, <1>11, <1>16, <1>17
  <2>3. pt' = [pt EXCEPT ![q] = t] /\ tf' = [tf EXCEPT ![q] = x] /\ st' = [st EXCEPT ![q] = "used"]
        /\ loc' = [loc EXCEPT ![p] = l]
    BY <1>5, <1>17
  <2>4. /\ PageOf(x) \cup PagesOf(t) \cup free' = PageOf(tf[q]) \cup PagesOf(pt[q]) \cup free
        /\ PagesOf(t) \cap free' = {} /\ (x # 0 => x \notin free' /\ x \notin PagesOf(t)) /\ free' \subseteq Pages /\ x # 0
    BY <1>4, <1>15, <1>17
  <2> QED  BY <1>4, <1>7, <1>9, <1>12, <1>13, <1>16, <2>1, <2>2, <2>3, <2>4 DEF ForkStep
<1> QED  BY <1>8, <1>18, ForkSteps

\* uvmcopy() maps page x of the child, from where its table t is empty.
LEMMA CopyMapFacts ==
  ASSUME IInv, NEW q \in Procs, NEW t \in Table, t = pt[q], NEW x \in LowPages, EmptyFrom(t, x),
         NEW perm \in SUBSET {"u", "w", "x"}, NEW y \in Contents,
         NEW r, r = MapNew(free, mem, t, x, perm, y)
  PROVE  Longer(r, t, x)
<1>2. TableOK(t) /\ free \cap PagesOf(t) = {} /\ free \subseteq Pages /\ mem \in [Pages -> Contents]
  BY Known
<1>4. x \in VPages /\ x \in Nat
  BY Bounds DEF LowPages
<1>5. t.pte[x].pa = 0
  BY <1>4 DEF EmptyFrom
<1>6. Added(MapNew(free, mem, t, x, perm, y), free, mem, t, x, perm, y)
  BY <1>2, <1>4, <1>5, MapNewFacts
<1>7. Added(r, free, mem, t, x, perm, y)
  BY <1>6
<1>8. r.m \in [Pages -> Contents]
  BY <1>2, <1>7, AddedContents
<1>9. \A w \in VPages : w # x => r.t.pte[w] = t.pte[w]
  BY <1>7, AddedElsewhere
<1>10. EmptyFrom(r.t, x + 1)
  BY <1>4, <1>9, Bounds DEF EmptyFrom, LowPages
<1>11. ~r.ok => EmptyFrom(r.t, x)
  BY <1>7 DEF EmptyFrom, Added
<1> QED  BY <1>7, <1>8, <1>10, <1>11 DEF Added, Longer

\* fork() in the loop of uvmcopy().
LEMMA CopyFacts ==
  ASSUME IInv, NEW p \in Procs, pc[p] = "copy"
  PROVE  /\ loc[p].np \in Procs /\ st[loc[p].np] = "used" /\ pc[loc[p].np] = "none" /\ loc[p].np # p
         /\ sz[loc[p].np] = 0 /\ tf[loc[p].np] # 0 /\ tf[loc[p].np] \in Pages
         /\ tf[loc[p].np] \notin free /\ tf[loc[p].np] \notin PagesOf(pt[loc[p].np])
         /\ \A u \in Procs \ {p} : pc[u] = "copy" => loc[u].np # loc[p].np
         /\ loc[p].a \in Nat /\ loc[p].a <= Pg(sz[p]) /\ loc[p].npt = NoTable
         /\ EmptyFrom(pt[loc[p].np], loc[p].a)
         /\ st[p] = "run" /\ EmptyFrom(pt[p], Pg(sz[p]))
<1>1. PICK q \in Procs : q = loc[p].np
  BY DEF IInv, CtlInv
<1>2. st[q] = "used" /\ pc[q] = "none" /\ q # p /\ st[p] = "run" /\ sz[q] = 0 /\ loc[p].npt = NoTable
      /\ \A u \in Procs \ {p} : pc[u] = "copy" => loc[u].np # loc[p].np
  BY <1>1 DEF IInv, CtlInv
<1>3. tf[q] # 0
  BY <1>2 DEF IInv, TfInv
<1>4. tf[q] \in Pages /\ tf[q] \notin free /\ tf[q] \notin PagesOf(pt[q])
  BY <1>3, PartitionFacts DEF IInv, OwnInv
<1>5. loc[p] \in Locals
  BY Known
<1>6. loc[p].a \in Nat
  BY <1>5 DEF Locals
<1>7. loc[p].a <= Pg(sz[p]) /\ EmptyFrom(pt[q], loc[p].a) /\ EmptyFrom(pt[p], Pg(sz[p]))
  BY <1>1, <1>2 DEF IInv, SizeInv, MapInv
<1> QED  BY <1>1, <1>2, <1>3, <1>4, <1>6, <1>7

LEMMA ToCopyFacts ==
  ASSUME IInv, NEW p \in Procs, pc[p] = "copy", ToCopy(p) # {}, NEW v, v = Min(ToCopy(p))
  PROVE  /\ v \in LowPages /\ v \in Nat /\ v >= loc[p].a /\ v < Pg(sz[p])
         /\ pt[p].pte[v].pa \in Pages /\ pt[p].pte[v].perm \in SUBSET {"u", "w", "x"}
<1>1. PICK S : S = ToCopy(p)
  OBVIOUS
<1>2. S \subseteq Nat
  BY <1>1 DEF ToCopy, VPages
<1>3. v \in S
  BY <1>1, <1>2, LeastPage
<1>4. v \in VPages /\ v \in Nat /\ v >= loc[p].a /\ v * PGSIZE < sz[p] /\ pt[p].pte[v].pa # 0
  BY <1>1, <1>2, <1>3 DEF ToCopy
<1>5. v < Pg(sz[p]) /\ Pg(sz[p]) <= TRAPFRAME /\ Pg(sz[p]) \in Nat
  BY <1>4, Known, PgBelow
<1>6. v \in LowPages
  BY <1>4, <1>5, Bounds DEF LowPages
<1>7. PICK t \in Table : t = pt[p] /\ TableOK(t)
  BY Known
<1>8. t.pte[v] \in Pte
  BY <1>4 DEF Table
<1>9. t.pte[v].pa \in 0..NPAGES + 1 /\ t.pte[v].perm \in SUBSET {"u", "w", "x"}
  BY <1>8 DEF Pte
<1>10. t.pte[v].pa # NPAGES + 1
  BY <1>6, <1>7 DEF TableOK, Trampoline
<1>11. t.pte[v].pa \in Pages
  BY <1>4, <1>7, <1>9, <1>10, Bounds DEF Pages
<1> QED  BY <1>4, <1>5, <1>6, <1>7, <1>9, <1>11

\* A turn of uvmcopy(), or its unwinding.
LEMMA ForkPageSteps ==
  ASSUME IInv, NEW p \in Procs, ForkPage(p)
  PROVE  IInv'
<1>1. panic = "none" /\ pc[p] = "copy" /\ ToCopy(p) # {} /\ sz' = sz /\ par' = par /\ calls' = calls
  BY DEF ForkPage, At
<1>2. PICK q \in Procs : q = loc[p].np
  BY <1>1, CopyFacts
<1>3. /\ st[q] = "used" /\ pc[q] = "none" /\ q # p /\ sz[q] = 0 /\ tf[q] # 0 /\ tf[q] \in Pages
      /\ tf[q] \notin free /\ tf[q] \notin PagesOf(pt[q])
      /\ \A u \in Procs \ {p} : pc[u] = "copy" => loc[u].np # q
      /\ loc[p].a \in Nat /\ loc[p].npt = NoTable /\ EmptyFrom(pt[q], loc[p].a)
  BY <1>1, <1>2, CopyFacts
<1>4. /\ free \subseteq Pages /\ mem \in [Pages -> Contents] /\ par \in [Procs -> Procs \cup {0}]
      /\ NoLoc \in Locals /\ NoLoc.npt = NoTable /\ Pg(sz[p]) \in Nat /\ Pg(sz[p]) <= TRAPFRAME /\ calls \in Nat
      /\ loc[p] \in Locals
  BY Known
<1>5. PICK v : v = Min(ToCopy(p))
  OBVIOUS
<1>6. /\ v \in LowPages /\ v \in Nat /\ v >= loc[p].a /\ v < Pg(sz[p])
      /\ pt[p].pte[v].pa \in Pages /\ pt[p].pte[v].perm \in SUBSET {"u", "w", "x"}
  BY <1>1, <1>5, ToCopyFacts
<1>7. PICK perm \in SUBSET {"u", "w", "x"}, y \in Contents : perm = pt[p].pte[v].perm /\ y = mem[pt[p].pte[v].pa]
  BY <1>4, <1>6
<1>8. PICK t \in Table : t = pt[q]
  BY Known
<1>9. TableOK(t) /\ free \cap PagesOf(t) = {}
  BY <1>8, Known
<1>10. PICK r : r = MapNew(free, mem, t, v, perm, y)
  OBVIOUS
<1>11. EmptyFrom(t, v)
  BY <1>3, <1>6, <1>8, Bounds DEF EmptyFrom, LowPages
<1>12. Longer(r, t, v)
  BY <1>6, <1>8, <1>10, <1>11, CopyMapFacts
<1>13. /\ r.panic = "none" /\ r.ok \in BOOLEAN /\ r.m \in [Pages -> Contents]
       /\ r.f \subseteq free /\ r.t \in Table /\ TableOK(r.t) /\ PagesOf(r.t) = PagesOf(t) \cup (free \ r.f)
       /\ EmptyFrom(r.t, v + 1) /\ (~r.ok => EmptyFrom(r.t, v))
  BY <1>12 DEF Longer
<1>14. Pg(0) = 0 /\ 0 \in Nat
  BY PgWhole, VmAssumption
<1>15. sz' = [sz EXCEPT ![q] = 0]
  BY <1>1, <1>3, Same DEF IInv, TypeOK
<1>16. CASE r.ok
  <2>1. PICK l : l = [loc[p] EXCEPT !.a = v + 1]
    OBVIOUS
  <2>2. /\ panic' = r.panic /\ free' = r.f /\ mem' = r.m /\ pt' = [pt EXCEPT ![q] = r.t]
        /\ loc' = [loc EXCEPT ![p] = l] /\ pc' = pc /\ tf' = tf /\ st' = st
    BY <1>2, <1>5, <1>7, <1>8, <1>10, <1>16, <2>1 DEF ForkPage, Keep
  <2>3. l \in Locals /\ l.npt = NoTable /\ l.a = v + 1 /\ l.np = q
    <3>1. PICK n \in Nat : n = v + 1
      BY <1>6
    <3>2. l = [loc[p] EXCEPT !.a = n]
      BY <2>1, <3>1
    <3>3. l \in Locals /\ l.npt = loc[p].npt /\ l.a = n /\ l.np = loc[p].np
      BY <1>4, <3>2, LocalsNext
    <3> QED  BY <1>2, <1>3, <3>1, <3>3
  <2>4. PICK u, x : u = r.t /\ x = tf[q]
    OBVIOUS
  <2>5. /\ pc' = [pc EXCEPT ![p] = "copy", ![q] = IF "used" = "run" THEN "user" ELSE "none"]
        /\ tf' = [tf EXCEPT ![q] = x] /\ st' = [st EXCEPT ![q] = "used"] /\ pt' = [pt EXCEPT ![q] = u]
    BY <1>1, <1>3, <2>2, <2>4 DEF IInv, TypeOK
  <2>6. u \in Table /\ TableOK(u) /\ x \in 0..NPAGES /\ EmptyFrom(u, l.a) /\ l.a <= Pg(sz[p]) /\ x # 0
    BY <1>3, <1>4, <1>6, <1>13, <2>3, <2>4, Bounds
  <2>7. /\ PageOf(x) \cup PagesOf(u) \cup free' = PageOf(tf[q]) \cup PagesOf(pt[q]) \cup free
        /\ PagesOf(u) \cap free' = {} /\ x \notin free' /\ x \notin PagesOf(u) /\ free' \subseteq Pages
    <3>1. PICK X, Y, F, Z : X = PagesOf(u) /\ Y = PagesOf(pt[q]) /\ F = r.f /\ Z = PageOf(x)
      OBVIOUS
    <3>2. X = Y \cup (free \ F) /\ F \subseteq free /\ free \cap Y = {} /\ free' = F /\ free \subseteq Pages
      BY <1>4, <1>8, <1>9, <1>13, <2>2, <2>4, <3>1
    <3>3. x \notin free /\ x \notin Y /\ PageOf(tf[q]) = Z
      BY <1>3, <2>4, <3>1
    <3>4. Z \cup X \cup free' = Z \cup Y \cup free /\ X \cap free' = {} /\ x \notin free' /\ x \notin X /\ free' \subseteq Pages
      BY <3>2, <3>3
    <3> QED  BY <3>1, <3>3, <3>4
  <2>8. /\ panic' = "none" /\ mem' \in [Pages -> Contents] /\ par' \in [Procs -> Procs \cup {0}] /\ calls' \in Nat
        /\ Pg(0) <= TRAPFRAME
    BY <1>1, <1>4, <1>13, <1>14, <2>2, Bounds
  <2>9. ForkStep(p, q, u, x, 0, "used", l, "copy")
    BY <1>1, <1>3, <1>14, <1>15, <2>2, <2>3, <2>5, <2>6, <2>7, <2>8 DEF ForkStep
  <2> QED  BY <2>9, ForkSteps
<1>17. CASE ~r.ok
  <2>1. PICK S \in SUBSET LowPages : S = Copied(v)
    BY <1>6, Bounds DEF LowPages, Copied
  <2>2. PICK u, gone : u = Uvmunmap(r.t, S) /\ gone = Mapped(r.t, S) \cup FreePages(u, 0) \cup {tf[q]}
    OBVIOUS
  <2>3. /\ panic' = FreePanic(u, 0) /\ free' = r.f \cup gone /\ mem' = Junk(mem, gone) /\ pt' = [pt EXCEPT ![q] = NoTable]
        /\ tf' = [tf EXCEPT ![q] = 0] /\ st' = [st EXCEPT ![q] = "unused"]
        /\ loc' = [loc EXCEPT ![p] = NoLoc] /\ pc' = [pc EXCEPT ![p] = "user"]
    BY <1>2, <1>5, <1>7, <1>8, <1>10, <1>17, <2>1, <2>2 DEF ForkPage, Return, Goto, Keep
  <2>4. /\ u \in Table /\ TableOK(u) /\ PagesOf(u) = PagesOf(r.t) \ Mapped(r.t, S)
        /\ Mapped(r.t, S) \subseteq PagesOf(r.t) /\ Mapped(r.t, S) \subseteq Pages
        /\ \A w \in VPages : u.pte[w] = IF w \in S THEN NoPte ELSE r.t.pte[w]
    BY <1>13, <2>2, UnmapFacts
  <2>5. EmptyFrom(u, 0)
    BY <1>6, <1>13, <1>17, <2>1, <2>4, Bounds, SMTT(30) DEF EmptyFrom, NoPte, LowPages, Copied
  <2>6. FreePages(u, 0) = PagesOf(u) /\ FreePanic(u, 0) = "none"
    BY <1>14, <2>5, Bounds, FreeFacts
  <2>7. /\ PageOf(0) \cup PagesOf(NoTable) \cup free' = PageOf(tf[q]) \cup PagesOf(pt[q]) \cup free
        /\ PagesOf(NoTable) \cap free' = {} /\ free' \subseteq Pages
    <3>1. PICK X, Y, Z, F, M, x : X = PagesOf(r.t) /\ Y = PagesOf(pt[q]) /\ F = r.f /\ Z = PagesOf(u) /\ M = Mapped(r.t, S) /\ x = tf[q]
      OBVIOUS
    <3>2. X = Y \cup (free \ F) /\ F \subseteq free /\ Z = X \ M /\ M \subseteq X /\ free' = F \cup (M \cup Z \cup {x})
      BY <1>8, <1>13, <2>2, <2>3, <2>4, <2>6, <3>1
    <3>3. PageOf(x) = {x} /\ PageOf(0) = {} /\ PagesOf(NoTable) = {}
      BY <1>3, <3>1, NoTableFacts DEF PageOf
    <3>4. free' = {x} \cup Y \cup free
      BY <3>2
    <3>5. Y \subseteq Pages /\ x \in Pages
      BY <1>3, <3>1, Known
    <3> QED  BY <1>4, <3>1, <3>3, <3>4, <3>5
  <2>8. /\ panic' = "none" /\ mem' \in [Pages -> Contents] /\ par' \in [Procs -> Procs \cup {0}] /\ calls' \in Nat
        /\ Pg(0) <= TRAPFRAME
    BY <1>1, <1>4, <1>14, <2>3, <2>6, Bounds, JunkType
  <2>9. pc' = [pc EXCEPT ![p] = "user", ![q] = IF "unused" = "run" THEN "user" ELSE "none"]
    BY <1>3, <2>3 DEF IInv, TypeOK
  <2>10. NoTable \in Table /\ TableOK(NoTable) /\ 0 \in 0..NPAGES
    BY NoTableFacts, Bounds
  <2>11. ForkStep(p, q, NoTable, 0, 0, "unused", NoLoc, "user")
    BY <1>1, <1>3, <1>4, <1>14, <1>15, <2>3, <2>7, <2>8, <2>9, <2>10 DEF ForkStep
  <2> QED  BY <2>11, ForkSteps
<1> QED  BY <1>13, <1>16, <1>17

\* fork() ends.
LEMMA ForkDoneSteps ==
  ASSUME IInv, NEW p \in Procs, ForkDone(p)
  PROVE  IInv'
<1>1. panic = "none" /\ pc[p] = "copy"
  BY DEF ForkDone, At
<1>2. PICK q \in Procs : q = loc[p].np
  BY <1>1, CopyFacts
<1>3. /\ st[q] = "used" /\ pc[q] = "none" /\ q # p /\ tf[q] # 0 /\ tf[q] \in Pages
      /\ tf[q] \notin free /\ tf[q] \notin PagesOf(pt[q])
      /\ \A u \in Procs \ {p} : pc[u] = "copy" => loc[u].np # q
      /\ loc[p].a \in Nat /\ loc[p].a <= Pg(sz[p]) /\ EmptyFrom(pt[q], loc[p].a)
  BY <1>1, <1>2, CopyFacts
<1>4. /\ free \subseteq Pages /\ mem \in [Pages -> Contents] /\ par \in [Procs -> Procs \cup {0}]
      /\ NoLoc \in Locals /\ NoLoc.npt = NoTable /\ Pg(sz[p]) \in Nat /\ Pg(sz[p]) <= TRAPFRAME /\ calls \in Nat
      /\ sz[p] \in Nat
  BY Known
<1>5. PICK t, x, n : t = pt[q] /\ x = tf[q] /\ n = sz[p]
  OBVIOUS
<1>6. t \in Table /\ TableOK(t) /\ free \cap PagesOf(t) = {}
  BY <1>5, Known
<1>7. EmptyFrom(t, Pg(n))
  BY <1>3, <1>4, <1>5, Bounds DEF EmptyFrom, LowPages
<1>8. /\ pt' = [pt EXCEPT ![q] = t] /\ tf' = [tf EXCEPT ![q] = x] /\ sz' = [sz EXCEPT ![q] = n]
      /\ st' = [st EXCEPT ![q] = "run"] /\ loc' = [loc EXCEPT ![p] = NoLoc]
      /\ pc' = [pc EXCEPT ![p] = "user", ![q] = IF "run" = "run" THEN "user" ELSE "none"]
      /\ free' = free /\ mem' = mem /\ calls' = calls /\ panic' = panic
  <2>1. pt' = pt /\ tf' = tf
    BY DEF ForkDone
  <2>2. pt' = [pt EXCEPT ![q] = t] /\ tf' = [tf EXCEPT ![q] = x]
    BY <1>5, <2>1, Same DEF IInv, TypeOK
  <2> QED  BY <1>2, <1>5, <2>2 DEF ForkDone, Keep
<1>9. par' \in [Procs -> Procs \cup {0}]
  BY <1>2, <1>4 DEF ForkDone
<1>10. /\ PageOf(x) \cup PagesOf(t) \cup free' = PageOf(tf[q]) \cup PagesOf(pt[q]) \cup free
       /\ PagesOf(t) \cap free' = {} /\ x \notin free' /\ x \notin PagesOf(t) /\ free' \subseteq Pages
       /\ x \in 0..NPAGES /\ x # 0
  BY <1>3, <1>4, <1>5, <1>6, <1>8, Bounds
<1>11. n \in Nat /\ Pg(n) <= TRAPFRAME
  BY <1>4, <1>5
<1>12. ForkStep(p, q, t, x, n, "run", NoLoc, "user")
  BY <1>1, <1>3, <1>4, <1>6, <1>7, <1>8, <1>9, <1>10, <1>11 DEF ForkStep
<1> QED  BY <1>12, ForkSteps

\* wait() frees a zombie.
LEMMA WaitSteps ==
  ASSUME IInv, NEW p \in Procs, Wait(p)
  PROVE  IInv'
<1>1. PICK q \in Procs : /\ panic = "none" /\ pc[p] = "user" /\ st[q] = "zombie"
                         /\ panic' = FreePanic(pt[q], sz[q])
                         /\ free' = free \cup (FreePages(pt[q], sz[q]) \cup {tf[q]})
                         /\ mem' = Junk(mem, FreePages(pt[q], sz[q]) \cup {tf[q]})
                         /\ pt' = [pt EXCEPT ![q] = NoTable] /\ tf' = [tf EXCEPT ![q] = 0]
                         /\ sz' = [sz EXCEPT ![q] = 0] /\ st' = [st EXCEPT ![q] = "unused"]
                         /\ par' = [par EXCEPT ![q] = 0] /\ pc' = pc /\ loc' = loc /\ calls' = calls
  BY DEF Wait, At
<1>2. pc[q] = "none" /\ p # q /\ loc[p].npt = NoTable
      /\ \A u \in Procs : pc[u] = "copy" => loc[u].np # q
  BY <1>1 DEF IInv, CtlInv
<1>3. tf[q] # 0
  BY <1>1 DEF IInv, TfInv
<1>4. tf[q] \in Pages
  BY <1>3, PartitionFacts DEF IInv, OwnInv
<1>5. EmptyFrom(pt[q], Pg(sz[q]))
  BY <1>1, <1>2 DEF IInv, MapInv
<1>6. /\ free \subseteq Pages /\ mem \in [Pages -> Contents] /\ par \in [Procs -> Procs \cup {0}]
      /\ Pg(sz[q]) \in Nat /\ Pg(sz[q]) <= TRAPFRAME /\ calls \in Nat
      /\ PagesOf(pt[q]) \subseteq Pages
  BY Known
<1>7. FreePages(pt[q], sz[q]) = PagesOf(pt[q]) /\ FreePanic(pt[q], sz[q]) = "none"
  BY <1>5, <1>6, FreeFacts
<1>8. PICK l \in Locals : l = loc[p]
  BY Known
<1>9. loc' = [loc EXCEPT ![p] = l]
  BY <1>1, <1>8, Same DEF IInv, TypeOK
<1>10. pc' = [pc EXCEPT ![p] = "user", ![q] = IF "unused" = "run" THEN "user" ELSE "none"]
  BY <1>1, <1>2 DEF IInv, TypeOK
<1>11. /\ PageOf(0) \cup PagesOf(NoTable) \cup free' = PageOf(tf[q]) \cup PagesOf(pt[q]) \cup free
       /\ PagesOf(NoTable) \cap free' = {} /\ free' \subseteq Pages
  <2>1. PICK Y, x : Y = PagesOf(pt[q]) /\ x = tf[q]
    OBVIOUS
  <2>2. PageOf(x) = {x} /\ PageOf(0) = {} /\ PagesOf(NoTable) = {}
    BY <1>3, <2>1, NoTableFacts DEF PageOf
  <2>3. free' = {x} \cup Y \cup free /\ Y \subseteq Pages /\ x \in Pages
    BY <1>1, <1>4, <1>6, <1>7, <2>1
  <2> QED  BY <1>6, <2>1, <2>2, <2>3
<1>12. /\ panic' = "none" /\ mem' \in [Pages -> Contents] /\ par' \in [Procs -> Procs \cup {0}] /\ calls' \in Nat
       /\ Pg(0) <= TRAPFRAME /\ 0 \in Nat
  <2>1. mem' \in [Pages -> Contents]
    BY <1>1, <1>6, JunkType
  <2>2. Pg(0) = 0
    BY PgWhole, VmAssumption
  <2> QED  BY <1>1, <1>6, <1>7, <2>1, <2>2, Bounds, SMTT(30)
<1>13. NoTable \in Table /\ TableOK(NoTable) /\ 0 \in 0..NPAGES
  BY NoTableFacts, Bounds
<1>14. l.npt = NoTable
  BY <1>2, <1>8
<1>15. ForkStep(p, q, NoTable, 0, 0, "unused", l, "user")
  BY <1>1, <1>2, <1>9, <1>10, <1>11, <1>12, <1>13, <1>14 DEF ForkStep
<1> QED  BY <1>15, ForkSteps

\* exec() ends: the new table replaces the old one, or is freed.
LEMMA ExecDoneSteps ==
  ASSUME IInv, NEW p \in Procs, ExecDone(p)
  PROVE  IInv'
<1>1. /\ panic = "none" /\ pc[p] = "load" /\ loc[p].segs = <<>> /\ loc[p].a = Pg(loc[p].nsz) + USERSTACK + 1
      /\ tf' = tf /\ st' = st /\ par' = par /\ calls' = calls
  BY DEF ExecDone, At
<1>2. PICK v \in Nat, b \in Nat : v = Pg(loc[p].nsz) /\ b = loc[p].a /\ b <= TRAPFRAME /\ EmptyFrom(loc[p].npt, b)
  BY <1>1, LoadFacts
<1>3. v \in VPages /\ v < TRAPFRAME
  BY <1>1, <1>2, Bounds DEF VPages
<1>4. PICK n \in Nat : n = b * PGSIZE /\ Pg(n) = b
  BY PgWhole
<1>5. PICK m \in Table, t \in Table : m = loc[p].npt /\ t = pt[p]
  BY Known
<1>6. /\ TableOK(m) /\ TableOK(t) /\ PagesOf(m) \subseteq Pages /\ PagesOf(t) \subseteq Pages
      /\ free \cap PagesOf(m) = {} /\ free \subseteq Pages /\ mem \in [Pages -> Contents]
      /\ Pg(sz[p]) \in Nat /\ Pg(sz[p]) <= TRAPFRAME /\ NoLoc \in Locals /\ NoLoc.npt = NoTable
      /\ calls \in Nat /\ par \in [Procs -> Procs \cup {0}]
  BY <1>5, Known
<1>7. EmptyFrom(t, Pg(sz[p])) /\ st[p] = "run"
  BY <1>1, <1>5, CallFacts
<1>8. FreePages(t, sz[p]) = PagesOf(t) /\ FreePanic(t, sz[p]) = "none"
  BY <1>6, <1>7, FreeFacts
<1>9. FreePages(m, n) = PagesOf(m) /\ FreePanic(m, n) = "none"
  BY <1>2, <1>4, <1>5, FreeFacts
<1>10. ASSUME /\ panic' = FreePanic(t, sz[p])
              /\ pt' = [pt EXCEPT ![p] = Guarded(m, v)] /\ sz' = [sz EXCEPT ![p] = n]
              /\ free' = free \cup FreePages(t, sz[p])
              /\ mem' = [Junk(mem, FreePages(t, sz[p])) EXCEPT ![m.pte[b - 1].pa] = "args"]
              /\ loc' = [loc EXCEPT ![p] = NoLoc] /\ pc' = [pc EXCEPT ![p] = "user"]
       PROVE  IInv'
  <2>1. PICK u : u = Guarded(m, v)
    OBVIOUS
  <2>2. u \in Table /\ TableOK(u) /\ PagesOf(u) = PagesOf(m) /\ \A w \in VPages : u.pte[w].pa = m.pte[w].pa
    BY <1>3, <1>6, <2>1, GuardFacts
  <2>3. EmptyFrom(u, b)
    BY <1>2, <1>5, <2>2, Bounds DEF EmptyFrom
  <2>4. /\ TypeOK /\ OwnInv /\ CtlInv /\ TfInv /\ SizeInv /\ MapInv
    BY DEF IInv
  <2>5. /\ pt'[p] = u /\ sz'[p] = n /\ loc'[p] = NoLoc /\ pc'[p] = "user" /\ tf' = tf /\ st' = st
        /\ \A q \in Procs \ {p} : pt'[q] = pt[q] /\ sz'[q] = sz[q] /\ loc'[q] = loc[q] /\ pc'[q] = pc[q]
    BY <1>1, <1>10, <2>1, <2>4 DEF TypeOK
  <2>6. TypeOK'
    <3>1. Junk(mem, FreePages(t, sz[p])) \in [Pages -> Contents] /\ "args" \in Contents
      BY <1>6, JunkType DEF Contents
    <3>2. mem' \in [Pages -> Contents]
      BY <1>10, <3>1
    <3>3. free' \subseteq Pages
      BY <1>6, <1>8, <1>10
    <3> QED  BY <1>1, <1>6, <1>10, <2>1, <2>2, <2>4, <3>2, <3>3 DEF TypeOK
  <2>7. OwnInv'
    <3>1. Others(p, tf, pt, loc, tf', pt', loc')
      BY <2>5 DEF Others
    <3>2. /\ tf'[p] = tf[p] /\ PagesOf(pt'[p]) = PagesOf(loc[p].npt) /\ PagesOf(loc'[p].npt) = {}
          /\ free' = free \cup PagesOf(pt[p]) /\ free' \subseteq Pages
      BY <1>5, <1>6, <1>8, <1>10, <2>2, <2>5, NoTableFacts
    <3>3. Partition(Own(tf', pt', loc'), free')
      BY <1>6, <2>4, <3>1, <3>2, ExecMoves DEF OwnInv
    <3>4. \A q \in Procs : TableOK(pt'[q]) /\ TableOK(loc'[q].npt)
      BY <1>6, <2>2, <2>4, <2>5, NoTableFacts DEF OwnInv
    <3> QED  BY <3>3, <3>4 DEF OwnInv
  <2>8. CtlInv'
    BY <1>6, <1>7, <2>4, <2>5 DEF CtlInv
  <2>9. TfInv'
    BY <2>4, <2>5 DEF TfInv
  <2>10. SizeInv'
    BY <1>2, <1>4, <2>4, <2>5 DEF SizeInv
  <2>11. MapInv'
    <3> SUFFICES ASSUME NEW q \in Procs
                 PROVE  /\ st'[q] \in {"run", "zombie"} /\ pc'[q] # "grow" => EmptyFrom(pt'[q], Pg(sz'[q]))
                        /\ pc'[q] = "grow" => EmptyFrom(pt'[q], loc'[q].a)
                        /\ pc'[q] = "copy" => EmptyFrom(pt'[loc'[q].np], loc'[q].a)
                        /\ pc'[q] = "load" => EmptyFrom(loc'[q].npt, loc'[q].a)
      BY DEF MapInv, EmptyFrom
    <3>1. CASE q = p
      BY <1>4, <2>3, <2>5, <3>1
    <3>2. CASE q # p
      <4>1. pc[q] = "copy" => loc[q].np \in Procs /\ loc[q].np # p
        BY <1>7, <2>4 DEF CtlInv
      <4> QED  BY <2>4, <2>5, <3>2, <4>1 DEF MapInv
    <3> QED  BY <3>1, <3>2
  <2> QED  BY <1>8, <1>10, <2>6, <2>7, <2>8, <2>9, <2>10, <2>11 DEF IInv, PanicInv
<1>11. ASSUME /\ panic' = FreePanic(m, n) /\ free' = free \cup FreePages(m, n) /\ mem' = Junk(mem, FreePages(m, n))
              /\ loc' = [loc EXCEPT ![p] = NoLoc] /\ pc' = [pc EXCEPT ![p] = "user"] /\ pt' = pt /\ sz' = sz
       PROVE  IInv'
  <2>1. /\ PagesOf(NoLoc.npt) \cup free' = PagesOf(loc[p].npt) \cup free
        /\ PagesOf(NoLoc.npt) \cap free' = {} /\ free' \subseteq Pages /\ TableOK(NoLoc.npt)
    <3>1. PagesOf(NoLoc.npt) = {} /\ TableOK(NoLoc.npt)
      BY <1>6, NoTableFacts
    <3>2. free' = free \cup PagesOf(m)
      BY <1>9, <1>11
    <3> QED  BY <1>5, <1>6, <3>1, <3>2
  <2>2. mem' \in [Pages -> Contents] /\ panic' = "none" /\ calls' \in Nat
    BY <1>1, <1>6, <1>9, <1>11, JunkType
  <2>3. ExecStep(p, NoLoc, "user")
    BY <1>1, <1>6, <1>11, <2>1, <2>2 DEF ExecStep
  <2> QED  BY <2>3, ExecSteps
<1>12. b * PGSIZE = n /\ loc[p].a * PGSIZE = n
  BY <1>2, <1>4
<1>13. \/ /\ panic' = FreePanic(t, sz[p])
          /\ pt' = [pt EXCEPT ![p] = Guarded(m, v)] /\ sz' = [sz EXCEPT ![p] = n]
          /\ free' = free \cup FreePages(t, sz[p])
          /\ mem' = [Junk(mem, FreePages(t, sz[p])) EXCEPT ![m.pte[b - 1].pa] = "args"]
          /\ loc' = [loc EXCEPT ![p] = NoLoc] /\ pc' = [pc EXCEPT ![p] = "user"]
       \/ /\ panic' = FreePanic(m, n) /\ free' = free \cup FreePages(m, n) /\ mem' = Junk(mem, FreePages(m, n))
          /\ loc' = [loc EXCEPT ![p] = NoLoc] /\ pc' = [pc EXCEPT ![p] = "user"] /\ pt' = pt /\ sz' = sz
  BY <1>2, <1>5, <1>12 DEF ExecDone, Return, Goto, Keep
<1> QED  BY <1>10, <1>11, <1>13

\* The first state.
LEMMA InitInv ==
  ASSUME Init
  PROVE  IInv
<1>1. PICK r : r = ProcPagetable(Pages \ {1}, 1)
  OBVIOUS
<1>2. 1 \in Pages /\ 1 \in 0..NPAGES /\ 1 \in Procs
  BY Bounds, InitProc DEF Pages
<1>3. /\ r.f \subseteq Pages \ {1} /\ r.t \in Table /\ TableOK(r.t) /\ PagesOf(r.t) = (Pages \ {1}) \ r.f
      /\ EmptyFrom(r.t, 0)
  <2>1. PICK f : f = Pages \ {1} /\ f \subseteq Pages /\ r = ProcPagetable(f, 1)
    BY <1>1
  <2>2. /\ r.f \subseteq f /\ r.t \in Table /\ TableOK(r.t) /\ PagesOf(r.t) = f \ r.f
        /\ EmptyFrom(r.t, 0)
    BY <1>2, <2>1, ProcPagetableFacts
  <2> QED  BY <2>1, <2>2
<1>4. /\ free = r.f /\ mem = [k \in Pages |-> "junk"] /\ panic = "none" /\ calls = 0
      /\ pt = [p \in Procs |-> IF p = 1 THEN r.t ELSE NoTable]
      /\ tf = [p \in Procs |-> IF p = 1 THEN 1 ELSE 0]
      /\ sz = [p \in Procs |-> 0] /\ st = [p \in Procs |-> IF p = 1 THEN "run" ELSE "unused"]
      /\ par = [p \in Procs |-> 0] /\ loc = [p \in Procs |-> NoLoc]
      /\ pc = [p \in Procs |-> IF p = 1 THEN "forkret" ELSE "none"]
  BY <1>1 DEF Init
<1>5. /\ NoTable \in Table /\ TableOK(NoTable) /\ PagesOf(NoTable) = {} /\ NoLoc \in Locals /\ NoLoc.npt = NoTable
      /\ Pg(0) = 0
  <2>1. <<>> \in Seq(SUBSET {"u", "w", "x"})
    OBVIOUS
  <2> QED  BY <2>1, NoTableFacts, PgWhole, VmAssumption DEF NoLoc, Locals
<1>6. TypeOK
  <2>1. mem \in [Pages -> Contents]
    BY <1>4 DEF Contents
  <2>2. tf \in [Procs -> 0..NPAGES] /\ pt \in [Procs -> Table] /\ free \subseteq Pages
    BY <1>2, <1>3, <1>4, <1>5, Bounds
  <2> QED  BY <1>4, <1>5, <2>1, <2>2 DEF TypeOK
<1>7. OwnInv
  <2>1. PICK own : own = Own(tf, pt, loc)
    OBVIOUS
  <2>2. \A p \in Procs : /\ own[<<"tf", p>>] = IF p = 1 THEN {1} ELSE {}
                         /\ own[<<"pt", p>>] = IF p = 1 THEN PagesOf(r.t) ELSE {}
                         /\ own[<<"new", p>>] = {}
    <3> TAKE p \in Procs
    <3>1. own[<<"tf", p>>] = PageOf(tf[p])
      BY <2>1, OwnTf
    <3>2. own[<<"pt", p>>] = PagesOf(pt[p])
      BY <2>1, OwnPt
    <3>3. own[<<"new", p>>] = PagesOf(loc[p].npt)
      BY <2>1, OwnNew
    <3>4. PageOf(1) = {1} /\ PageOf(0) = {}
      BY DEF PageOf
    <3> QED  BY <1>4, <1>5, <3>1, <3>2, <3>3, <3>4
  <2>3. PICK X : X = PagesOf(r.t) /\ X = (Pages \ {1}) \ free /\ 1 \notin free
    BY <1>3, <1>4
  <2>4. \A o \in Owners : \/ own[o] = {}
                          \/ o = <<"tf", 1>> /\ own[o] = {1}
                          \/ o = <<"pt", 1>> /\ own[o] = X
    <3> TAKE o \in Owners
    <3>1. PICK p \in Procs : o = <<"tf", p>> \/ o = <<"pt", p>> \/ o = <<"new", p>>
      BY OwnerCases
    <3>2. CASE p = 1
      BY <2>2, <2>3, <3>1, <3>2
    <3>3. CASE p # 1
      BY <2>2, <3>1, <3>3
    <3> QED  BY <3>2, <3>3
  <2>5. \A o \in Owners : own[o] \subseteq Pages \ free
    BY <1>2, <2>3, <2>4
  <2>6. \A o, q \in Owners : o # q => own[o] \cap own[q] = {}
    BY <2>3, <2>4
  <2>7. \A k \in Pages \ free : \E o \in Owners : k \in own[o]
    <3>1. <<"tf", 1>> \in Owners /\ <<"pt", 1>> \in Owners /\ own[<<"tf", 1>>] = {1} /\ own[<<"pt", 1>>] = X
      BY <1>2, <2>2, <2>3, IsOwner
    <3> QED  BY <2>3, <3>1
  <2>8. Partition(own, free)
    BY <2>5, <2>6, <2>7 DEF Partition
  <2>9. \A p \in Procs : TableOK(pt[p]) /\ TableOK(loc[p].npt)
    BY <1>3, <1>4, <1>5
  <2> QED  BY <2>1, <2>8, <2>9 DEF OwnInv
<1>8. CtlInv
  BY <1>4, <1>5 DEF CtlInv
<1>9. TfInv
  BY <1>4 DEF TfInv
<1>10. SizeInv
  BY <1>4, <1>5, Bounds DEF SizeInv
<1>11. MapInv
  <2> SUFFICES ASSUME NEW p \in Procs
               PROVE  /\ st[p] \in {"run", "zombie"} /\ pc[p] # "grow" => EmptyFrom(pt[p], Pg(sz[p]))
                      /\ pc[p] \notin {"grow", "copy", "load"}
    BY DEF MapInv
  <2> QED  BY <1>3, <1>4, <1>5
<1> QED  BY <1>4, <1>6, <1>7, <1>8, <1>9, <1>10, <1>11 DEF IInv, PanicInv

LEMMA StepInv ==
  ASSUME IInv, NEW p \in Procs, Step(p)
  PROVE  IInv'
<1>1. Grows \subseteq Int /\ Touched \subseteq Nat
  BY VmAssumption, Bounds
<1>2. ASSUME NEW n \in Grows, Shrink(p, n) \/ GrowLazy(p, n) \/ GrowEager(p, n) PROVE IInv'
  BY <1>1, <1>2, ShrinkSteps, GrowLazySteps, GrowEagerSteps
<1>3. ASSUME NEW v \in Touched, UserStore(p, v) PROVE IInv'
  BY <1>3, UserStoreSteps
<1>4. ASSUME NEW v \in Touched, NEW w \in BOOLEAN, PageFault(p, v, w) PROVE IInv'
  BY <1>1, <1>4, PageFaultSteps
<1>5. ASSUME NEW v \in Touched, NEW n \in 1..2, NEW dir \in {"copyin", "copyout"}, CopyCall(p, v, n, dir) PROVE IInv'
  BY <1>1, <1>5, CopyCallSteps
<1>6. ASSUME NEW dir \in {"copyin", "copyout"}, CopyPage(p, dir) PROVE IInv'
  BY <1>6, CopyPageSteps
<1>7. GrowPage(p) \/ GrowDone(p) => IInv'
  BY GrowPageSteps, GrowDoneSteps
<1>8. Fork(p) \/ ForkPage(p) \/ ForkDone(p) \/ UserExit(p) \/ Wait(p) => IInv'
  BY ForkBegins, ForkPageSteps, ForkDoneSteps, UserExitSteps, WaitSteps
<1>9. Exec(p) \/ ExecSegment(p) \/ ExecUnreadable(p) \/ ExecStack(p) \/ ExecDone(p) => IInv'
  BY ExecBegins, ExecSegmentSteps, ExecUnreadableSteps, ExecStackSteps, ExecDoneSteps
<1> QED  BY <1>2, <1>3, <1>4, <1>5, <1>6, <1>7, <1>8, <1>9 DEF Step

LEMMA StutterInv ==
  ASSUME IInv, UNCHANGED vars
  PROVE  IInv'
  BY DEF IInv, vars, TypeOK, OwnInv, CtlInv, TfInv, SizeInv, MapInv, PanicInv

\* Types, the ownership of pages, the control, the sizes and the empty parts of tables are
\* an inductive invariant of the memory system.
THEOREM VmInvariant == Spec => []IInv
<1>1. Init => IInv
  BY InitInv
<1>2. IInv /\ [Next]_vars => IInv'
  BY StepInv, StutterInv DEF Next, Stop
<1> QED  BY <1>1, <1>2, PTL DEF Spec

\* Types.
THEOREM VmTypes == Spec => []TypeOK
<1>1. IInv => TypeOK
  BY DEF IInv
<1> QED  BY <1>1, VmInvariant, PTL

\* mappages() never meets a page that is mapped and freewalk() never a leaf: the only
\* panic left is that of forkret() when init's exec() runs out of memory.  (Sizes stay
\* within MaxSz, which is below TRAPFRAME; sys_sbrk() itself has no such limit.)
AssertionsHold == panic \in {"none", "exec"}
THEOREM VmAssertions == Spec => []AssertionsHold
<1>1. IInv => AssertionsHold
  BY DEF IInv, PanicInv, AssertionsHold
<1> QED  BY <1>1, VmInvariant, PTL
-----------------------------------------------------------------------------
(* Every page is accounted for.                                            *)

\* Place h of table t, whose tag is x.
InTable(h, x, t) ==
  \/ \E k \in Tables : h = <<x, "table", k[1], k[2], t.tab[k]>>
  \/ \E v \in LowPages : h = <<x, "memory", 0, v, t.pte[v].pa>>
InTf(h, p) == h = <<p, "tf", 0, 0, tf[p]>>

LEMMA InTablePage ==
  ASSUME NEW h, NEW x, NEW t, InTable(h, x, t), h[5] # 0
  PROVE  h[5] \in PagesOf(t)
<1>1. (\E k \in Tables : t.tab[k] = h[5]) \/ (\E v \in LowPages : t.pte[v].pa = h[5])
  BY DEF InTable
<1> QED  BY <1>1, InPages

LEMMA PageInTable ==
  ASSUME NEW x, NEW t, NEW y, y \in PagesOf(t)
  PROVE  \E h : InTable(h, x, t) /\ h[5] = y /\ y # 0
<1>1. CASE \E k \in Tables : t.tab[k] = y
  <2>1. PICK k \in Tables : t.tab[k] = y
    BY <1>1
  <2>2. PICK h : h = <<x, "table", k[1], k[2], t.tab[k]>>
    OBVIOUS
  <2>3. InTable(h, x, t) /\ h[5] = y
    BY <2>1, <2>2 DEF InTable
  <2> QED  BY <2>3, InPages
<1>2. CASE \E v \in LowPages : t.pte[v].pa = y
  <2>1. PICK v \in LowPages : t.pte[v].pa = y
    BY <1>2
  <2>2. PICK h : h = <<x, "memory", 0, v, t.pte[v].pa>>
    OBVIOUS
  <2>3. InTable(h, x, t) /\ h[5] = y
    BY <2>1, <2>2 DEF InTable
  <2> QED  BY <2>3, InPages
<1> QED  BY <1>1, <1>2, InPages

LEMMA InTableOnce ==
  ASSUME NEW x, NEW t, TableOK(t), NEW h, NEW g, InTable(h, x, t), InTable(g, x, t), h[5] = g[5], h[5] # 0
  PROVE  h = g
<1>1. ASSUME NEW k \in Tables, h = <<x, "table", k[1], k[2], t.tab[k]>>,
             NEW l \in Tables, g = <<x, "table", l[1], l[2], t.tab[l]>>
      PROVE  h = g
  <2>1. k = l
    BY <1>1 DEF TableOK
  <2> QED  BY <1>1, <2>1
<1>2. ASSUME NEW v \in LowPages, h = <<x, "memory", 0, v, t.pte[v].pa>>,
             NEW w \in LowPages, g = <<x, "memory", 0, w, t.pte[w].pa>>
      PROVE  h = g
  <2>1. v = w
    BY <1>2 DEF TableOK
  <2> QED  BY <1>2, <2>1
<1>3. ASSUME NEW k \in Tables, t.tab[k] = h[5], NEW v \in LowPages, t.pte[v].pa = h[5] PROVE FALSE
  BY <1>3 DEF TableOK
<1> QED  BY <1>1, <1>2, <1>3 DEF InTable

\* The places, by who they belong to.
HeldBy(h, o) ==
  CASE o[1] = "tf" -> InTf(h, o[2])
    [] o[1] = "pt" -> InTable(h, o[2], pt[o[2]])
    [] o[1] = "new" -> InTable(h, -o[2], loc[o[2]].npt)

LEMMA Concat ==
  ASSUME NEW x, NEW a, NEW b, NEW c, NEW d
  PROVE  <<x>> \o <<a, b, c, d>> = <<x, a, b, c, d>>
<1>1. PICK S : x \in S /\ a \in S /\ b \in S /\ c \in S /\ d \in S
  <2>1. PICK S : S = {x, a, b, c, d}
    OBVIOUS
  <2> QED  BY <2>1
<1>2. PICK s \in Seq(S), t \in Seq(S), u \in Seq(S) : s = <<x>> /\ t = <<a, b, c, d>> /\ u = <<x, a, b, c, d>>
  <2>1. <<x>> \in Seq(S) /\ <<a, b, c, d>> \in Seq(S) /\ <<x, a, b, c, d>> \in Seq(S)
    BY <1>1
  <2> QED  BY <2>1
<1>3. Len(s) = 1 /\ Len(t) = 4 /\ Len(u) = 5 /\ s[1] = x
      /\ t[1] = a /\ t[2] = b /\ t[3] = c /\ t[4] = d
      /\ u[1] = x /\ u[2] = a /\ u[3] = b /\ u[4] = c /\ u[5] = d
  BY <1>2
<1>4. /\ s \o t \in Seq(S) /\ Len(s \o t) = Len(s) + Len(t)
      /\ \A i \in 1..Len(s) + Len(t) : (s \o t)[i] = IF i <= Len(s) THEN s[i] ELSE t[i - Len(s)]
  BY ConcatProperties
<1>5. PICK w \in Seq(S) : w = s \o t /\ Len(w) = 5 /\ w[1] = x /\ w[2] = a /\ w[3] = b /\ w[4] = c /\ w[5] = d
  <2>1. PICK w \in Seq(S) : w = s \o t
    BY <1>4
  <2>2. Len(w) = 5 /\ \A i \in 1..5 : w[i] = IF i <= 1 THEN s[i] ELSE t[i - 1]
    BY <1>3, <1>4, <2>1
  <2>3. w[1] = s[1] /\ w[2] = t[1] /\ w[3] = t[2] /\ w[4] = t[3] /\ w[5] = t[4]
    BY <2>2
  <2> QED  BY <1>3, <2>1, <2>2, <2>3
<1>6. \A i \in 1..Len(w) : w[i] = u[i]
  BY <1>3, <1>5
<1>7. w = u
  BY <1>3, <1>5, <1>6, SeqEqual
<1> QED  BY <1>2, <1>5, <1>7

LEMMA TableRefers ==
  ASSUME NEW x, NEW t, NEW h
  PROVE  h \in {<<x>> \o r : r \in Refers(t)} <=> InTable(h, x, t)
<1>1. LowPages = 0..TRAPFRAME - 1
  BY DEF LowPages
<1>2. ASSUME InTable(h, x, t) PROVE h \in {<<x>> \o r : r \in Refers(t)}
  <2>1. CASE \E k \in Tables : h = <<x, "table", k[1], k[2], t.tab[k]>>
    <3>1. PICK k \in Tables : h = <<x, "table", k[1], k[2], t.tab[k]>>
      BY <2>1
    <3>2. PICK r : r = <<"table", k[1], k[2], t.tab[k]>>
      OBVIOUS
    <3>3. r \in Refers(t) /\ h = <<x>> \o r
      BY <3>1, <3>2, Concat DEF Refers
    <3> QED  BY <3>3
  <2>2. CASE \E v \in LowPages : h = <<x, "memory", 0, v, t.pte[v].pa>>
    <3>1. PICK v \in LowPages : h = <<x, "memory", 0, v, t.pte[v].pa>>
      BY <2>2
    <3>2. PICK r : r = <<"memory", 0, v, t.pte[v].pa>>
      OBVIOUS
    <3>3. r \in Refers(t) /\ h = <<x>> \o r
      BY <1>1, <3>1, <3>2, Concat DEF Refers
    <3> QED  BY <3>3
  <2> QED  BY <1>2, <2>1, <2>2 DEF InTable
<1>3. ASSUME h \in {<<x>> \o r : r \in Refers(t)} PROVE InTable(h, x, t)
  <2>1. PICK r \in Refers(t) : h = <<x>> \o r
    BY <1>3
  <2>2. CASE \E k \in Tables : r = <<"table", k[1], k[2], t.tab[k]>>
    BY <2>1, <2>2, Concat DEF InTable
  <2>3. CASE \E v \in LowPages : r = <<"memory", 0, v, t.pte[v].pa>>
    BY <2>1, <2>3, Concat DEF InTable
  <2> QED  BY <1>1, <2>1, <2>2, <2>3 DEF Refers
<1> QED  BY <1>2, <1>3

LEMMA HeldCases ==
  ASSUME NEW h
  PROVE  h \in Held <=> h[5] # 0 /\ \E o \in Owners : HeldBy(h, o)
<1>1. \A p \in Procs : /\ HeldBy(h, <<"tf", p>>) <=> h \in {<<p, "tf", 0, 0, tf[p]>>}
                       /\ HeldBy(h, <<"pt", p>>) <=> h \in {<<p>> \o r : r \in Refers(pt[p])}
                       /\ HeldBy(h, <<"new", p>>) <=> h \in {<<-p>> \o r : r \in Refers(loc[p].npt)}
  <2> TAKE p \in Procs
  <2>1. HeldBy(h, <<"tf", p>>) <=> h \in {<<p, "tf", 0, 0, tf[p]>>}
    BY DEF HeldBy, InTf
  <2>2. HeldBy(h, <<"pt", p>>) <=> InTable(h, p, pt[p])
    BY DEF HeldBy
  <2>3. HeldBy(h, <<"new", p>>) <=> InTable(h, -p, loc[p].npt)
    BY DEF HeldBy
  <2>4. InTable(h, p, pt[p]) <=> h \in {<<p>> \o r : r \in Refers(pt[p])}
    BY TableRefers
  <2>5. InTable(h, -p, loc[p].npt) <=> h \in {<<-p>> \o r : r \in Refers(loc[p].npt)}
    BY TableRefers
  <2> QED  BY <2>1, <2>2, <2>3, <2>4, <2>5
<1>2. h \in Held <=> h[5] # 0 /\ \E p \in Procs : HeldBy(h, <<"tf", p>>) \/ HeldBy(h, <<"pt", p>>) \/ HeldBy(h, <<"new", p>>)
  <2> DEFINE B(p) == {<<p>> \o r : r \in Refers(pt[p])}
             C(p) == {<<-p>> \o r : r \in Refers(loc[p].npt)}
             U(p) == {<<p, "tf", 0, 0, tf[p]>>} \cup B(p) \cup C(p)
             S == UNION {U(p) : p \in Procs}
  <2>1. Held = {g \in S : g[5] # 0}
    BY DEF Held
  <2> HIDE DEF B, C
  <2>2. \A p \in Procs : h \in U(p) <=> HeldBy(h, <<"tf", p>>) \/ HeldBy(h, <<"pt", p>>) \/ HeldBy(h, <<"new", p>>)
    BY <1>1 DEF B, C
  <2> HIDE DEF U
  <2>3. h \in S <=> \E p \in Procs : h \in U(p)
    OBVIOUS
  <2> HIDE DEF S
  <2>4. h \in Held <=> h \in S /\ h[5] # 0
    BY <2>1
  <2> QED  BY <2>2, <2>3, <2>4
<1>3. (\E p \in Procs : HeldBy(h, <<"tf", p>>) \/ HeldBy(h, <<"pt", p>>) \/ HeldBy(h, <<"new", p>>))
        <=> \E o \in Owners : HeldBy(h, o)
  BY IsOwner, OwnerCases
<1> QED  BY <1>2, <1>3

\* A place belongs to the owner of its page, who has only one place for it.
LEMMA HeldPage ==
  ASSUME IInv, NEW o \in Owners, NEW h, HeldBy(h, o), h[5] # 0
  PROVE  h[5] \in Own(tf, pt, loc)[o]
<1>1. PICK p \in Procs : o = <<"tf", p>> \/ o = <<"pt", p>> \/ o = <<"new", p>>
  BY OwnerCases
<1>2. CASE o = <<"tf", p>>
  <2>1. h[5] = tf[p]
    BY <1>2 DEF HeldBy, InTf
  <2> QED  BY <1>2, <2>1, OwnTf DEF PageOf
<1>3. CASE o = <<"pt", p>>
  <2>1. InTable(h, p, pt[p])
    BY <1>3 DEF HeldBy
  <2> QED  BY <1>3, <2>1, InTablePage, OwnPt
<1>4. CASE o = <<"new", p>>
  <2>1. InTable(h, -p, loc[p].npt)
    BY <1>4 DEF HeldBy
  <2> QED  BY <1>4, <2>1, InTablePage, OwnNew
<1> QED  BY <1>1, <1>2, <1>3, <1>4

LEMMA HeldOnce ==
  ASSUME IInv, NEW o \in Owners, NEW h, NEW g, HeldBy(h, o), HeldBy(g, o), h[5] # 0, h[5] = g[5]
  PROVE  h = g
<1>1. PICK p \in Procs : o = <<"tf", p>> \/ o = <<"pt", p>> \/ o = <<"new", p>>
  BY OwnerCases
<1>2. CASE o = <<"tf", p>>
  BY <1>2 DEF HeldBy, InTf
<1>3. CASE o = <<"pt", p>>
  <2>1. InTable(h, p, pt[p]) /\ InTable(g, p, pt[p]) /\ TableOK(pt[p])
    BY <1>3, Known DEF HeldBy
  <2> QED  BY <2>1, InTableOnce
<1>4. CASE o = <<"new", p>>
  <2>1. InTable(h, -p, loc[p].npt) /\ InTable(g, -p, loc[p].npt) /\ TableOK(loc[p].npt)
    BY <1>4, Known DEF HeldBy
  <2> QED  BY <2>1, InTableOnce
<1> QED  BY <1>1, <1>2, <1>3, <1>4

LEMMA PageHeld ==
  ASSUME IInv, NEW o \in Owners, NEW y \in Own(tf, pt, loc)[o]
  PROVE  \E h : HeldBy(h, o) /\ h[5] = y /\ y # 0
<1>1. PICK p \in Procs : o = <<"tf", p>> \/ o = <<"pt", p>> \/ o = <<"new", p>>
  BY OwnerCases
<1>2. CASE o = <<"tf", p>>
  <2>1. y = tf[p] /\ y # 0
    BY <1>2, OwnTf DEF PageOf
  <2>2. PICK h : h = <<p, "tf", 0, 0, tf[p]>>
    OBVIOUS
  <2>3. HeldBy(h, o) /\ h[5] = y
    BY <1>2, <2>1, <2>2 DEF HeldBy, InTf
  <2> QED  BY <2>1, <2>3
<1>3. CASE o = <<"pt", p>>
  <2>1. y \in PagesOf(pt[p])
    BY <1>3, OwnPt
  <2>2. PICK h : InTable(h, p, pt[p]) /\ h[5] = y /\ y # 0
    BY <2>1, PageInTable
  <2>3. HeldBy(h, o)
    BY <1>3, <2>2 DEF HeldBy
  <2> QED  BY <2>2, <2>3
<1>4. CASE o = <<"new", p>>
  <2>1. y \in PagesOf(loc[p].npt)
    BY <1>4, OwnNew
  <2>2. PICK h : InTable(h, -p, loc[p].npt) /\ h[5] = y /\ y # 0
    BY <2>1, PageInTable
  <2>3. HeldBy(h, o)
    BY <1>4, <2>2 DEF HeldBy
  <2> QED  BY <2>2, <2>3
<1> QED  BY <1>1, <1>2, <1>3, <1>4

LEMMA Accounted ==
  ASSUME IInv
  PROVE  PagesAccounted
<1>1. PICK own : own = Own(tf, pt, loc) /\ Partition(own, free)
  BY DEF IInv, OwnInv
<1>2. ASSUME NEW h \in Held PROVE h[5] \in Pages \ free
  <2>1. PICK o \in Owners : HeldBy(h, o) /\ h[5] # 0
    BY <1>2, HeldCases
  <2>2. h[5] \in own[o]
    BY <1>1, <2>1, HeldPage
  <2> QED  BY <1>1, <2>2 DEF Partition
<1>3. ASSUME NEW y \in Pages \ free PROVE \E h \in Held : h[5] = y
  <2>1. PICK o \in Owners : y \in own[o]
    BY <1>1, <1>3 DEF Partition
  <2>2. PICK h : HeldBy(h, o) /\ h[5] = y /\ y # 0
    BY <1>1, <2>1, PageHeld
  <2>3. h \in Held
    BY <2>2, HeldCases
  <2> QED  BY <2>2, <2>3
<1>4. ASSUME NEW h \in Held, NEW g \in Held, h[5] = g[5] PROVE h = g
  <2>1. PICK o \in Owners : HeldBy(h, o) /\ h[5] # 0
    BY <1>4, HeldCases
  <2>2. PICK q \in Owners : HeldBy(g, q) /\ g[5] # 0
    BY <1>4, HeldCases
  <2>3. h[5] \in own[o]
    BY <1>1, <2>1, HeldPage
  <2>4. g[5] \in own[q]
    BY <1>1, <2>2, HeldPage
  <2>5. o = q
    BY <1>1, <1>4, <2>3, <2>4 DEF Partition
  <2> QED  BY <1>4, <2>1, <2>2, <2>5, HeldOnce
<1>5. {h[5] : h \in Held} = Pages \ free
  BY <1>2, <1>3
<1>6. Cardinality(Held) = Cardinality(Pages \ free)
  <2>1. PICK H, P : H = Held /\ P = Pages \ free
    OBVIOUS
  <2>2. PICK f : f = [h \in H |-> h[5]]
    OBVIOUS
  <2>3. f \in [H -> P] /\ (\A h, g \in H : f[h] = f[g] => h = g) /\ \A y \in P : \E h \in H : f[h] = y
    BY <1>2, <1>3, <1>4, <2>1, <2>2
  <2>4. f \in Bijection(H, P)
    BY <2>3 DEF Bijection, Injection, Surjection, IsInjective
  <2>5. f \in Injection(H, P) /\ f \in Surjection(H, P)
    BY <2>4 DEF Bijection
  <2>6. IsFiniteSet(P)
    BY <2>1, Bounds, FS_Subset
  <2>7. Cardinality(H) = Cardinality(P)
    BY <2>5, <2>6, FS_Injection
  <2> QED  BY <2>1, <2>7
<1> QED  BY <1>5, <1>6 DEF PagesAccounted

\* Every page is free or is held in exactly one place, whatever call fails half way and
\* however the processes interleave: no page is leaked, freed twice or mapped twice.
THEOREM VmPagesAccounted == Spec => []PagesAccounted
<1>1. IInv => PagesAccounted
  BY Accounted
<1> QED  BY <1>1, VmInvariant, PTL
-----------------------------------------------------------------------------
(* The kernel does not panic, if there is memory for init's first exec().  *)

\* While init's first exec() runs nobody else does, and it has taken at most three pages
\* for each page of the program.
FirstInv ==
  pc[1] \in {"forkret", "load"} =>
    /\ \A q \in Procs \ {1} : st[q] = "unused"
    /\ pc[1] = "forkret" => Cardinality(free) + 6 >= NPAGES
    /\ pc[1] = "load" =>
         /\ Cardinality(free) + 11 + 3 * loc[1].a >= NPAGES
         /\ \E s \in Segments : Pg(loc[1].nsz) + Len(loc[1].segs) = Len(s)

\* g is what is left of the free list f after at most n pages have been taken.
Takes(f, g, n) == Cardinality(f) <= Cardinality(g) + n

LEMMA PageCount ==
  ASSUME NEW f, f \subseteq Pages
  PROVE  IsFiniteSet(f) /\ Cardinality(f) \in Nat /\ (Cardinality(f) > 0 => f # {})
<1>1. IsFiniteSet(f)
  BY Bounds, FS_Subset
<1> QED  BY <1>1, FS_CardinalityType, FS_EmptySet

LEMMA TakesOne ==
  ASSUME NEW f, f \subseteq Pages, NEW x
  PROVE  Takes(f, f \ {x}, 1)
<1>1. IsFiniteSet(f) /\ Cardinality(f) \in Nat
  BY PageCount
<1>2. CASE x \in f
  <2>1. Cardinality(f \ {x}) = Cardinality(f) - 1
    BY <1>1, <1>2, FS_RemoveElement
  <2> QED  BY <1>1, <2>1 DEF Takes
<1>3. CASE x \notin f
  <2>1. f \ {x} = f
    BY <1>3
  <2> QED  BY <1>1, <2>1 DEF Takes
<1> QED  BY <1>2, <1>3

LEMMA TakesMore ==
  ASSUME NEW f, NEW g, NEW h, f \subseteq Pages, g \subseteq Pages, h \subseteq Pages,
         NEW i \in Nat, NEW j \in Nat, Takes(f, g, i), Takes(g, h, j)
  PROVE  Takes(f, h, i + j)
<1>1. Cardinality(f) \in Nat /\ Cardinality(g) \in Nat /\ Cardinality(h) \in Nat
  BY PageCount
<1> QED  BY <1>1 DEF Takes

\* walk() takes a page for each level, and succeeds if there are as many.
LEMMA LevelTakes ==
  ASSUME NEW r, Good(r), NEW k \in Tables, NEW s, s = Level(r, k)
  PROVE  Takes(r.f, s.f, 1) /\ (r.ok /\ Cardinality(r.f) > 0 => s.ok)
<1>0. r.f \subseteq Pages /\ IsRun(r) /\ Cardinality(r.f) \in Nat
  BY PageCount DEF Good
<1>1. CASE ~r.ok \/ r.t.tab[k] # 0
  <2>1. s = r
    BY <1>1 DEF Level
  <2> QED  BY <1>0, <2>1 DEF Takes
<1>2. CASE r.ok /\ r.t.tab[k] = 0 /\ Kalloc(r.f) = 0
  <2>1. s = [r EXCEPT !.ok = FALSE]
    BY <1>2 DEF Level
  <2>2. s.f = r.f
    BY <1>0, <2>1 DEF IsRun
  <2>3. ~(Cardinality(r.f) > 0)
    BY <1>0, <1>2, PageCount, KallocFacts
  <2> QED  BY <1>0, <2>2, <2>3 DEF Takes
<1>3. CASE r.ok /\ r.t.tab[k] = 0 /\ Kalloc(r.f) # 0
  <2>1. PICK x : x = Kalloc(r.f)
    OBVIOUS
  <2>2. s = [r EXCEPT !.f = @ \ {x}, !.t.tab[k] = x]
    BY <1>3, <2>1 DEF Level
  <2>3. s.f = r.f \ {x} /\ s.ok = r.ok
    BY <1>0, <2>2 DEF IsRun
  <2>4. PICK f : f = r.f /\ f \subseteq Pages
    BY <1>0
  <2>5. Takes(f, f \ {x}, 1)
    BY <2>4, TakesOne
  <2> QED  BY <1>3, <2>3, <2>4, <2>5
<1> QED  BY <1>1, <1>2, <1>3

LEMMA WalkTakes ==
  ASSUME NEW r, Good(r), NEW v \in VPages, NEW w, w = Walk(r, v)
  PROVE  Takes(r.f, w.f, 2) /\ (r.ok /\ Cardinality(r.f) > 1 => w.ok)
<1>1. PICK k \in Tables, l \in Tables : k = <<1, v \div (FAN * FAN)>> /\ l = <<0, v \div FAN>>
  BY WalkTables
<1>2. PICK s : s = Level(r, k)
  OBVIOUS
<1>3. w = Level(s, l)
  BY <1>1, <1>2 DEF Walk
<1>4. Good(s)
  BY <1>2, LevelWalks
<1>5. Good(w)
  BY <1>3, <1>4, LevelWalks
<1>6. Takes(r.f, s.f, 1) /\ (r.ok /\ Cardinality(r.f) > 0 => s.ok)
  BY <1>2, LevelTakes
<1>7. Takes(s.f, w.f, 1) /\ (s.ok /\ Cardinality(s.f) > 0 => w.ok)
  BY <1>3, <1>4, LevelTakes
<1>8. r.f \subseteq Pages /\ s.f \subseteq Pages /\ w.f \subseteq Pages
  BY <1>4, <1>5 DEF Good
<1>9. Cardinality(r.f) \in Nat /\ Cardinality(s.f) \in Nat /\ Cardinality(w.f) \in Nat
  BY <1>8, PageCount
<1>10. Takes(r.f, w.f, 2)
  BY <1>6, <1>7, <1>9 DEF Takes
<1>11. r.ok /\ Cardinality(r.f) > 1 => w.ok
  BY <1>6, <1>7, <1>9 DEF Takes
<1> QED  BY <1>10, <1>11

LEMMA MappagesTakes ==
  ASSUME NEW r, Good(r), NEW v \in VPages, NEW pa, NEW perm, NEW s, s = Mappages(r, v, pa, perm)
  PROVE  Takes(r.f, s.f, 2) /\ (r.ok /\ Cardinality(r.f) > 1 => s.ok)
<1>1. PICK w : w = Walk(r, v)
  OBVIOUS
<1>2. Takes(r.f, w.f, 2) /\ (r.ok /\ Cardinality(r.f) > 1 => w.ok)
  BY <1>1, WalkTakes
<1>3. Good(w)
  BY <1>1, WalkWalks
<1>4. s.f = w.f /\ s.ok = w.ok
  <2>1. CASE ~w.ok
    BY <1>1, <2>1 DEF Mappages
  <2>2. CASE w.ok /\ w.t.pte[v].pa # 0
    <3>1. s = [w EXCEPT !.panic = "mappages: remap"]
      BY <1>1, <2>2 DEF Mappages
    <3> QED  BY <1>3, <3>1 DEF Good, IsRun
  <2>3. CASE w.ok /\ w.t.pte[v].pa = 0
    <3>1. s = [w EXCEPT !.t.pte[v] = [pa |-> pa, perm |-> perm]]
      BY <1>1, <2>3 DEF Mappages
    <3> QED  BY <1>3, <3>1 DEF Good, IsRun
  <2> QED  BY <1>3, <2>1, <2>2, <2>3 DEF Good
<1> QED  BY <1>2, <1>4

\* A page and its page table pages.
LEMMA MapNewTakes ==
  ASSUME NEW f, f \subseteq Pages, NEW t \in Table, TableOK(t), f \cap PagesOf(t) = {},
         NEW v \in VPages, NEW perm, NEW m, NEW x, NEW r, r = MapNew(f, m, t, v, perm, x)
  PROVE  Cardinality(f) > 2 => r.ok /\ Takes(f, r.f, 3)
<1> SUFFICES ASSUME Cardinality(f) > 2 PROVE r.ok /\ Takes(f, r.f, 3)
  OBVIOUS
<1>1. PICK pa : pa = Kalloc(f)
  OBVIOUS
<1>2. pa \in f /\ pa # 0
  BY <1>1, PageCount, KallocFacts
<1>3. PICK b : b = [f |-> f \ {pa}, m |-> m, t |-> t, ok |-> TRUE, panic |-> "none"]
  OBVIOUS
<1>4. b.f = f \ {pa} /\ b.t = t /\ b.ok = TRUE /\ b.panic = "none" /\ b.m = m /\ IsRun(b)
  BY <1>3 DEF IsRun
<1>5. Good(b)
  BY <1>4 DEF Good
<1>6. PICK w : w = Mappages(b, v, pa, perm)
  OBVIOUS
<1>7. Takes(b.f, w.f, 2) /\ (b.ok /\ Cardinality(b.f) > 1 => w.ok)
  BY <1>5, <1>6, MappagesTakes
<1>8. Cardinality(f) = Cardinality(b.f) + 1 /\ Cardinality(f) \in Nat /\ Cardinality(b.f) \in Nat
  <2>1. IsFiniteSet(f) /\ Cardinality(f) \in Nat
    BY PageCount
  <2>2. Cardinality(f \ {pa}) = Cardinality(f) - 1
    BY <1>2, <2>1, FS_RemoveElement
  <2> QED  BY <1>4, <2>1, <2>2
<1>9. w.ok
  BY <1>4, <1>7, <1>8
<1>10. r = [w EXCEPT !.m[pa] = x]
  BY <1>1, <1>2, <1>3, <1>6, <1>9 DEF MapNew
<1>11. r.f = w.f /\ r.ok = w.ok /\ w.f \subseteq Pages
  <2>1. PICK y : y = Walk(b, v)
    OBVIOUS
  <2>2. Good(y) /\ Walked(b, y)
    BY <1>5, <2>1, WalkWalks
  <2>3. IsRun(y) /\ y.f \subseteq Pages
    BY <2>2 DEF Good
  <2>4. w = y \/ w = [y EXCEPT !.panic = "mappages: remap"] \/ w = [y EXCEPT !.t.pte[v] = [pa |-> pa, perm |-> perm]]
    BY <1>6, <2>1 DEF Mappages
  <2>5. DOMAIN w = DOMAIN y /\ w.f = y.f
    BY <2>3, <2>4 DEF IsRun
  <2>6. {"f", "ok"} \subseteq DOMAIN w
    BY <2>3, <2>5 DEF IsRun
  <2>7. r.f = w.f /\ r.ok = w.ok
    BY <1>10, <2>6
  <2> QED  BY <2>3, <2>5, <2>7
<1>12. Cardinality(w.f) \in Nat
  BY <1>11, PageCount
<1>13. Takes(f, r.f, 3)
  BY <1>7, <1>8, <1>11, <1>12 DEF Takes
<1> QED  BY <1>9, <1>11, <1>13

\* proc_pagetable(): the root, and two tables for each of its two pages.
LEMMA ProcPagetableTakes ==
  ASSUME NEW f, f \subseteq Pages, NEW tp \in 0..NPAGES, NEW r, r = ProcPagetable(f, tp)
  PROVE  Cardinality(f) <= Cardinality(r.f) + 5
<1>0. Cardinality(f) \in Nat
  BY PageCount
<1>1. CASE r = [f |-> f, t |-> NoTable, ok |-> FALSE, panic |-> "none"]
  <2>1. r.f = f
    BY <1>1
  <2> QED  BY <1>0, <2>1
<1>2. CASE r # [f |-> f, t |-> NoTable, ok |-> FALSE, panic |-> "none"]
  <2>1. PICK root : root = Kalloc(f)
    OBVIOUS
  <2>2. PICK b : b = [f |-> f \ {root}, t |-> [NoTable EXCEPT !.tab[Root] = root], ok |-> TRUE, panic |-> "none"]
    OBVIOUS
  <2>3. PICK c : c = Mappages(b, TRAMPOLINE, Trampoline, {"x"})
    OBVIOUS
  <2>4. root # 0 /\ r = Mappages(c, TRAPFRAME, tp, {"w"})
    BY <1>2, <2>1, <2>2, <2>3 DEF ProcPagetable
  <2>5. root \in f /\ root \in Pages
    BY <2>1, <2>4, KallocFacts
  <2>6. PICK u : u = [NoTable EXCEPT !.tab[Root] = root]
    OBVIOUS
  <2>7. Root \in Tables /\ NoTable.tab[Root] = 0
    BY DEF Tables, NoTable
  <2>8. u \in Table /\ TableOK(u) /\ PagesOf(u) = {root} /\ u.pte = NoTable.pte
    BY <2>5, <2>6, <2>7, NoTableFacts, AddTable
  <2>9. b.f = f \ {root} /\ b.t = u /\ b.ok = TRUE /\ b.panic = "none" /\ IsRun(b)
    BY <2>2, <2>6 DEF IsRun
  <2>10. Good(b)
    BY <2>5, <2>8, <2>9 DEF Good
  <2>11. TRAMPOLINE \in VPages \ LowPages /\ TRAPFRAME \in VPages \ LowPages /\ TRAMPOLINE # TRAPFRAME
    BY Bounds
  <2>12. /\ Trampoline \in 0..NPAGES + 1 /\ tp \in 0..NPAGES + 1
         /\ {"w"} \in SUBSET {"w", "x"} /\ {"x"} \in SUBSET {"w", "x"}
    BY Bounds DEF Trampoline
  <2>13. b.t.pte[TRAMPOLINE].pa = 0 /\ b.t.pte[TRAPFRAME].pa = 0
    BY <2>8, <2>9, <2>11, NoTableFacts
  <2>14. /\ Good(c) /\ c.panic = "none"
         /\ \A w \in VPages : w # TRAMPOLINE => c.t.pte[w] = b.t.pte[w]
    <3>1. MapsHigh(b, c, TRAMPOLINE)
      BY <2>3, <2>9, <2>10, <2>11, <2>12, <2>13, MapHigh
    <3> QED  BY <3>1 DEF MapsHigh
  <2>15. c.t.pte[TRAPFRAME].pa = 0
    BY <2>11, <2>13, <2>14
  <2>16. Good(r)
    <3>1. MapsHigh(c, r, TRAPFRAME)
      BY <2>4, <2>11, <2>12, <2>14, <2>15, MapHigh
    <3> QED  BY <3>1 DEF MapsHigh
  <2>17. Takes(f, b.f, 1)
    BY <2>9, TakesOne
  <2>18. Takes(b.f, c.f, 2)
    BY <2>3, <2>10, <2>11, MappagesTakes
  <2>19. Takes(c.f, r.f, 2)
    BY <2>4, <2>11, <2>14, MappagesTakes
  <2>20. Cardinality(b.f) \in Nat /\ Cardinality(c.f) \in Nat /\ Cardinality(r.f) \in Nat
    BY <2>10, <2>14, <2>16, PageCount DEF Good
  <2> QED  BY <1>0, <2>17, <2>18, <2>19, <2>20 DEF Takes
<1> QED  BY <1>1, <1>2

\* Which panics the operators of vm.c may report.
LEMMA LevelPanic ==
  ASSUME NEW r, "panic" \in DOMAIN r, NEW k, NEW s, s = Level(r, k)
  PROVE  DOMAIN s = DOMAIN r /\ s.panic = r.panic
<1>1. \/ s = r
      \/ s = [r EXCEPT !.ok = FALSE]
      \/ s = [r EXCEPT !.f = @ \ {Kalloc(r.f)}, !.t.tab[k] = Kalloc(r.f)]
  BY DEF Level
<1> QED  BY <1>1

LEMMA MapNewPanic ==
  ASSUME NEW f, NEW m, NEW t, NEW v, NEW perm, NEW x, NEW r, r = MapNew(f, m, t, v, perm, x)
  PROVE  r.panic # "exec"
<1>1. PICK pa, b : /\ pa = Kalloc(f)
                   /\ b = [f |-> f \ {pa}, m |-> m, t |-> t, ok |-> TRUE, panic |-> "none"]
  OBVIOUS
<1>2. PICK y, w : y = Walk(b, v) /\ w = Mappages(b, v, pa, perm)
  OBVIOUS
<1>3. PICK l : l = Level(b, <<1, v \div (FAN * FAN)>>)
  OBVIOUS
<1>4. "panic" \in DOMAIN b /\ b.panic = "none"
  BY <1>1
<1>5. DOMAIN l = DOMAIN b /\ l.panic = "none"
  BY <1>3, <1>4, LevelPanic
<1>6. y = Level(l, <<0, v \div FAN>>)
  BY <1>2, <1>3 DEF Walk
<1>7. DOMAIN y = DOMAIN b /\ y.panic = "none"
  BY <1>4, <1>5, <1>6, LevelPanic
<1>8. \/ w = y
      \/ w = [y EXCEPT !.panic = "mappages: remap"]
      \/ w = [y EXCEPT !.t.pte[v] = [pa |-> pa, perm |-> perm]]
  BY <1>2 DEF Mappages
<1>9. "panic" \in DOMAIN w /\ w.panic \in {"none", "mappages: remap"}
  BY <1>4, <1>7, <1>8
<1>10. \/ r = [f |-> f, m |-> m, t |-> t, ok |-> FALSE, panic |-> "none"]
       \/ r = [w EXCEPT !.f = @ \cup {pa}]
       \/ r = [w EXCEPT !.m[pa] = x]
  BY <1>1, <1>2 DEF MapNew, Unmapped
<1>11. r.panic \in {"none", "mappages: remap"}
  <2>1. CASE r = [f |-> f, m |-> m, t |-> t, ok |-> FALSE, panic |-> "none"]
    BY <2>1
  <2>2. CASE r = [w EXCEPT !.f = @ \cup {pa}]
    <3>1. r.panic = w.panic
      BY <1>9, <2>2
    <3> QED  BY <1>9, <3>1
  <2>3. CASE r = [w EXCEPT !.m[pa] = x]
    <3>1. r.panic = w.panic
      BY <1>9, <2>3
    <3> QED  BY <1>9, <3>1
  <2> QED  BY <1>10, <2>1, <2>2, <2>3
<1> QED  BY <1>11

LEMMA VmfaultPanic ==
  ASSUME NEW p, NEW v
  PROVE  Vmfault(p, v).panic # "exec"
<1>1. CASE v * PGSIZE >= sz[p] \/ pt[p].pte[v].pa # 0
  <2>1. Vmfault(p, v) = [f |-> free, m |-> mem, t |-> pt[p], ok |-> FALSE, panic |-> "none"]
    BY <1>1 DEF Vmfault
  <2> QED  BY <2>1
<1>2. CASE ~(v * PGSIZE >= sz[p] \/ pt[p].pte[v].pa # 0)
  <2>1. PICK r : r = MapNew(free, mem, pt[p], v, {"u", "w"}, "zero") /\ r = Vmfault(p, v)
    BY <1>2 DEF Vmfault
  <2>2. r.panic # "exec"
    BY <2>1, MapNewPanic
  <2> QED  BY <2>1, <2>2
<1> QED  BY <1>1, <1>2

LEMMA FreeNoExec ==
  ASSUME NEW t, NEW n
  PROVE  FreePanic(t, n) # "exec"
  BY DEF FreePanic

\* exec() of another process than init gives up without a panic.
LEMMA OtherExecBad ==
  ASSUME NEW p \in Procs, p # 1, NEW r, NEW a, ExecBad(p, r, a)
  PROVE  panic' # "exec"
<1>1. PICK t, n : panic' = FreePanic(t, n)
  BY DEF ExecBad
<1> QED  BY <1>1, FreeNoExec

\* Only init's exec() of its program can panic with "exec".
LEMMA OtherPanics ==
  ASSUME NEW p \in Procs, Step(p), ~(p = 1 /\ pc[1] = "load")
  PROVE  panic' # "exec"
<1>1. ASSUME NEW n \in Grows, Shrink(p, n) \/ GrowLazy(p, n) \/ GrowEager(p, n) PROVE panic' # "exec"
  BY <1>1 DEF Shrink, GrowLazy, GrowEager, Calls, At
<1>2. ASSUME NEW v \in Touched, UserStore(p, v) PROVE panic' # "exec"
  BY <1>2 DEF UserStore, Calls, At
<1>3. ASSUME NEW v \in Touched, NEW w \in BOOLEAN, PageFault(p, v, w) PROVE panic' # "exec"
  BY <1>3, VmfaultPanic DEF PageFault
<1>4. ASSUME NEW v \in Touched, NEW n \in 1..2, NEW dir \in {"copyin", "copyout"}, CopyCall(p, v, n, dir)
      PROVE  panic' # "exec"
  BY <1>4 DEF CopyCall, Calls, At
<1>5. ASSUME NEW dir \in {"copyin", "copyout"}, CopyPage(p, dir) PROVE panic' # "exec"
  <2>1. \/ panic' = [f |-> free, m |-> mem, t |-> pt[p], ok |-> TRUE, panic |-> "none"].panic
        \/ panic' = Vmfault(p, loc[p].a).panic
    BY <1>5 DEF CopyPage
  <2> QED  BY <2>1, VmfaultPanic
<1>6. ASSUME GrowPage(p) PROVE panic' # "exec"
  <2>1. PICK r : r = MapNew(free, mem, pt[p], loc[p].a, {"u", "w"}, "zero") /\ panic' = r.panic
    BY <1>6 DEF GrowPage
  <2>2. r.panic # "exec"
    BY <2>1, MapNewPanic
  <2> QED  BY <2>1, <2>2
<1>7. GrowDone(p) \/ Fork(p) \/ ForkDone(p) \/ UserExit(p) \/ Exec(p) => panic' # "exec"
  BY DEF GrowDone, Fork, ForkDone, UserExit, Exec, Calls, At
<1>8. ASSUME ForkPage(p) PROVE panic' # "exec"
  <2>1. PICK q, v, e : q = loc[p].np /\ v = Min(ToCopy(p)) /\ e = pt[p].pte[v]
    OBVIOUS
  <2>2. PICK r : r = MapNew(free, mem, pt[q], v, e.perm, mem[e.pa])
    OBVIOUS
  <2>3. panic' = r.panic \/ \E t : panic' = FreePanic(t, 0)
    BY <1>8, <2>1, <2>2 DEF ForkPage
  <2>4. r.panic # "exec"
    BY <2>2, MapNewPanic
  <2> QED  BY <2>3, <2>4, FreeNoExec
<1>9. ASSUME Wait(p) PROVE panic' # "exec"
  BY <1>9, FreeNoExec DEF Wait
<1>10. ASSUME ExecDone(p) PROVE panic' # "exec"
  BY <1>10, FreeNoExec DEF ExecDone
<1>11. ASSUME ExecSegment(p) PROVE panic' # "exec"
  <2>1. PICK v, perm, y : v = Pg(loc[p].nsz) /\ perm = Head(loc[p].segs) /\ y = IF "w" \in perm THEN "data" ELSE "text"
    OBVIOUS
  <2>2. PICK r : r = MapNew(free, mem, loc[p].npt, v, perm, y)
    OBVIOUS
  <2>3. panic' = r.panic \/ (p # 1 /\ ExecBad(p, r, v))
    BY <1>11, <2>1, <2>2 DEF ExecSegment, At
  <2>4. r.panic # "exec"
    BY <2>2, MapNewPanic
  <2> QED  BY <2>3, <2>4, OtherExecBad
<1>12. ASSUME ExecStack(p) PROVE panic' # "exec"
  <2>1. PICK v : v = loc[p].a
    OBVIOUS
  <2>2. PICK r : r = MapNew(free, mem, loc[p].npt, v, {"u", "w"}, "zero")
    OBVIOUS
  <2>3. panic' = r.panic \/ (p # 1 /\ ExecBad(p, r, v))
    BY <1>12, <2>1, <2>2 DEF ExecStack, At
  <2>4. r.panic # "exec"
    BY <2>2, MapNewPanic
  <2> QED  BY <2>3, <2>4, OtherExecBad
<1>13. ASSUME ExecUnreadable(p) PROVE panic' # "exec"
  <2>1. PICK r, a : p # 1 /\ ExecBad(p, r, a)
    BY <1>13 DEF ExecUnreadable
  <2> QED  BY <2>1, OtherExecBad
<1> QED  BY <1>1, <1>2, <1>3, <1>4, <1>5, <1>6, <1>7, <1>8, <1>9, <1>10, <1>11, <1>12, <1>13 DEF Step

\* Init is in forkret() or in its first exec() only from the beginning.
LEMMA FirstExec ==
  ASSUME IInv, NEW p \in Procs, Step(p)
  PROVE  /\ panic = "none" /\ pc[p] # "none"
         /\ pc'[1] \in {"forkret", "load"} => pc[1] \in {"forkret", "load"}
<1>1. 1 \in Procs /\ pc \in [Procs -> {"none", "user", "forkret", "grow", "copyin", "copyout", "copy", "load"}]
  BY InitProc DEF IInv, TypeOK
<1> DEFINE G == /\ panic = "none" /\ pc[p] # "none"
                /\ pc'[1] \in {"forkret", "load"} => pc[1] \in {"forkret", "load"}
<1> SUFFICES G
  OBVIOUS
<1>2. ASSUME NEW n \in Grows, Shrink(p, n) \/ GrowLazy(p, n) \/ GrowEager(p, n) PROVE G
  BY <1>1, <1>2 DEF Shrink, GrowLazy, GrowEager, Calls, At, Goto
<1>3. ASSUME NEW v \in Touched, UserStore(p, v) PROVE G
  BY <1>3 DEF UserStore, Calls, At
<1>4. ASSUME NEW v \in Touched, NEW w \in BOOLEAN, PageFault(p, v, w) PROVE G
  BY <1>1, <1>4 DEF PageFault, Calls, At, Exit, Goto
<1>5. ASSUME NEW v \in Touched, NEW n \in 1..2, NEW dir \in {"copyin", "copyout"}, CopyCall(p, v, n, dir)
      PROVE  G
  BY <1>1, <1>5 DEF CopyCall, Calls, At, Goto
<1>6. ASSUME NEW dir \in {"copyin", "copyout"}, CopyPage(p, dir) PROVE G
  BY <1>1, <1>6 DEF CopyPage, At, Return, Goto
<1>7. ASSUME GrowPage(p) \/ GrowDone(p) PROVE G
  BY <1>1, <1>7 DEF GrowPage, GrowDone, At, Return, Goto
<1>8. ASSUME Fork(p) \/ ForkPage(p) PROVE G
  BY <1>1, <1>8 DEF Fork, ForkPage, At, Return, Goto
<1>9. ASSUME ForkDone(p) PROVE G
  BY <1>1, <1>9 DEF ForkDone, At
<1>10. ASSUME UserExit(p) \/ Wait(p) PROVE G
  BY <1>1, <1>10 DEF UserExit, Wait, At, Exit, Goto
<1>11. ASSUME Exec(p) PROVE G
  BY <1>1, <1>11 DEF Exec, Calls, At, Goto
<1>12. ASSUME ExecSegment(p) \/ ExecStack(p) \/ ExecUnreadable(p) PROVE G
  BY <1>1, <1>12 DEF ExecSegment, ExecStack, ExecUnreadable, ExecBad, At, Return, Goto
<1>13. ASSUME ExecDone(p) PROVE G
  BY <1>1, <1>13 DEF ExecDone, At, Return, Goto
<1> HIDE DEF G
<1> QED  BY <1>2, <1>3, <1>4, <1>5, <1>6, <1>7, <1>8, <1>9, <1>10, <1>11, <1>12, <1>13 DEF Step

\* The page that init's exec() needs next is there.
LEMMA FirstMap ==
  ASSUME IInv, FirstInv, pc[1] = "load", NEW v \in VPages, v = loc[1].a, NEW perm, NEW y,
         NEW r, r = MapNew(free, mem, loc[1].npt, v, perm, y),
         loc[1].a < Pg(loc[1].nsz) + Len(loc[1].segs) + USERSTACK + 1
  PROVE  r.ok /\ Takes(free, r.f, 3)
<1>1. 1 \in Procs
  BY InitProc
<1>2. PICK t \in Table : t = loc[1].npt /\ TableOK(t) /\ free \cap PagesOf(t) = {} /\ free \subseteq Pages
  BY <1>1, Known
<1>3. PICK s \in Segments : Pg(loc[1].nsz) + Len(loc[1].segs) = Len(s)
  BY DEF FirstInv
<1>4. PICK a \in Nat, n \in Nat : a = loc[1].a /\ n = Len(s) /\ a < n + USERSTACK + 1
  <2>1. s \in Seq(SUBSET {"u", "w", "x"})
    BY VmAssumption
  <2>2. Len(s) \in Nat
    BY <2>1
  <2>3. loc[1].a \in Nat
    BY <1>1, LoadFacts
  <2> QED  BY <1>3, <2>2, <2>3
<1>5. NPAGES >= 11 + 3 * (n + USERSTACK + 1) /\ Cardinality(free) + 11 + 3 * a >= NPAGES
  BY <1>4, MemoryAssumption DEF FirstInv
<1>6. PICK c \in Nat : c = Cardinality(free)
  BY <1>2, PageCount
<1>7. c > 2
  <2>1. PICK u \in Nat, m \in Nat : u = USERSTACK /\ m = NPAGES
    BY Bounds
  <2>2. m >= 11 + 3 * (n + u + 1) /\ c + 11 + 3 * a >= m /\ a < n + u + 1
    BY <1>4, <1>5, <1>6, <2>1
  <2> QED  BY <2>2
<1>8. Cardinality(free) > 2 => r.ok /\ Takes(free, r.f, 3)
  BY <1>2, MapNewTakes
<1> QED  BY <1>6, <1>7, <1>8

\* exec() of init begins.
LEMMA FirstBegins ==
  ASSUME IInv, FirstInv, pc[1] = "forkret", Exec(1)
  PROVE  FirstInv'
<1>1. 1 \in Procs
  BY InitProc
<1>2. PICK r : r = ProcPagetable(free, tf[1])
  OBVIOUS
<1>3. PICK s \in Segments : loc' = [loc EXCEPT ![1] = [NoLoc EXCEPT !.npt = r.t, !.segs = s]]
  BY <1>2 DEF Exec, Keep
<1>4. free' = r.f /\ st' = st /\ pc' = [pc EXCEPT ![1] = "load"]
  BY <1>2 DEF Exec, Goto, procs
<1>5. pc'[1] = "load" /\ loc'[1] = [NoLoc EXCEPT !.npt = r.t, !.segs = s]
  BY <1>1, <1>3, <1>4 DEF IInv, TypeOK
<1>6. loc'[1].a = 0 /\ loc'[1].nsz = 0 /\ loc'[1].segs = s
  BY <1>5 DEF NoLoc
<1>7. free \subseteq Pages /\ tf[1] \in 0..NPAGES
  BY <1>1 DEF IInv, TypeOK
<1>8. Cardinality(free) <= Cardinality(r.f) + 5
  BY <1>2, <1>7, ProcPagetableTakes
<1>9. r.f \subseteq free
  BY <1>2, <1>7, ProcPagetableFacts
<1>10. Cardinality(free) \in Nat /\ Cardinality(r.f) \in Nat
  BY <1>7, <1>9, PageCount
<1>11. Cardinality(free) + 6 >= NPAGES
  BY DEF FirstInv
<1>12. Cardinality(free') + 11 + 3 * loc'[1].a >= NPAGES
  BY <1>4, <1>6, <1>8, <1>10, <1>11, Bounds
<1>13. Pg(loc'[1].nsz) + Len(loc'[1].segs) = Len(s)
  <2>1. Pg(0) = 0
    BY PgWhole, VmAssumption
  <2>2. s \in Seq(SUBSET {"u", "w", "x"})
    BY VmAssumption
  <2>3. Len(s) \in Nat
    BY <2>2
  <2> QED  BY <1>6, <2>1, <2>3
<1>14. \A q \in Procs \ {1} : st'[q] = "unused"
  BY <1>4 DEF FirstInv
<1> QED  BY <1>5, <1>12, <1>13, <1>14 DEF FirstInv

LEMMA FirstSegment ==
  ASSUME IInv, IInv', FirstInv, pc[1] = "load", ExecSegment(1)
  PROVE  FirstInv' /\ panic' # "exec"
<1>1. 1 \in Procs
  BY InitProc
<1>2. PICK v, b, l :
        /\ v \in Nat /\ b \in Seq(SUBSET {"u", "w", "x"})
        /\ l = loc[1] /\ v = Pg(l.nsz) /\ b = l.segs /\ b # <<>> /\ l.a = v /\ v + Len(b) + USERSTACK + 1 <= TRAPFRAME
  <2>1. loc[1].segs # <<>>
    BY DEF ExecSegment
  <2> QED  BY <1>1, <2>1, LoadFacts
<1>3. Len(b) \in Nat /\ Len(b) >= 1 /\ Len(Tail(b)) = Len(b) - 1
  BY <1>2
<1>4. v \in VPages
  BY <1>2, <1>3, Bounds DEF VPages
<1>5. PICK perm, y : perm = Head(l.segs) /\ y = IF "w" \in perm THEN "data" ELSE "text"
  OBVIOUS
<1>6. PICK r : r = MapNew(free, mem, l.npt, v, perm, y)
  OBVIOUS
<1>7. loc[1].a < Pg(loc[1].nsz) + Len(loc[1].segs) + USERSTACK + 1
  BY <1>2, <1>3, Bounds
<1>8. r.ok /\ Takes(free, r.f, 3)
  BY <1>2, <1>4, <1>6, <1>7, FirstMap
<1>9. /\ panic' = r.panic /\ free' = r.f /\ pc' = pc /\ st' = st
      /\ loc' = [loc EXCEPT ![1] = [l EXCEPT !.npt = r.t, !.segs = Tail(@), !.nsz = (v + 1) * PGSIZE, !.a = v + 1]]
  BY <1>2, <1>5, <1>6, <1>8 DEF ExecSegment, Keep, procs
<1>10. r.panic # "exec"
  BY <1>6, MapNewPanic
<1>11. loc'[1].a = v + 1 /\ loc'[1].nsz = (v + 1) * PGSIZE /\ loc'[1].segs = Tail(b)
  <2>1. loc[1] \in Locals
    BY <1>1, Known
  <2>2. PICK m \in Locals : m = l
    BY <1>2, <2>1
  <2>3. loc'[1] = [m EXCEPT !.npt = r.t, !.segs = Tail(@), !.nsz = (v + 1) * PGSIZE, !.a = v + 1]
    BY <1>1, <1>9, <2>2 DEF IInv, TypeOK
  <2> QED  BY <1>2, <2>2, <2>3 DEF Locals
<1>12. Pg(loc'[1].nsz) = v + 1
  BY <1>2, <1>11, PgWhole
<1>13. PICK s \in Segments : Pg(loc[1].nsz) + Len(loc[1].segs) = Len(s)
  BY DEF FirstInv
<1>14. Pg(loc'[1].nsz) + Len(loc'[1].segs) = Len(s)
  BY <1>2, <1>3, <1>11, <1>12, <1>13
<1>15. Cardinality(free') + 11 + 3 * loc'[1].a >= NPAGES
  <2>1. free \subseteq Pages /\ free' \subseteq Pages
    BY DEF IInv, TypeOK
  <2>2. Cardinality(free) \in Nat /\ Cardinality(free') \in Nat
    BY <2>1, PageCount
  <2>3. Cardinality(free) + 11 + 3 * v >= NPAGES
    BY <1>2 DEF FirstInv
  <2>4. PICK c \in Nat, d \in Nat, m \in Nat : c = Cardinality(free) /\ d = Cardinality(free') /\ m = NPAGES
    BY <2>2, Bounds
  <2>5. c <= d + 3 /\ c + 11 + 3 * v >= m
    BY <1>8, <1>9, <2>3, <2>4 DEF Takes
  <2>6. d + 11 + 3 * (v + 1) >= m
    BY <1>2, <2>5
  <2> QED  BY <1>11, <2>4, <2>6
<1>16. pc'[1] = "load" /\ \A q \in Procs \ {1} : st'[q] = "unused"
  BY <1>9 DEF FirstInv
<1> QED  BY <1>9, <1>10, <1>14, <1>15, <1>16 DEF FirstInv

LEMMA FirstStack ==
  ASSUME IInv, IInv', FirstInv, pc[1] = "load", ExecStack(1)
  PROVE  FirstInv' /\ panic' # "exec"
<1>1. 1 \in Procs
  BY InitProc
<1>2. PICK v, l : /\ v \in Nat /\ l = loc[1] /\ l.a = v /\ l.segs = <<>> /\ v < Pg(l.nsz) + USERSTACK + 1
                  /\ Pg(l.nsz) \in Nat /\ Pg(l.nsz) + USERSTACK + 1 <= TRAPFRAME
  <2>1. loc[1].segs = <<>> /\ loc[1].a < Pg(loc[1].nsz) + USERSTACK + 1
    BY DEF ExecStack
  <2>2. loc[1].a \in Nat /\ Pg(loc[1].nsz) \in Nat /\ Pg(loc[1].nsz) + Len(loc[1].segs) + USERSTACK + 1 <= TRAPFRAME
    BY <1>1, LoadFacts
  <2> QED  BY <2>1, <2>2, Bounds
<1>4. v \in VPages
  BY <1>2, Bounds DEF VPages
<1>6. PICK r : r = MapNew(free, mem, l.npt, v, {"u", "w"}, "zero")
  OBVIOUS
<1>7. loc[1].a < Pg(loc[1].nsz) + Len(loc[1].segs) + USERSTACK + 1
  BY <1>2, Bounds
<1>8. r.ok /\ Takes(free, r.f, 3)
  BY <1>2, <1>4, <1>6, <1>7, FirstMap
<1>9. /\ panic' = r.panic /\ free' = r.f /\ pc' = pc /\ st' = st
      /\ loc' = [loc EXCEPT ![1] = [l EXCEPT !.npt = r.t, !.a = v + 1]]
  BY <1>2, <1>6, <1>8 DEF ExecStack, Keep, procs
<1>10. r.panic # "exec"
  BY <1>6, MapNewPanic
<1>11. loc'[1].a = v + 1 /\ loc'[1].nsz = l.nsz /\ loc'[1].segs = l.segs
  <2>1. loc[1] \in Locals
    BY <1>1, Known
  <2>2. PICK m \in Locals : m = l
    BY <1>2, <2>1
  <2>3. loc'[1] = [m EXCEPT !.npt = r.t, !.a = v + 1]
    BY <1>1, <1>9, <2>2 DEF IInv, TypeOK
  <2> QED  BY <1>2, <2>2, <2>3 DEF Locals
<1>13. PICK s \in Segments : Pg(loc'[1].nsz) + Len(loc'[1].segs) = Len(s)
  BY <1>2, <1>11 DEF FirstInv
<1>15. Cardinality(free') + 11 + 3 * loc'[1].a >= NPAGES
  <2>1. free \subseteq Pages /\ free' \subseteq Pages
    BY DEF IInv, TypeOK
  <2>2. Cardinality(free) \in Nat /\ Cardinality(free') \in Nat
    BY <2>1, PageCount
  <2>3. Cardinality(free) + 11 + 3 * v >= NPAGES
    BY <1>2 DEF FirstInv
  <2>4. PICK c \in Nat, d \in Nat, m \in Nat : c = Cardinality(free) /\ d = Cardinality(free') /\ m = NPAGES
    BY <2>2, Bounds
  <2>5. c <= d + 3 /\ c + 11 + 3 * v >= m
    BY <1>8, <1>9, <2>3, <2>4 DEF Takes
  <2>6. d + 11 + 3 * (v + 1) >= m
    BY <1>2, <2>5
  <2> QED  BY <1>11, <2>4, <2>6
<1>16. pc'[1] = "load" /\ \A q \in Procs \ {1} : st'[q] = "unused"
  BY <1>9 DEF FirstInv
<1> QED  BY <1>9, <1>10, <1>13, <1>15, <1>16 DEF FirstInv

LEMMA FirstSteps ==
  ASSUME IInv, IInv', FirstInv, NEW p \in Procs, Step(p)
  PROVE  FirstInv' /\ panic' # "exec"
<1>1. /\ panic = "none" /\ pc[p] # "none"
      /\ pc'[1] \in {"forkret", "load"} => pc[1] \in {"forkret", "load"}
  BY FirstExec
<1>2. CASE pc[1] \notin {"forkret", "load"}
  <2>1. panic' # "exec"
    BY <1>2, OtherPanics
  <2> QED  BY <1>1, <1>2, <2>1 DEF FirstInv
<1>3. CASE pc[1] \in {"forkret", "load"}
  <2>1. p = 1
    BY <1>1, <1>3 DEF FirstInv, IInv, CtlInv
  <2>2. CASE pc[1] = "forkret"
    <3>1. Exec(1)
      <4>1. Step(1)
        BY <2>1
      <4>2. ~(\E n \in Grows : Shrink(1, n) \/ GrowLazy(1, n) \/ GrowEager(1, n))
        BY <2>2 DEF Shrink, GrowLazy, GrowEager, Calls, At
      <4>3. ~(GrowPage(1) \/ GrowDone(1)) /\ ~(\E dir \in {"copyin", "copyout"} : CopyPage(1, dir))
        BY <2>2 DEF GrowPage, GrowDone, CopyPage, At
      <4>4. ~(\E v \in Touched : \/ UserStore(1, v)
                                 \/ \E w \in BOOLEAN : PageFault(1, v, w)
                                 \/ \E n \in 1..2, dir \in {"copyin", "copyout"} : CopyCall(1, v, n, dir))
        BY <2>2 DEF UserStore, PageFault, CopyCall, Calls, At
      <4>5. ~(Fork(1) \/ ForkPage(1) \/ ForkDone(1) \/ UserExit(1) \/ Wait(1))
        BY <2>2 DEF Fork, ForkPage, ForkDone, UserExit, Wait, At
      <4>6. ~(ExecSegment(1) \/ ExecUnreadable(1) \/ ExecStack(1) \/ ExecDone(1))
        BY <2>2 DEF ExecSegment, ExecUnreadable, ExecStack, ExecDone, At
      <4> QED  BY <4>1, <4>2, <4>3, <4>4, <4>5, <4>6 DEF Step
    <3>2. FirstInv'
      BY <2>2, <3>1, FirstBegins
    <3>3. panic' # "exec"
      BY <2>2, OtherPanics
    <3> QED  BY <3>2, <3>3
  <2>3. CASE pc[1] = "load"
    <3>1. ExecSegment(1) \/ ExecStack(1) \/ ExecDone(1)
      <4>1. Step(1)
        BY <2>1
      <4>2. ~(\E n \in Grows : Shrink(1, n) \/ GrowLazy(1, n) \/ GrowEager(1, n))
        BY <2>3 DEF Shrink, GrowLazy, GrowEager, Calls, At
      <4>3. ~(GrowPage(1) \/ GrowDone(1)) /\ ~(\E dir \in {"copyin", "copyout"} : CopyPage(1, dir))
        BY <2>3 DEF GrowPage, GrowDone, CopyPage, At
      <4>4. ~(\E v \in Touched : \/ UserStore(1, v)
                                 \/ \E w \in BOOLEAN : PageFault(1, v, w)
                                 \/ \E n \in 1..2, dir \in {"copyin", "copyout"} : CopyCall(1, v, n, dir))
        BY <2>3 DEF UserStore, PageFault, CopyCall, Calls, At
      <4>5. ~(Fork(1) \/ ForkPage(1) \/ ForkDone(1) \/ UserExit(1) \/ Wait(1))
        BY <2>3 DEF Fork, ForkPage, ForkDone, UserExit, Wait, At
      <4>6. ~(ExecUnreadable(1) \/ Exec(1))
        BY <2>3 DEF Exec, ExecUnreadable, Calls, At
      <4> QED  BY <4>1, <4>2, <4>3, <4>4, <4>5, <4>6 DEF Step
    <3>2. CASE ExecSegment(1)
      BY <2>3, <3>2, FirstSegment
    <3>3. CASE ExecStack(1)
      BY <2>3, <3>3, FirstStack
    <3>4. CASE ExecDone(1)
      <4>1. panic' # "exec" /\ pc' = [pc EXCEPT ![1] = "user"]
        BY <3>4, FreeNoExec DEF ExecDone, Return, Goto
      <4>2. pc'[1] = "user"
        BY <4>1, InitProc DEF IInv, TypeOK
      <4> QED  BY <4>1, <4>2 DEF FirstInv
    <3> QED  BY <3>1, <3>2, <3>3, <3>4
  <2> QED  BY <1>3, <2>2, <2>3
<1> QED  BY <1>2, <1>3

LEMMA FirstInit ==
  ASSUME Init
  PROVE  FirstInv /\ NoPanic
<1>1. PICK f, r : f = Pages \ {1} /\ r = ProcPagetable(f, 1)
  OBVIOUS
<1>2. /\ free = r.f /\ panic = "none" /\ st = [p \in Procs |-> IF p = 1 THEN "run" ELSE "unused"]
      /\ pc = [p \in Procs |-> IF p = 1 THEN "forkret" ELSE "none"]
  BY <1>1 DEF Init
<1>3. f \subseteq Pages /\ 1 \in 0..NPAGES /\ 1 \in Pages /\ 1 \in Procs
  BY <1>1, Bounds, InitProc DEF Pages
<1>4. Cardinality(f) <= Cardinality(r.f) + 5 /\ r.f \subseteq f
  BY <1>1, <1>3, ProcPagetableTakes, ProcPagetableFacts
<1>5. Cardinality(Pages) = NPAGES
  <2>1. Cardinality(1..NPAGES) = NPAGES
    BY FS_Interval, Bounds
  <2> QED  BY <2>1 DEF Pages
<1>6. Cardinality(f) = NPAGES - 1
  <2>1. Cardinality(Pages \ {1}) = Cardinality(Pages) - 1
    BY <1>3, Bounds, FS_RemoveElement
  <2> QED  BY <1>1, <1>5, <2>1
<1>7. Cardinality(r.f) \in Nat
  BY <1>3, <1>4, PageCount
<1>8. Cardinality(free) + 6 >= NPAGES
  BY <1>2, <1>4, <1>6, <1>7, Bounds
<1>9. pc[1] = "forkret" /\ \A q \in Procs \ {1} : st[q] = "unused"
  BY <1>2, <1>3
<1> QED  BY <1>2, <1>8, <1>9 DEF FirstInv, NoPanic

\* No assertion of vm.c fails and init's first exec() succeeds, whatever fails half way
\* in later calls: mappages() meets no mapped page and freewalk() no leaf, for processes
\* that grow up to MaxSz, below TRAPFRAME.
THEOREM VmNoPanic == Spec => []NoPanic
<1> DEFINE J == IInv /\ FirstInv /\ NoPanic
<1>1. Init => J
  BY InitInv, FirstInit
<1>2. J /\ [Next]_vars => J'
  <2> SUFFICES ASSUME J, [Next]_vars PROVE J'
    OBVIOUS
  <2>1. ASSUME NEW p \in Procs, Step(p) PROVE J'
    <3>1. IInv'
      BY <2>1, StepInv
    <3>2. FirstInv' /\ panic' # "exec"
      BY <2>1, <3>1, FirstSteps
    <3> QED  BY <3>1, <3>2 DEF IInv, PanicInv, NoPanic
  <2>2. ASSUME UNCHANGED vars PROVE J'
    <3>1. IInv'
      BY <2>2, StutterInv
    <3> QED  BY <2>2, <3>1 DEF FirstInv, NoPanic, vars
  <2> QED  BY <2>1, <2>2 DEF Next, Stop
<1>3. J => NoPanic
  OBVIOUS
<1> QED  BY <1>1, <1>2, <1>3, PTL DEF Spec
-----------------------------------------------------------------------------
(* What processes see is a step of AddressSpace.                           *)

\* The page v of table t, with contents m.
Shown(t, m, v) == IF t.pte[v].pa # 0 THEN m[t.pte[v].pa] ELSE "zero"
\* The first n pages.
Seen(t, m, n) == [k \in 1..n |-> Shown(t, m, k - 1)]

LEMMA ViewSeen ==
  ASSUME NEW p
  PROVE  View(p) = Seen(pt[p], mem, Pg(sz[p]))
  BY DEF View, Seen, Shown

LEMMA ViewSeenNext ==
  ASSUME NEW p
  PROVE  View(p)' = Seen(pt'[p], mem', Pg(sz'[p]))
  BY DEF View, Seen, Shown, Pg

\* A page of a table belongs to it.
LEMMA PteInPages ==
  ASSUME NEW t, NEW v \in LowPages, t.pte[v].pa # 0
  PROVE  t.pte[v].pa \in PagesOf(t)
<1>1. PICK x : x = t.pte[v].pa
  OBVIOUS
<1>2. x \in PagesOf(t) <=> x # 0 /\ ((\E k \in Tables : t.tab[k] = x) \/ (\E w \in LowPages : t.pte[w].pa = x))
  BY InPages
<1> QED  BY <1>1, <1>2

\* What a table shows depends on its own pages only.
LEMMA KeepText ==
  ASSUME NEW t, NEW m, NEW n, \A x \in PagesOf(t) : n[x] = m[x], TextOf(t, m)
  PROVE  TextOf(t, n)
<1>1. \A v \in LowPages : t.pte[v].pa # 0 => n[t.pte[v].pa] = m[t.pte[v].pa]
  BY PteInPages
<1> QED  BY <1>1 DEF TextOf

LEMMA KeepData ==
  ASSUME NEW t, NEW z, NEW l, NEW c, NEW m, NEW n, DataOf(t, z, l, c, m),
         \A x \in PagesOf(t) : n[x] = m[x], \A x \in PagesOf(l.npt) : n[x] = m[x]
  PROVE  DataOf(t, z, l, c, n)
<1>1. \A v \in LowPages : t.pte[v].pa # 0 => n[t.pte[v].pa] = m[t.pte[v].pa]
  BY PteInPages
<1>2. \A v \in LowPages : l.npt.pte[v].pa # 0 => n[l.npt.pte[v].pa] = m[l.npt.pte[v].pa]
  BY PteInPages
<1>3. TextOf(t, n) /\ TextOf(l.npt, n)
  BY <1>1, <1>2 DEF TextOf, DataOf
<1>4. c = "grow" => ZeroFrom(t, n, Pg(z))
  BY <1>1 DEF ZeroFrom, DataOf
<1>5. ASSUME c = "load" PROVE \E s \in Segments : Loaded(l, n, s)
  <2>1. PICK s \in Segments : Loaded(l, m, s)
    BY <1>5 DEF DataOf
  <2>2. Loaded(l, n, s)
    BY <1>2, <2>1 DEF Loaded
  <2> QED  BY <2>2
<1> QED  BY <1>3, <1>4, <1>5 DEF DataOf

LEMMA KeepSeen ==
  ASSUME NEW t, NEW u, NEW m, NEW n, NEW z \in Nat, z <= TRAPFRAME,
         \A v \in LowPages : v < z => Shown(u, n, v) = Shown(t, m, v)
  PROVE  Seen(u, n, z) = Seen(t, m, z)
<1>1. \A k \in 1..z : k - 1 \in LowPages /\ k - 1 < z
  BY Bounds DEF LowPages
<1> HIDE DEF Shown
<1>2. \A k \in 1..z : Shown(u, n, k - 1) = Shown(t, m, k - 1)
  BY <1>1
<1> QED  BY <1>2 DEF Seen

\* Only p and q change, and only free pages and theirs.
Outside(p, q) ==
  \A x \in Pages : \/ x \in free \cup PagesOf(pt[p]) \cup PagesOf(loc[p].npt) \cup PagesOf(pt[q])
                   \/ x = tf[q]
                   \/ mem'[x] = mem[x]
Rest(p, q) ==
  /\ \A r \in Procs \ {p, q} : pt'[r] = pt[r] /\ sz'[r] = sz[r] /\ loc'[r] = loc[r] /\ pc'[r] = pc[r]
  /\ \A r \in Procs \ {p} : pc[r] = "copy" => loc[r].np \notin {p, q}

LEMMA OtherPages ==
  ASSUME IInv, NEW p \in Procs, NEW q \in Procs, Outside(p, q), NEW r \in Procs \ {p, q}
  PROVE  /\ \A x \in PagesOf(pt[r]) : mem'[x] = mem[x]
         /\ \A x \in PagesOf(loc[r].npt) : mem'[x] = mem[x]
<1>1. PICK own : own = Own(tf, pt, loc) /\ Partition(own, free)
  BY DEF IInv, OwnInv
<1>2. own[<<"pt", p>>] = PagesOf(pt[p]) /\ own[<<"new", p>>] = PagesOf(loc[p].npt)
  BY <1>1, OwnPt, OwnNew
<1>3. own[<<"pt", q>>] = PagesOf(pt[q]) /\ own[<<"tf", q>>] = PageOf(tf[q])
  BY <1>1, OwnPt, OwnTf
<1>4. own[<<"pt", r>>] = PagesOf(pt[r]) /\ own[<<"new", r>>] = PagesOf(loc[r].npt)
  BY <1>1, OwnPt, OwnNew
<1>5. /\ <<"pt", p>> \in Owners /\ <<"new", p>> \in Owners /\ <<"pt", q>> \in Owners /\ <<"tf", q>> \in Owners
      /\ <<"pt", r>> \in Owners /\ <<"new", r>> \in Owners
  BY IsOwner
<1>6. ASSUME NEW o \in {<<"pt", r>>, <<"new", r>>}, NEW x \in own[o] PROVE mem'[x] = mem[x]
  <2>1. o \in Owners /\ o # <<"pt", p>> /\ o # <<"new", p>> /\ o # <<"pt", q>> /\ o # <<"tf", q>>
    BY <1>5, <1>6
  <2>2. x \in Pages /\ x \notin free
    BY <1>1, <2>1 DEF Partition
  <2>3. x \notin own[<<"pt", p>>] /\ x \notin own[<<"new", p>>] /\ x \notin own[<<"pt", q>>] /\ x \notin own[<<"tf", q>>]
    BY <1>1, <1>5, <2>1 DEF Partition
  <2>4. x # tf[q]
    BY <1>3, <2>2, <2>3, Bounds DEF PageOf
  <2> QED  BY <1>2, <1>3, <2>2, <2>3, <2>4 DEF Outside
<1> QED  BY <1>4, <1>6

\* The others keep their data and see the same.
LEMMA OthersData ==
  ASSUME IInv, DataInv, NEW p \in Procs, NEW q \in Procs, Outside(p, q), Rest(p, q), NEW r \in Procs \ {p, q}
  PROVE  /\ DataOf(pt'[r], sz'[r], loc'[r], pc'[r], mem')
         /\ pc'[r] = "copy" => SameBelow(pt'[r], pt'[loc'[r].np], mem', loc'[r].a)
         /\ View(r)' = View(r)
<1>1. pt'[r] = pt[r] /\ sz'[r] = sz[r] /\ loc'[r] = loc[r] /\ pc'[r] = pc[r]
  BY DEF Rest
<1>2. /\ \A x \in PagesOf(pt[r]) : mem'[x] = mem[x]
      /\ \A x \in PagesOf(loc[r].npt) : mem'[x] = mem[x]
  BY OtherPages
<1>3. DataOf(pt[r], sz[r], loc[r], pc[r], mem)
  BY DEF DataInv
<1>4. DataOf(pt[r], sz[r], loc[r], pc[r], mem')
  BY <1>2, <1>3, KeepData
<1>5. ASSUME pc[r] = "copy" PROVE SameBelow(pt[r], pt'[loc[r].np], mem', loc[r].a)
  <2>1. PICK k \in Procs \ {p, q} : k = loc[r].np
    BY <1>5 DEF Rest, IInv, CtlInv
  <2>2. pt'[k] = pt[k]
    BY DEF Rest
  <2>3. \A x \in PagesOf(pt[k]) : mem'[x] = mem[x]
    BY OtherPages
  <2>4. SameBelow(pt[r], pt[k], mem, loc[r].a)
    BY <1>5, <2>1 DEF DataInv
  <2>5. \A v \in LowPages : pt[r].pte[v].pa # 0 => mem'[pt[r].pte[v].pa] = mem[pt[r].pte[v].pa]
    BY <1>2, PteInPages
  <2>6. \A v \in LowPages : pt[k].pte[v].pa # 0 => mem'[pt[k].pte[v].pa] = mem[pt[k].pte[v].pa]
    BY <2>3, PteInPages
  <2>7. SameBelow(pt[r], pt[k], mem', loc[r].a)
    BY <2>4, <2>5, <2>6 DEF SameBelow
  <2> QED  BY <2>1, <2>2, <2>7
<1>6. View(r)' = View(r)
  <2>1. \A v \in LowPages : Shown(pt[r], mem', v) = Shown(pt[r], mem, v)
    BY <1>2, PteInPages DEF Shown
  <2>2. Pg(sz[r]) \in Nat /\ Pg(sz[r]) <= TRAPFRAME
    BY Known
  <2>3. Seen(pt[r], mem', Pg(sz[r])) = Seen(pt[r], mem, Pg(sz[r]))
    BY <2>1, <2>2, KeepSeen
  <2>4. View(r)' = Seen(pt'[r], mem', Pg(sz'[r]))
    BY ViewSeenNext
  <2>5. View(r) = Seen(pt[r], mem, Pg(sz[r]))
    BY ViewSeen
  <2> QED  BY <1>1, <2>3, <2>4, <2>5
<1> QED  BY <1>1, <1>4, <1>5, <1>6

LEMMA DataNext ==
  DataInv' <=> \A r \in Procs : /\ DataOf(pt'[r], sz'[r], loc'[r], pc'[r], mem')
                                /\ pc'[r] = "copy" => SameBelow(pt'[r], pt'[loc'[r].np], mem', loc'[r].a)
  BY DEF DataInv, DataOf, TextOf, ZeroFrom, SameBelow, Loaded, Pg

LEMMA DataSteps ==
  ASSUME IInv, DataInv, NEW p \in Procs, NEW q \in Procs, Outside(p, q), Rest(p, q),
         DataOf(pt'[p], sz'[p], loc'[p], pc'[p], mem'), DataOf(pt'[q], sz'[q], loc'[q], pc'[q], mem'),
         pc'[p] = "copy" => SameBelow(pt'[p], pt'[loc'[p].np], mem', loc'[p].a), pc'[q] = "copy" => q = p
  PROVE  DataInv' /\ \A r \in Procs \ {p, q} : View(r)' = View(r)
<1>1. \A r \in Procs \ {p, q} : /\ DataOf(pt'[r], sz'[r], loc'[r], pc'[r], mem')
                                /\ pc'[r] = "copy" => SameBelow(pt'[r], pt'[loc'[r].np], mem', loc'[r].a)
                                /\ View(r)' = View(r)
  BY OthersData
<1>2. ASSUME NEW r \in Procs
      PROVE  /\ DataOf(pt'[r], sz'[r], loc'[r], pc'[r], mem')
             /\ pc'[r] = "copy" => SameBelow(pt'[r], pt'[loc'[r].np], mem', loc'[r].a)
  <2>1. CASE r = p
    BY <2>1
  <2>2. CASE r = q
    BY <2>2
  <2> QED  BY <1>1, <2>1, <2>2
<1> QED  BY <1>1, <1>2, DataNext

\* What the processes see.
Spaces == [p \in Procs |-> View(p)]
\* The invariant is kept, and the step is one of AddressSpace or changes nothing there.
Maps == DataInv' /\ (A!Next \/ Spaces' = Spaces)

LEMMA SpacesNext ==
  ASSUME NEW p \in Procs, \A r \in Procs \ {p} : View(r)' = View(r)
  PROVE  Spaces' = [Spaces EXCEPT ![p] = View(p)']
<1>1. Spaces' = [r \in Procs |-> View(r)']
  BY DEF Spaces
<1>2. \A r \in Procs : View(r)' = IF r = p THEN View(p)' ELSE View(r)
  OBVIOUS
<1>3. [Spaces EXCEPT ![p] = View(p)'] = [r \in Procs |-> IF r = p THEN View(p)' ELSE View(r)]
  BY DEF Spaces
<1> QED  BY <1>1, <1>2, <1>3

LEMMA SpaceOf ==
  ASSUME NEW p \in Procs
  PROVE  Spaces[p] = View(p)
  BY DEF Spaces

LEMMA QuietStep ==
  ASSUME \A r \in Procs : View(r)' = View(r)
  PROVE  Spaces' = Spaces
  BY DEF Spaces

\* The kinds of steps.
LEMMA StoreStep ==
  ASSUME NEW p \in Procs, \A r \in Procs \ {p} : View(r)' = View(r),
         NEW k \in DOMAIN View(p), NEW x \in {"w2", "w3"}, View(p)[k] # "text",
         View(p)' = [View(p) EXCEPT ![k] = x]
  PROVE  A!Next
<1>1. Spaces' = [Spaces EXCEPT ![p] = View(p)']
  BY SpacesNext
<1>2. Spaces' = [Spaces EXCEPT ![p][k] = x] /\ Spaces[p][k] # "text" /\ k \in DOMAIN Spaces[p]
  BY <1>1, SpaceOf
<1>3. A!Store(p)
  BY <1>2 DEF A!Store, Spaces
<1> QED  BY <1>3 DEF A!Next

LEMMA GrowStep ==
  ASSUME NEW p \in Procs, \A r \in Procs \ {p} : View(r)' = View(r),
         NEW n \in 1..Pg(MaxSz), View(p)' = View(p) \o A!Zeros(n)
  PROVE  A!Next
<1>1. Spaces' = [Spaces EXCEPT ![p] = @ \o A!Zeros(n)]
  BY SpacesNext, SpaceOf
<1>2. A!Grow(p)
  BY <1>1 DEF A!Grow, Spaces
<1> QED  BY <1>2 DEF A!Next

LEMMA ShrinkStep ==
  ASSUME NEW p \in Procs, \A r \in Procs \ {p} : View(r)' = View(r),
         NEW n \in 0..Len(View(p)), View(p)' = SubSeq(View(p), 1, n)
  PROVE  A!Next
<1>1. Spaces' = [Spaces EXCEPT ![p] = SubSeq(@, 1, n)] /\ n \in 0..Len(Spaces[p])
  BY SpacesNext, SpaceOf
<1>2. A!Shrink(p)
  BY <1>1 DEF A!Shrink, Spaces
<1> QED  BY <1>2 DEF A!Next

LEMMA CopyStep ==
  ASSUME NEW p \in Procs, NEW q \in Procs, \A r \in Procs \ {q} : View(r)' = View(r),
         View(q) = <<>>, View(q)' = View(p)
  PROVE  A!Next
<1>1. Spaces' = [Spaces EXCEPT ![q] = Spaces[p]] /\ Spaces[q] = <<>>
  BY SpacesNext, SpaceOf
<1>2. A!Fork(p)
  BY <1>1 DEF A!Fork, Spaces
<1> QED  BY <1>2 DEF A!Next

LEMMA LoadStep ==
  ASSUME NEW p \in Procs, \A r \in Procs \ {p} : View(r)' = View(r),
         NEW s \in Segments, View(p)' = Image(s)
  PROVE  A!Next
<1>1. PICK i \in {Image(z) : z \in Segments} : View(p)' = i
  OBVIOUS
<1>2. Spaces' = [Spaces EXCEPT ![p] = i]
  BY <1>1, SpacesNext
<1>3. A!Exec(p)
  BY <1>2 DEF A!Exec, Spaces
<1> QED  BY <1>3 DEF A!Next

LEMMA FreeStep ==
  ASSUME NEW p \in Procs, \A r \in Procs \ {p} : View(r)' = View(r), View(p)' = <<>>
  PROVE  A!Next
<1>1. Spaces' = [Spaces EXCEPT ![p] = <<>>]
  BY SpacesNext
<1>2. A!Free(p)
  BY <1>1 DEF A!Free, Spaces
<1> QED  BY <1>2 DEF A!Next

\* Table u with contents n shows what t does with m, except in the pages of S.
Alike(t, m, u, n, S) ==
  \A v \in LowPages : v \notin S =>
    u.pte[v] = t.pte[v] /\ (t.pte[v].pa # 0 => n[t.pte[v].pa] = m[t.pte[v].pa])

LEMMA UnmapAlike ==
  ASSUME NEW t \in Table, TableOK(t), NEW S \in SUBSET LowPages, NEW m
  PROVE  /\ Alike(t, m, Uvmunmap(t, S), Junk(m, Mapped(t, S)), S)
         /\ \A v \in S : Uvmunmap(t, S).pte[v].pa = 0
<1>1. PICK u : u = Uvmunmap(t, S)
  OBVIOUS
<1>2. \A v \in VPages : u.pte[v] = IF v \in S THEN NoPte ELSE t.pte[v]
  BY <1>1, UnmapFacts
<1>3. LowPages \subseteq VPages /\ NoPte.pa = 0
  BY Bounds DEF NoPte
<1>4. ASSUME NEW v \in LowPages, v \notin S, t.pte[v].pa # 0
      PROVE  Junk(m, Mapped(t, S))[t.pte[v].pa] = m[t.pte[v].pa]
  <2>1. t.pte[v].pa \in Pages
    BY <1>4, PteInPages, PagesArePages
  <2>2. t.pte[v].pa \notin Mapped(t, S)
    BY <1>4 DEF Mapped, TableOK
  <2> QED  BY <2>1, <2>2 DEF Junk
<1> QED  BY <1>1, <1>2, <1>3, <1>4 DEF Alike

\* A page with value x is new at v.
Shows(r, f, m, t, v, perm, x) ==
  /\ Alike(t, m, r.t, r.m, {v})
  /\ r.ok => r.t.pte[v].pa # 0 /\ r.t.pte[v].perm = perm /\ r.m[r.t.pte[v].pa] = x
  /\ ~r.ok => r.t.pte = t.pte /\ r.m = m
  /\ \A y \in Pages \ f : r.m[y] = m[y]

LEMMA AddedAlike ==
  ASSUME NEW f, f \subseteq Pages, NEW m \in [Pages -> Contents], NEW t \in Table, TableOK(t),
         f \cap PagesOf(t) = {}, NEW v \in LowPages, NEW perm, NEW x, NEW r, Added(r, f, m, t, v, perm, x)
  PROVE  Shows(r, f, m, t, v, perm, x)
<1>1. CASE r.ok
  <2>1. PICK pa \in f \ r.f : /\ r.t.pte = [t.pte EXCEPT ![v] = [pa |-> pa, perm |-> perm]]
                             /\ r.m = [m EXCEPT ![pa] = x]
    BY <1>1 DEF Added
  <2>2. t.pte \in [VPages -> Pte] /\ v \in VPages /\ LowPages \subseteq VPages /\ pa \in Pages /\ pa # 0
    BY Bounds DEF Table
  <2>3. r.t.pte[v].pa = pa /\ r.t.pte[v].perm = perm /\ r.m[pa] = x
    BY <2>1, <2>2
  <2>4. \A w \in LowPages : w # v => r.t.pte[w] = t.pte[w]
    BY <2>1, <2>2
  <2>5. \A y \in Pages \ f : r.m[y] = m[y]
    BY <2>1
  <2>6. ASSUME NEW w \in LowPages, t.pte[w].pa # 0 PROVE r.m[t.pte[w].pa] = m[t.pte[w].pa]
    <3>1. t.pte[w].pa \in Pages \ f
      BY <2>6, PteInPages, PagesArePages
    <3> QED  BY <2>5, <3>1
  <2> QED  BY <1>1, <2>2, <2>3, <2>4, <2>5, <2>6 DEF Alike, Shows
<1>2. CASE ~r.ok
  BY <1>2 DEF Added, Alike, Shows
<1> QED  BY <1>1, <1>2

LEMMA AlikeText ==
  ASSUME NEW t, NEW m, NEW u, NEW n, NEW S, Alike(t, m, u, n, S), TextOf(t, m),
         \A v \in S : u.pte[v].pa # 0 /\ "w" \in u.pte[v].perm => n[u.pte[v].pa] # "text"
  PROVE  TextOf(u, n)
  BY DEF Alike, TextOf

LEMMA AlikeSeen ==
  ASSUME NEW t, NEW m, NEW u, NEW n, NEW S, Alike(t, m, u, n, S), NEW z \in Nat, z <= TRAPFRAME,
         \A v \in S : v < z => Shown(u, n, v) = Shown(t, m, v)
  PROVE  Seen(u, n, z) = Seen(t, m, z)
<1>1. \A v \in LowPages : v < z => Shown(u, n, v) = Shown(t, m, v)
  BY DEF Alike, Shown
<1> QED  BY <1>1, KeepSeen

\* A table without memory.
LEMMA EmptyText ==
  ASSUME NEW t, NEW m, EmptyFrom(t, 0)
  PROVE  TextOf(t, m)
  BY Bounds DEF EmptyFrom, TextOf, LowPages

LEMMA NoTableText ==
  ASSUME NEW m
  PROVE  TextOf(NoTable, m)
  BY NoTableFacts, Bounds DEF TextOf

\* p alone changes: it has table t, size n and locals l afterwards, and is at c.
Turn(p, t, n, l, c) ==
  /\ pt'[p] = t /\ sz'[p] = n /\ loc'[p] = l /\ pc'[p] = c
  /\ \A r \in Procs \ {p} : pt'[r] = pt[r] /\ sz'[r] = sz[r] /\ loc'[r] = loc[r] /\ pc'[r] = pc[r]

LEMMA TurnData ==
  ASSUME IInv, DataInv, NEW p \in Procs, pc[p] # "none", NEW t, NEW n, NEW l, NEW c, Turn(p, t, n, l, c),
         Outside(p, p), c # "copy", DataOf(t, n, l, c, mem')
  PROVE  /\ DataInv' /\ \A r \in Procs \ {p} : View(r)' = View(r)
         /\ View(p)' = Seen(t, mem', Pg(n)) /\ View(p) = Seen(pt[p], mem, Pg(sz[p]))
<1>1. st[p] = "run"
  BY DEF IInv, CtlInv
<1>2. \A r \in Procs \ {p} : pc[r] = "copy" => loc[r].np # p
  BY <1>1 DEF IInv, CtlInv
<1>3. Rest(p, p)
  BY <1>2 DEF Rest, Turn
<1>4. pt'[p] = t /\ sz'[p] = n /\ loc'[p] = l /\ pc'[p] = c
  BY DEF Turn
<1>5. DataOf(pt'[p], sz'[p], loc'[p], pc'[p], mem')
  BY <1>4
<1>6. DataInv' /\ \A r \in Procs \ {p, p} : View(r)' = View(r)
  BY <1>3, <1>4, <1>5, DataSteps
<1>7. View(p)' = Seen(pt'[p], mem', Pg(sz'[p]))
  BY ViewSeenNext
<1> QED  BY <1>4, <1>6, <1>7, ViewSeen

LEMMA QuietTurn ==
  ASSUME IInv, DataInv, NEW p \in Procs, pc[p] # "none", NEW t, NEW n, NEW l, NEW c, Turn(p, t, n, l, c),
         Outside(p, p), c # "copy", DataOf(t, n, l, c, mem'), Seen(t, mem', Pg(n)) = Seen(pt[p], mem, Pg(sz[p]))
  PROVE  Maps
<1>1. /\ DataInv' /\ \A r \in Procs \ {p} : View(r)' = View(r)
      /\ View(p)' = Seen(t, mem', Pg(n)) /\ View(p) = Seen(pt[p], mem, Pg(sz[p]))
  BY TurnData
<1>2. \A r \in Procs : View(r)' = View(r)
  BY <1>1
<1> QED  BY <1>1, <1>2, QuietStep DEF Maps

\* A step that leaves memory and tables alone.
LEMMA IdleTurn ==
  ASSUME IInv, DataInv, NEW p \in Procs, pc[p] # "none", NEW l, NEW c, Turn(p, pt[p], sz[p], l, c),
         mem' = mem, c # "copy", l.npt = NoTable, c = "grow" => pc[p] # "grow", c # "load"
  PROVE  Maps
<1>1. Outside(p, p)
  BY DEF Outside
<1>2. TextOf(pt[p], mem)
  BY DEF DataInv, DataOf
<1>3. ASSUME c = "grow" PROVE ZeroFrom(pt[p], mem, Pg(sz[p]))
  <2>1. EmptyFrom(pt[p], Pg(sz[p]))
    BY <1>3, CallFacts
  <2> QED  BY <2>1 DEF EmptyFrom, ZeroFrom
<1>4. DataOf(pt[p], sz[p], l, c, mem')
  BY <1>2, <1>3, NoTableText DEF DataOf
<1>5. Seen(pt[p], mem', Pg(sz[p])) = Seen(pt[p], mem, Pg(sz[p]))
  OBVIOUS
<1> QED  BY <1>1, <1>4, <1>5, QuietTurn

LEMMA IsTurn ==
  ASSUME IInv, NEW p \in Procs, NEW t, NEW n, NEW l, NEW c,
         pt' = [pt EXCEPT ![p] = t], sz' = [sz EXCEPT ![p] = n],
         loc' = [loc EXCEPT ![p] = l], pc' = [pc EXCEPT ![p] = c]
  PROVE  Turn(p, t, n, l, c)
<1>1. DOMAIN pt = Procs /\ DOMAIN sz = Procs /\ DOMAIN loc = Procs /\ DOMAIN pc = Procs
  BY DEF IInv, TypeOK
<1> QED  BY <1>1 DEF Turn

\* The steps that only begin or end something.
LEMMA GrowEagerMaps ==
  ASSUME IInv, DataInv, NEW p \in Procs, NEW n \in Int, GrowEager(p, n)
  PROVE  Maps
<1>1. PICK l : l = [NoLoc EXCEPT !.a = Pg(sz[p]), !.new = sz[p] + n]
  OBVIOUS
<1>2. pc[p] = "user" /\ mem' = mem /\ pt' = pt /\ sz' = sz
      /\ pc' = [pc EXCEPT ![p] = "grow"] /\ loc' = [loc EXCEPT ![p] = l]
  BY <1>1 DEF GrowEager, Calls, At, Keep, Goto, procs
<1>3. l.npt = NoTable
  BY <1>1, Known DEF Locals
<1>4. Turn(p, pt[p], sz[p], l, "grow")
  BY <1>2 DEF Turn, IInv, TypeOK
<1> QED  BY <1>2, <1>3, <1>4, IdleTurn

LEMMA CopyCallMaps ==
  ASSUME IInv, DataInv, NEW p \in Procs, NEW v, NEW n, NEW dir \in {"copyin", "copyout"}, CopyCall(p, v, n, dir)
  PROVE  Maps
<1>1. PICK l : l = [NoLoc EXCEPT !.a = v, !.new = v + n]
  OBVIOUS
<1>2. pc[p] = "user" /\ mem' = mem /\ pt' = pt /\ sz' = sz
      /\ pc' = [pc EXCEPT ![p] = dir] /\ loc' = [loc EXCEPT ![p] = l]
  BY <1>1 DEF CopyCall, Calls, At, Keep, Goto, procs
<1>3. l.npt = NoTable
  BY <1>1, Known DEF Locals
<1>4. Turn(p, pt[p], sz[p], l, dir)
  BY <1>2 DEF Turn, IInv, TypeOK
<1> QED  BY <1>2, <1>3, <1>4, IdleTurn

LEMMA UserExitMaps ==
  ASSUME IInv, DataInv, NEW p \in Procs, UserExit(p)
  PROVE  Maps
<1>1. /\ pc[p] = "user" /\ mem' = mem /\ pt' = pt /\ sz' = sz
      /\ pc' = [pc EXCEPT ![p] = "none"] /\ loc' = [loc EXCEPT ![p] = NoLoc]
  BY DEF UserExit, At, Exit, Keep, Goto
<1>2. NoLoc.npt = NoTable
  BY Known
<1>3. Turn(p, pt[p], sz[p], NoLoc, "none")
  BY <1>1 DEF Turn, IInv, TypeOK
<1> QED  BY <1>1, <1>2, <1>3, IdleTurn

\* Sequences one after the other.
Join(s, u, n, d) == [k \in 1..n + d |-> IF k <= n THEN s[k] ELSE u[k - n]]

LEMMA Joined ==
  ASSUME NEW n \in Nat, NEW d \in Nat, NEW S, NEW s \in [1..n -> S], NEW u \in [1..d -> S]
  PROVE  s \o u = Join(s, u, n, d)
<1>1. s \in Seq(S) /\ u \in Seq(S) /\ Len(s) = n /\ Len(u) = d
  OBVIOUS
<1>2. PICK q : q = s \o u
  OBVIOUS
<1>3. /\ q \in Seq(S) /\ Len(q) = n + d
      /\ \A i \in 1..n + d : q[i] = IF i <= n THEN s[i] ELSE u[i - n]
  BY <1>1, <1>2, ConcatProperties
<1>4. q = [i \in 1..n + d |-> q[i]]
  BY <1>3
<1> QED  BY <1>2, <1>3, <1>4 DEF Join

LEMMA JoinedPages ==
  ASSUME NEW n \in Nat, NEW d \in Nat, NEW s \in [1..n -> Contents], NEW u \in [1..d -> Contents]
  PROVE  s \o u = Join(s, u, n, d)
<1>1. PICK S : S = Contents
  OBVIOUS
<1>2. s \in [1..n -> S] /\ u \in [1..d -> S]
  BY <1>1
<1> QED  BY <1>2, Joined

LEMMA SeenType ==
  ASSUME NEW t, NEW m, NEW z \in Nat, z <= TRAPFRAME, m \in [Pages -> Contents],
         t \in Table, TableOK(t)
  PROVE  Seen(t, m, z) \in [1..z -> Contents]
<1>1. ASSUME NEW v \in LowPages PROVE Shown(t, m, v) \in Contents
  <2>1. CASE t.pte[v].pa # 0
    <3>1. t.pte[v].pa \in Pages
      BY <2>1, PteInPages, PagesArePages
    <3> QED  BY <2>1, <3>1 DEF Shown
  <2>2. CASE t.pte[v].pa = 0
    BY <2>2 DEF Shown, Contents
  <2> QED  BY <2>1, <2>2
<1>2. \A k \in 1..z : k - 1 \in LowPages
  BY Bounds DEF LowPages
<1>3. \A k \in 1..z : Shown(t, m, k - 1) \in Contents
  BY <1>1, <1>2
<1> QED  BY <1>3 DEF Seen

\* Memory that is mapped on demand, or that was mapped as zeros, shows zeros.
LEMMA SeenGrows ==
  ASSUME NEW t \in Table, TableOK(t), NEW m \in [Pages -> Contents], NEW z \in Nat, NEW d \in Nat,
         z + d <= TRAPFRAME, ZeroFrom(t, m, z)
  PROVE  Seen(t, m, z + d) = Seen(t, m, z) \o A!Zeros(d)
<1>1. Seen(t, m, z) \in [1..z -> Contents]
  BY SeenType, Bounds
<1>2. A!Zeros(d) \in [1..d -> Contents]
  BY DEF A!Zeros, Contents
<1>3. Seen(t, m, z) \o A!Zeros(d) = [k \in 1..z + d |-> IF k <= z THEN Seen(t, m, z)[k] ELSE A!Zeros(d)[k - z]]
  <2>1. PICK s \in [1..z -> Contents], u \in [1..d -> Contents] : s = Seen(t, m, z) /\ u = A!Zeros(d)
    BY <1>1, <1>2
  <2>2. s \o u = Join(s, u, z, d)
    BY JoinedPages
  <2> QED  BY <2>1, <2>2 DEF Join
<1>4. ASSUME NEW k \in 1..z + d
      PROVE  Shown(t, m, k - 1) = IF k <= z THEN Seen(t, m, z)[k] ELSE A!Zeros(d)[k - z]
  <2>1. CASE k <= z
    BY <2>1 DEF Seen
  <2>2. CASE k > z
    <3>1. k - 1 \in LowPages /\ k - 1 >= z /\ k - z \in 1..d
      BY <2>2, Bounds DEF LowPages
    <3>2. Shown(t, m, k - 1) = "zero"
      BY <3>1 DEF Shown, ZeroFrom
    <3>3. A!Zeros(d)[k - z] = "zero"
      BY <3>1 DEF A!Zeros
    <3> QED  BY <2>2, <3>2, <3>3
  <2> QED  BY <2>1, <2>2
<1>5. z + d \in Nat
  OBVIOUS
<1>6. Seen(t, m, z + d) = [k \in 1..z + d |-> Shown(t, m, k - 1)]
  BY DEF Seen
<1> QED  BY <1>3, <1>4, <1>6

\* p is larger, with zeros.
LEMMA GrowTurn ==
  ASSUME IInv, DataInv, NEW p \in Procs, pc[p] # "none", NEW k \in Nat, NEW l,
         Turn(p, pt[p], k, l, "user"), mem' = mem, l.npt = NoTable,
         Pg(sz[p]) <= Pg(k), k <= MaxSz, ZeroFrom(pt[p], mem, Pg(sz[p]))
  PROVE  Maps
<1>1. /\ pt[p] \in Table /\ TableOK(pt[p]) /\ Pg(sz[p]) \in Nat /\ mem \in [Pages -> Contents]
  BY Known
<1>2. Outside(p, p) /\ TextOf(pt[p], mem)
  BY DEF Outside, DataInv, DataOf
<1>3. DataOf(pt[p], k, l, "user", mem')
  BY <1>2, NoTableText DEF DataOf
<1>4. /\ DataInv' /\ \A r \in Procs \ {p} : View(r)' = View(r)
      /\ View(p)' = Seen(pt[p], mem', Pg(k)) /\ View(p) = Seen(pt[p], mem, Pg(sz[p]))
  BY <1>2, <1>3, TurnData
<1>5. Pg(k) \in Nat /\ Pg(k) <= TRAPFRAME
  BY MaxPages
<1>6. PICK z \in Nat, d \in Nat : z = Pg(sz[p]) /\ Pg(k) = z + d
  <2>1. Pg(k) - Pg(sz[p]) \in Nat /\ Pg(k) = Pg(sz[p]) + (Pg(k) - Pg(sz[p]))
    BY <1>1, <1>5
  <2> QED  BY <1>1, <2>1
<1>7. View(p)' = View(p) \o A!Zeros(d)
  <2>1. PICK t \in Table : t = pt[p] /\ TableOK(t) /\ ZeroFrom(t, mem, z)
    BY <1>1, <1>6
  <2>2. z + d <= TRAPFRAME
    BY <1>5, <1>6
  <2>3. Seen(t, mem, z + d) = Seen(t, mem, z) \o A!Zeros(d)
    BY <1>1, <2>1, <2>2, SeenGrows
  <2> QED  BY <1>4, <1>6, <2>1, <2>3
<1>8. CASE d = 0
  <2>1. Pg(k) = Pg(sz[p])
    BY <1>6, <1>8
  <2>2. \A r \in Procs : View(r)' = View(r)
    BY <1>4, <2>1
  <2> QED  BY <1>4, <2>2, QuietStep DEF Maps
<1>9. CASE d # 0
  <2>1. MaxSz \in Nat
    BY VmAssumption, Bounds DEF TRAPFRAME, MAXVA
  <2>2. Pg(k) <= Pg(MaxSz) /\ Pg(MaxSz) \in Nat
    BY <2>1, PgOrder, PgBelow
  <2>3. d \in 1..Pg(MaxSz)
    BY <1>5, <1>6, <1>9, <2>2
  <2> QED  BY <1>4, <1>7, <2>3, GrowStep DEF Maps
<1> QED  BY <1>8, <1>9

LEMMA GrowLazyMaps ==
  ASSUME IInv, DataInv, NEW p \in Procs, NEW n \in Int, GrowLazy(p, n)
  PROVE  Maps
<1>1. /\ pc[p] = "user" /\ mem' = mem /\ pt' = pt /\ n >= 0 /\ sz[p] + n <= MaxSz
      /\ sz' = [sz EXCEPT ![p] = sz[p] + n] /\ loc' = loc /\ pc' = pc
  BY DEF GrowLazy, Calls, At
<1>2. PICK k \in Nat : k = sz[p] + n /\ sz[p] <= k /\ sz[p] \in Nat
  BY <1>1, Known
<1>3. Pg(sz[p]) <= Pg(k)
  BY <1>2, PgOrder
<1>4. EmptyFrom(pt[p], Pg(sz[p])) /\ loc[p].npt = NoTable
  BY <1>1, CallFacts DEF IInv, CtlInv
<1>5. ZeroFrom(pt[p], mem, Pg(sz[p]))
  BY <1>4 DEF EmptyFrom, ZeroFrom
<1>6. Turn(p, pt[p], k, loc[p], "user")
  BY <1>1, <1>2 DEF Turn, IInv, TypeOK
<1> QED  BY <1>1, <1>2, <1>3, <1>4, <1>5, <1>6, GrowTurn

LEMMA GrowDoneMaps ==
  ASSUME IInv, DataInv, NEW p \in Procs, GrowDone(p)
  PROVE  Maps
<1>1. /\ pc[p] = "grow" /\ mem' = mem /\ pt' = pt /\ sz' = [sz EXCEPT ![p] = loc[p].new]
      /\ loc' = [loc EXCEPT ![p] = NoLoc] /\ pc' = [pc EXCEPT ![p] = "user"]
  BY DEF GrowDone, At, Return, Goto, Keep
<1>2. loc[p] \in Locals /\ sz[p] \in Nat /\ NoLoc.npt = NoTable
  BY Known
<1>3. PICK k \in Nat : k = loc[p].new /\ sz[p] <= k /\ k <= MaxSz
  BY <1>1, <1>2 DEF IInv, SizeInv, Locals
<1>4. Pg(sz[p]) <= Pg(k)
  BY <1>2, <1>3, PgOrder
<1>5. ZeroFrom(pt[p], mem, Pg(sz[p]))
  BY <1>1 DEF DataInv, DataOf
<1>6. Turn(p, pt[p], k, NoLoc, "user")
  BY <1>1, <1>3 DEF Turn, IInv, TypeOK
<1> QED  BY <1>1, <1>2, <1>3, <1>4, <1>5, <1>6, GrowTurn

\* Pages that are not freed keep their contents.
LEMMA JunkOutside ==
  ASSUME NEW m, NEW S, NEW x \in Pages, x \notin S
  PROVE  Junk(m, S)[x] = m[x]
  BY DEF Junk

LEMMA SeenCut ==
  ASSUME NEW t, NEW m, NEW z \in Nat, NEW y \in 0..z
  PROVE  SubSeq(Seen(t, m, z), 1, y) = Seen(t, m, y) /\ Len(Seen(t, m, z)) = z
<1>1. Len(Seen(t, m, z)) = z
  BY DEF Seen
<1>2. SubSeq(Seen(t, m, z), 1, y) = [i \in 1..y |-> Seen(t, m, z)[i]]
  <2>1. PICK s : s = Seen(t, m, z)
    OBVIOUS
  <2>2. SubSeq(s, 1, y) = [i \in 1..(y - 1 + 1) |-> s[i + 1 - 1]]
    OBVIOUS
  <2>3. y - 1 + 1 = y /\ \A i \in 1..y : i + 1 - 1 = i
    OBVIOUS
  <2> QED  BY <2>1, <2>2, <2>3
<1>3. \A i \in 1..y : Seen(t, m, z)[i] = Shown(t, m, i - 1)
  BY DEF Seen
<1> QED  BY <1>1, <1>2, <1>3 DEF Seen

LEMMA ShrinkMaps ==
  ASSUME IInv, DataInv, NEW p \in Procs, NEW n \in Int, Shrink(p, n)
  PROVE  Maps
<1>1. pc[p] = "user" /\ n < 0 /\ pc' = pc /\ loc' = loc
  BY DEF Shrink, Calls, At
<1>2. PICK t \in Table : t = pt[p] /\ TableOK(t)
  BY Known
<1>3. /\ sz[p] \in Nat /\ Pg(sz[p]) \in Nat /\ Pg(sz[p]) <= TRAPFRAME /\ loc[p].npt = NoTable
      /\ TextOf(t, mem)
  BY <1>1, <1>2, Known DEF IInv, CtlInv, DataInv, DataOf
<1>4. CASE sz[p] + n < 0 /\ UNCHANGED <<free, mem, pt, sz>>
  <2>1. Turn(p, pt[p], sz[p], loc[p], "user")
    BY <1>1, <1>4 DEF Turn
  <2> QED  BY <1>1, <1>3, <1>4, <2>1, IdleTurn
<1>5. CASE /\ sz[p] + n >= 0
           /\ mem' = Junk(mem, Mapped(pt[p], Cut(p, sz[p] + n)))
           /\ pt' = [pt EXCEPT ![p] = Uvmunmap(pt[p], Cut(p, sz[p] + n))]
           /\ sz' = [sz EXCEPT ![p] = sz[p] + n]
  <2>1. PICK k \in Nat : k = sz[p] + n /\ k <= sz[p]
    BY <1>1, <1>3, <1>5
  <2>2. Pg(k) \in Nat /\ Pg(k) <= Pg(sz[p]) /\ Pg(k) <= TRAPFRAME
    <3>1. Pg(k) \in Nat /\ Pg(k) <= Pg(sz[p])
      BY <1>3, <2>1, PgBelow, PgOrder
    <3> QED  BY <1>3, <3>1, Bounds
  <2>3. PICK S \in SUBSET LowPages : S = Pg(k)..Pg(sz[p]) - 1
    BY <1>3, <2>2, Bounds DEF LowPages
  <2>4. Cut(p, sz[p] + n) = S
    BY <2>1, <2>3 DEF Cut
  <2>5. PICK u : u = Uvmunmap(t, S)
    OBVIOUS
  <2>6. mem' = Junk(mem, Mapped(t, S)) /\ pt' = [pt EXCEPT ![p] = u] /\ sz' = [sz EXCEPT ![p] = k]
    BY <1>2, <1>5, <2>1, <2>4, <2>5
  <2>7. Turn(p, u, k, loc[p], "user")
    BY <1>1, <2>6 DEF Turn, IInv, TypeOK
  <2>8. Alike(t, mem, u, mem', S) /\ \A v \in S : u.pte[v].pa = 0
    BY <1>2, <2>5, <2>6, UnmapAlike
  <2>9. TextOf(u, mem')
    BY <1>3, <2>8, AlikeText
  <2>10. Mapped(t, S) \subseteq PagesOf(t)
    BY <1>2, UnmapFacts
  <2>11. Outside(p, p)
    BY <1>2, <2>6, <2>10, JunkOutside DEF Outside
  <2>12. DataOf(u, k, loc[p], "user", mem')
    BY <1>3, <2>9, NoTableText DEF DataOf
  <2>13. /\ DataInv' /\ \A r \in Procs \ {p} : View(r)' = View(r)
         /\ View(p)' = Seen(u, mem', Pg(k)) /\ View(p) = Seen(t, mem, Pg(sz[p]))
    BY <1>1, <1>2, <2>7, <2>11, <2>12, TurnData
  <2>14. \A v \in S : ~(v < Pg(k))
    BY <1>3, <2>2, <2>3
  <2>15. Seen(u, mem', Pg(k)) = Seen(t, mem, Pg(k))
    BY <2>2, <2>8, <2>14, AlikeSeen
  <2>16. PICK y \in Nat, z \in Nat : y = Pg(k) /\ z = Pg(sz[p]) /\ y \in 0..z
    BY <1>3, <2>2
  <2>17. SubSeq(Seen(t, mem, z), 1, y) = Seen(t, mem, y) /\ Len(Seen(t, mem, z)) = z
    BY <2>16, SeenCut
  <2>18. y \in 0..Len(View(p)) /\ View(p)' = SubSeq(View(p), 1, y)
    BY <2>13, <2>15, <2>16, <2>17
  <2>19. A!Next
    BY <2>13, <2>18, ShrinkStep
  <2> QED  BY <2>13, <2>19 DEF Maps
<1> QED  BY <1>4, <1>5 DEF Shrink

LEMMA GrowPageMaps ==
  ASSUME IInv, DataInv, NEW p \in Procs, GrowPage(p)
  PROVE  Maps
<1>1. PICK t \in Table : t = pt[p] /\ TableOK(t)
  BY Known
<1>2. /\ free \cap PagesOf(t) = {} /\ free \subseteq Pages
      /\ Pg(sz[p]) \in Nat /\ Pg(sz[p]) <= TRAPFRAME /\ mem \in [Pages -> Contents]
      /\ NoLoc.npt = NoTable /\ loc[p] \in Locals
  BY <1>1, Known
<1>3. pc[p] = "grow" /\ loc[p].a * PGSIZE < loc[p].new /\ sz' = sz
  BY DEF GrowPage, At, procs
<1>4. /\ loc[p].a \in Nat /\ loc[p].new \in Nat /\ loc[p].new <= MaxSz
      /\ Pg(sz[p]) <= loc[p].a /\ EmptyFrom(t, loc[p].a) /\ loc[p].npt = NoTable
  BY <1>1, <1>2, <1>3 DEF IInv, SizeInv, MapInv, CtlInv, Locals
<1>5. PICK v \in Nat : v = loc[p].a
  BY <1>4
<1>6. v < Pg(loc[p].new) /\ Pg(loc[p].new) <= TRAPFRAME /\ Pg(loc[p].new) \in Nat
  BY <1>3, <1>4, <1>5, PgBelow, MaxPages
<1>7. v \in LowPages
  BY <1>6, Bounds DEF LowPages
<1>8. t.pte[v].pa = 0 /\ {"u", "w"} \in SUBSET {"u", "w", "x"} /\ "zero" \in Contents
  BY <1>4, <1>5, <1>7 DEF EmptyFrom, Contents
<1>9. PICK r : r = MapNew(free, mem, t, v, {"u", "w"}, "zero")
  OBVIOUS
<1>10. Added(MapNew(free, mem, t, v, {"u", "w"}, "zero"), free, mem, t, v, {"u", "w"}, "zero")
  BY <1>1, <1>2, <1>7, <1>8, MapNewFacts
<1>11. Added(r, free, mem, t, v, {"u", "w"}, "zero")
  BY <1>9, <1>10
<1>12. /\ Alike(t, mem, r.t, r.m, {v})
       /\ r.ok => r.t.pte[v].pa # 0 /\ r.t.pte[v].perm = {"u", "w"} /\ r.m[r.t.pte[v].pa] = "zero"
       /\ ~r.ok => r.t.pte = t.pte /\ r.m = mem
       /\ \A y \in Pages \ free : r.m[y] = mem[y]
  <2>1. Shows(r, free, mem, t, v, {"u", "w"}, "zero")
    BY <1>1, <1>2, <1>7, <1>11, AddedAlike
  <2> QED  BY <2>1 DEF Shows
<1>13. TextOf(t, mem) /\ ZeroFrom(t, mem, Pg(sz[p]))
  BY <1>1, <1>3 DEF DataInv, DataOf
<1>14. CASE r.ok
  <2>1. PICK l : l = [loc[p] EXCEPT !.a = v + 1]
    OBVIOUS
  <2>2. /\ mem' = r.m /\ pt' = [pt EXCEPT ![p] = r.t] /\ loc' = [loc EXCEPT ![p] = l] /\ pc' = pc
    BY <1>1, <1>5, <1>9, <1>14, <2>1 DEF GrowPage, Keep
  <2>3. l.npt = NoTable
    BY <1>2, <1>4, <2>1, LocalsNext
  <2>4. Turn(p, r.t, sz[p], l, "grow")
    BY <1>3, <2>2 DEF Turn, IInv, TypeOK
  <2>5. TextOf(r.t, mem')
    BY <1>12, <1>13, <1>14, <2>2, AlikeText
  <2>6. ZeroFrom(r.t, mem', Pg(sz[p]))
    BY <1>12, <1>13, <1>14, <2>2 DEF Alike, ZeroFrom
  <2>7. DataOf(r.t, sz[p], l, "grow", mem')
    BY <2>3, <2>5, <2>6, NoTableText DEF DataOf
  <2>8. Outside(p, p)
    BY <1>12, <2>2 DEF Outside
  <2>9. ~(v < Pg(sz[p]))
    BY <1>2, <1>4, <1>5
  <2>10. Seen(r.t, mem', Pg(sz[p])) = Seen(t, mem, Pg(sz[p]))
    BY <1>2, <1>12, <2>2, <2>9, AlikeSeen
  <2> QED  BY <1>1, <1>3, <2>4, <2>7, <2>8, <2>10, QuietTurn
<1>15. CASE ~r.ok
  <2>1. PICK S \in SUBSET LowPages : S = Pg(sz[p])..v - 1
    BY <1>2, <1>7, Bounds DEF LowPages
  <2>2. PICK u : u = Uvmunmap(r.t, S)
    OBVIOUS
  <2>3. /\ mem' = Junk(mem, Mapped(r.t, S)) /\ pt' = [pt EXCEPT ![p] = u]
        /\ loc' = [loc EXCEPT ![p] = NoLoc] /\ pc' = [pc EXCEPT ![p] = "user"]
    BY <1>1, <1>5, <1>9, <1>15, <2>1, <2>2 DEF GrowPage, Return, Goto, Keep
  <2>4. r.t \in Table /\ TableOK(r.t) /\ PagesOf(r.t) = PagesOf(t) \cup (free \ r.f)
    BY <1>11 DEF Added
  <2>5. Alike(r.t, mem, u, mem', S) /\ \A w \in S : u.pte[w].pa = 0
    BY <2>2, <2>3, <2>4, UnmapAlike
  <2>6. Alike(t, mem, u, mem', S)
    BY <1>12, <1>15, <2>5 DEF Alike
  <2>7. TextOf(u, mem')
    BY <1>13, <2>5, <2>6, AlikeText
  <2>8. Mapped(r.t, S) \subseteq PagesOf(r.t)
    BY <2>4, UnmapFacts
  <2>9. Outside(p, p)
    BY <1>1, <2>3, <2>4, <2>8, JunkOutside DEF Outside
  <2>10. DataOf(u, sz[p], NoLoc, "user", mem')
    BY <1>2, <2>7, NoTableText DEF DataOf
  <2>11. \A w \in S : ~(w < Pg(sz[p]))
    BY <1>2, <2>1
  <2>12. Seen(u, mem', Pg(sz[p])) = Seen(t, mem, Pg(sz[p]))
    BY <1>2, <2>6, <2>11, AlikeSeen
  <2>13. Turn(p, u, sz[p], NoLoc, "user")
    BY <1>3, <2>3 DEF Turn, IInv, TypeOK
  <2> QED  BY <1>1, <1>3, <2>9, <2>10, <2>12, <2>13, QuietTurn
<1> QED  BY <1>14, <1>15

\* A store of x at page v.
Stored(t, m, n, z, v, x) ==
  /\ Seen(t, n, z) = [Seen(t, m, z) EXCEPT ![v + 1] = x]
  /\ v + 1 \in DOMAIN Seen(t, m, z) /\ Seen(t, m, z)[v + 1] = m[t.pte[v].pa]

LEMMA StoredSeen ==
  ASSUME NEW t \in Table, TableOK(t), NEW m \in [Pages -> Contents], NEW z \in Nat, z <= TRAPFRAME,
         NEW v \in LowPages, v < z, t.pte[v].pa # 0, NEW x, NEW n, n = [m EXCEPT ![t.pte[v].pa] = x]
  PROVE  Stored(t, m, n, z, v, x)
<1>1. v \in Nat /\ v + 1 \in 1..z /\ (v + 1) - 1 = v
  BY Bounds DEF LowPages
<1>2. PICK y \in Pages : y = t.pte[v].pa
  BY PteInPages, PagesArePages
<1>3. n = [m EXCEPT ![y] = x]
  BY <1>2
<1>4. ASSUME NEW w \in LowPages PROVE Shown(t, n, w) = IF w = v THEN x ELSE Shown(t, m, w)
  <2>1. CASE w = v
    BY <1>2, <1>3, <2>1 DEF Shown
  <2>2. CASE w # v /\ t.pte[w].pa # 0
    <3>1. t.pte[w].pa # y /\ t.pte[w].pa \in Pages
      BY <1>2, <2>2, PteInPages, PagesArePages DEF TableOK
    <3> QED  BY <1>3, <2>2, <3>1 DEF Shown
  <2>3. CASE w # v /\ t.pte[w].pa = 0
    BY <2>3 DEF Shown
  <2> QED  BY <2>1, <2>2, <2>3
<1>5. \A k \in 1..z : k - 1 \in LowPages
  BY Bounds DEF LowPages
<1>6. \A k \in 1..z : Shown(t, n, k - 1) = IF k = v + 1 THEN x ELSE Shown(t, m, k - 1)
  <2> SUFFICES ASSUME NEW k \in 1..z
               PROVE  Shown(t, n, k - 1) = IF k = v + 1 THEN x ELSE Shown(t, m, k - 1)
    OBVIOUS
  <2>1. k = v + 1 <=> k - 1 = v
    BY <1>1
  <2> QED  BY <1>4, <1>5, <2>1
<1>7. Seen(t, n, z) = [Seen(t, m, z) EXCEPT ![v + 1] = x]
  BY <1>1, <1>6 DEF Seen
<1>8. v + 1 \in DOMAIN Seen(t, m, z) /\ Seen(t, m, z)[v + 1] = Shown(t, m, v)
  BY <1>1 DEF Seen
<1> QED  BY <1>7, <1>8 DEF Shown, Stored

LEMMA StoredText ==
  ASSUME NEW t \in Table, TableOK(t), NEW m \in [Pages -> Contents], TextOf(t, m), NEW y \in Pages,
         NEW x, x # "text", NEW n, n = [m EXCEPT ![y] = x]
  PROVE  TextOf(t, n)
<1>1. \A w \in LowPages : t.pte[w].pa # 0 => t.pte[w].pa \in Pages
  BY PteInPages, PagesArePages
<1> QED  BY <1>1 DEF TextOf

LEMMA StoreTurn ==
  ASSUME IInv, DataInv, NEW p \in Procs, pc[p] # "none", NEW t \in Table, TableOK(t),
         NEW m \in [Pages -> Contents], TextOf(t, m), Seen(t, m, Pg(sz[p])) = Seen(pt[p], mem, Pg(sz[p])),
         \A y \in Pages : y \in free \cup PagesOf(pt[p]) \/ m[y] = mem[y], PagesOf(t) \subseteq PagesOf(pt[p]) \cup free,
         NEW v \in LowPages, v < Pg(sz[p]), t.pte[v].pa # 0, "w" \in t.pte[v].perm,
         mem' = [m EXCEPT ![t.pte[v].pa] = Value(p)],
         NEW l, l.npt = NoTable, NEW c \in {"user", "copyin", "copyout"}, Turn(p, t, sz[p], l, c)
  PROVE  Maps
<1>1. Pg(sz[p]) \in Nat /\ Pg(sz[p]) <= TRAPFRAME
  BY Known
<1>2. PICK y \in Pages : y = t.pte[v].pa /\ y \in PagesOf(t)
  BY PteInPages, PagesArePages
<1>3. Value(p) \in {"w2", "w3"} /\ Value(p) # "text" /\ mem' = [m EXCEPT ![y] = Value(p)]
  BY <1>2 DEF Value
<1>4. TextOf(t, mem')
  <2>1. PICK n, x : n = mem' /\ n = [m EXCEPT ![y] = x] /\ x # "text"
    BY <1>3
  <2>2. TextOf(t, n)
    BY <2>1, StoredText
  <2> QED  BY <2>1, <2>2
<1>5. Outside(p, p)
  BY <1>2, <1>3 DEF Outside
<1>6. DataOf(t, sz[p], l, c, mem')
  BY <1>4, NoTableText DEF DataOf
<1>7. /\ DataInv' /\ \A r \in Procs \ {p} : View(r)' = View(r)
      /\ View(p)' = Seen(t, mem', Pg(sz[p])) /\ View(p) = Seen(t, m, Pg(sz[p]))
  BY <1>5, <1>6, TurnData
<1>8. PICK z \in Nat : z = Pg(sz[p]) /\ z <= TRAPFRAME /\ v < z
  BY <1>1
<1>9. /\ Seen(t, mem', z) = [Seen(t, m, z) EXCEPT ![v + 1] = Value(p)]
      /\ v + 1 \in DOMAIN Seen(t, m, z) /\ Seen(t, m, z)[v + 1] = m[t.pte[v].pa]
  <2>1. PICK n : n = mem' /\ n = [m EXCEPT ![t.pte[v].pa] = Value(p)]
    OBVIOUS
  <2>2. Stored(t, m, n, z, v, Value(p))
    BY <1>8, <2>1, StoredSeen
  <2> QED  BY <2>1, <2>2 DEF Stored
<1>10. m[t.pte[v].pa] # "text"
  BY DEF TextOf
<1>11. PICK k \in DOMAIN View(p), x \in {"w2", "w3"} : k = v + 1 /\ x = Value(p)
  BY <1>3, <1>7, <1>8, <1>9
<1>12. View(p)[k] # "text" /\ View(p)' = [View(p) EXCEPT ![k] = x]
  BY <1>7, <1>8, <1>9, <1>10, <1>11
<1>13. A!Next
  BY <1>7, <1>12, StoreStep
<1> QED  BY <1>7, <1>13 DEF Maps

\* Pages that user programs may access are below the size.
LEMMA UserPage ==
  ASSUME IInv, NEW p \in Procs, EmptyFrom(pt[p], Pg(sz[p])), NEW v \in Nat, NEW write, Allowed(p, v, write)
  PROVE  v \in LowPages /\ v < Pg(sz[p]) /\ pt[p].pte[v].pa # 0
<1>1. PICK t \in Table : t = pt[p] /\ TableOK(t) /\ EmptyFrom(t, Pg(sz[p]))
  BY Known
<1>2. v \in VPages /\ "u" \in t.pte[v].perm
  BY <1>1, Bounds DEF Allowed, VPages
<1>3. v \in LowPages /\ t.pte[v].pa # 0
  BY <1>1, <1>2 DEF TableOK
<1>4. Pg(sz[p]) \in Nat
  BY Known
<1> QED  BY <1>1, <1>3, <1>4 DEF EmptyFrom

LEMMA UserStoreMaps ==
  ASSUME IInv, DataInv, NEW p \in Procs, NEW v \in Nat, UserStore(p, v)
  PROVE  Maps
<1>1. /\ pc[p] = "user" /\ pt' = pt /\ sz' = sz /\ loc' = loc /\ pc' = pc /\ Allowed(p, v, TRUE)
      /\ mem' = [mem EXCEPT ![pt[p].pte[v].pa] = Value(p)]
  BY DEF UserStore, Calls, At, procs
<1>2. EmptyFrom(pt[p], Pg(sz[p])) /\ loc[p].npt = NoTable
  BY <1>1, CallFacts DEF IInv, CtlInv
<1>3. PICK t \in Table : t = pt[p] /\ TableOK(t)
  BY Known
<1>4. v \in LowPages /\ v < Pg(sz[p]) /\ t.pte[v].pa # 0
  BY <1>1, <1>2, <1>3, UserPage
<1>5. "w" \in t.pte[v].perm
  BY <1>1, <1>3 DEF Allowed
<1>6. TextOf(t, mem) /\ mem \in [Pages -> Contents]
  BY <1>3, Known DEF DataInv, DataOf
<1>7. Turn(p, t, sz[p], loc[p], "user")
  BY <1>1, <1>3 DEF Turn
<1>8. mem' = [mem EXCEPT ![t.pte[v].pa] = Value(p)]
  BY <1>1, <1>3
<1>9. PagesOf(t) \subseteq PagesOf(pt[p]) \cup free /\ Seen(t, mem, Pg(sz[p])) = Seen(pt[p], mem, Pg(sz[p]))
  BY <1>3
<1> QED  BY <1>1, <1>2, <1>3, <1>4, <1>5, <1>6, <1>7, <1>8, <1>9, StoreTurn

\* vmfault() shows the process what it saw before.
FaultShows(p, v, r) ==
  /\ TextOf(r.t, r.m) /\ Seen(r.t, r.m, Pg(sz[p])) = Seen(pt[p], mem, Pg(sz[p]))
  /\ \A y \in Pages \ free : r.m[y] = mem[y]
  /\ r.ok => v \in LowPages /\ v < Pg(sz[p]) /\ r.t.pte[v].pa # 0

LEMMA FaultData ==
  ASSUME IInv, NEW p \in Procs, TextOf(pt[p], mem), NEW v \in Nat, NEW r, r = Vmfault(p, v)
  PROVE  FaultShows(p, v, r)
<1>1. PICK t \in Table : t = pt[p] /\ TableOK(t) /\ TextOf(t, mem)
  BY Known
<1>2. /\ free \cap PagesOf(t) = {} /\ free \subseteq Pages /\ sz[p] \in Nat
      /\ Pg(sz[p]) \in Nat /\ Pg(sz[p]) <= TRAPFRAME /\ mem \in [Pages -> Contents]
  BY <1>1, Known
<1>3. CASE v * PGSIZE >= sz[p] \/ pt[p].pte[v].pa # 0
  <2>1. r = [f |-> free, m |-> mem, t |-> pt[p], ok |-> FALSE, panic |-> "none"]
    BY <1>3 DEF Vmfault
  <2>2. r.ok = FALSE /\ r.m = mem /\ r.t = pt[p]
    BY <2>1
  <2> QED  BY <2>2 DEF FaultShows
<1>4. CASE ~(v * PGSIZE >= sz[p] \/ pt[p].pte[v].pa # 0)
  <2>1. r = MapNew(free, mem, t, v, {"u", "w"}, "zero") /\ t.pte[v].pa = 0
    BY <1>1, <1>4 DEF Vmfault
  <2>2. v * PGSIZE \in Nat
    BY VmAssumption
  <2>3. v < Pg(sz[p])
    BY <1>2, <1>4, <2>2, PgBelow
  <2>4. v \in LowPages
    BY <1>2, <2>3, Bounds DEF LowPages
  <2>5. {"u", "w"} \in SUBSET {"u", "w", "x"} /\ "zero" \in Contents
    BY DEF Contents
  <2>6. Added(MapNew(free, mem, t, v, {"u", "w"}, "zero"), free, mem, t, v, {"u", "w"}, "zero")
    BY <1>1, <1>2, <2>1, <2>4, <2>5, MapNewFacts
  <2>7. Added(r, free, mem, t, v, {"u", "w"}, "zero")
    BY <2>1, <2>6
  <2>8. Shows(r, free, mem, t, v, {"u", "w"}, "zero") /\ r.ok \in BOOLEAN
    <3>1. Shows(r, free, mem, t, v, {"u", "w"}, "zero")
      BY <1>1, <1>2, <2>4, <2>7, AddedAlike
    <3> QED  BY <2>7, <3>1 DEF Added
  <2>9. Shown(r.t, r.m, v) = Shown(t, mem, v)
    <3>1. CASE r.ok
      BY <2>1, <2>8, <3>1 DEF Shows, Shown
    <3>2. CASE ~r.ok
      BY <2>8, <3>2 DEF Shows, Shown
    <3> QED  BY <3>1, <3>2
  <2>10. Alike(t, mem, r.t, r.m, {v})
    BY <2>8 DEF Shows
  <2>11. Seen(r.t, r.m, Pg(sz[p])) = Seen(t, mem, Pg(sz[p]))
    BY <1>2, <2>9, <2>10, AlikeSeen
  <2>12. r.t.pte[v].pa # 0 => r.m[r.t.pte[v].pa] # "text"
    BY <2>1, <2>8 DEF Shows
  <2>13. TextOf(r.t, r.m)
    BY <1>1, <2>10, <2>12, AlikeText
  <2> QED  BY <1>1, <2>3, <2>4, <2>8, <2>11, <2>13 DEF FaultShows, Shows
<1> QED  BY <1>3, <1>4

LEMMA PageFaultMaps ==
  ASSUME IInv, DataInv, NEW p \in Procs, NEW v \in Nat, NEW write, PageFault(p, v, write)
  PROVE  Maps
<1>1. PICK r : r = Vmfault(p, v)
  OBVIOUS
<1>2. /\ pc[p] = "user" /\ sz' = sz /\ pt' = [pt EXCEPT ![p] = r.t] /\ mem' = r.m
      /\ (r.ok /\ UNCHANGED <<st, par, pc, loc>>) \/ (~r.ok /\ Exit(p))
  BY <1>1 DEF PageFault, Calls, At
<1>3. TextOf(pt[p], mem) /\ loc[p].npt = NoTable /\ NoLoc.npt = NoTable
  BY <1>2, Known DEF DataInv, DataOf, IInv, CtlInv
<1>4. FaultShows(p, v, r)
  BY <1>1, <1>3, FaultData
<1>5. TextOf(r.t, mem') /\ Seen(r.t, mem', Pg(sz[p])) = Seen(pt[p], mem, Pg(sz[p])) /\ Outside(p, p)
  BY <1>2, <1>4 DEF FaultShows, Outside
<1>6. PICK l, c : Turn(p, r.t, sz[p], l, c) /\ l.npt = NoTable /\ c \in {"user", "none"}
  <2>1. CASE r.ok /\ UNCHANGED <<st, par, pc, loc>>
    <3>1. Turn(p, r.t, sz[p], loc[p], "user")
      BY <1>2, <2>1 DEF Turn, IInv, TypeOK
    <3> QED  BY <1>3, <3>1
  <2>2. CASE ~r.ok /\ Exit(p)
    <3>1. pc' = [pc EXCEPT ![p] = "none"] /\ loc' = [loc EXCEPT ![p] = NoLoc]
      BY <2>2 DEF Exit, Goto, Keep
    <3>2. Turn(p, r.t, sz[p], NoLoc, "none")
      BY <1>2, <3>1 DEF Turn, IInv, TypeOK
    <3> QED  BY <1>3, <3>2
  <2> QED  BY <1>2, <2>1, <2>2
<1>7. DataOf(r.t, sz[p], l, c, mem')
  BY <1>5, <1>6, NoTableText DEF DataOf
<1> QED  BY <1>2, <1>5, <1>6, <1>7, QuietTurn

LEMMA CopyPageMaps ==
  ASSUME IInv, DataInv, NEW p \in Procs, NEW dir \in {"copyin", "copyout"}, CopyPage(p, dir)
  PROVE  Maps
<1>1. PICK v \in Nat : v = loc[p].a
  BY Known DEF Locals
<1>2. PICK r : r = IF Allowed(p, v, FALSE)
                   THEN [f |-> free, m |-> mem, t |-> pt[p], ok |-> TRUE, panic |-> "none"]
                   ELSE Vmfault(p, v)
  OBVIOUS
<1>3. PICK done : done = (r.ok /\ (dir = "copyout" => Writable(r.t, v)))
  OBVIOUS
<1>4. /\ pc[p] = dir /\ sz' = sz /\ pt' = [pt EXCEPT ![p] = r.t]
      /\ mem' = IF done /\ dir = "copyout" THEN [r.m EXCEPT ![r.t.pte[v].pa] = Value(p)] ELSE r.m
      /\ \/ loc' = [loc EXCEPT ![p] = [loc[p] EXCEPT !.a = v + 1]] /\ pc' = pc
         \/ loc' = [loc EXCEPT ![p] = NoLoc] /\ pc' = [pc EXCEPT ![p] = "user"]
  BY <1>1, <1>2, <1>3 DEF CopyPage, At, procs, Keep, Return, Goto
<1>5. /\ TextOf(pt[p], mem) /\ loc[p].npt = NoTable /\ NoLoc.npt = NoTable /\ loc[p] \in Locals
      /\ pt[p] \in Table /\ TableOK(pt[p]) /\ mem \in [Pages -> Contents]
  BY <1>4, Known DEF DataInv, DataOf, IInv, CtlInv
<1>6. EmptyFrom(pt[p], Pg(sz[p]))
  BY <1>4, CallFacts
<1>7. /\ FaultShows(p, v, r) /\ r.t \in Table /\ TableOK(r.t) /\ PagesOf(r.t) \subseteq PagesOf(pt[p]) \cup free
      /\ r.m \in [Pages -> Contents]
  <2>1. CASE Allowed(p, v, FALSE)
    <3>1. r.m = mem /\ r.t = pt[p]
      BY <1>2, <2>1
    <3>2. v \in LowPages /\ v < Pg(sz[p]) /\ pt[p].pte[v].pa # 0
      BY <1>6, <2>1, UserPage
    <3> QED  BY <1>5, <3>1, <3>2 DEF FaultShows
  <2>2. CASE ~Allowed(p, v, FALSE)
    <3>1. r = Vmfault(p, v)
      BY <1>2, <2>2
    <3>2. FaultShows(p, v, r)
      BY <1>5, <3>1, FaultData
    <3>3. r.t \in Table /\ TableOK(r.t) /\ PagesOf(r.t) = PagesOf(pt[p]) \cup (free \ r.f) /\ r.m \in [Pages -> Contents]
      BY <1>6, <3>1, VmfaultFacts
    <3> QED  BY <3>2, <3>3
  <2> QED  BY <2>1, <2>2
<1>8. PICK l, c : Turn(p, r.t, sz[p], l, c) /\ l.npt = NoTable /\ c \in {"user", "copyin", "copyout"}
  <2>1. CASE loc' = [loc EXCEPT ![p] = [loc[p] EXCEPT !.a = v + 1]] /\ pc' = pc
    <3>1. PICK l : l = [loc[p] EXCEPT !.a = v + 1]
      OBVIOUS
    <3>2. v + 1 \in Nat
      OBVIOUS
    <3>3. l.npt = NoTable
      BY <1>5, <3>1, <3>2, LocalsNext
    <3>4. Turn(p, r.t, sz[p], l, dir)
      BY <1>4, <2>1, <3>1 DEF Turn, IInv, TypeOK
    <3> QED  BY <3>3, <3>4
  <2>2. CASE loc' = [loc EXCEPT ![p] = NoLoc] /\ pc' = [pc EXCEPT ![p] = "user"]
    <3>1. Turn(p, r.t, sz[p], NoLoc, "user")
      BY <1>4, <2>2 DEF Turn, IInv, TypeOK
    <3> QED  BY <1>5, <3>1
  <2> QED  BY <1>4, <2>1, <2>2
<1>9. CASE done /\ dir = "copyout"
  <2>1. v \in LowPages /\ v < Pg(sz[p]) /\ r.t.pte[v].pa # 0 /\ "w" \in r.t.pte[v].perm
    BY <1>3, <1>7, <1>9 DEF FaultShows, Writable
  <2>2. PICK t \in Table, m \in [Pages -> Contents] : t = r.t /\ m = r.m
    BY <1>7
  <2>3. mem' = [m EXCEPT ![t.pte[v].pa] = Value(p)]
    BY <1>4, <1>9, <2>2
  <2>4. TextOf(t, m) /\ Seen(t, m, Pg(sz[p])) = Seen(pt[p], mem, Pg(sz[p])) /\ TableOK(t)
    BY <1>7, <2>2 DEF FaultShows
  <2>5. /\ \A y \in Pages : y \in free \cup PagesOf(pt[p]) \/ m[y] = mem[y]
        /\ PagesOf(t) \subseteq PagesOf(pt[p]) \cup free
    BY <1>7, <2>2 DEF FaultShows
  <2>6. Turn(p, t, sz[p], l, c) /\ t.pte[v].pa # 0 /\ "w" \in t.pte[v].perm /\ pc[p] # "none"
    BY <1>4, <1>8, <2>1, <2>2
  <2> QED  BY <1>8, <2>1, <2>3, <2>4, <2>5, <2>6, StoreTurn
<1>10. CASE ~(done /\ dir = "copyout")
  <2>1. mem' = r.m
    BY <1>4, <1>10
  <2>2. TextOf(r.t, mem') /\ Seen(r.t, mem', Pg(sz[p])) = Seen(pt[p], mem, Pg(sz[p])) /\ Outside(p, p)
    BY <1>7, <2>1 DEF FaultShows, Outside
  <2>3. DataOf(r.t, sz[p], l, c, mem')
    BY <1>8, <2>2, NoTableText DEF DataOf
  <2> QED  BY <1>4, <1>8, <2>2, <2>3, QuietTurn
<1> QED  BY <1>9, <1>10

\* exec() works on its new table only: the process sees what it saw.
LEMMA LoadTurn ==
  ASSUME IInv, DataInv, NEW p \in Procs, pc[p] # "none", NEW l, NEW c \in {"user", "load"}, Turn(p, pt[p], sz[p], l, c),
         \A x \in Pages : x \in free \cup PagesOf(loc[p].npt) \/ mem'[x] = mem[x],
         TextOf(l.npt, mem'), c = "load" => \E s \in Segments : Loaded(l, mem', s)
  PROVE  Maps
<1>1. PICK own : own = Own(tf, pt, loc) /\ Partition(own, free)
  BY DEF IInv, OwnInv
<1>2. PICK a \in Owners, b \in Owners : /\ a # b /\ own[a] = PagesOf(pt[p]) /\ own[b] = PagesOf(loc[p].npt)
  <2>1. own[<<"pt", p>>] = PagesOf(pt[p]) /\ own[<<"new", p>>] = PagesOf(loc[p].npt)
    BY <1>1, OwnPt, OwnNew
  <2>2. <<"pt", p>> \in Owners /\ <<"new", p>> \in Owners /\ <<"pt", p>> # <<"new", p>>
    BY IsOwner
  <2> QED  BY <2>1, <2>2
<1>3. \A x \in PagesOf(pt[p]) : x \in Pages /\ x \notin free /\ x \notin PagesOf(loc[p].npt)
  BY <1>1, <1>2 DEF Partition
<1>4. \A x \in PagesOf(pt[p]) : mem'[x] = mem[x]
  BY <1>3
<1>5. TextOf(pt[p], mem)
  BY DEF DataInv, DataOf
<1>6. TextOf(pt[p], mem')
  BY <1>4, <1>5, KeepText
<1>7. DataOf(pt[p], sz[p], l, c, mem')
  BY <1>6 DEF DataOf
<1>8. Outside(p, p)
  BY DEF Outside
<1>9. \A v \in LowPages : Shown(pt[p], mem', v) = Shown(pt[p], mem, v)
  BY <1>4, PteInPages DEF Shown
<1>10. Pg(sz[p]) \in Nat /\ Pg(sz[p]) <= TRAPFRAME
  BY Known
<1>11. Seen(pt[p], mem', Pg(sz[p])) = Seen(pt[p], mem, Pg(sz[p]))
  BY <1>9, <1>10, KeepSeen
<1> QED  BY <1>7, <1>8, <1>11, QuietTurn

LEMMA ExecMaps ==
  ASSUME IInv, DataInv, NEW p \in Procs, Exec(p)
  PROVE  Maps
<1>1. free \subseteq Pages /\ NoLoc \in Locals /\ tf[p] \in 0..NPAGES
  BY Known DEF IInv, TypeOK
<1>2. PICK r : r = ProcPagetable(free, tf[p])
  OBVIOUS
<1>3. r.t \in Table /\ EmptyFrom(r.t, 0)
  BY <1>1, <1>2, ProcPagetableFacts
<1>4. PICK s \in Segments : Keep(p, [NoLoc EXCEPT !.npt = r.t, !.segs = s])
  BY <1>2 DEF Exec
<1>5. PICK l : l = [NoLoc EXCEPT !.npt = r.t, !.segs = s]
  OBVIOUS
<1>6. /\ pc[p] # "none" /\ mem' = mem /\ pt' = pt /\ sz' = sz
      /\ loc' = [loc EXCEPT ![p] = l] /\ pc' = [pc EXCEPT ![p] = "load"]
  <2>1. pc[p] # "none"
    BY DEF Exec, Calls, At
  <2>2. loc' = [loc EXCEPT ![p] = l]
    BY <1>4, <1>5 DEF Keep
  <2> QED  BY <2>1, <2>2 DEF Exec, Goto, procs
<1>7. s \in Seq(SUBSET {"u", "w", "x"}) /\ Len(s) \in Nat
  BY VmAssumption
<1>8. l.npt = r.t /\ l.segs = s /\ l.nsz = 0 /\ l.a = 0
  <2>1. NoLoc.a = 0 /\ NoLoc.nsz = 0
    BY DEF NoLoc
  <2> QED  BY <1>1, <1>3, <1>5, <1>7, <2>1 DEF Locals
<1>9. Pg(0) = 0
  BY PgWhole, VmAssumption
<1>10. Loaded(l, mem', s)
  <2>1. \A v \in LowPages : ~(v < 0)
    BY Bounds DEF LowPages
  <2>2. \A k \in 1..Len(s) : 0 + k = k
    BY <1>7
  <2>3. \A k \in 1..Len(s) : s[k] = s[0 + k]
    BY <2>2
  <2> QED  BY <1>7, <1>8, <1>9, <2>1, <2>3 DEF Loaded
<1>11. TextOf(l.npt, mem')
  BY <1>3, <1>8, EmptyText
<1>12. Turn(p, pt[p], sz[p], l, "load")
  BY <1>6 DEF Turn, IInv, TypeOK
<1> QED  BY <1>6, <1>10, <1>11, <1>12, LoadTurn

LEMMA ExecBadMaps ==
  ASSUME IInv, DataInv, NEW p \in Procs, pc[p] = "load", NEW r, NEW x \in Nat,
         r.f \subseteq free, r.t \in Table, TableOK(r.t), PagesOf(r.t) = PagesOf(loc[p].npt) \cup (free \ r.f),
         Pg(loc[p].nsz) <= x, x <= TRAPFRAME, EmptyFrom(r.t, x), ExecBad(p, r, x), sz' = sz
  PROVE  Maps
<1>1. NoLoc.npt = NoTable
  BY Known
<1>2. Pg(loc[p].nsz) \in Nat /\ Pg(loc[p].nsz) <= TRAPFRAME
  BY LoadFacts, Bounds
<1>3. PICK S \in SUBSET LowPages : S = Pg(loc[p].nsz)..x - 1
  BY <1>2, Bounds DEF LowPages
<1>4. PICK u : u = Uvmunmap(r.t, S)
  OBVIOUS
<1>5. /\ PagesOf(u) = PagesOf(r.t) \ Mapped(r.t, S) /\ Mapped(r.t, S) \subseteq PagesOf(r.t)
      /\ \A v \in VPages : u.pte[v] = IF v \in S THEN NoPte ELSE r.t.pte[v]
  BY <1>4, UnmapFacts
<1>6. EmptyFrom(u, Pg(loc[p].nsz))
  BY <1>2, <1>3, <1>5, Bounds DEF EmptyFrom, NoPte, LowPages
<1>7. FreePages(u, loc[p].nsz) = PagesOf(u)
  BY <1>2, <1>6, FreeFacts
<1>8. PICK gone : gone = Mapped(r.t, S) \cup FreePages(u, loc[p].nsz)
  OBVIOUS
<1>9. /\ pt' = pt /\ mem' = Junk(mem, gone)
      /\ loc' = [loc EXCEPT ![p] = NoLoc] /\ pc' = [pc EXCEPT ![p] = "user"]
  BY <1>3, <1>4, <1>8 DEF ExecBad, Return, Goto, Keep
<1>10. gone \subseteq free \cup PagesOf(loc[p].npt)
  BY <1>5, <1>7, <1>8
<1>11. \A y \in Pages : y \in free \cup PagesOf(loc[p].npt) \/ mem'[y] = mem[y]
  BY <1>9, <1>10, JunkOutside
<1>12. Turn(p, pt[p], sz[p], NoLoc, "user") /\ TextOf(NoLoc.npt, mem')
  BY <1>1, <1>9, NoTableText DEF Turn, IInv, TypeOK
<1> QED  BY <1>11, <1>12, LoadTurn

LEMMA ExecUnreadableMaps ==
  ASSUME IInv, DataInv, NEW p \in Procs, ExecUnreadable(p)
  PROVE  Maps
<1>1. pc[p] = "load" /\ sz' = sz /\ loc[p].segs # <<>>
  BY DEF ExecUnreadable, At, procs
<1>2. PICK r : r = [f |-> free, t |-> loc[p].npt]
  OBVIOUS
<1>3. ExecBad(p, r, Pg(loc[p].nsz))
  BY <1>2 DEF ExecUnreadable
<1>4. /\ loc[p].npt \in Table /\ TableOK(loc[p].npt) /\ Pg(loc[p].nsz) \in Nat /\ Pg(loc[p].nsz) <= TRAPFRAME
      /\ EmptyFrom(loc[p].npt, Pg(loc[p].nsz))
  BY <1>1, Known, LoadFacts
<1>5. r.f = free /\ r.t = loc[p].npt
  BY <1>2
<1>6. PagesOf(r.t) = PagesOf(loc[p].npt) \cup (free \ r.f)
  BY <1>5
<1> QED  BY <1>1, <1>3, <1>4, <1>5, <1>6, ExecBadMaps

\* exec() maps a page of its table and goes on with locals l.
LEMMA LoadedTurn ==
  ASSUME IInv, DataInv, NEW p \in Procs, pc[p] = "load", NEW r, NEW l, l.npt = r.t, NEW t, t = loc[p].npt,
         NEW v \in LowPages, NEW perm, NEW y, "w" \in perm => y # "text",
         Shows(r, free, mem, t, v, perm, y), r.ok, NEW s \in Segments, Loaded(l, r.m, s),
         mem' = r.m, pt' = pt, sz' = sz, pc' = pc, loc' = [loc EXCEPT ![p] = l]
  PROVE  Maps
<1>1. /\ Alike(t, mem, r.t, r.m, {v}) /\ \A x \in Pages \ free : r.m[x] = mem[x]
      /\ r.t.pte[v].perm = perm /\ r.m[r.t.pte[v].pa] = y
  BY DEF Shows
<1>2. TextOf(t, mem)
  BY DEF DataInv, DataOf
<1>3. TextOf(r.t, r.m)
  BY <1>1, <1>2, AlikeText
<1>4. Turn(p, pt[p], sz[p], l, "load")
  BY DEF Turn, IInv, TypeOK
<1>5. \A x \in Pages : x \in free \cup PagesOf(loc[p].npt) \/ mem'[x] = mem[x]
  BY <1>1
<1>6. TextOf(l.npt, mem') /\ Loaded(l, mem', s)
  BY <1>3
<1> QED  BY <1>4, <1>5, <1>6, LoadTurn

\* The page is the next of the program.
LEMMA ExecShows ==
  ASSUME IInv, NEW p \in Procs, pc[p] = "load", NEW t \in Table, t = loc[p].npt, NEW v \in Nat, v = loc[p].a, v < TRAPFRAME,
         NEW perm \in SUBSET {"u", "w", "x"}, NEW y \in Contents, NEW r, r = MapNew(free, mem, t, v, perm, y)
  PROVE  v \in LowPages /\ Shows(r, free, mem, t, v, perm, y)
<1>1. TableOK(t) /\ free \cap PagesOf(t) = {} /\ free \subseteq Pages /\ mem \in [Pages -> Contents]
  BY Known
<1>2. EmptyFrom(t, v)
  BY LoadFacts
<1>3. v \in LowPages
  BY Bounds DEF LowPages
<1>4. t.pte[v].pa = 0
  BY <1>2, <1>3 DEF EmptyFrom
<1>5. Added(MapNew(free, mem, t, v, perm, y), free, mem, t, v, perm, y)
  BY <1>1, <1>3, <1>4, MapNewFacts
<1>6. Added(r, free, mem, t, v, perm, y)
  BY <1>5
<1> QED  BY <1>1, <1>3, <1>6, AddedAlike

LEMMA ExecSegmentMaps ==
  ASSUME IInv, DataInv, NEW p \in Procs, ExecSegment(p)
  PROVE  Maps
<1>1. pc[p] = "load" /\ sz' = sz /\ loc[p].segs # <<>>
  BY DEF ExecSegment, At, procs
<1>2. PICK v \in Nat : v = Pg(loc[p].nsz) /\ v = loc[p].a
  BY <1>1, LoadFacts
<1>3. PICK z \in Seq(SUBSET {"u", "w", "x"}) : z = loc[p].segs /\ z # <<>> /\ v + Len(z) + USERSTACK + 1 <= TRAPFRAME
  BY <1>1, <1>2, LoadFacts
<1>4. PICK perm \in SUBSET {"u", "w", "x"} : perm = Head(z)
  BY <1>3
<1>5. /\ Tail(z) \in Seq(SUBSET {"u", "w", "x"}) /\ Len(z) \in Nat /\ Len(Tail(z)) = Len(z) - 1 /\ Len(z) >= 1
      /\ Head(z) = z[1] /\ \A k \in 1..Len(z) - 1 : Tail(z)[k] = z[k + 1]
  BY <1>3
<1>6. PICK y \in Contents : y = IF "w" \in perm THEN "data" ELSE "text"
  BY DEF Contents
<1>7. PICK t \in Table : t = loc[p].npt
  BY Known
<1>8. PICK r : r = MapNew(free, mem, t, v, perm, y)
  OBVIOUS
<1>9. v < TRAPFRAME
  <2>1. PICK n \in Nat, m \in Nat, k \in Nat : n = Len(z) /\ m = TRAPFRAME /\ k = USERSTACK
    BY <1>5, Bounds
  <2>2. v + n + k + 1 <= m
    BY <1>3, <2>1
  <2> QED  BY <2>1, <2>2
<1>10. v \in LowPages /\ Shows(r, free, mem, t, v, perm, y)
  BY <1>1, <1>2, <1>7, <1>8, <1>9, ExecShows
<1>11. CASE r.ok
  <2>1. PICK l : l = [loc[p] EXCEPT !.npt = r.t, !.segs = Tail(z), !.nsz = (v + 1) * PGSIZE, !.a = v + 1]
    OBVIOUS
  <2>2. mem' = r.m /\ pc' = pc /\ pt' = pt /\ loc' = [loc EXCEPT ![p] = l]
    BY <1>2, <1>3, <1>4, <1>6, <1>7, <1>8, <1>11, <2>1 DEF ExecSegment, Keep
  <2>3. Pg((v + 1) * PGSIZE) = v + 1
    BY PgWhole
  <2>4. l.npt = r.t /\ l.segs = Tail(z) /\ l.a = v + 1 /\ Pg(l.nsz) = v + 1
    <3>1. loc[p] \in Locals
      BY Known
    <3> QED  BY <2>1, <2>3, <3>1 DEF Locals
  <2>5. PICK s \in Segments : Loaded(loc[p], mem, s)
    BY <1>1 DEF DataInv, DataOf
  <2>6. /\ Len(s) = v + Len(z) /\ \A k \in 1..Len(z) : z[k] = s[v + k]
        /\ \A w \in LowPages : w < v =>
             /\ t.pte[w].pa # 0
             /\ mem[t.pte[w].pa] = IF w >= v THEN "zero" ELSE IF "w" \in s[w + 1] THEN "data" ELSE "text"
    BY <1>2, <1>3, <1>7, <2>5 DEF Loaded
  <2>7. Len(s) = (v + 1) + Len(Tail(z))
    <3>1. PICK n \in Nat : n = Len(z)
      BY <1>5
    <3>2. v + n = (v + 1) + (n - 1)
      OBVIOUS
    <3> QED  BY <1>5, <2>6, <3>1, <3>2
  <2>8. \A k \in 1..Len(Tail(z)) : Tail(z)[k] = s[(v + 1) + k]
    <3>1. PICK n \in Nat : n = Len(z)
      BY <1>5
    <3>2. ASSUME NEW k \in 1..n - 1 PROVE Tail(z)[k] = s[(v + 1) + k]
      <4>1. k + 1 \in 1..n /\ v + (k + 1) = (v + 1) + k
        BY <3>1, <3>2
      <4>2. z[k + 1] = s[v + (k + 1)]
        BY <2>6, <3>1, <4>1
      <4> QED  BY <1>5, <3>1, <4>1, <4>2
    <3> QED  BY <1>5, <3>1, <3>2
  <2>9. perm = s[v + 1]
    <3>1. 1 \in 1..Len(z)
      BY <1>5
    <3> QED  BY <1>4, <1>5, <2>6, <3>1
  <2>10. ASSUME NEW w \in LowPages, w < v + 1
         PROVE  /\ r.t.pte[w].pa # 0
                /\ r.m[r.t.pte[w].pa] = IF w >= v + 1 THEN "zero" ELSE IF "w" \in s[w + 1] THEN "data" ELSE "text"
    <3>1. w \in Nat /\ ~(w >= v + 1)
      BY <2>10, Bounds DEF LowPages
    <3>2. CASE w = v
      BY <1>6, <1>10, <1>11, <2>9, <3>1, <3>2 DEF Shows
    <3>3. CASE w # v
      <4>1. w < v /\ ~(w >= v)
        BY <2>10, <3>1, <3>3
      <4>2. r.t.pte[w] = t.pte[w] /\ (t.pte[w].pa # 0 => r.m[t.pte[w].pa] = mem[t.pte[w].pa])
        BY <1>10, <3>3 DEF Shows, Alike
      <4> QED  BY <2>6, <3>1, <4>1, <4>2
    <3> QED  BY <3>2, <3>3
  <2>11. Loaded(l, r.m, s)
    BY <2>4, <2>7, <2>8, <2>10 DEF Loaded
  <2>12. "w" \in perm => y # "text"
    BY <1>6
  <2> QED  BY <1>1, <1>7, <1>10, <1>11, <2>2, <2>4, <2>11, <2>12, LoadedTurn
<1>12. CASE ~r.ok
  <2>1. ExecBad(p, r, v)
    BY <1>2, <1>3, <1>4, <1>6, <1>7, <1>8, <1>12 DEF ExecSegment
  <2>2. Pg(loc[p].nsz) <= v /\ v <= TRAPFRAME
    BY <1>2, <1>9, Bounds
  <2>3. Longer(r, loc[p].npt, v)
    BY <1>1, <1>2, <1>7, <1>8, <1>9, ExecMapFacts
  <2> QED  BY <1>1, <1>12, <2>1, <2>2, <2>3, ExecBadMaps DEF Longer
<1> QED  BY <1>11, <1>12

LEMMA ExecStackMaps ==
  ASSUME IInv, DataInv, NEW p \in Procs, ExecStack(p)
  PROVE  Maps
<1>1. pc[p] = "load" /\ sz' = sz /\ loc[p].segs = <<>> /\ loc[p].a < Pg(loc[p].nsz) + USERSTACK + 1
  BY DEF ExecStack, At, procs
<1>2. PICK v \in Nat, z \in Nat : v = loc[p].a /\ z = Pg(loc[p].nsz) /\ z <= v
  BY <1>1, LoadFacts
<1>3. PICK perm \in SUBSET {"u", "w", "x"}, y \in Contents : perm = {"u", "w"} /\ y = "zero"
  BY DEF Contents
<1>4. PICK t \in Table : t = loc[p].npt
  BY Known
<1>5. PICK r : r = MapNew(free, mem, t, v, perm, y)
  OBVIOUS
<1>6. v < TRAPFRAME
  BY <1>1, <1>2, LoadFacts, Bounds, SMTT(30)
<1>7. v \in LowPages /\ Shows(r, free, mem, t, v, perm, y)
  BY <1>1, <1>2, <1>4, <1>5, <1>6, ExecShows
<1>8. CASE r.ok
  <2>1. PICK l : l = [loc[p] EXCEPT !.npt = r.t, !.a = v + 1]
    OBVIOUS
  <2>2. mem' = r.m /\ pc' = pc /\ pt' = pt /\ loc' = [loc EXCEPT ![p] = l]
    BY <1>2, <1>3, <1>4, <1>5, <1>8, <2>1 DEF ExecStack, Keep
  <2>3. l.npt = r.t /\ l.segs = loc[p].segs /\ l.a = v + 1 /\ l.nsz = loc[p].nsz
    <3>1. loc[p] \in Locals
      BY Known
    <3> QED  BY <2>1, <3>1 DEF Locals
  <2>4. PICK s \in Segments : Loaded(loc[p], mem, s)
    BY <1>1 DEF DataInv, DataOf
  <2>5. /\ Len(s) = Pg(l.nsz) + Len(l.segs) /\ \A k \in 1..Len(l.segs) : l.segs[k] = s[Pg(l.nsz) + k]
        /\ \A w \in LowPages : w < v =>
             /\ t.pte[w].pa # 0
             /\ mem[t.pte[w].pa] = IF w >= z THEN "zero" ELSE IF "w" \in s[w + 1] THEN "data" ELSE "text"
    BY <1>2, <1>4, <2>3, <2>4 DEF Loaded
  <2>6. ASSUME NEW w \in LowPages, w < v + 1
        PROVE  /\ r.t.pte[w].pa # 0
               /\ r.m[r.t.pte[w].pa] = IF w >= z THEN "zero" ELSE IF "w" \in s[w + 1] THEN "data" ELSE "text"
    <3>1. w \in Nat
      BY Bounds DEF LowPages
    <3>2. CASE w = v
      BY <1>2, <1>3, <1>7, <1>8, <3>1, <3>2 DEF Shows
    <3>3. CASE w # v
      <4>1. w < v
        BY <2>6, <3>1, <3>3
      <4>2. r.t.pte[w] = t.pte[w] /\ (t.pte[w].pa # 0 => r.m[t.pte[w].pa] = mem[t.pte[w].pa])
        BY <1>7, <3>3 DEF Shows, Alike
      <4> QED  BY <2>5, <4>1, <4>2
    <3> QED  BY <3>2, <3>3
  <2>7. Pg(l.nsz) = z
    BY <1>2, <2>3
  <2>8. Loaded(l, r.m, s)
    BY <2>3, <2>5, <2>6, <2>7 DEF Loaded
  <2>9. "w" \in perm => y # "text"
    BY <1>3
  <2> QED  BY <1>1, <1>4, <1>7, <1>8, <2>2, <2>3, <2>8, <2>9, LoadedTurn
<1>9. CASE ~r.ok
  <2>1. ExecBad(p, r, v)
    BY <1>2, <1>3, <1>4, <1>5, <1>9 DEF ExecStack
  <2>2. Pg(loc[p].nsz) <= v /\ v <= TRAPFRAME
    BY <1>2, <1>6, Bounds
  <2>3. Longer(r, loc[p].npt, v)
    BY <1>1, <1>2, <1>4, <1>5, <1>6, ExecMapFacts
  <2> QED  BY <1>1, <1>9, <2>1, <2>2, <2>3, ExecBadMaps DEF Longer
<1> QED  BY <1>8, <1>9

\* The image of a program, page by page.
LEMMA ImagePages ==
  ASSUME NEW s \in Segments, NEW v \in Nat, v = Len(s), NEW b \in Nat, b = v + USERSTACK + 1
  PROVE  Image(s) = [k \in 1..b |-> IF k = b THEN "args" ELSE IF k > v THEN "zero"
                                    ELSE IF "w" \in s[k] THEN "data" ELSE "text"]
<1>1. PICK n \in Nat : n = USERSTACK /\ b = (v + n) + 1
  BY Bounds
<1>2. PICK a \in [1..v -> Contents], c \in [1..n -> Contents], d \in [1..1 -> Contents] :
        /\ a = [k \in 1..Len(s) |-> IF "w" \in s[k] THEN "data" ELSE "text"]
        /\ c = [k \in 1..USERSTACK |-> "zero"] /\ d = <<"args">>
  <2>1. [k \in 1..Len(s) |-> IF "w" \in s[k] THEN "data" ELSE "text"] \in [1..v -> Contents]
    BY DEF Contents
  <2>2. [k \in 1..USERSTACK |-> "zero"] \in [1..n -> Contents]
    BY <1>1 DEF Contents
  <2>3. <<"args">> \in [1..1 -> Contents]
    BY DEF Contents
  <2> QED  BY <2>1, <2>2, <2>3
<1>3. PICK e : e = a \o c /\ Image(s) = e \o d
  BY <1>2 DEF Image
<1>4. e = Join(a, c, v, n)
  <2>1. a \o c = Join(a, c, v, n)
    BY JoinedPages
  <2> QED  BY <1>3, <2>1
<1>5. v + n \in Nat /\ 1 \in Nat
  OBVIOUS
<1>6. e \in [1..v + n -> Contents] /\ \A k \in 1..v + n : e[k] = IF k <= v THEN a[k] ELSE "zero"
  <2>1. \A k \in 1..v + n : /\ k <= v => k \in 1..v
                            /\ k > v => k - v \in 1..n
    OBVIOUS
  <2>2. \A k \in 1..n : c[k] = "zero"
    BY <1>1, <1>2
  <2> QED  BY <1>4, <2>1, <2>2 DEF Join
<1>7. e \o d = Join(e, d, v + n, 1)
  <2>1. PICK m \in Nat : m = v + n
    BY <1>5
  <2>2. PICK g \in [1..m -> Contents] : g = e
    BY <1>6, <2>1
  <2>3. g \o d = Join(g, d, m, 1)
    BY <1>5, JoinedPages
  <2> QED  BY <2>1, <2>2, <2>3
<1>8. ASSUME NEW k \in 1..(v + n) + 1
      PROVE  (IF k <= v + n THEN e[k] ELSE d[k - (v + n)]) =
               IF k = b THEN "args" ELSE IF k > v THEN "zero" ELSE IF "w" \in s[k] THEN "data" ELSE "text"
  <2>1. CASE k <= v
    <3>1. k \in 1..v + n /\ k \in 1..v /\ k # b /\ ~(k > v) /\ k <= v + n
      BY <1>1, <2>1
    <3>2. e[k] = a[k] /\ a[k] = IF "w" \in s[k] THEN "data" ELSE "text"
      BY <1>2, <1>6, <2>1, <3>1
    <3> QED  BY <3>1, <3>2
  <2>2. CASE k > v /\ k <= v + n
    <3>1. k \in 1..v + n /\ k # b /\ ~(k <= v)
      BY <1>1, <2>2
    <3> QED  BY <1>6, <2>2, <3>1
  <2>3. CASE k > v + n
    <3>1. k = b /\ k - (v + n) = 1 /\ ~(k <= v + n)
      BY <1>1, <2>3
    <3>2. d[1] = "args"
      BY <1>2
    <3> QED  BY <3>1, <3>2
  <2> QED  BY <2>1, <2>2, <2>3
<1> QED  BY <1>1, <1>3, <1>7, <1>8 DEF Join

LEMMA BelowPage ==
  ASSUME NEW b \in Nat, b <= TRAPFRAME, NEW k \in 1..b
  PROVE  \E w \in LowPages : w = k - 1 /\ w < b /\ w + 1 = k /\ w \in VPages
<1>1. TRAPFRAME \in Nat /\ LowPages \subseteq VPages
  BY Bounds
<1>2. k - 1 \in 0..TRAPFRAME - 1 /\ k - 1 < b /\ (k - 1) + 1 = k
  BY <1>1
<1> QED  BY <1>1, <1>2 DEF LowPages

\* What exec() ends with is the image of the program.
LEMMA LoadedImage ==
  ASSUME NEW s \in Segments, NEW l, NEW m \in [Pages -> Contents], Loaded(l, m, s), l.segs = <<>>,
         NEW t \in Table, t = l.npt, TableOK(t), NEW v \in Nat, v = Pg(l.nsz), NEW b \in Nat, b = l.a,
         b = v + USERSTACK + 1, b <= TRAPFRAME,
         NEW u, \A w \in VPages : u.pte[w].pa = t.pte[w].pa,
         NEW n, \A w \in LowPages : w < b => n[t.pte[w].pa] = IF w = b - 1 THEN "args" ELSE m[t.pte[w].pa]
  PROVE  Seen(u, n, b) = Image(s)
<1>1. v = Len(s) /\ \A w \in LowPages : w < b =>
        /\ t.pte[w].pa # 0
        /\ m[t.pte[w].pa] = IF w >= v THEN "zero" ELSE IF "w" \in s[w + 1] THEN "data" ELSE "text"
  <2>1. Len(s) = v + Len(<<>>)
    BY DEF Loaded
  <2>2. v + Len(<<>>) = v
    OBVIOUS
  <2> QED  BY <2>1, <2>2 DEF Loaded
<1>2. Image(s) = [k \in 1..b |-> IF k = b THEN "args" ELSE IF k > v THEN "zero"
                                 ELSE IF "w" \in s[k] THEN "data" ELSE "text"]
  BY <1>1, ImagePages
<1>3. ASSUME NEW k \in 1..b
      PROVE  Shown(u, n, k - 1) = IF k = b THEN "args" ELSE IF k > v THEN "zero"
                                  ELSE IF "w" \in s[k] THEN "data" ELSE "text"
  <2>1. PICK w \in LowPages : w = k - 1 /\ w < b /\ w + 1 = k /\ w \in VPages
    BY BelowPage
  <2>2. (w = b - 1 <=> k = b) /\ (w >= v <=> k > v)
    BY <2>1
  <2>3. u.pte[w].pa = t.pte[w].pa /\ t.pte[w].pa # 0
    BY <1>1, <2>1
  <2>4. Shown(u, n, w) = n[t.pte[w].pa]
    BY <2>3 DEF Shown
  <2>5. n[t.pte[w].pa] = IF k = b THEN "args" ELSE m[t.pte[w].pa]
    BY <2>1, <2>2
  <2>6. m[t.pte[w].pa] = IF k > v THEN "zero" ELSE IF "w" \in s[k] THEN "data" ELSE "text"
    BY <1>1, <2>1, <2>2
  <2> QED  BY <2>1, <2>4, <2>5, <2>6
<1> QED  BY <1>2, <1>3 DEF Seen

LEMMA ExecDoneMaps ==
  ASSUME IInv, DataInv, NEW p \in Procs, ExecDone(p)
  PROVE  Maps
<1>1. pc[p] = "load" /\ loc[p].segs = <<>> /\ loc[p].a = Pg(loc[p].nsz) + USERSTACK + 1
  BY DEF ExecDone, At
<1>2. PICK v \in Nat, b \in Nat : v = Pg(loc[p].nsz) /\ b = loc[p].a /\ b <= TRAPFRAME /\ EmptyFrom(loc[p].npt, b)
  BY <1>1, LoadFacts
<1>3. v \in VPages /\ b = v + USERSTACK + 1
  BY <1>1, <1>2, Bounds DEF VPages
<1>4. PICK n \in Nat : n = b * PGSIZE /\ Pg(n) = b
  BY PgWhole
<1>5. PICK m \in Table, t \in Table : m = loc[p].npt /\ t = pt[p]
  BY Known
<1>6. /\ TableOK(m) /\ TableOK(t) /\ mem \in [Pages -> Contents]
      /\ Pg(sz[p]) \in Nat /\ Pg(sz[p]) <= TRAPFRAME /\ NoLoc.npt = NoTable
  BY <1>5, Known
<1>7. EmptyFrom(t, Pg(sz[p]))
  BY <1>1, <1>5, CallFacts
<1>8. FreePages(t, sz[p]) = PagesOf(t)
  BY <1>6, <1>7, FreeFacts
<1>9. FreePages(m, n) = PagesOf(m)
  BY <1>2, <1>4, <1>5, FreeFacts
<1>10. ASSUME /\ pt' = [pt EXCEPT ![p] = Guarded(m, v)] /\ sz' = [sz EXCEPT ![p] = n]
              /\ mem' = [Junk(mem, FreePages(t, sz[p])) EXCEPT ![m.pte[b - 1].pa] = "args"]
              /\ loc' = [loc EXCEPT ![p] = NoLoc] /\ pc' = [pc EXCEPT ![p] = "user"]
       PROVE  Maps
  <2>1. PICK u : u = Guarded(m, v)
    OBVIOUS
  <2>2. \A w \in VPages : u.pte[w].pa = m.pte[w].pa /\ u.pte[w].perm \subseteq m.pte[w].perm
    BY <1>3, <1>6, <2>1, GuardFacts
  <2>3. PICK s \in Segments : Loaded(loc[p], mem, s)
    BY <1>1 DEF DataInv, DataOf
  <2>4. TextOf(m, mem)
    BY <1>5 DEF DataInv, DataOf
  <2>5. PICK w \in LowPages : w = b - 1 /\ w < b
    BY <1>2, <1>3, Bounds DEF LowPages
  <2>6. m.pte[w].pa # 0
    BY <1>2, <1>5, <2>3, <2>5 DEF Loaded
  <2>7. PICK y \in Pages : y = m.pte[w].pa /\ y \in PagesOf(m)
    BY <1>6, <2>6, PteInPages, PagesArePages
  <2>8. PICK j : j = Junk(mem, PagesOf(t)) /\ mem' = [j EXCEPT ![y] = "args"] /\ DOMAIN j = Pages
    <3>1. PICK j : j = Junk(mem, PagesOf(t))
      OBVIOUS
    <3>2. DOMAIN j = Pages
      BY <3>1 DEF Junk
    <3>3. m.pte[b - 1].pa = y
      BY <2>5, <2>7
    <3> QED  BY <1>8, <1>10, <3>1, <3>2, <3>3
  <2>9. PagesOf(m) \cap PagesOf(t) = {}
    <3>1. PICK own : own = Own(tf, pt, loc) /\ Partition(own, free)
      BY DEF IInv, OwnInv
    <3>2. own[<<"pt", p>>] = PagesOf(t) /\ own[<<"new", p>>] = PagesOf(m)
      BY <1>5, <3>1, OwnPt, OwnNew
    <3>3. <<"pt", p>> \in Owners /\ <<"new", p>> \in Owners /\ <<"pt", p>> # <<"new", p>>
      BY IsOwner
    <3> QED  BY <3>1, <3>2, <3>3 DEF Partition
  <2>10. ASSUME NEW k \in LowPages, m.pte[k].pa # 0
         PROVE  mem'[m.pte[k].pa] = IF k = w THEN "args" ELSE mem[m.pte[k].pa]
    <3>1. PICK z \in Pages : z = m.pte[k].pa /\ z \in PagesOf(m)
      BY <1>6, <2>10, PteInPages, PagesArePages
    <3>2. z \notin PagesOf(t)
      BY <2>9, <3>1
    <3>3. j[z] = mem[z]
      BY <2>8, <3>1, <3>2, JunkOutside
    <3>4. z = y <=> k = w
      BY <1>6, <2>7, <2>10, <3>1 DEF TableOK
    <3> QED  BY <2>8, <3>1, <3>3, <3>4
  <2>11. LowPages \subseteq VPages
    BY Bounds
  <2>12. TextOf(u, mem')
    BY <2>2, <2>4, <2>10, <2>11 DEF TextOf
  <2>13. Outside(p, p)
    <3> SUFFICES ASSUME NEW x \in Pages, x \notin PagesOf(t), x \notin PagesOf(m) PROVE mem'[x] = mem[x]
      BY <1>5 DEF Outside
    <3>1. j[x] = mem[x] /\ x # y
      BY <2>7, <2>8, JunkOutside
    <3> QED  BY <2>8, <3>1
  <2>14. Turn(p, u, n, NoLoc, "user")
    BY <1>10, <2>1, IsTurn
  <2>15. DataOf(u, n, NoLoc, "user", mem')
    BY <1>6, <2>12, NoTableText DEF DataOf
  <2>16. DataInv' /\ View(p)' = Seen(u, mem', b) /\ \A r \in Procs \ {p} : View(r)' = View(r)
    BY <1>1, <1>4, <2>13, <2>14, <2>15, TurnData
  <2>17. \A k \in LowPages : k < b => m.pte[k].pa # 0
    BY <1>2, <1>5, <2>3 DEF Loaded
  <2>18. \A k \in LowPages : k < b => mem'[m.pte[k].pa] = IF k = b - 1 THEN "args" ELSE mem[m.pte[k].pa]
    BY <2>5, <2>10, <2>17
  <2>19. Seen(u, mem', b) = Image(s)
    <3>1. PICK l, c : l = loc[p] /\ c = mem'
      OBVIOUS
    <3>2. l.segs = <<>> /\ m = l.npt /\ v = Pg(l.nsz) /\ b = l.a /\ Loaded(l, mem, s)
      BY <1>1, <1>2, <1>5, <2>3, <3>1
    <3>3. \A k \in LowPages : k < b => c[m.pte[k].pa] = IF k = b - 1 THEN "args" ELSE mem[m.pte[k].pa]
      BY <2>18, <3>1
    <3>4. \A k \in VPages : u.pte[k].pa = m.pte[k].pa
      BY <2>2
    <3>5. Seen(u, c, b) = Image(s)
      BY <1>2, <1>3, <1>6, <3>2, <3>3, <3>4, LoadedImage
    <3> QED  BY <3>1, <3>5
  <2>20. A!Next
    BY <2>16, <2>19, LoadStep
  <2> QED  BY <2>16, <2>20 DEF Maps
<1>11. ASSUME /\ mem' = Junk(mem, FreePages(m, n)) /\ pt' = pt /\ sz' = sz
              /\ loc' = [loc EXCEPT ![p] = NoLoc] /\ pc' = [pc EXCEPT ![p] = "user"]
       PROVE  Maps
  <2>1. Turn(p, pt[p], sz[p], NoLoc, "user") /\ TextOf(NoLoc.npt, mem')
    BY <1>6, <1>11, NoTableText DEF Turn, IInv, TypeOK
  <2>2. \A y \in Pages : y \in free \cup PagesOf(loc[p].npt) \/ mem'[y] = mem[y]
    BY <1>5, <1>9, <1>11, JunkOutside
  <2> QED  BY <1>1, <2>1, <2>2, LoadTurn
<1>12. b * PGSIZE = n /\ loc[p].a * PGSIZE = n
  BY <1>2, <1>4
<1>13. \/ /\ pt' = [pt EXCEPT ![p] = Guarded(m, v)] /\ sz' = [sz EXCEPT ![p] = n]
          /\ mem' = [Junk(mem, FreePages(t, sz[p])) EXCEPT ![m.pte[b - 1].pa] = "args"]
          /\ loc' = [loc EXCEPT ![p] = NoLoc] /\ pc' = [pc EXCEPT ![p] = "user"]
       \/ /\ mem' = Junk(mem, FreePages(m, n)) /\ pt' = pt /\ sz' = sz
          /\ loc' = [loc EXCEPT ![p] = NoLoc] /\ pc' = [pc EXCEPT ![p] = "user"]
  BY <1>2, <1>5, <1>12 DEF ExecDone, Return, Goto, Keep
<1> QED  BY <1>10, <1>11, <1>13

\* fork() and wait() change what belongs to another process q: it has table t and size n
\* afterwards and is at d, and p has locals l and is at c.
PairTurn(p, q, t, n, d, l, c) ==
  /\ pt'[q] = t /\ sz'[q] = n /\ pc'[q] = d /\ loc'[q] = loc[q]
  /\ pt'[p] = pt[p] /\ sz'[p] = sz[p] /\ pc'[p] = c /\ loc'[p] = l
  /\ \A r \in Procs \ {p, q} : pt'[r] = pt[r] /\ sz'[r] = sz[r] /\ loc'[r] = loc[r] /\ pc'[r] = pc[r]

\* The pages of p are not among those of q.
LEMMA PagesApart ==
  ASSUME IInv, NEW p \in Procs, NEW q \in Procs, p # q
  PROVE  \A x \in PagesOf(pt[p]) : x \in Pages /\ x \notin free /\ x \notin PagesOf(pt[q]) /\ x # tf[q]
<1>1. PICK own : own = Own(tf, pt, loc) /\ Partition(own, free)
  BY DEF IInv, OwnInv
<1>2. own[<<"pt", p>>] = PagesOf(pt[p]) /\ own[<<"pt", q>>] = PagesOf(pt[q]) /\ own[<<"tf", q>>] = PageOf(tf[q])
  BY <1>1, OwnPt, OwnTf
<1>3. /\ <<"pt", p>> \in Owners /\ <<"pt", q>> \in Owners /\ <<"tf", q>> \in Owners
      /\ <<"pt", p>> # <<"pt", q>> /\ <<"pt", p>> # <<"tf", q>>
  BY IsOwner
<1>4. \A x \in PagesOf(pt[p]) : x \in Pages /\ x \notin free /\ x \notin PagesOf(pt[q]) /\ x \notin PageOf(tf[q])
  BY <1>1, <1>2, <1>3 DEF Partition
<1> QED  BY <1>4, Bounds DEF PageOf

LEMMA PairData ==
  ASSUME IInv, DataInv, NEW p \in Procs, NEW q \in Procs, p # q, pc[p] \in {"user", "copy"}, pc[q] = "none",
         \A r \in Procs \ {p} : pc[r] = "copy" => loc[r].np # q,
         NEW t, NEW n, NEW d \in {"none", "user"}, NEW l, l.npt = NoTable, NEW c \in {"user", "copy"},
         PairTurn(p, q, t, n, d, l, c), TextOf(t, mem'),
         \A x \in Pages : x \in free \cup PagesOf(pt[q]) \/ x = tf[q] \/ mem'[x] = mem[x],
         c = "copy" => l.np = q /\ SameBelow(pt[p], t, mem', l.a)
  PROVE  /\ DataInv' /\ View(q)' = Seen(t, mem', Pg(n)) /\ View(q) = Seen(pt[q], mem, Pg(sz[q]))
         /\ \A r \in Procs \ {q} : View(r)' = View(r)
<1>1. st[p] = "run" /\ loc[q].npt = NoTable
  BY DEF IInv, CtlInv
<1>2. \A r \in Procs \ {p} : pc[r] = "copy" => loc[r].np \notin {p, q}
  BY <1>1 DEF IInv, CtlInv
<1>3. Rest(p, q) /\ Outside(p, q)
  BY <1>2 DEF Rest, Outside, PairTurn
<1>4. /\ pt'[q] = t /\ sz'[q] = n /\ pc'[q] = d /\ loc'[q] = loc[q]
      /\ pt'[p] = pt[p] /\ sz'[p] = sz[p] /\ pc'[p] = c /\ loc'[p] = l
  BY DEF PairTurn
<1>5. \A x \in PagesOf(pt[p]) : mem'[x] = mem[x]
  BY PagesApart
<1>6. TextOf(pt[p], mem')
  <2>1. TextOf(pt[p], mem)
    BY DEF DataInv, DataOf
  <2> QED  BY <1>5, <2>1, KeepText
<1>7. DataOf(pt'[p], sz'[p], loc'[p], pc'[p], mem')
  BY <1>4, <1>6, NoTableText DEF DataOf
<1>8. DataOf(pt'[q], sz'[q], loc'[q], pc'[q], mem')
  BY <1>1, <1>4, NoTableText DEF DataOf
<1>9. pc'[p] = "copy" => SameBelow(pt'[p], pt'[loc'[p].np], mem', loc'[p].a)
  BY <1>4
<1>10. DataInv' /\ \A r \in Procs \ {p, q} : View(r)' = View(r)
  <2>1. pc'[q] # "copy"
    BY <1>4
  <2> QED  BY <1>3, <1>7, <1>8, <1>9, <2>1, DataSteps
<1>11. View(p)' = View(p)
  <2>1. \A v \in LowPages : Shown(pt[p], mem', v) = Shown(pt[p], mem, v)
    BY <1>5, PteInPages DEF Shown
  <2>2. Pg(sz[p]) \in Nat /\ Pg(sz[p]) <= TRAPFRAME
    BY Known
  <2>3. Seen(pt[p], mem', Pg(sz[p])) = Seen(pt[p], mem, Pg(sz[p]))
    BY <2>1, <2>2, KeepSeen
  <2>4. View(p)' = Seen(pt'[p], mem', Pg(sz'[p]))
    BY ViewSeenNext
  <2> QED  BY <1>4, <2>3, <2>4, ViewSeen
<1>12. View(q)' = Seen(pt'[q], mem', Pg(sz'[q])) /\ View(q) = Seen(pt[q], mem, Pg(sz[q]))
  BY ViewSeenNext, ViewSeen
<1> QED  BY <1>4, <1>10, <1>11, <1>12

\* The hypotheses of PairData and what it concludes, as single facts.
PairStep(p, q, t, n, d, l, c) ==
  /\ p # q /\ pc[p] \in {"user", "copy"} /\ pc[q] = "none"
  /\ \A r \in Procs \ {p} : pc[r] = "copy" => loc[r].np # q
  /\ d \in {"none", "user"} /\ l.npt = NoTable /\ c \in {"user", "copy"}
  /\ PairTurn(p, q, t, n, d, l, c) /\ TextOf(t, mem')
  /\ \A x \in Pages : x \in free \cup PagesOf(pt[q]) \/ x = tf[q] \/ mem'[x] = mem[x]
  /\ c = "copy" => l.np = q /\ SameBelow(pt[p], t, mem', l.a)

Paired(q, t, n) ==
  /\ DataInv' /\ View(q)' = Seen(t, mem', Pg(n)) /\ View(q) = Seen(pt[q], mem, Pg(sz[q]))
  /\ \A r \in Procs \ {q} : View(r)' = View(r)

LEMMA PairDone ==
  ASSUME IInv, DataInv, NEW p \in Procs, NEW q \in Procs, NEW t, NEW n, NEW d, NEW l, NEW c,
         PairStep(p, q, t, n, d, l, c)
  PROVE  Paired(q, t, n)
BY PairData, SMTT(30) DEF PairStep, Paired

LEMMA SeenNone ==
  ASSUME NEW t, NEW m
  PROVE  Seen(t, m, Pg(0)) = <<>>
<1>1. Pg(0) = 0
  BY PgWhole, VmAssumption
<1> QED  BY <1>1 DEF Seen

LEMMA ForkMaps ==
  ASSUME IInv, DataInv, NEW p \in Procs, Fork(p)
  PROVE  Maps
<1>1. PICK S : S = {q \in Procs : st[q] = "unused"}
  OBVIOUS
<1>2. PICK tp, q, r : tp = Kalloc(free) /\ q = Min(S) /\ r = ProcPagetable(free \ {tp}, tp)
  OBVIOUS
<1>3. PICK l : l = [NoLoc EXCEPT !.np = q]
  OBVIOUS
<1>4. pc[p] = "user" /\ S # {} /\ tp # 0
  BY <1>1, <1>2 DEF Fork, At
<1>5. /\ pt' = [pt EXCEPT ![q] = r.t] /\ loc' = [loc EXCEPT ![p] = l] /\ pc' = [pc EXCEPT ![p] = "copy"]
      /\ mem' = mem /\ sz' = sz
  BY <1>1, <1>2, <1>3 DEF Fork, Keep, Goto
<1>6. free \subseteq Pages /\ NoLoc \in Locals /\ NoLoc.npt = NoTable
  BY Known
<1>7. q \in Procs /\ st[q] = "unused"
  BY <1>1, <1>2, <1>4, UnusedSlot
<1>8. /\ sz[q] = 0 /\ pc[q] = "none" /\ p # q /\ \A u \in Procs : pc[u] = "copy" => loc[u].np # q
  BY <1>4, <1>7 DEF IInv, CtlInv
<1>9. tp \in 0..NPAGES /\ free \ {tp} \subseteq Pages
  BY <1>2, <1>4, <1>6, KallocFacts, Bounds
<1>10. EmptyFrom(r.t, 0)
  BY <1>2, <1>9, ProcPagetableFacts
<1>11. l.npt = NoTable /\ l.np = q /\ l.a = 0
  <2>1. NoLoc.a = 0
    BY DEF NoLoc
  <2> QED  BY <1>3, <1>6, <1>7, <2>1 DEF Locals
<1>12. PairTurn(p, q, r.t, 0, "none", l, "copy")
  BY <1>5, <1>7, <1>8 DEF PairTurn, IInv, TypeOK
<1>13. TextOf(r.t, mem') /\ SameBelow(pt[p], r.t, mem', l.a)
  <2>1. \A v \in LowPages : ~(v < 0)
    BY Bounds DEF LowPages
  <2> QED  BY <1>10, <1>11, <2>1, EmptyText DEF SameBelow
<1>14. /\ DataInv' /\ View(q)' = Seen(r.t, mem', Pg(0)) /\ View(q) = Seen(pt[q], mem, Pg(sz[q]))
       /\ \A u \in Procs \ {q} : View(u)' = View(u)
  BY <1>4, <1>5, <1>7, <1>8, <1>11, <1>12, <1>13, PairData
<1>15. View(q)' = View(q)
  BY <1>8, <1>14, SeenNone
<1>16. \A u \in Procs : View(u)' = View(u)
  BY <1>14, <1>15
<1> QED  BY <1>14, <1>16, QuietStep DEF Maps

LEMMA WaitMaps ==
  ASSUME IInv, DataInv, NEW p \in Procs, Wait(p)
  PROVE  Maps
<1>1. PICK q \in Procs : /\ pc[p] = "user" /\ st[q] = "zombie"
                         /\ mem' = Junk(mem, FreePages(pt[q], sz[q]) \cup {tf[q]})
                         /\ pt' = [pt EXCEPT ![q] = NoTable]
                         /\ sz' = [sz EXCEPT ![q] = 0] /\ pc' = pc /\ loc' = loc
  BY DEF Wait, At
<1>2. pc[q] = "none" /\ p # q /\ loc[p].npt = NoTable
      /\ \A u \in Procs : pc[u] = "copy" => loc[u].np # q
  BY <1>1 DEF IInv, CtlInv
<1>3. EmptyFrom(pt[q], Pg(sz[q]))
  BY <1>1, <1>2 DEF IInv, MapInv
<1>4. Pg(sz[q]) \in Nat /\ Pg(sz[q]) <= TRAPFRAME
  BY Known
<1>5. FreePages(pt[q], sz[q]) = PagesOf(pt[q])
  BY <1>3, <1>4, FreeFacts
<1>6. \A x \in Pages : x \in free \cup PagesOf(pt[q]) \/ x = tf[q] \/ mem'[x] = mem[x]
  BY <1>1, <1>5, JunkOutside
<1>7. PairTurn(p, q, NoTable, 0, "none", loc[p], "user")
  BY <1>1, <1>2 DEF PairTurn, IInv, TypeOK
<1>8. /\ DataInv' /\ View(q)' = Seen(NoTable, mem', Pg(0))
      /\ \A u \in Procs \ {q} : View(u)' = View(u)
  <2>1. PICK t, l, n : t = NoTable /\ l = loc[p] /\ n = 0
    OBVIOUS
  <2>2. PairTurn(p, q, t, n, "none", l, "user") /\ TextOf(t, mem') /\ l.npt = NoTable
    BY <1>2, <1>7, <2>1, NoTableText
  <2>3. PairStep(p, q, t, n, "none", l, "user")
    <3>1. \A r \in Procs \ {p} : pc[r] = "copy" => loc[r].np # q
      BY <1>2
    <3>2. "user" = "copy" => l.np = q /\ SameBelow(pt[p], t, mem', l.a)
      OBVIOUS
    <3> QED  BY <1>1, <1>2, <1>6, <2>2, <3>1, <3>2 DEF PairStep
  <2>4. Paired(q, t, n)
    BY <2>3, PairDone
  <2> QED  BY <2>1, <2>4 DEF Paired
<1>9. A!Next
  BY <1>8, SeenNone, FreeStep
<1> QED  BY <1>8, <1>9 DEF Maps

\* The pages that uvmcopy() passes over are mapped in neither table.
LEMMA PassedOver ==
  ASSUME IInv, NEW p \in Procs, pc[p] = "copy", NEW w \in LowPages, w >= loc[p].a, w < Pg(sz[p]), w \notin ToCopy(p)
  PROVE  pt[p].pte[w].pa = 0 /\ pt[loc[p].np].pte[w].pa = 0
<1>1. w \in VPages /\ w \in Nat
  BY Bounds DEF LowPages
<1>2. w * PGSIZE < sz[p]
  BY <1>1, Known, PgBelow
<1>3. EmptyFrom(pt[loc[p].np], loc[p].a)
  BY CopyFacts
<1> QED  BY <1>1, <1>2, <1>3 DEF ToCopy, EmptyFrom

LEMMA ForkPageMaps ==
  ASSUME IInv, DataInv, NEW p \in Procs, ForkPage(p)
  PROVE  Maps
<1>1. pc[p] = "copy" /\ ToCopy(p) # {} /\ sz' = sz
  BY DEF ForkPage, At
<1>2. PICK q \in Procs : q = loc[p].np
  BY <1>1, CopyFacts
<1>3. /\ pc[q] = "none" /\ q # p /\ sz[q] = 0
      /\ \A u \in Procs \ {p} : pc[u] = "copy" => loc[u].np # q
      /\ loc[p].a \in Nat /\ loc[p].npt = NoTable /\ EmptyFrom(pt[q], loc[p].a)
  BY <1>1, <1>2, CopyFacts
<1>4. /\ free \subseteq Pages /\ mem \in [Pages -> Contents] /\ NoLoc.npt = NoTable
      /\ Pg(sz[p]) \in Nat /\ Pg(sz[p]) <= TRAPFRAME /\ loc[p] \in Locals
  BY Known
<1>5. PICK v : v = Min(ToCopy(p))
  OBVIOUS
<1>6. /\ v \in LowPages /\ v \in Nat /\ v >= loc[p].a /\ v < Pg(sz[p])
      /\ pt[p].pte[v].pa \in Pages /\ pt[p].pte[v].perm \in SUBSET {"u", "w", "x"}
  BY <1>1, <1>5, ToCopyFacts
<1>7. \A w \in ToCopy(p) : v <= w
  <2>1. ToCopy(p) \subseteq Nat
    BY Bounds DEF ToCopy, VPages
  <2> QED  BY <1>1, <1>5, <2>1, LeastPage
<1>8. PICK perm \in SUBSET {"u", "w", "x"}, y \in Contents : perm = pt[p].pte[v].perm /\ y = mem[pt[p].pte[v].pa]
  BY <1>4, <1>6
<1>9. PICK t \in Table, h \in Table : t = pt[q] /\ h = pt[p]
  BY Known
<1>10. TableOK(t) /\ free \cap PagesOf(t) = {} /\ TextOf(t, mem) /\ TextOf(h, mem) /\ SameBelow(h, t, mem, loc[p].a)
  BY <1>1, <1>2, <1>9, Known DEF DataInv, DataOf
<1>11. PICK r : r = MapNew(free, mem, t, v, perm, y)
  OBVIOUS
<1>12. EmptyFrom(t, v)
  BY <1>3, <1>6, <1>9, Bounds DEF EmptyFrom, LowPages
<1>13. Longer(r, t, v)
  BY <1>6, <1>9, <1>11, <1>12, CopyMapFacts
<1>14. Added(r, free, mem, t, v, perm, y)
  <2>1. t.pte[v].pa = 0
    BY <1>6, <1>12 DEF EmptyFrom
  <2>2. Added(MapNew(free, mem, t, v, perm, y), free, mem, t, v, perm, y)
    BY <1>4, <1>6, <1>10, <2>1, MapNewFacts
  <2> QED  BY <1>11, <2>2
<1>15. Shows(r, free, mem, t, v, perm, y)
  BY <1>4, <1>6, <1>10, <1>14, AddedAlike
<1>16. \A x \in PagesOf(h) : x \in Pages /\ x \notin free
  BY <1>3, <1>9, PagesApart
<1>17. ASSUME NEW u, NEW l, NEW c \in {"user", "copy"}, PairTurn(p, q, u, 0, "none", l, c), l.npt = NoTable, TextOf(u, mem'),
              \A x \in Pages : x \in free \cup PagesOf(pt[q]) \/ x = tf[q] \/ mem'[x] = mem[x],
              c = "copy" => l.np = q /\ SameBelow(pt[p], u, mem', l.a)
       PROVE  Maps
  <2>1. PICK n : n = 0
    OBVIOUS
  <2>2. PairTurn(p, q, u, n, "none", l, c)
    BY <1>17, <2>1
  <2>3. /\ DataInv' /\ View(q)' = Seen(u, mem', Pg(n)) /\ View(q) = Seen(pt[q], mem, Pg(sz[q]))
        /\ \A k \in Procs \ {q} : View(k)' = View(k)
    <3>1. PairStep(p, q, u, n, "none", l, c)
      BY <1>1, <1>3, <1>17, <2>2 DEF PairStep
    <3>2. Paired(q, u, n)
      BY <3>1, PairDone
    <3> QED  BY <3>2 DEF Paired
  <2>4. View(q)' = View(q)
    BY <1>3, <2>1, <2>3, SeenNone
  <2>5. \A k \in Procs : View(k)' = View(k)
    BY <2>3, <2>4
  <2> QED  BY <2>3, <2>5, QuietStep DEF Maps
<1>18. CASE r.ok
  <2>1. PICK l : l = [loc[p] EXCEPT !.a = v + 1]
    OBVIOUS
  <2>2. mem' = r.m /\ pt' = [pt EXCEPT ![q] = r.t] /\ loc' = [loc EXCEPT ![p] = l] /\ pc' = pc
    BY <1>2, <1>5, <1>8, <1>9, <1>11, <1>18, <2>1 DEF ForkPage, Keep
  <2>3. l.npt = NoTable /\ l.a = v + 1 /\ l.np = q
    <3>1. PICK n \in Nat : n = v + 1
      BY <1>6
    <3>2. l = [loc[p] EXCEPT !.a = n]
      BY <2>1, <3>1
    <3>3. l.npt = loc[p].npt /\ l.a = n /\ l.np = loc[p].np
      BY <1>4, <3>2, LocalsNext
    <3> QED  BY <1>2, <1>3, <3>1, <3>3
  <2>4. PairTurn(p, q, r.t, 0, "none", l, "copy")
    BY <1>1, <1>3, <2>2 DEF PairTurn, IInv, TypeOK
  <2>5. /\ Alike(t, mem, r.t, r.m, {v}) /\ r.t.pte[v].pa # 0 /\ r.t.pte[v].perm = perm /\ r.m[r.t.pte[v].pa] = y
        /\ \A x \in Pages \ free : r.m[x] = mem[x]
    BY <1>15, <1>18 DEF Shows
  <2>6. "w" \in perm => y # "text"
    BY <1>6, <1>8, <1>9, <1>10, Bounds DEF TextOf
  <2>7. TextOf(r.t, r.m)
    BY <1>10, <2>5, <2>6, AlikeText
  <2>8. \A w \in LowPages : h.pte[w].pa # 0 => r.m[h.pte[w].pa] = mem[h.pte[w].pa]
    BY <1>16, <2>5, PteInPages
  <2>9. ASSUME NEW w \in LowPages, w < v + 1
        PROVE  /\ h.pte[w].pa = 0 <=> r.t.pte[w].pa = 0
               /\ h.pte[w].pa # 0 => r.m[h.pte[w].pa] = r.m[r.t.pte[w].pa]
    <3>1. w \in Nat
      BY Bounds DEF LowPages
    <3>2. CASE w = v
      <4>1. h.pte[v].pa # 0
        BY <1>6, <1>9, Bounds
      <4> QED  BY <1>8, <1>9, <2>5, <2>8, <3>2, <4>1
    <3>3. CASE w # v
      <4>1. w < v /\ r.t.pte[w] = t.pte[w] /\ (t.pte[w].pa # 0 => r.m[t.pte[w].pa] = mem[t.pte[w].pa])
        BY <1>6, <2>5, <2>9, <3>1, <3>3 DEF Alike
      <4>2. CASE w < loc[p].a
        BY <1>10, <2>8, <4>1, <4>2 DEF SameBelow
      <4>3. CASE w >= loc[p].a
        <5>1. w \notin ToCopy(p) /\ w < Pg(sz[p])
          BY <1>4, <1>6, <1>7, <3>1, <4>1
        <5>2. h.pte[w].pa = 0 /\ t.pte[w].pa = 0
          BY <1>1, <1>2, <1>9, <4>3, <5>1, PassedOver
        <5> QED  BY <4>1, <5>2
      <4> QED  BY <1>3, <3>1, <4>2, <4>3
    <3> QED  BY <3>2, <3>3
  <2>10. SameBelow(h, r.t, r.m, v + 1)
    BY <2>9 DEF SameBelow
  <2>11. \A x \in Pages : x \in free \cup PagesOf(pt[q]) \/ x = tf[q] \/ mem'[x] = mem[x]
    BY <2>2, <2>5
  <2>12. TextOf(r.t, mem') /\ SameBelow(pt[p], r.t, mem', l.a)
    BY <1>9, <2>2, <2>3, <2>7, <2>10
  <2> QED  BY <1>17, <2>3, <2>4, <2>11, <2>12
<1>19. CASE ~r.ok
  <2>1. PICK S \in SUBSET LowPages : S = Copied(v)
    BY <1>6, Bounds DEF LowPages, Copied
  <2>2. PICK u, gone : u = Uvmunmap(r.t, S) /\ gone = Mapped(r.t, S) \cup FreePages(u, 0) \cup {tf[q]}
    OBVIOUS
  <2>3. /\ mem' = Junk(mem, gone) /\ pt' = [pt EXCEPT ![q] = NoTable]
        /\ loc' = [loc EXCEPT ![p] = NoLoc] /\ pc' = [pc EXCEPT ![p] = "user"]
    BY <1>2, <1>5, <1>8, <1>9, <1>11, <1>19, <2>1, <2>2 DEF ForkPage, Return, Goto, Keep
  <2>4. /\ r.t \in Table /\ TableOK(r.t) /\ PagesOf(r.t) = PagesOf(t) \cup (free \ r.f) /\ EmptyFrom(r.t, v)
    BY <1>13, <1>19 DEF Longer
  <2>5. /\ PagesOf(u) = PagesOf(r.t) \ Mapped(r.t, S) /\ Mapped(r.t, S) \subseteq PagesOf(r.t)
        /\ \A w \in VPages : u.pte[w] = IF w \in S THEN NoPte ELSE r.t.pte[w]
    BY <2>2, <2>4, UnmapFacts
  <2>6. EmptyFrom(u, 0)
    BY <1>6, <2>1, <2>4, <2>5, Bounds DEF EmptyFrom, NoPte, LowPages, Copied
  <2>7. FreePages(u, 0) = PagesOf(u)
    <3>1. Pg(0) = 0 /\ 0 \in Nat
      BY PgWhole, VmAssumption
    <3> QED  BY <2>6, <3>1, Bounds, FreeFacts
  <2>8. gone \subseteq free \cup PagesOf(pt[q]) \cup {tf[q]}
    BY <1>9, <2>2, <2>4, <2>5, <2>7
  <2>9. \A x \in Pages : x \in free \cup PagesOf(pt[q]) \/ x = tf[q] \/ mem'[x] = mem[x]
    BY <2>3, <2>8, JunkOutside
  <2>10. PairTurn(p, q, NoTable, 0, "none", NoLoc, "user")
    BY <1>1, <1>3, <2>3 DEF PairTurn, IInv, TypeOK
  <2>11. TextOf(NoTable, mem')
    BY NoTableText
  <2> QED  BY <1>4, <1>17, <2>9, <2>10, <2>11
<1> QED  BY <1>18, <1>19

LEMMA ForkDoneMaps ==
  ASSUME IInv, DataInv, NEW p \in Procs, ForkDone(p)
  PROVE  Maps
<1>1. pc[p] = "copy" /\ ToCopy(p) = {}
  BY DEF ForkDone, At
<1>2. PICK q \in Procs : q = loc[p].np
  BY <1>1, CopyFacts
<1>3. /\ pc[q] = "none" /\ q # p /\ sz[q] = 0
      /\ \A u \in Procs \ {p} : pc[u] = "copy" => loc[u].np # q
      /\ loc[p].a \in Nat
  BY <1>1, <1>2, CopyFacts
<1>4. NoLoc.npt = NoTable /\ Pg(sz[p]) \in Nat /\ Pg(sz[p]) <= TRAPFRAME
  BY Known
<1>5. PICK t, n : t = pt[q] /\ n = sz[p]
  OBVIOUS
<1>6. PairTurn(p, q, t, n, "user", NoLoc, "user") /\ mem' = mem
  <2>1. /\ pt' = pt /\ sz' = [sz EXCEPT ![q] = n] /\ loc' = [loc EXCEPT ![p] = NoLoc] /\ mem' = mem
        /\ pc' = [pc EXCEPT ![p] = "user", ![q] = "user"]
    BY <1>2, <1>5 DEF ForkDone, Keep
  <2> QED  BY <1>3, <1>5, <2>1 DEF PairTurn, IInv, TypeOK
<1>7. TextOf(t, mem') /\ SameBelow(pt[p], t, mem, loc[p].a)
  BY <1>1, <1>2, <1>5, <1>6 DEF DataInv, DataOf
<1>8. /\ DataInv' /\ View(q)' = Seen(t, mem', Pg(n)) /\ View(q) = Seen(pt[q], mem, Pg(sz[q]))
      /\ \A u \in Procs \ {q} : View(u)' = View(u)
  BY <1>1, <1>3, <1>4, <1>6, <1>7, PairData
<1>9. View(q) = <<>>
  BY <1>3, <1>8, SeenNone
<1>10. \A w \in LowPages : w < Pg(n) => Shown(t, mem', w) = Shown(pt[p], mem, w)
  <2> SUFFICES ASSUME NEW w \in LowPages, w < Pg(n) PROVE Shown(t, mem, w) = Shown(pt[p], mem, w)
    BY <1>6
  <2>1. CASE w < loc[p].a
    BY <1>7, <2>1 DEF SameBelow, Shown
  <2>2. CASE w >= loc[p].a
    <3>1. pt[p].pte[w].pa = 0 /\ t.pte[w].pa = 0
      BY <1>1, <1>2, <1>5, <2>2, PassedOver
    <3> QED  BY <3>1 DEF Shown
  <2>3. w \in Nat
    BY Bounds DEF LowPages
  <2> QED  BY <1>3, <2>1, <2>2, <2>3
<1>11. Seen(t, mem', Pg(n)) = Seen(pt[p], mem, Pg(n))
  BY <1>4, <1>5, <1>10, KeepSeen
<1>12. View(q)' = View(p)
  BY <1>5, <1>8, <1>11, ViewSeen
<1>13. A!Next
  BY <1>8, <1>9, <1>12, CopyStep
<1> QED  BY <1>8, <1>13 DEF Maps

LEMMA StepMaps ==
  ASSUME IInv, DataInv, NEW p \in Procs, Step(p)
  PROVE  Maps
<1>1. Grows \subseteq Int /\ Touched \subseteq Nat
  BY VmAssumption, Bounds
<1>2. ASSUME NEW n \in Grows, Shrink(p, n) \/ GrowLazy(p, n) \/ GrowEager(p, n) PROVE Maps
  BY <1>1, <1>2, ShrinkMaps, GrowLazyMaps, GrowEagerMaps
<1>3. ASSUME NEW v \in Touched, UserStore(p, v) PROVE Maps
  BY <1>1, <1>3, UserStoreMaps
<1>4. ASSUME NEW v \in Touched, NEW w \in BOOLEAN, PageFault(p, v, w) PROVE Maps
  BY <1>1, <1>4, PageFaultMaps
<1>5. ASSUME NEW v \in Touched, NEW n \in 1..2, NEW dir \in {"copyin", "copyout"}, CopyCall(p, v, n, dir) PROVE Maps
  BY <1>5, CopyCallMaps
<1>6. ASSUME NEW dir \in {"copyin", "copyout"}, CopyPage(p, dir) PROVE Maps
  BY <1>6, CopyPageMaps
<1>7. GrowPage(p) \/ GrowDone(p) => Maps
  BY GrowPageMaps, GrowDoneMaps
<1>8. Fork(p) \/ ForkPage(p) \/ ForkDone(p) \/ UserExit(p) \/ Wait(p) => Maps
  BY ForkMaps, ForkPageMaps, ForkDoneMaps, UserExitMaps, WaitMaps
<1>9. Exec(p) \/ ExecSegment(p) \/ ExecUnreadable(p) \/ ExecStack(p) \/ ExecDone(p) => Maps
  BY ExecMaps, ExecSegmentMaps, ExecUnreadableMaps, ExecStackMaps, ExecDoneMaps
<1> QED  BY <1>2, <1>3, <1>4, <1>5, <1>6, <1>7, <1>8, <1>9 DEF Step

LEMMA StutterMaps ==
  ASSUME DataInv, UNCHANGED vars
  PROVE  Maps
<1>1. pt' = pt /\ sz' = sz /\ loc' = loc /\ pc' = pc /\ mem' = mem
  BY DEF vars
<1>2. DataInv'
  <2>1. \A p \in Procs : /\ DataOf(pt'[p], sz'[p], loc'[p], pc'[p], mem')
                         /\ pc'[p] = "copy" => SameBelow(pt'[p], pt'[loc'[p].np], mem', loc'[p].a)
    BY <1>1 DEF DataInv
  <2> QED  BY <2>1, DataNext
<1>3. \A p \in Procs : View(p)' = View(p)
  BY <1>1, ViewSeen, ViewSeenNext
<1> QED  BY <1>2, <1>3, QuietStep DEF Maps

LEMMA InitData ==
  ASSUME Init
  PROVE  DataInv /\ \A p \in Procs : View(p) = <<>>
<1>1. PICK r : r = ProcPagetable(Pages \ {1}, 1)
  OBVIOUS
<1>2. /\ pt = [p \in Procs |-> IF p = 1 THEN r.t ELSE NoTable]
      /\ sz = [p \in Procs |-> 0] /\ loc = [p \in Procs |-> NoLoc]
      /\ pc = [p \in Procs |-> IF p = 1 THEN "forkret" ELSE "none"]
      /\ st = [p \in Procs |-> IF p = 1 THEN "run" ELSE "unused"]
  BY <1>1 DEF Init
<1>3. NoLoc.npt = NoTable /\ Pg(0) = 0
  BY PgWhole, VmAssumption DEF NoLoc
<1>4. ASSUME NEW p \in Procs PROVE DataOf(pt[p], sz[p], loc[p], pc[p], mem) /\ pc[p] # "copy"
  <2>1. pc[p] \notin {"grow", "load", "copy"} /\ loc[p].npt = NoTable
    BY <1>2, <1>3
  <2>2. TextOf(pt[p], mem)
    <3>1. CASE p = 1
      <4>1. EmptyFrom(pt[p], 0)
        <5>1. EmptyFrom(pt[p], Pg(sz[p]))
          BY <1>2, <3>1, InitInv DEF IInv, MapInv
        <5> QED  BY <1>2, <1>3, <5>1
      <4> QED  BY <4>1, EmptyText
    <3>2. CASE p # 1
      BY <1>2, <3>2, NoTableText
    <3> QED  BY <3>1, <3>2
  <2> QED  BY <2>1, <2>2, NoTableText DEF DataOf
<1>5. \A p \in Procs : View(p) = <<>>
  BY <1>2, ViewSeen, SeenNone
<1> QED  BY <1>4, <1>5 DEF DataInv

\* The calls on memory are atomic for the processes, however their loops over pages
\* interleave and wherever kalloc() fails them: each process has a memory of its own, as
\* AddressSpace describes it, up to the size MaxSz, below TRAPFRAME.
THEOREM VmImplemented == Spec => PrivateMemory
<1>1. Init => DataInv /\ A!Init
  BY InitData DEF A!Init
<1>2. IInv /\ DataInv /\ [Next]_vars => DataInv' /\ [A!Next]_([p \in Procs |-> View(p)])
  <2> SUFFICES ASSUME IInv, DataInv, [Next]_vars PROVE Maps
    BY DEF Maps, Spaces
  <2>1. CASE \E p \in Procs : Step(p)
    BY <2>1, StepMaps
  <2>2. CASE UNCHANGED vars
    BY <2>2, StutterMaps
  <2> QED  BY <2>1, <2>2 DEF Next, Stop
<1> QED  BY <1>1, <1>2, VmInvariant, PTL DEF Spec, PrivateMemory, A!Spec
=============================================================================
