--------------------------------- MODULE Vm ---------------------------------
(***************************************************************************)
(* Physical and virtual memory: the page allocator (kernel/kalloc.c), page *)
(* tables and user memory (kernel/vm.c), and the calls that use them:      *)
(* sbrk, fork, exec, exit, wait, page faults and copies to user memory.    *)
(*                                                                         *)
(* Page tables have three levels of FAN entries instead of 512; addresses  *)
(* are in units, PGSIZE of them in a page, and a page holds one value.     *)
(* Every page table belongs to one process and only kmem.freelist is       *)
(* shared, so an action is one turn of the loop of uvmalloc(), uvmcopy()   *)
(* or copyout(), with the pages it allocates, or one run of frees.  Which  *)
(* free page kalloc() returns does not matter: it takes the lowest.        *)
(* Process 1 is init: it forks and waits.  sys_sbrk() does not refuse a    *)
(* lazy size beyond TRAPFRAME, where the code below it fails; the model    *)
(* ends there.                                                             *)
(***************************************************************************)
EXTENDS Integers, Sequences, FiniteSets, FiniteSetsExt

CONSTANTS NPROC,
          NPAGES,    \* pages between end and PHYSTOP
          FAN,       \* entries of a page table page
          PGSIZE,    \* units in a page
          USERSTACK,
          Segments,  \* the programs: sets of page permissions for each segment's page
          Grows,     \* arguments of sbrk()
          Touched,   \* the pages that programs access
          MaxSz,     \* bound: programs do not grow beyond this size, below TRAPFRAME
          MaxCalls   \* calls, the exits and waits not counted

ASSUME VmAssumption ==
  /\ {NPROC, NPAGES, PGSIZE, USERSTACK} \subseteq Nat \ {0}
  /\ FAN \in Nat \ {0, 1}
  /\ MaxCalls \in Nat /\ MaxSz \in 0..(FAN * FAN * FAN - 2) * PGSIZE
  /\ Grows \subseteq Int /\ Touched \subseteq 0..FAN * FAN * FAN
  /\ \A s \in Segments : /\ s \in Seq(SUBSET {"u", "w", "x"})
                         /\ Len(s) + USERSTACK + 1 <= FAN * FAN * FAN - 2
\* There is memory for two page tables and for any program, with a page table page of
\* each level for each of its pages; without it the kernel does not start.
ASSUME MemoryAssumption ==
  \A s \in Segments : NPAGES >= 11 + 3 * (Len(s) + USERSTACK + 1)

Procs == 1..NPROC
Pages == 1..NPAGES
Trampoline == NPAGES + 1   \* the kernel page with trampoline.S
MAXVA == FAN * FAN * FAN   \* in pages
VPages == 0..MAXVA - 1
TRAMPOLINE == MAXVA - 1
TRAPFRAME == MAXVA - 2

\* Table pages are known by level and by the part of the address that leads to them.
Root == <<2, 0>>
Tables == {Root} \cup {<<1, k>> : k \in 0..FAN - 1} \cup {<<0, k>> : k \in 0..FAN * FAN - 1}

NoPte == [pa |-> 0, perm |-> {}]
NoTable == [tab |-> [k \in Tables |-> 0], pte |-> [v \in VPages |-> NoPte]]

VARIABLES
  free, mem,       \* the free list and the contents of pages
  pt, tf, sz, st, par,   \* fields of struct proc
  pc, loc, calls, panic

vars == <<free, mem, pt, tf, sz, st, par, pc, loc, calls, panic>>

\* a: the next page of a loop; new: the size sbrk() asked for; np: fork()'s child;
\* npt, nsz, segs: exec()'s page table, its size and the segments left.
NoLoc == [a |-> 0, new |-> 0, np |-> 0, npt |-> NoTable, nsz |-> 0, segs |-> <<>>]

\* PGROUNDUP, as a number of pages.
Pg(n) == (n + PGSIZE - 1) \div PGSIZE

-----------------------------------------------------------------------------
\* kalloc.c.  f is the free list.

Kalloc(f) == IF f = {} THEN 0 ELSE Min(f)

-----------------------------------------------------------------------------
\* vm.c, as functions of a record with the free list, the contents and the table.

\* One level of walk(): the table page k, allocated if need be.
Level(r, k) ==
  CASE ~r.ok \/ r.t.tab[k] # 0 -> r
    [] r.ok /\ r.t.tab[k] = 0 /\ Kalloc(r.f) = 0 -> [r EXCEPT !.ok = FALSE]
    [] OTHER -> [r EXCEPT !.f = @ \ {Kalloc(r.f)}, !.t.tab[k] = Kalloc(r.f)]

Walk(r, v) == Level(Level(r, <<1, v \div (FAN * FAN)>>), <<0, v \div FAN>>)

\* mappages() of one page; a page table page that walk() added stays.
Mappages(r, v, pa, perm) ==
  LET w == Walk(r, v) IN
  CASE ~w.ok -> w
    [] w.ok /\ w.t.pte[v].pa # 0 -> [w EXCEPT !.panic = "mappages: remap"]
    [] OTHER -> [w EXCEPT !.t.pte[v] = [pa |-> pa, perm |-> perm]]

\* Mutant: the page is not given back when it cannot be mapped.
Unmapped_Lost(w, pa) == w
\* The page that could not be mapped is freed.
Unmapped(w, pa) == [w EXCEPT !.f = @ \cup {pa}]

\* The body of the loops of uvmalloc() and uvmcopy(), and of vmfault(): a page with
\* value x is allocated and mapped at v.
MapNew(f, m, t, v, perm, x) ==
  LET pa == Kalloc(f)
      w == Mappages([f |-> f \ {pa}, m |-> m, t |-> t, ok |-> TRUE, panic |-> "none"], v, pa, perm)
  IN
  CASE pa = 0 -> [f |-> f, m |-> m, t |-> t, ok |-> FALSE, panic |-> "none"]
    [] pa # 0 /\ ~w.ok -> Unmapped(w, pa)
    [] OTHER -> [w EXCEPT !.m[pa] = x]

\* The pages that uvmunmap(do_free) gives to kfree(), and the table it leaves.
Mapped(t, S) == {t.pte[v].pa : v \in S} \ {0}
Uvmunmap(t, S) == [t EXCEPT !.pte = [v \in VPages |-> IF v \in S THEN NoPte ELSE t.pte[v]]]

\* The page table pages that freewalk() frees.
Freewalk(t) == {t.tab[k] : k \in Tables} \ {0}

\* proc_freepagetable(t, n): the pages freed, and freewalk()'s assertion.
FreePages(t, n) == Mapped(t, 0..Pg(n) - 1) \cup Freewalk(t)
FreePanic(t, n) ==
  IF \E v \in Pg(n)..TRAPFRAME - 1 : t.pte[v].pa # 0 THEN "freewalk: leaf" ELSE "none"

\* proc_pagetable(): the trampoline and the trapframe page tp are mapped; all or
\* nothing is allocated.
ProcPagetable(f, tp) ==
  LET root == Kalloc(f)
      r == [f |-> f \ {root}, t |-> [NoTable EXCEPT !.tab[Root] = root], ok |-> TRUE, panic |-> "none"]
      a == Mappages(r, TRAMPOLINE, Trampoline, {"x"})
      b == Mappages(a, TRAPFRAME, tp, {"w"})
  IN  IF root # 0 /\ a.ok /\ b.ok
      THEN b
      ELSE [f |-> f, t |-> NoTable, ok |-> FALSE, panic |-> "none"]

\* Contents after pages are freed: kfree() fills them with junk.
Junk(m, S) == [k \in Pages |-> IF k \in S THEN "junk" ELSE m[k]]

\* vmfault() at page v; the size counts units.
Vmfault(p, v) ==
  IF v * PGSIZE >= sz[p] \/ pt[p].pte[v].pa # 0
  THEN [f |-> free, m |-> mem, t |-> pt[p], ok |-> FALSE, panic |-> "none"]
  ELSE MapNew(free, mem, pt[p], v, {"u", "w"}, "zero")

-----------------------------------------------------------------------------
\* allocproc() for init, which then runs exec("/init") in forkret().
Init ==
  LET r == ProcPagetable(Pages \ {1}, 1) IN
  /\ free = r.f
  /\ mem = [k \in Pages |-> "junk"]
  /\ pt = [p \in Procs |-> IF p = 1 THEN r.t ELSE NoTable]
  /\ tf = [p \in Procs |-> IF p = 1 THEN 1 ELSE 0]
  /\ sz = [p \in Procs |-> 0]
  /\ st = [p \in Procs |-> IF p = 1 THEN "run" ELSE "unused"]
  /\ par = [p \in Procs |-> 0]
  /\ pc = [p \in Procs |-> IF p = 1 THEN "forkret" ELSE "none"]
  /\ loc = [p \in Procs |-> NoLoc]
  /\ calls = 0 /\ panic = "none"

At(p, l) == panic = "none" /\ pc[p] = l
Goto(p, l) == pc' = [pc EXCEPT ![p] = l]
Keep(p, l) == loc' = [loc EXCEPT ![p] = l]
\* p still has program text; without it, the next instruction ends it.
Runs(p) == \E v \in VPages : {"u", "x"} \subseteq pt[p].pte[v].perm
\* p makes a call; init only forks and waits.
Counted == calls < MaxCalls /\ calls' = calls + 1
Calls(p) == At(p, "user") /\ p # 1 /\ Runs(p) /\ Counted
\* The call returns to user space.
Return(p) == Goto(p, "user") /\ Keep(p, NoLoc)

procs == <<tf, sz, st, par>>

-----------------------------------------------------------------------------
\* sbrk().

\* Mutant: the pages are rounded down.
Cut_Down(p, n) == (n \div PGSIZE)..Pg(sz[p]) - 1
\* The pages that uvmdealloc() unmaps to bring p to size n.
Cut(p, n) == Pg(n)..Pg(sz[p]) - 1

\* growproc() with n < 0.  A size below zero wraps around to a large one, and
\* uvmdealloc() leaves everything as it is.
Shrink(p, n) ==
  LET gone == Mapped(pt[p], Cut(p, sz[p] + n)) IN
  /\ Calls(p) /\ n < 0
  /\ \/ /\ sz[p] + n >= 0
        /\ free' = free \cup gone
        /\ mem' = Junk(mem, gone)
        /\ pt' = [pt EXCEPT ![p] = Uvmunmap(@, Cut(p, sz[p] + n))]
        /\ sz' = [sz EXCEPT ![p] = @ + n]
     \/ sz[p] + n < 0 /\ UNCHANGED <<free, mem, pt, sz>>
  /\ UNCHANGED <<tf, st, par, pc, loc, panic>>

\* A lazy call only changes the size.  MaxSz bounds the model, not the code.
GrowLazy(p, n) ==
  /\ Calls(p) /\ n >= 0 /\ sz[p] + n <= MaxSz
  /\ sz' = [sz EXCEPT ![p] = @ + n]
  /\ UNCHANGED <<free, mem, pt, tf, st, par, pc, loc, panic>>

\* An eager one calls growproc() and uvmalloc().
GrowEager(p, n) ==
  /\ Calls(p) /\ n > 0 /\ sz[p] + n <= MaxSz
  /\ Keep(p, [NoLoc EXCEPT !.a = Pg(sz[p]), !.new = sz[p] + n])
  /\ Goto(p, "grow")
  /\ UNCHANGED <<free, mem, pt, procs, panic>>

\* One turn of uvmalloc(), or its unwinding.
GrowPage(p) ==
  LET l == loc[p]
      r == MapNew(free, mem, pt[p], l.a, {"u", "w"}, "zero")
      back == Mapped(r.t, Pg(sz[p])..l.a - 1)
  IN
  /\ At(p, "grow") /\ l.a * PGSIZE < l.new
  /\ panic' = r.panic
  /\ \/ /\ r.ok
        /\ free' = r.f /\ mem' = r.m
        /\ pt' = [pt EXCEPT ![p] = r.t]
        /\ Keep(p, [l EXCEPT !.a = @ + 1]) /\ UNCHANGED pc
     \/ /\ ~r.ok
        /\ free' = r.f \cup back /\ mem' = Junk(mem, back)
        /\ pt' = [pt EXCEPT ![p] = Uvmunmap(r.t, Pg(sz[p])..l.a - 1)]
        /\ Return(p)
  /\ UNCHANGED <<procs, calls>>

GrowDone(p) ==
  /\ At(p, "grow") /\ loc[p].a * PGSIZE >= loc[p].new
  /\ sz' = [sz EXCEPT ![p] = loc[p].new]
  /\ Return(p)
  /\ UNCHANGED <<free, mem, pt, tf, st, par, calls, panic>>

-----------------------------------------------------------------------------
\* User memory: the program's own loads and stores, and copyout() and copyin().

\* Rights of a load or a store in user mode.
Allowed(p, v, write) ==
  v < MAXVA /\ "u" \in pt[p].pte[v].perm /\ (write => "w" \in pt[p].pte[v].perm)

\* What the process or the kernel stores for it.
Value(p) == IF p = 2 THEN "w2" ELSE "w3"

UserStore(p, v) ==
  /\ Calls(p) /\ Allowed(p, v, TRUE)
  /\ mem' = [mem EXCEPT ![pt[p].pte[v].pa] = Value(p)]
  /\ UNCHANGED <<free, pt, procs, pc, loc, panic>>

\* kexit(): children go to init, memory stays until wait().
Exit(p) ==
  /\ st' = [st EXCEPT ![p] = "zombie"]
  /\ par' = [q \in Procs |-> IF par[q] = p THEN 1 ELSE par[q]]
  /\ Goto(p, "none") /\ Keep(p, NoLoc)

\* usertrap() for a load or a store that is not allowed: vmfault(), or the end.
PageFault(p, v, write) ==
  LET r == Vmfault(p, v) IN
  /\ Calls(p) /\ ~Allowed(p, v, write)
  /\ panic' = r.panic
  /\ free' = r.f /\ mem' = r.m /\ pt' = [pt EXCEPT ![p] = r.t]
  /\ \/ r.ok /\ UNCHANGED <<st, par, pc, loc>>
     \/ ~r.ok /\ Exit(p)
  /\ UNCHANGED <<tf, sz>>

\* read() and write() reach copyout() and copyin() with n pages from v.
CopyCall(p, v, n, dir) ==
  /\ Calls(p)
  /\ Keep(p, [NoLoc EXCEPT !.a = v, !.new = v + n]) /\ Goto(p, dir)
  /\ UNCHANGED <<free, mem, pt, procs, panic>>

\* copyout() does not write pages that the user may not write.
Writable(t, v) == "w" \in t.pte[v].perm

\* One page: walkaddr(), vmfault() if that fails, and the copy.
CopyPage(p, dir) ==
  LET v == loc[p].a
      there == Allowed(p, v, FALSE)
      r == IF there THEN [f |-> free, m |-> mem, t |-> pt[p], ok |-> TRUE, panic |-> "none"]
                    ELSE Vmfault(p, v)
      done == r.ok /\ (dir = "copyout" => Writable(r.t, v))
  IN
  /\ At(p, dir)
  /\ panic' = r.panic
  /\ free' = r.f
  /\ pt' = [pt EXCEPT ![p] = r.t]
  /\ mem' = IF done /\ dir = "copyout" THEN [r.m EXCEPT ![r.t.pte[v].pa] = Value(p)] ELSE r.m
  /\ IF done /\ v + 1 < loc[p].new
     THEN Keep(p, [loc[p] EXCEPT !.a = v + 1]) /\ UNCHANGED pc
     ELSE Return(p)
  /\ UNCHANGED <<procs, calls>>

-----------------------------------------------------------------------------
\* fork(), exit() and wait().

\* allocproc() takes a slot, a trapframe and a page table, or nothing.
Fork(p) ==
  LET slots == {q \in Procs : st[q] = "unused"}
      q == Min(slots)
      tp == Kalloc(free)
      r == ProcPagetable(free \ {tp}, tp)
  IN
  /\ At(p, "user") /\ Runs(p) /\ Counted
  /\ slots # {} /\ tp # 0 /\ r.ok
  /\ free' = r.f
  /\ pt' = [pt EXCEPT ![q] = r.t]
  /\ tf' = [tf EXCEPT ![q] = tp]
  /\ st' = [st EXCEPT ![q] = "used"]
  /\ Keep(p, [NoLoc EXCEPT !.np = q]) /\ Goto(p, "copy")
  /\ UNCHANGED <<mem, sz, par, panic>>

\* The pages of p that uvmcopy() has still to copy.
ToCopy(p) == {v \in VPages : v >= loc[p].a /\ v * PGSIZE < sz[p] /\ pt[p].pte[v].pa # 0}

\* Mutant: one page too few is freed when uvmcopy() fails.
Copied_Less(v) == 0..v - 2
\* The pages that uvmcopy() frees when it fails at page v.
Copied(v) == 0..v - 1

\* One turn of uvmcopy(), or its unwinding with freeproc(np).
ForkPage(p) ==
  LET q == loc[p].np
      v == Min(ToCopy(p))
      e == pt[p].pte[v]
      r == MapNew(free, mem, pt[q], v, e.perm, mem[e.pa])
      t == Uvmunmap(r.t, Copied(v))
      gone == Mapped(r.t, Copied(v)) \cup FreePages(t, 0) \cup {tf[q]}
  IN
  /\ At(p, "copy") /\ ToCopy(p) # {}
  /\ \/ /\ r.ok
        /\ panic' = r.panic
        /\ free' = r.f /\ mem' = r.m /\ pt' = [pt EXCEPT ![q] = r.t]
        /\ Keep(p, [loc[p] EXCEPT !.a = v + 1])
        /\ UNCHANGED <<pc, tf, st>>
     \/ /\ ~r.ok
        /\ panic' = FreePanic(t, 0)
        /\ free' = r.f \cup gone /\ mem' = Junk(mem, gone)
        /\ pt' = [pt EXCEPT ![q] = NoTable]
        /\ tf' = [tf EXCEPT ![q] = 0]
        /\ st' = [st EXCEPT ![q] = "unused"]
        /\ Return(p)
  /\ UNCHANGED <<sz, par, calls>>

ForkDone(p) ==
  LET q == loc[p].np IN
  /\ At(p, "copy") /\ ToCopy(p) = {}
  /\ sz' = [sz EXCEPT ![q] = sz[p]]
  /\ par' = [par EXCEPT ![q] = p]
  /\ st' = [st EXCEPT ![q] = "run"]
  /\ pc' = [pc EXCEPT ![p] = "user", ![q] = "user"]
  /\ Keep(p, NoLoc)
  /\ UNCHANGED <<free, mem, pt, tf, calls, panic>>

UserExit(p) ==
  /\ At(p, "user") /\ p # 1
  /\ Exit(p)
  /\ UNCHANGED <<free, mem, pt, tf, sz, calls, panic>>

\* kwait() frees a zombie with freeproc().
Wait(p) ==
  \E q \in Procs :
    LET gone == FreePages(pt[q], sz[q]) \cup {tf[q]} IN
    /\ At(p, "user") /\ par[q] = p /\ st[q] = "zombie"
    /\ panic' = FreePanic(pt[q], sz[q])
    /\ free' = free \cup gone /\ mem' = Junk(mem, gone)
    /\ pt' = [pt EXCEPT ![q] = NoTable]
    /\ tf' = [tf EXCEPT ![q] = 0]
    /\ sz' = [sz EXCEPT ![q] = 0]
    /\ st' = [st EXCEPT ![q] = "unused"]
    /\ par' = [par EXCEPT ![q] = 0]
    /\ UNCHANGED <<pc, loc, calls>>

-----------------------------------------------------------------------------
\* exec().

\* A new page table; nothing happens if there is no memory for it.
Exec(p) ==
  LET r == ProcPagetable(free, tf[p]) IN
  /\ \/ Calls(p)
     \/ At(p, "forkret") /\ UNCHANGED calls
  /\ r.ok
  /\ free' = r.f
  /\ \E s \in Segments : Keep(p, [NoLoc EXCEPT !.npt = r.t, !.segs = s])
  /\ Goto(p, "load")
  /\ UNCHANGED <<mem, pt, procs, panic>>

\* goto bad (for init that is the end): exec()'s own table, with the pages mapped at or above its size from a.
ExecBad(p, r, a) ==
  LET l == loc[p]
      back == Mapped(r.t, Pg(l.nsz)..a - 1)
      t == Uvmunmap(r.t, Pg(l.nsz)..a - 1)
      gone == back \cup FreePages(t, l.nsz)
  IN
  /\ panic' = IF p = 1 THEN "exec" ELSE FreePanic(t, l.nsz)
  /\ free' = r.f \cup gone /\ mem' = Junk(mem, gone)
  /\ Return(p)
  /\ UNCHANGED pt

\* The next segment: uvmalloc() and loadseg().
ExecSegment(p) ==
  LET l == loc[p]
      v == Pg(l.nsz)
      perm == Head(l.segs)
      r == MapNew(free, mem, l.npt, v, perm, IF "w" \in perm THEN "data" ELSE "text")
  IN
  /\ At(p, "load") /\ l.segs # <<>>
  /\ \/ /\ r.ok
        /\ panic' = r.panic /\ free' = r.f /\ mem' = r.m
        /\ Keep(p, [l EXCEPT !.npt = r.t, !.segs = Tail(@), !.nsz = (v + 1) * PGSIZE, !.a = v + 1])
        /\ UNCHANGED <<pc, pt>>
     \/ ~r.ok /\ ExecBad(p, r, v)
  /\ UNCHANGED <<procs, calls>>

\* The file ends too early, is no program, or cannot be read.
ExecUnreadable(p) ==
  LET l == loc[p] IN
  /\ At(p, "load") /\ l.segs # <<>> /\ p # 1
  /\ ExecBad(p, [f |-> free, t |-> l.npt], Pg(l.nsz))
  /\ UNCHANGED <<procs, calls>>

\* A page of the stack or of its guard; the size is not yet changed.
ExecStack(p) ==
  LET l == loc[p]
      r == MapNew(free, mem, l.npt, l.a, {"u", "w"}, "zero")
  IN
  /\ At(p, "load") /\ l.segs = <<>> /\ l.a < Pg(l.nsz) + USERSTACK + 1
  /\ \/ /\ r.ok
        /\ panic' = r.panic /\ free' = r.f /\ mem' = r.m
        /\ Keep(p, [l EXCEPT !.npt = r.t, !.a = @ + 1])
        /\ UNCHANGED <<pc, pt>>
     \/ ~r.ok /\ ExecBad(p, r, l.a)
  /\ UNCHANGED <<procs, calls>>

\* uvmclear(): the page below the stack.
Guarded(t, v) == [t EXCEPT !.pte[v].perm = @ \ {"u"}]

\* The arguments are on the stack (they may not fit), and the new table replaces the
\* old one.
ExecDone(p) ==
  LET l == loc[p]
      v == Pg(l.nsz)
      gone == FreePages(pt[p], sz[p])
  IN
  /\ At(p, "load") /\ l.segs = <<>> /\ l.a = v + USERSTACK + 1
  /\ \/ /\ panic' = FreePanic(pt[p], sz[p])
        /\ pt' = [pt EXCEPT ![p] = Guarded(l.npt, v)]
        /\ sz' = [sz EXCEPT ![p] = l.a * PGSIZE]
        /\ free' = free \cup gone
        /\ mem' = [Junk(mem, gone) EXCEPT ![l.npt.pte[l.a - 1].pa] = "args"]
        /\ Return(p)
     \/ /\ p # 1
        /\ LET all == FreePages(l.npt, l.a * PGSIZE)
           IN  free' = free \cup all /\ mem' = Junk(mem, all)
        /\ panic' = FreePanic(l.npt, l.a * PGSIZE)
        /\ Return(p)
        /\ UNCHANGED <<pt, sz>>
  /\ UNCHANGED <<tf, st, par, calls>>

-----------------------------------------------------------------------------
Step(p) ==
  \/ \E n \in Grows : Shrink(p, n) \/ GrowLazy(p, n) \/ GrowEager(p, n)
  \/ GrowPage(p) \/ GrowDone(p)
  \/ \E v \in Touched : \/ UserStore(p, v)
                         \/ \E w \in BOOLEAN : PageFault(p, v, w)
                         \/ \E n \in 1..2, dir \in {"copyin", "copyout"} : CopyCall(p, v, n, dir)
  \/ \E dir \in {"copyin", "copyout"} : CopyPage(p, dir)
  \/ Fork(p) \/ ForkPage(p) \/ ForkDone(p) \/ UserExit(p) \/ Wait(p)
  \/ Exec(p) \/ ExecSegment(p) \/ ExecUnreadable(p) \/ ExecStack(p) \/ ExecDone(p)

\* Nothing more to do: the calls are used up, or the kernel has stopped.
Stop == (panic # "none" \/ ~\E p \in Procs : pc[p] \notin {"user", "none"}) /\ UNCHANGED vars

Next == (\E p \in Procs : Step(p)) \/ Stop

Spec == Init /\ [][Next]_vars

-----------------------------------------------------------------------------
\* Properties.

\* The places of page table t that refer to a page, as <<what, level, index, page>>.
Refers(t) ==
  {<<"table", k[1], k[2], t.tab[k]>> : k \in Tables}
    \cup {<<"memory", 0, v, t.pte[v].pa>> : v \in 0..TRAPFRAME - 1}
\* All the places that hold a page: trapframes and page tables, exec()'s new one
\* included.
Held ==
  {h \in UNION {{<<p, "tf", 0, 0, tf[p]>>}
                  \cup {<<p>> \o r : r \in Refers(pt[p])}
                  \cup {<<-p>> \o r : r \in Refers(loc[p].npt)} : p \in Procs} : h[5] # 0}

\* A page is free or is held in exactly one place: no call that runs out of memory
\* half way, nor any interleaving of them, leaks a page, frees it twice or maps it
\* twice.
PagesAccounted ==
  panic = "none" =>
    /\ {h[5] : h \in Held} = Pages \ free
    /\ Cardinality(Held) = Cardinality(Pages \ free)

\* The assertions of vm.c hold: mappages() meets no page that is mapped, and freewalk()
\* no leaf, after any failure half way through fork(), exec() or sbrk(), as long as the
\* sizes stay within MaxSz.
NoPanic == panic = "none"

\* What p sees below its size.
View(p) ==
  [k \in 1..Pg(sz[p]) |->
     IF pt[p].pte[k - 1].pa # 0 THEN mem[pt[p].pte[k - 1].pa] ELSE "zero"]

\* What a program starts with: its segments, the guard page and the stack.
Image(s) ==
  [k \in 1..Len(s) |-> IF "w" \in s[k] THEN "data" ELSE "text"]
    \o [k \in 1..USERSTACK |-> "zero"] \o <<"args">>

A == INSTANCE AddressSpace WITH
       Values <- {"w2", "w3"}, Images <- {Image(s) : s \in Segments}, MaxGrow <- Pg(MaxSz),
       space <- [p \in Procs |-> View(p)]

\* Memory calls are atomic for the processes: sbrk(), fork() and exec() happen as a
\* whole or not at all, memory starts as zeros whenever it is really allocated, and
\* nobody's stores reach another process or the program text.
PrivateMemory == A!Spec
=============================================================================
