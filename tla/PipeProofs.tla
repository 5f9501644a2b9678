----------------------------- MODULE PipeProofs -----------------------------
(***************************************************************************)
(* Proofs about the pipe (Pipe), for every set of readers and writers,     *)
(* every size of the ring and every width of the counters that the size    *)
(* divides.                                                                *)
(***************************************************************************)
EXTENDS Pipe, SequenceTheorems, TLAPS

(* The invariant.                                                          *)

\* pi->lock is held by the process inside.
LockInv == \A p \in Procs : pc[p] \in {"loop", "copy", "sleep"} <=> lock = p

\* An end is closed by its last process, after which nobody uses it.
EndInv(end, open) ==
  /\ ~open => \A p \in end : ~fd[p] /\ pc[p] = "idle"
  /\ \A p \in end : pc[p] = "close" => \A q \in end : ~fd[q] /\ (q # p => pc[q] = "idle")
  /\ \A p \in end : ~fd[p] => pc[p] \in {"idle", "close"}

FreeInv == freed <=> ~readopen /\ ~writeopen

\* The number of bytes in the pipe.
Count == (nwrite - nread) % UINT
RingInv == Count <= PIPESIZE

\* What a reader has seen when it calls sleep().
SleepInv == \A p \in Readers : pc[p] = "sleep" => Empty /\ writeopen

\* A call starts with i = 0.
CallInv == \A p \in Procs : pc[p] \in {"idle", "close"} => i[p] = 0

IInv == /\ TypeOK /\ CallInv /\ LockInv /\ EndInv(Readers, readopen) /\ EndInv(Writers, writeopen)
        /\ FreeInv /\ RingInv /\ SleepInv /\ ReaderMissesOnlyKilled

-----------------------------------------------------------------------------
(* Arithmetic of wrapping counters.                                        *)

\* What % gives near 0.
LEMMA ModNear ==
  ASSUME NEW m \in Nat \ {0}, NEW a \in Int
  PROVE  /\ a % m \in 0..m - 1
         /\ 0 <= a /\ a < m => a % m = a
         /\ m <= a /\ a < 2 * m => a % m = a - m
         /\ -m <= a /\ a < 0 => a % m = a + m
<1>1. a % m \in 0..m - 1
  OBVIOUS
<1>2. ASSUME 0 <= a, a < m PROVE a % m = a
  BY <1>2
<1>3. ASSUME m <= a, a < 2 * m PROVE a % m = a - m
  BY <1>3
<1>4. ASSUME -m <= a, a < 0 PROVE a % m = a + m
  BY <1>4
<1> QED  BY <1>1, <1>2, <1>3, <1>4

\* Division with remainder.
LEMMA DivMod ==
  ASSUME NEW m \in Nat \ {0}, NEW a \in Int
  PROVE  /\ \E q \in Int : a = m * q + (a % m)
         /\ \A q \in Int, r \in 0..m - 1 : a = m * q + r => r = a % m
<1>1. a \div m \in Int /\ a = m * (a \div m) + (a % m) /\ a % m \in 0..m - 1
  OBVIOUS
<1>2. ASSUME NEW q \in Int, NEW r \in 0..m - 1, a = m * q + r PROVE r = a % m
  <2>1. PICK k \in Int : a = m * k + (a % m)
    BY <1>1
  <2>2. m * (k - q) = r - (a % m)
    <3>1. PICK x \in Int : x = a % m
      BY <1>1
    <3>2. m * k + x = m * q + r
      BY <1>2, <2>1, <3>1
    <3>3. m * (k - q) = r - x
      BY <3>2
    <3> QED  BY <3>1, <3>3
  <2>3. k = q
    <3>1. CASE k >= q + 1
      <4>1. m * (k - q) >= m
        BY <3>1
      <4> QED  BY <1>1, <2>2, <4>1
    <3>2. CASE k <= q - 1
      <4>1. m * (k - q) <= -m
        BY <3>2
      <4> QED  BY <1>1, <2>2, <4>1
    <3> QED  BY <3>1, <3>2
  <2> QED  BY <1>1, <1>2, <2>1, <2>3
<1> QED  BY <1>1, <1>2

\* Numbers less than m apart have different places in a ring of m.
LEMMA ModDiffers ==
  ASSUME NEW m \in Nat \ {0}, NEW a \in Int, NEW b \in Int, a < b, b < a + m
  PROVE  a % m # b % m
<1> SUFFICES ASSUME a % m = b % m PROVE FALSE
  OBVIOUS
<1>1. PICK q \in Int : a = m * q + (a % m)
  BY DivMod
<1>2. PICK k \in Int : b = m * k + (b % m)
  BY DivMod
<1>3. a % m \in Int
  BY ModNear
<1>4. b - a = m * (k - q)
  BY <1>1, <1>2, <1>3
<1>5. CASE k >= q + 1
  <2>1. m * (k - q) >= m
    BY <1>5
  <2> QED  BY <1>4, <2>1
<1>6. CASE k <= q
  <2>1. m * (k - q) <= 0
    BY <1>6
  <2> QED  BY <1>4, <2>1
<1> QED  BY <1>5, <1>6

\* The wrap of a counter leaves its place in the ring.
LEMMA ModWraps ==
  ASSUME NEW m \in Nat \ {0}, NEW u \in Nat, u % m = 0, NEW a \in Int
  PROVE  (a + u) % m = a % m /\ (a - u) % m = a % m
<1>1. PICK k \in Int : u = m * k
  <2>1. PICK k \in Int : u = m * k + (u % m)
    <3>1. u \in Int
      OBVIOUS
    <3> QED  BY ONLY m \in Nat \ {0}, <3>1, DivMod
  <2>2. u = m * k + 0
    BY <2>1
  <2> QED  BY <2>2
<1>2. PICK q \in Int : a = m * q + (a % m)
  BY DivMod
<1>3. a % m \in 0..m - 1
  BY ModNear
<1>4. a + u = m * (q + k) + (a % m) /\ a - u = m * (q - k) + (a % m)
  BY <1>1, <1>2, <1>3
<1>5. a + u \in Int /\ a - u \in Int /\ q + k \in Int /\ q - k \in Int
  OBVIOUS
<1>6. a % m = (a + u) % m
  BY ONLY m \in Nat \ {0}, <1>3, <1>4, <1>5, DivMod
<1>7. a % m = (a - u) % m
  BY ONLY m \in Nat \ {0}, <1>3, <1>4, <1>5, DivMod
<1> QED  BY <1>6, <1>7

\* The difference and the sum of wrapping counters.
LEMMA ModOfTwo ==
  ASSUME NEW m \in Nat \ {0}, NEW a \in 0..m - 1, NEW b \in 0..m - 1
  PROVE  /\ (a - b) % m = IF a >= b THEN a - b ELSE a - b + m
         /\ (a + b) % m = IF a + b < m THEN a + b ELSE a + b - m
<1>1. PICK d \in Int : d = a - b
  OBVIOUS
<1>2. d % m = IF d >= 0 THEN d ELSE d + m
  <2>1. -m <= d /\ d < m
    BY <1>1
  <2>2. CASE d >= 0
    BY ONLY m \in Nat \ {0}, d \in Int, <2>1, <2>2, ModNear
  <2>3. CASE d < 0
    BY ONLY m \in Nat \ {0}, d \in Int, <2>1, <2>3, ModNear
  <2> QED  BY <2>2, <2>3
<1>3. PICK e \in Int : e = a + b
  OBVIOUS
<1>4. e % m = IF e < m THEN e ELSE e - m
  <2>1. 0 <= e /\ e < 2 * m
    BY <1>3
  <2>2. CASE e < m
    BY ONLY m \in Nat \ {0}, e \in Int, <2>1, <2>2, ModNear
  <2>3. CASE e >= m
    BY ONLY m \in Nat \ {0}, e \in Int, <2>1, <2>3, ModNear
  <2> QED  BY <2>2, <2>3
<1> QED  BY <1>1, <1>2, <1>3, <1>4

\* The counters wrap at UINT, a multiple of the size of the ring.
LEMMA Counters ==
  ASSUME NEW r \in 0..UINT - 1, NEW w \in 0..UINT - 1
  PROVE  /\ (w - r) % UINT \in 0..UINT - 1
         /\ w = r <=> (w - r) % UINT = 0
         /\ Inc(r) \in 0..UINT - 1 /\ Inc(w) \in 0..UINT - 1
         /\ (w - r) % UINT < UINT - 1 => (Inc(w) - r) % UINT = ((w - r) % UINT) + 1
         /\ w # r => (w - Inc(r)) % UINT = ((w - r) % UINT) - 1
         /\ w = (r + PIPESIZE) % UINT <=> (w - r) % UINT = PIPESIZE
<1>1. UINT \in Nat \ {0} /\ PIPESIZE \in 1..UINT - 1 /\ 1 \in 0..UINT - 1
  BY PipeAssumption
<1>2. (w - r) % UINT = IF w >= r THEN w - r ELSE w - r + UINT
  BY <1>1, ModOfTwo
<1>3. ASSUME NEW k \in 0..UINT - 1 PROVE Inc(k) = IF k = UINT - 1 THEN 0 ELSE k + 1
  BY <1>1, ModOfTwo DEF Inc
<1>4. (r + PIPESIZE) % UINT = IF r + PIPESIZE < UINT THEN r + PIPESIZE ELSE r + PIPESIZE - UINT
  BY <1>1, ModOfTwo
<1>5. Inc(r) \in 0..UINT - 1 /\ Inc(w) \in 0..UINT - 1
  BY <1>1, <1>3
<1>6. (Inc(w) - r) % UINT = IF Inc(w) >= r THEN Inc(w) - r ELSE Inc(w) - r + UINT
  BY <1>1, <1>5, ModOfTwo
<1>7. (w - Inc(r)) % UINT = IF w >= Inc(r) THEN w - Inc(r) ELSE w - Inc(r) + UINT
  BY <1>1, <1>5, ModOfTwo
<1>8. Inc(r) = (IF r = UINT - 1 THEN 0 ELSE r + 1) /\ Inc(w) = IF w = UINT - 1 THEN 0 ELSE w + 1
  BY <1>3
<1>9. (w - r) % UINT < UINT - 1 => (Inc(w) - r) % UINT = ((w - r) % UINT) + 1
  BY <1>1, <1>2, <1>6, <1>8
<1>10. w # r => (w - Inc(r)) % UINT = ((w - r) % UINT) - 1
  BY <1>1, <1>2, <1>7, <1>8
<1>11. w = (r + PIPESIZE) % UINT <=> (w - r) % UINT = PIPESIZE
  BY <1>1, <1>2, <1>4
<1> QED  BY <1>1, <1>2, <1>5, <1>9, <1>10, <1>11

\* The places in the ring of the next byte to write, and of the bytes to read.
LEMMA Places ==
  ASSUME NEW r \in 0..UINT - 1, NEW w \in 0..UINT - 1
  PROVE  /\ w % PIPESIZE = (r + ((w - r) % UINT)) % PIPESIZE
         /\ \A k \in Int : (Inc(r) + k) % PIPESIZE = (r + 1 + k) % PIPESIZE
         /\ \A k \in Int : k % PIPESIZE \in 0..PIPESIZE - 1
<1>1. UINT \in Nat \ {0} /\ PIPESIZE \in Nat \ {0} /\ UINT % PIPESIZE = 0 /\ 1 \in 0..UINT - 1
  BY PipeAssumption
<1>2. (w - r) % UINT = IF w >= r THEN w - r ELSE w - r + UINT
  BY <1>1, ModOfTwo
<1>3. w % PIPESIZE = (w + UINT) % PIPESIZE
  <2>1. UINT \in Nat /\ w \in Int
    BY <1>1
  <2> QED  BY ONLY <1>1, <2>1, ModWraps
<1>4. w % PIPESIZE = (r + ((w - r) % UINT)) % PIPESIZE
  <2>1. r + ((w - r) % UINT) \in {w, w + UINT}
    BY <1>1, <1>2
  <2> QED  BY <1>3, <2>1
<1>5. ASSUME NEW k \in Int PROVE (Inc(r) + k) % PIPESIZE = (r + 1 + k) % PIPESIZE
  <2>1. Inc(r) = IF r = UINT - 1 THEN 0 ELSE r + 1
    BY <1>1, ModOfTwo DEF Inc
  <2>2. (k + UINT) % PIPESIZE = k % PIPESIZE
    BY <1>1, ModWraps
  <2>3. CASE r = UINT - 1
    <3>1. Inc(r) + k = k /\ r + 1 + k = k + UINT
      BY <1>1, <2>1, <2>3
    <3> QED  BY <2>2, <3>1
  <2>4. CASE r # UINT - 1
    <3>1. Inc(r) + k = r + 1 + k
      BY <1>1, <2>1, <2>4
    <3> QED  BY <3>1
  <2> QED  BY <2>3, <2>4
<1>6. \A k \in Int : k % PIPESIZE \in 0..PIPESIZE - 1
  BY <1>1, ModNear
<1> QED  BY <1>4, <1>5, <1>6

-----------------------------------------------------------------------------
(* The steps.                                                              *)

\* All processes but p go on or are woken up.
Others(p) ==
  \A q \in Procs \ {p} : pc'[q] = pc[q] \/ (pc[q] = "asleep" /\ pc'[q] = "acquire")

\* What TypeOK says besides the types of data and counters.
ProcTypes ==
  /\ lock \in Procs \cup {NoProc}
  /\ pc \in [Procs -> Labels]
  /\ n \in [Procs -> 0..MaxN]
  /\ i \in [Procs -> 0..MaxN] /\ \A p \in Procs : i[p] <= n[p]
  /\ killed \in [Procs -> BOOLEAN]
  /\ fd \in [Procs -> BOOLEAN]
RingTypes ==
  /\ data \in [0..PIPESIZE - 1 -> Bytes]
  /\ nread \in 0..UINT - 1 /\ nwrite \in 0..UINT - 1
EndTypes == readopen \in BOOLEAN /\ writeopen \in BOOLEAN /\ freed \in BOOLEAN

\* wakeup(&pi->nread) and wakeup(&pi->nwrite) leave nobody of that end asleep.
LEMMA WokenUp ==
  ASSUME NEW f \in [Procs -> Labels], NEW end, end \subseteq Procs
  PROVE  /\ WakeEnd(f, end) \in [Procs -> Labels]
         /\ \A q \in Procs : \/ WakeEnd(f, end)[q] = f[q]
                             \/ f[q] = "asleep" /\ WakeEnd(f, end)[q] = "acquire"
         /\ \A q \in end : WakeEnd(f, end)[q] # "asleep"
<1> DEFINE W(q) == IF q \in end /\ f[q] = "asleep" THEN "acquire" ELSE f[q]
<1>1. WakeEnd(f, end) = [q \in Procs |-> W(q)]
  BY DEF WakeEnd
<1>2. \A q \in Procs : W(q) \in Labels /\ (W(q) = f[q] \/ (f[q] = "asleep" /\ W(q) = "acquire"))
  BY DEF Labels
<1>3. \A q \in end : W(q) # "asleep"
  OBVIOUS
<1> HIDE DEF W
<1> QED  BY <1>1, <1>2, <1>3

\* The parts of TypeOK.
LEMMA TypeParts == TypeOK <=> ProcTypes /\ RingTypes /\ EndTypes
  BY DEF TypeOK, ProcTypes, RingTypes, EndTypes

\* Only a process inside holds the lock, also after a step of p.
LEMMA LockKept ==
  ASSUME LockInv, NEW p \in Procs, Others(p),
         \/ /\ lock \in {p, NoProc} /\ lock' = p /\ pc'[p] \in {"loop", "copy", "sleep"}
         \/ /\ lock \in {p, NoProc} /\ lock' = NoProc /\ pc'[p] \notin {"loop", "copy", "sleep"}
         \/ /\ lock' = lock
            /\ pc'[p] \in {"loop", "copy", "sleep"} <=> pc[p] \in {"loop", "copy", "sleep"}
  PROVE  LockInv'
<1> SUFFICES ASSUME NEW q \in Procs PROVE pc'[q] \in {"loop", "copy", "sleep"} <=> lock' = q
  BY DEF LockInv
<1>1. q # NoProc /\ p # NoProc
  BY PipeAssumption
<1>2. pc[q] \in {"loop", "copy", "sleep"} <=> lock = q
  BY DEF LockInv
<1>3. CASE q = p
  BY <1>1, <1>2, <1>3
<1>4. CASE q # p
  BY <1>1, <1>2, <1>4 DEF Others
<1> QED  BY <1>3, <1>4

\* Who is inside, asleep or on its way in has the end open.
LEMMA InsideOpen ==
  ASSUME IInv, NEW p \in Procs, pc[p] \notin {"idle", "close"}
  PROVE  fd[p] /\ (p \in Readers => readopen) /\ (p \in Writers => writeopen)
  BY DEF IInv, EndInv, Procs

\* A step that leaves the ring and the ends alone.
LEMMA RingUntouched ==
  ASSUME IInv, NEW p \in Procs, UNCHANGED <<pipeVars, fd>>, ProcTypes', CallInv', Others(p), LockInv',
         pc'[p] = pc[p] \/ (fd[p] /\ pc'[p] # "close"),
         p \in Readers /\ pc'[p] = "sleep" => pc[p] = "sleep" \/ (Empty /\ writeopen),
         ReaderMissesOnlyKilled'
  PROVE  IInv'
<1>1. UNCHANGED <<data, nread, nwrite, readopen, writeopen, freed, fd>>
  BY DEF pipeVars
<1>2. TypeOK'
  <2>1. RingTypes' /\ EndTypes'
    BY <1>1 DEF IInv, TypeOK, RingTypes, EndTypes
  <2> QED  BY <2>1 DEF TypeOK, ProcTypes, RingTypes, EndTypes
<1>3. \A q \in Procs : pc'[q] = pc[q] \/ (fd[q] /\ pc'[q] # "close")
  BY InsideOpen DEF Others
<1>4. EndInv(Readers, readopen)' /\ EndInv(Writers, writeopen)'
  <2>1. EndInv(Readers, readopen) /\ EndInv(Writers, writeopen)
    BY DEF IInv
  <2>2. EndInv(Readers, readopen)'
    BY <1>1, <1>3, <2>1 DEF EndInv, Procs
  <2>3. EndInv(Writers, writeopen)'
    BY <1>1, <1>3, <2>1 DEF EndInv, Procs
  <2> QED  BY <2>2, <2>3
<1>5. FreeInv' /\ RingInv'
  BY <1>1 DEF IInv, FreeInv, RingInv, Count
<1>6. SleepInv'
  <2> SUFFICES ASSUME NEW q \in Readers, pc'[q] = "sleep" PROVE Empty /\ writeopen
    BY <1>1 DEF SleepInv, Empty
  <2>1. q \in Procs
    BY DEF Procs
  <2>2. pc[q] = "sleep" => Empty /\ writeopen
    BY DEF IInv, SleepInv
  <2> QED  BY <2>1, <2>2 DEF Others
<1> QED  BY <1>2, <1>4, <1>5, <1>6 DEF IInv

\* A reader stays asleep only with a reason, if the step gives the reasons back
\* that it takes.
LEMMA ReadersKept ==
  ASSUME IInv, NEW p \in Procs, Others(p),
         \A q \in Procs : killed[q] => killed'[q],
         p \in Readers /\ pc'[p] = "asleep" => Empty' /\ writeopen',
         \/ \A r \in Readers : pc'[r] # "asleep"
         \/ /\ (Empty /\ writeopen => Empty' /\ writeopen') \/ (p \in Writers /\ p \in Inside')
            /\ p \in Writers /\ p \in Inside => p \in Inside' \/ killed'[p]
  PROVE  ReaderMissesOnlyKilled'
<1> SUFFICES ASSUME NEW r \in Readers, pc'[r] = "asleep"
             PROVE  \/ (Empty /\ writeopen)'
                    \/ \E q \in Writers : q \in Inside' \/ killed'[q]
  BY DEF ReaderMissesOnlyKilled
<1>1. CASE r = p
  BY <1>1
<1>2. CASE r # p
  <2>1. r \in Procs /\ pc[r] = "asleep"
    BY <1>2 DEF Others, Procs
  <2>2. (Empty /\ writeopen) \/ \E q \in Writers : q \in Inside \/ killed[q]
    BY <2>1 DEF IInv, ReaderMissesOnlyKilled
  <2>3. CASE Empty /\ writeopen
    BY <2>3
  <2>4. CASE \E q \in Writers : q \in Inside \/ killed[q]
    <3>1. PICK q \in Writers : q \in Inside \/ killed[q]
      BY <2>4
    <3>2. q \in Procs
      BY DEF Procs
    <3>3. q # p => (q \in Inside => q \in Inside')
      BY <3>2 DEF Others, Inside
    <3> QED  BY <3>1, <3>2, <3>3
  <2> QED  BY <2>2, <2>3, <2>4
<1> QED  BY <1>1, <1>2

\* read() or write() is called; acquire().
LEMMA EnterKeeps == ASSUME IInv, NEW p \in Procs, Call(p) \/ Acquire(p) PROVE IInv'
<1>1. ProcTypes
  BY TypeParts DEF IInv
<1>2. UNCHANGED <<pipeVars, i, killed, fd>>
  BY DEF Call, Acquire
<1>3. /\ pc[p] = "idle" => fd[p] /\ lock' = lock /\ pc' = [pc EXCEPT ![p] = "acquire"]
      /\ pc[p] # "idle" => /\ pc[p] = "acquire" /\ lock = NoProc /\ lock' = p /\ n' = n
                           /\ pc' = [pc EXCEPT ![p] = "loop"]
      /\ pc[p] \in {"idle", "acquire"}
  BY DEF Call, Acquire, At, Goto
<1>4. pc' \in [Procs -> Labels] /\ Others(p) /\ pc'[p] \in {"acquire", "loop"}
  BY <1>1, <1>3 DEF ProcTypes, Others, Labels
<1>5. ProcTypes'
  <2>1. lock' \in Procs \cup {NoProc}
    BY <1>1, <1>3 DEF ProcTypes
  <2>2. n' \in [Procs -> 0..MaxN] /\ \A q \in Procs : i[q] <= n'[q]
    <3>1. CASE pc[p] # "idle"
      BY <1>1, <1>3, <3>1 DEF ProcTypes
    <3>2. CASE pc[p] = "idle"
      <4>1. i[p] = 0
        BY <3>2 DEF IInv, CallInv
      <4> QED  BY <1>1, <3>2, <4>1 DEF ProcTypes, Call, Acquire, At
    <3> QED  BY <3>1, <3>2
  <2> QED  BY <1>1, <1>2, <1>4, <2>1, <2>2 DEF ProcTypes
<1>6. CallInv'
  BY <1>2, <1>4 DEF IInv, CallInv, Others
<1>7. LockInv' /\ fd[p]
  <2>1. LockInv /\ lock # p
    BY <1>3, PipeAssumption DEF IInv, LockInv
  <2>2. LockInv'
    BY <1>1, <1>3, <1>4, <2>1, LockKept DEF ProcTypes
  <2> QED  BY <1>3, <2>2, InsideOpen
<1>8. ReaderMissesOnlyKilled'
  <2>1. UNCHANGED <<Empty, writeopen>> /\ p \notin Inside
    BY <1>2, <1>3 DEF pipeVars, Empty, Inside
  <2> QED  BY <1>2, <1>4, <2>1, ReadersKept
<1> QED  BY <1>2, <1>4, <1>5, <1>6, <1>7, <1>8, RingUntouched

\* sleep(chan, &pi->lock)
LEMMA SleepKeeps == ASSUME IInv, NEW p \in Procs, Sleep(p) PROVE IInv'
<1>1. ProcTypes
  BY TypeParts DEF IInv
<1>2. UNCHANGED <<pipeVars, i, n, killed, fd>> /\ pc[p] = "sleep" /\ lock' = NoProc
  BY DEF Sleep, At
<1>3. PICK f \in [Procs -> Labels] :
        /\ pc' = [f EXCEPT ![p] = "asleep"]
        /\ \A q \in Procs : f[q] = pc[q] \/ (pc[q] = "asleep" /\ f[q] = "acquire")
        /\ p \in Writers => \A r \in Readers : f[r] # "asleep"
  <2>1. CASE p \in Writers
    <3>1. pc' = [WakeEnd(pc, Readers) EXCEPT ![p] = "asleep"] /\ Readers \subseteq Procs
      BY <2>1 DEF Sleep, WakeReaders, Procs
    <3>2. pc \in [Procs -> Labels]
      BY <1>1 DEF ProcTypes
    <3>3. /\ WakeEnd(pc, Readers) \in [Procs -> Labels]
          /\ \A q \in Procs : \/ WakeEnd(pc, Readers)[q] = pc[q]
                              \/ pc[q] = "asleep" /\ WakeEnd(pc, Readers)[q] = "acquire"
          /\ \A r \in Readers : WakeEnd(pc, Readers)[r] # "asleep"
      BY ONLY <3>1, <3>2, WokenUp
    <3> QED  BY ONLY <3>1, <3>3
  <2>2. CASE p \notin Writers
    BY <1>1, <2>2 DEF Sleep, ProcTypes
  <2> QED  BY <2>1, <2>2
<1>4. pc' \in [Procs -> Labels] /\ Others(p) /\ pc'[p] = "asleep"
  BY <1>3 DEF Others, Labels
<1>5. ProcTypes' /\ CallInv'
  BY <1>1, <1>2, <1>4 DEF ProcTypes, IInv, CallInv, Others
<1>6. LockInv' /\ fd[p]
  <2>1. LockInv /\ lock = p
    BY <1>2 DEF IInv, LockInv
  <2> QED  BY <1>2, <1>4, <2>1, LockKept, InsideOpen
<1>7. ReaderMissesOnlyKilled'
  <2>1. UNCHANGED <<Empty, writeopen>>
    BY <1>2 DEF pipeVars, Empty
  <2>2. CASE p \in Writers
    <3>1. \A r \in Readers : pc'[r] # "asleep"
      BY <1>3, <2>2, PipeAssumption DEF Procs
    <3> QED  BY <1>2, <1>4, <2>2, <3>1, PipeAssumption, ReadersKept
  <2>3. CASE p \notin Writers
    <3>1. p \in Readers /\ Empty /\ writeopen
      BY <1>2, <2>3 DEF Procs, IInv, SleepInv
    <3> QED  BY <1>2, <1>4, <2>1, <2>3, <3>1, ReadersKept
  <2> QED  BY <2>2, <2>3
<1> QED  BY <1>2, <1>4, <1>5, <1>6, <1>7, RingUntouched

\* A return from inside the pipe, after the wakeups that made pc into f.
LEMMA ReturnFacts ==
  ASSUME IInv, NEW p \in Procs, pc[p] \in {"loop", "copy"}, NEW f \in [Procs -> Labels],
         \A q \in Procs : f[q] = pc[q] \/ (pc[q] = "asleep" /\ f[q] = "acquire"),
         Return(p, f), UNCHANGED <<killed, fd>>
  PROVE  /\ ProcTypes' /\ CallInv' /\ Others(p) /\ LockInv' /\ fd[p]
         /\ pc'[p] = "idle" /\ \A q \in Procs \ {p} : pc'[q] = f[q]
<1>1. ProcTypes
  BY TypeParts DEF IInv
<1>2. /\ lock' = NoProc /\ pc' = [f EXCEPT ![p] = "idle"]
      /\ i' = [i EXCEPT ![p] = 0] /\ n' = [n EXCEPT ![p] = 0]
  BY DEF Return
<1>3. /\ pc' \in [Procs -> Labels] /\ pc'[p] = "idle"
      /\ \A q \in Procs \ {p} : pc'[q] = f[q]
  BY <1>2 DEF Labels
<1>4. Others(p)
  BY <1>3 DEF Others
<1>5. /\ i' \in [Procs -> 0..MaxN] /\ n' \in [Procs -> 0..MaxN]
      /\ \A q \in Procs : i'[q] <= n'[q] /\ (i'[q] = i[q] \/ i'[q] = 0)
  BY <1>1, <1>2, PipeAssumption DEF ProcTypes
<1>6. ProcTypes'
  BY <1>1, <1>2, <1>3, <1>5 DEF ProcTypes
<1>7. CallInv'
  <2> SUFFICES ASSUME NEW q \in Procs, pc'[q] \in {"idle", "close"} PROVE i'[q] = 0
    BY DEF CallInv
  <2>1. CASE q = p
    BY <1>1, <1>2, <2>1 DEF ProcTypes
  <2>2. CASE q # p
    BY <1>4, <1>5, <2>2 DEF Others, IInv, CallInv
  <2> QED  BY <2>1, <2>2
<1>8. LockInv' /\ fd[p]
  <2>1. LockInv /\ lock = p
    BY DEF IInv, LockInv
  <2> QED  BY <1>2, <1>3, <1>4, <2>1, LockKept, InsideOpen
<1> QED  BY <1>3, <1>4, <1>6, <1>7, <1>8

\* The returns of pipewrite(): a reader stays asleep only after the error return.
LEMMA WriterReturns ==
  ASSUME IInv, NEW p \in Writers, pc[p] = "loop", UNCHANGED <<pipeVars, killed, fd>>,
         Return(p, WakeReaders(pc)) \/ (Return(p, pc) /\ (~readopen \/ killed[p]))
  PROVE  IInv'
<1>1. ProcTypes /\ p \in Procs /\ p \notin Readers /\ Readers \subseteq Procs
  BY TypeParts, PipeAssumption DEF IInv, Procs
<1>2. pc \in [Procs -> Labels]
  BY <1>1 DEF ProcTypes
<1>3. UNCHANGED <<Empty, writeopen>>
  BY DEF pipeVars, Empty
<1>4. CASE Return(p, WakeReaders(pc))
  <2> DEFINE f == WakeEnd(pc, Readers)
  <2>1. /\ f \in [Procs -> Labels]
        /\ \A q \in Procs : f[q] = pc[q] \/ (pc[q] = "asleep" /\ f[q] = "acquire")
        /\ \A r \in Readers : f[r] # "asleep"
    BY ONLY <1>1, <1>2, WokenUp
  <2>2. Return(p, f)
    BY <1>4 DEF WakeReaders
  <2> HIDE DEF f
  <2>3. /\ ProcTypes' /\ CallInv' /\ Others(p) /\ LockInv' /\ fd[p]
        /\ pc'[p] = "idle" /\ \A q \in Procs \ {p} : pc'[q] = f[q]
    BY <1>1, <2>1, <2>2, ReturnFacts
  <2>4. ReaderMissesOnlyKilled'
    <3>1. \A r \in Readers : pc'[r] # "asleep"
      BY <1>1, <2>1, <2>3
    <3> QED  BY <3>1 DEF ReaderMissesOnlyKilled
  <2> QED  BY <1>1, <2>3, <2>4, RingUntouched
<1>5. CASE Return(p, pc) /\ (~readopen \/ killed[p])
  <2>1. /\ ProcTypes' /\ CallInv' /\ Others(p) /\ LockInv' /\ fd[p]
        /\ pc'[p] = "idle" /\ \A q \in Procs \ {p} : pc'[q] = pc[q]
    BY <1>1, <1>2, <1>5, ReturnFacts
  <2>2. ReaderMissesOnlyKilled'
    <3>1. CASE killed[p]
      BY <1>1, <1>3, <2>1, <3>1, ReadersKept
    <3>2. CASE ~readopen
      <4>1. \A r \in Readers : pc'[r] # "asleep"
        BY <1>1, <2>1, <3>2 DEF IInv, EndInv
      <4> QED  BY <4>1 DEF ReaderMissesOnlyKilled
    <3> QED  BY <1>5, <3>1, <3>2
  <2> QED  BY <1>1, <2>1, <2>2, RingUntouched
<1> QED  BY <1>4, <1>5

\* The returns of piperead().
LEMMA ReaderReturns ==
  ASSUME IInv, NEW p \in Readers, pc[p] \in {"loop", "copy"}, UNCHANGED <<pipeVars, killed, fd>>,
         Return(p, WakeWriters(pc)) \/ Return(p, pc)
  PROVE  IInv'
<1>1. ProcTypes /\ p \in Procs /\ p \notin Writers /\ Writers \subseteq Procs
  BY TypeParts, PipeAssumption DEF IInv, Procs
<1>2. pc \in [Procs -> Labels]
  BY <1>1 DEF ProcTypes
<1>3. PICK f \in [Procs -> Labels] :
        /\ \A q \in Procs : f[q] = pc[q] \/ (pc[q] = "asleep" /\ f[q] = "acquire")
        /\ Return(p, f)
  <2>1. /\ WakeEnd(pc, Writers) \in [Procs -> Labels]
        /\ \A q \in Procs : \/ WakeEnd(pc, Writers)[q] = pc[q]
                            \/ pc[q] = "asleep" /\ WakeEnd(pc, Writers)[q] = "acquire"
    BY ONLY <1>1, <1>2, WokenUp
  <2> QED  BY <1>2, <2>1 DEF WakeWriters
<1>4. /\ ProcTypes' /\ CallInv' /\ Others(p) /\ LockInv' /\ fd[p] /\ pc'[p] = "idle"
  BY <1>1, <1>3, ReturnFacts
<1>5. ReaderMissesOnlyKilled'
  <2>1. UNCHANGED <<Empty, writeopen>>
    BY DEF pipeVars, Empty
  <2> QED  BY <1>1, <1>4, <2>1, ReadersKept
<1> QED  BY <1>1, <1>4, <1>5, RingUntouched

\* A process goes on inside the pipe, or is killed.
LEMMA GoesOnKeeps ==
  ASSUME IInv, NEW p \in Procs, UNCHANGED <<pipeVars, lock, i, n, fd>>,
         \A q \in Procs : killed[q] => killed'[q], killed' \in [Procs -> BOOLEAN],
         \/ /\ pc[p] \in {"loop", "copy"} /\ Goto(p, "sleep")
            /\ p \in Readers => Empty /\ writeopen
         \/ pc[p] \in {"loop", "copy"} /\ Goto(p, "copy")
         \/ pc' = [pc EXCEPT ![p] = IF @ = "asleep" THEN "acquire" ELSE @]
  PROVE  IInv'
<1>1. ProcTypes
  BY TypeParts DEF IInv
<1>2. pc' \in [Procs -> Labels] /\ Others(p)
  BY <1>1 DEF ProcTypes, Others, Labels, Goto
<1>3. /\ pc'[p] \in {"loop", "copy", "sleep"} <=> pc[p] \in {"loop", "copy", "sleep"}
      /\ pc'[p] = pc[p] \/ (pc[p] \notin {"idle", "close"} /\ pc'[p] \notin {"idle", "close"})
      /\ pc'[p] # "asleep"
      /\ p \in Readers /\ pc'[p] = "sleep" => pc[p] = "sleep" \/ (Empty /\ writeopen)
  <2>1. \/ /\ pc[p] \in {"loop", "copy"} /\ pc'[p] = "sleep"
           /\ p \in Readers => Empty /\ writeopen
        \/ pc[p] \in {"loop", "copy"} /\ pc'[p] = "copy"
        \/ pc[p] = "asleep" /\ pc'[p] = "acquire"
        \/ pc[p] # "asleep" /\ pc'[p] = pc[p]
    BY <1>1 DEF ProcTypes, Goto
  <2> QED  BY ONLY <2>1
<1>4. ProcTypes' /\ CallInv'
  BY <1>1, <1>2, <1>3 DEF ProcTypes, IInv, CallInv, Others
<1>5. LockInv'
  BY <1>2, <1>3, LockKept DEF IInv
<1>6. pc'[p] = pc[p] \/ (fd[p] /\ pc'[p] # "close")
  BY <1>3, InsideOpen
<1>7. ReaderMissesOnlyKilled'
  <2>1. UNCHANGED <<Empty, writeopen>> /\ (p \in Inside' <=> p \in Inside)
    BY <1>3 DEF pipeVars, Empty, Inside
  <2> QED  BY <1>2, <1>3, <2>1, ReadersKept
<1> QED  BY <1>2, <1>3, <1>4, <1>5, <1>6, <1>7, RingUntouched

\* One byte more, or one less.
LEMMA RingFacts ==
  ASSUME IInv
  PROVE  /\ nread \in 0..UINT - 1 /\ nwrite \in 0..UINT - 1 /\ data \in [0..PIPESIZE - 1 -> Bytes]
         /\ Count \in 0..PIPESIZE /\ (Empty <=> Count = 0) /\ (Full <=> Count = PIPESIZE)
         /\ Inc(nread) \in 0..UINT - 1 /\ Inc(nwrite) \in 0..UINT - 1
         /\ Count < PIPESIZE => (Inc(nwrite) - nread) % UINT = Count + 1
         /\ Count # 0 => (nwrite - Inc(nread)) % UINT = Count - 1
<1>1. /\ nread \in 0..UINT - 1 /\ nwrite \in 0..UINT - 1 /\ data \in [0..PIPESIZE - 1 -> Bytes]
      /\ Count <= PIPESIZE /\ PIPESIZE \in Nat \ {0} /\ UINT \in Nat /\ UINT > PIPESIZE
  BY PipeAssumption DEF IInv, TypeOK, RingInv
<1>2. /\ Count \in 0..UINT - 1 /\ (nwrite = nread <=> Count = 0)
      /\ Inc(nread) \in 0..UINT - 1 /\ Inc(nwrite) \in 0..UINT - 1
      /\ Count < UINT - 1 => (Inc(nwrite) - nread) % UINT = Count + 1
      /\ nwrite # nread => (nwrite - Inc(nread)) % UINT = Count - 1
      /\ nwrite = (nread + PIPESIZE) % UINT <=> Count = PIPESIZE
  BY <1>1, Counters DEF Count
<1> QED  BY <1>1, <1>2 DEF Empty, Full

\* A process inside that moves a byte.
LEMMA ByteMoves ==
  ASSUME IInv, NEW p \in Procs, pc[p] \in {"loop", "copy"}, ProcTypes', CallInv', LockInv', Others(p),
         pc'[p] \in {"loop", "copy", "idle"}, pc'[p] # "idle" => pc'[p] = pc[p],
         UNCHANGED <<readopen, writeopen, freed, fd>>, RingTypes', RingInv', ReaderMissesOnlyKilled'
  PROVE  IInv'
<1>1. EndTypes'
  BY TypeParts DEF IInv, EndTypes
<1>2. TypeOK'
  BY <1>1 DEF TypeOK, ProcTypes, RingTypes, EndTypes
<1>3. \A q \in Procs : pc'[q] = pc[q] \/ (fd[q] /\ pc'[q] # "close")
  BY InsideOpen DEF Others
<1>4. EndInv(Readers, readopen)' /\ EndInv(Writers, writeopen)' /\ FreeInv'
  <2>1. EndInv(Readers, readopen) /\ EndInv(Writers, writeopen) /\ FreeInv
    BY DEF IInv
  <2>2. EndInv(Readers, readopen)'
    BY <1>3, <2>1 DEF EndInv, Procs
  <2>3. EndInv(Writers, writeopen)'
    BY <1>3, <2>1 DEF EndInv, Procs
  <2>4. FreeInv'
    BY <2>1 DEF FreeInv
  <2> QED  BY <2>2, <2>3, <2>4
<1>5. SleepInv'
  <2> SUFFICES ASSUME NEW q \in Readers, pc'[q] = "sleep" PROVE FALSE
    BY DEF SleepInv
  <2>1. q \in Procs /\ q # p
    BY DEF Procs
  <2>2. lock = q /\ lock = p
    BY <2>1 DEF Others, IInv, LockInv
  <2> QED  BY <2>1, <2>2
<1> QED  BY <1>2, <1>4, <1>5 DEF IInv

\* pipewrite()
LEMMA WriteKeeps == ASSUME IInv, NEW p \in Procs, WriteReturn(p) \/ WriteLoop(p) PROVE IInv'
<1>1. ProcTypes /\ p \in Writers /\ pc[p] = "loop" /\ UNCHANGED <<killed, fd>>
  BY TypeParts DEF IInv, WriteReturn, WriteLoop, At
<1>2. CASE WriteReturn(p)
  BY <1>1, <1>2, WriterReturns DEF WriteReturn
<1>3. CASE WriteLoop(p) /\ Full /\ Goto(p, "sleep") /\ UNCHANGED <<data, nwrite, lock, i, n>>
  <2>1. UNCHANGED <<pipeVars, lock, i, n, fd, killed>> /\ p \notin Readers
    BY <1>1, <1>3, PipeAssumption DEF WriteLoop, pipeVars
  <2>2. killed' \in [Procs -> BOOLEAN]
    BY <1>1, <2>1 DEF ProcTypes
  <2> QED  BY <1>1, <1>3, <2>1, <2>2, GoesOnKeeps
<1>4. CASE WriteLoop(p) /\ Return(p, WakeReaders(pc)) /\ UNCHANGED <<data, nwrite>>
  <2>1. UNCHANGED <<pipeVars, killed, fd>>
    BY <1>4 DEF WriteLoop, pipeVars
  <2> QED  BY <1>1, <1>4, <2>1, WriterReturns
<1>5. CASE /\ WriteLoop(p) /\ ~Full
           /\ \E b \in Bytes : data' = [data EXCEPT ![nwrite % PIPESIZE] = b]
           /\ nwrite' = Inc(nwrite) /\ i' = [i EXCEPT ![p] = @ + 1]
           /\ UNCHANGED <<lock, pc, n>>
  <2>1. i[p] < n[p] /\ UNCHANGED <<nread, readopen, writeopen, freed, killed, fd>>
    BY <1>5 DEF WriteLoop
  <2>2. /\ i' \in [Procs -> 0..MaxN] /\ \A q \in Procs : i'[q] <= n[q]
        /\ \A q \in Procs \ {p} : i'[q] = i[q]
    BY <1>1, <1>5, <2>1, PipeAssumption DEF ProcTypes
  <2>3. ProcTypes' /\ CallInv' /\ LockInv' /\ Others(p)
    BY <1>1, <1>5, <2>1, <2>2 DEF ProcTypes, IInv, CallInv, LockInv, Others
  <2>4. RingTypes' /\ RingInv'
    <3>1. nwrite' \in 0..UINT - 1 /\ nread' \in 0..UINT - 1 /\ Count' = Count + 1 /\ Count' <= PIPESIZE
      BY <1>5, <2>1, RingFacts, PipeAssumption, SMTT(20) DEF Count
    <3>2. data' \in [0..PIPESIZE - 1 -> Bytes]
      BY <1>5, RingFacts
    <3> QED  BY <3>1, <3>2 DEF RingTypes, RingInv
  <2>5. ReaderMissesOnlyKilled'
    <3>1. p \in Inside' /\ p \notin Readers
      BY <1>1, <1>5, PipeAssumption DEF Inside
    <3> QED  BY <1>1, <2>1, <2>3, <3>1, ReadersKept
  <2> QED  BY <1>1, <1>5, <2>1, <2>3, <2>4, <2>5, ByteMoves
<1> QED  BY <1>2, <1>3, <1>4, <1>5 DEF WriteLoop

\* piperead()
LEMMA ReadKeeps == ASSUME IInv, NEW p \in Procs, ReadLoop(p) \/ ReadCopy(p) PROVE IInv'
<1>1. /\ ProcTypes /\ p \in Readers /\ pc[p] \in {"loop", "copy"} /\ UNCHANGED <<killed, fd>>
      /\ p \notin Writers
  BY TypeParts, PipeAssumption DEF IInv, ReadLoop, ReadCopy, At
<1>2. CASE ReadLoop(p)
  <2>1. UNCHANGED <<pipeVars, killed, fd>> /\ killed' \in [Procs -> BOOLEAN]
    BY <1>1, <1>2 DEF ReadLoop, ProcTypes
  <2>2. CASE Return(p, pc)
    BY <1>1, <2>1, <2>2, ReaderReturns
  <2>3. CASE UNCHANGED <<lock, i, n>> /\ (Goto(p, "copy") \/ (Goto(p, "sleep") /\ Empty /\ writeopen))
    BY <1>1, <2>1, <2>3, GoesOnKeeps
  <2> QED  BY <1>2, <2>2, <2>3 DEF ReadLoop
<1>3. CASE ReadCopy(p) /\ Return(p, WakeWriters(pc)) /\ UNCHANGED nread
  <2>1. UNCHANGED pipeVars
    BY <1>3 DEF ReadCopy, pipeVars
  <2> QED  BY <1>1, <1>3, <2>1, ReaderReturns
<1>4. CASE /\ ReadCopy(p) /\ i[p] < n[p] /\ ~Empty /\ nread' = Inc(nread)
           /\ \/ i' = [i EXCEPT ![p] = @ + 1] /\ UNCHANGED <<lock, pc, n>>
              \/ Return(p, WakeWriters(pc))
  <2>1. UNCHANGED <<data, nwrite, readopen, writeopen, freed, killed, fd>> /\ pc[p] = "copy"
    BY <1>4 DEF ReadCopy, At
  <2>2. RingTypes' /\ RingInv'
    <3>1. nwrite' \in 0..UINT - 1 /\ nread' \in 0..UINT - 1 /\ Count' = Count - 1 /\ Count' <= PIPESIZE
      BY <1>4, <2>1, RingFacts, PipeAssumption DEF Count
    <3>2. data' \in [0..PIPESIZE - 1 -> Bytes]
      BY <2>1, RingFacts
    <3> QED  BY <3>1, <3>2 DEF RingTypes, RingInv
  <2>3. ProcTypes' /\ CallInv' /\ LockInv' /\ Others(p) /\ pc'[p] \in {"copy", "idle"}
    <3>1. CASE i' = [i EXCEPT ![p] = @ + 1] /\ UNCHANGED <<lock, pc, n>>
      <4>1. /\ i' \in [Procs -> 0..MaxN] /\ \A q \in Procs : i'[q] <= n[q]
            /\ \A q \in Procs \ {p} : i'[q] = i[q]
        BY <1>1, <1>4, <3>1, PipeAssumption DEF ProcTypes
      <4> QED  BY <1>1, <2>1, <3>1, <4>1 DEF ProcTypes, IInv, CallInv, LockInv, Others
    <3>2. CASE Return(p, WakeWriters(pc))
      <4>1. pc \in [Procs -> Labels] /\ Writers \subseteq Procs
        BY <1>1 DEF ProcTypes, Procs
      <4>2. /\ WakeEnd(pc, Writers) \in [Procs -> Labels]
            /\ \A q \in Procs : \/ WakeEnd(pc, Writers)[q] = pc[q]
                                \/ pc[q] = "asleep" /\ WakeEnd(pc, Writers)[q] = "acquire"
        BY ONLY <4>1, WokenUp
      <4> QED  BY <1>1, <3>2, <4>2, ReturnFacts DEF WakeWriters
    <3> QED  BY <1>4, <3>1, <3>2
  <2>4. ReaderMissesOnlyKilled'
    BY <1>1, <1>4, <2>1, <2>3, ReadersKept
  <2> QED  BY <1>1, <1>4, <2>1, <2>2, <2>3, <2>4, ByteMoves
<1> QED  BY <1>2, <1>3, <1>4 DEF ReadCopy

\* fileclose(): the last process of an end goes on to pipeclose().
LEMMA CloseKeeps == ASSUME IInv, NEW p \in Procs, Close(p) PROVE IInv'
<1>1. /\ pc[p] = "idle" /\ fd[p] /\ fd' = [fd EXCEPT ![p] = FALSE]
      /\ pc' = [pc EXCEPT ![p] = IF OthersOpen(p) THEN "idle" ELSE "close"]
      /\ UNCHANGED <<data, nread, nwrite, readopen, writeopen, freed, lock, i, n, killed>>
  BY DEF Close, At, Goto, pipeVars
<1>2. ProcTypes /\ RingTypes /\ EndTypes
  BY TypeParts DEF IInv
<1>3. /\ pc' \in [Procs -> Labels] /\ Others(p) /\ fd' \in [Procs -> BOOLEAN]
      /\ pc'[p] = (IF OthersOpen(p) THEN "idle" ELSE "close")
      /\ fd'[p] = FALSE /\ \A q \in Procs \ {p} : fd'[q] = fd[q] /\ pc'[q] = pc[q]
  BY <1>1, <1>2 DEF ProcTypes, Others, Labels
<1>4. TypeOK'
  <2>1. ProcTypes' /\ RingTypes' /\ EndTypes'
    BY <1>1, <1>2, <1>3 DEF ProcTypes, RingTypes, EndTypes
  <2> QED  BY <2>1 DEF TypeOK, ProcTypes, RingTypes, EndTypes
<1>5. CallInv' /\ LockInv'
  <2>1. pc'[p] \in {"idle", "close"}
    BY <1>3
  <2>2. CallInv'
    BY <1>1, <1>3 DEF IInv, CallInv
  <2> QED  BY <1>1, <1>3, <2>1, <2>2, LockKept DEF IInv
<1>6. ASSUME NEW end \in {Readers, Writers}, NEW open, EndInv(end, open)
      PROVE  /\ ~open => \A q \in end : ~fd'[q] /\ pc'[q] = "idle"
             /\ \A q \in end : pc'[q] = "close" => \A r \in end : ~fd'[r] /\ (r # q => pc'[r] = "idle")
             /\ \A q \in end : ~fd'[q] => pc'[q] \in {"idle", "close"}
  <2>1. \A q \in end : q \in Procs
    BY <1>6 DEF Procs
  <2>2. CASE p \notin end
    BY <1>3, <1>6, <2>1, <2>2 DEF EndInv
  <2>3. CASE p \in end
    <3>1. OthersOpen(p) <=> \E q \in end \ {p} : fd[q]
      BY <1>6, <2>3, PipeAssumption DEF OthersOpen
    <3>2. open
      BY <1>1, <1>6, <2>3 DEF EndInv
    <3>3. \A q \in end : pc[q] # "close"
      BY <1>1, <1>6, <2>3 DEF EndInv
    <3>4. \A q \in end \ {p} : ~fd[q] => pc[q] = "idle"
      BY <1>6, <3>3 DEF EndInv
    <3>5. CASE OthersOpen(p)
      BY <1>1, <1>3, <2>1, <3>2, <3>3, <3>4, <3>5
    <3>6. CASE ~OthersOpen(p)
      BY <1>1, <1>3, <2>1, <3>1, <3>2, <3>3, <3>4, <3>6
    <3> QED  BY <3>5, <3>6
  <2> QED  BY <2>2, <2>3
<1>7. EndInv(Readers, readopen)' /\ EndInv(Writers, writeopen)'
  <2>1. EndInv(Readers, readopen) /\ EndInv(Writers, writeopen)
    BY DEF IInv
  <2>2. EndInv(Readers, readopen)'
    BY <1>1, <1>6, <2>1 DEF EndInv
  <2>3. EndInv(Writers, writeopen)'
    BY <1>1, <1>6, <2>1 DEF EndInv
  <2> QED  BY <2>2, <2>3
<1>8. FreeInv' /\ RingInv'
  BY <1>1 DEF IInv, FreeInv, RingInv, Count
<1>9. SleepInv'
  BY <1>1, <1>3 DEF IInv, SleepInv, Empty, Procs
<1>10. ReaderMissesOnlyKilled'
  <2>1. UNCHANGED <<Empty, writeopen>> /\ p \notin Inside /\ pc'[p] # "asleep"
    BY <1>1, <1>3 DEF Empty, Inside
  <2> QED  BY <1>1, <1>3, <2>1, ReadersKept
<1> QED  BY <1>4, <1>5, <1>7, <1>8, <1>9, <1>10 DEF IInv

\* pipeclose(): one end is closed, and nobody of that end is left.
LEMMA PipeCloseKeeps == ASSUME IInv, NEW p \in Procs, PipeClose(p) PROVE IInv'
<1>1. /\ pc[p] = "close" /\ lock = NoProc
      /\ UNCHANGED <<data, nread, nwrite, lock, i, n, killed, fd>>
      /\ freed' = (~readopen' /\ ~writeopen')
  BY DEF PipeClose, At
<1>2. /\ ProcTypes /\ RingTypes /\ EndTypes /\ Readers \subseteq Procs /\ Writers \subseteq Procs
      /\ Readers \cap Writers = {}
  BY TypeParts, PipeAssumption DEF IInv, Procs
<1>3. PICK mine, other :
        /\ p \in mine /\ mine \cap other = {} /\ other \subseteq Procs
        /\ {mine, other} = {Readers, Writers}
        /\ pc' = WakeEnd([pc EXCEPT ![p] = "idle"], other)
        /\ \/ mine = Writers /\ other = Readers /\ writeopen' = FALSE /\ UNCHANGED readopen
           \/ mine = Readers /\ other = Writers /\ readopen' = FALSE /\ UNCHANGED writeopen
  <2>1. CASE p \in Writers /\ writeopen' = FALSE /\ UNCHANGED readopen /\ pc' = WakeReaders([pc EXCEPT ![p] = "idle"])
    BY <1>2, <2>1 DEF WakeReaders
  <2>2. CASE p \in Readers /\ readopen' = FALSE /\ UNCHANGED writeopen /\ pc' = WakeWriters([pc EXCEPT ![p] = "idle"])
    BY <1>2, <2>2 DEF WakeWriters
  <2> QED  BY <2>1, <2>2 DEF PipeClose
<1>4. PICK f \in [Procs -> Labels] : f = [pc EXCEPT ![p] = "idle"]
  BY <1>2 DEF ProcTypes, Labels
<1>5. /\ pc' \in [Procs -> Labels]
      /\ \A q \in Procs : pc'[q] = f[q] \/ (f[q] = "asleep" /\ pc'[q] = "acquire")
      /\ \A q \in other : pc'[q] # "asleep"
  <2>1. pc' = WakeEnd(f, other) /\ other \subseteq Procs /\ f \in [Procs -> Labels]
    BY <1>3, <1>4
  <2>2. /\ WakeEnd(f, other) \in [Procs -> Labels]
        /\ \A q \in Procs : \/ WakeEnd(f, other)[q] = f[q]
                            \/ f[q] = "asleep" /\ WakeEnd(f, other)[q] = "acquire"
        /\ \A q \in other : WakeEnd(f, other)[q] # "asleep"
    BY ONLY <2>1, WokenUp
  <2> QED  BY ONLY <2>1, <2>2
<1>6. Others(p) /\ pc'[p] = "idle"
  BY <1>2, <1>4, <1>5 DEF Others, ProcTypes
<1>7. TypeOK'
  <2>1. ProcTypes' /\ RingTypes'
    BY <1>1, <1>2, <1>5 DEF ProcTypes, RingTypes
  <2>2. EndTypes'
    BY <1>1, <1>2, <1>3 DEF EndTypes
  <2> QED  BY <2>1, <2>2 DEF TypeOK, ProcTypes, RingTypes, EndTypes
<1>8. CallInv' /\ LockInv'
  <2>1. CallInv'
    BY <1>1, <1>6 DEF IInv, CallInv, Others
  <2> QED  BY <1>1, <1>6, <2>1, LockKept DEF IInv
<1>9. \A q \in Procs : pc'[q] # "close" \/ pc[q] = "close"
  BY <1>6 DEF Others
<1>10. \A q \in mine : q \in Procs /\ ~fd[q] /\ pc'[q] = "idle"
  <2>1. \A q \in mine : ~fd[q] /\ (q # p => pc[q] = "idle")
    BY <1>1, <1>3 DEF IInv, EndInv
  <2> QED  BY <1>2, <1>3, <1>6, <2>1 DEF Others
<1>11. EndInv(Readers, readopen)' /\ EndInv(Writers, writeopen)'
  <2>1. EndInv(Readers, readopen) /\ EndInv(Writers, writeopen)
    BY DEF IInv
  <2>2. \A q \in other : pc'[q] = pc[q] \/ (pc[q] = "asleep" /\ pc'[q] = "acquire")
    BY <1>3, <1>6 DEF Others
  <2>3. CASE mine = Writers /\ other = Readers /\ writeopen' = FALSE /\ UNCHANGED readopen
    <3>1. EndInv(Writers, writeopen)'
      BY <1>1, <1>10, <2>3 DEF EndInv
    <3>2. EndInv(Readers, readopen)'
      BY <1>1, <2>1, <2>2, <2>3 DEF EndInv
    <3> QED  BY <3>1, <3>2
  <2>4. CASE mine = Readers /\ other = Writers /\ readopen' = FALSE /\ UNCHANGED writeopen
    <3>1. EndInv(Readers, readopen)'
      BY <1>1, <1>10, <2>4 DEF EndInv
    <3>2. EndInv(Writers, writeopen)'
      BY <1>1, <2>1, <2>2, <2>4 DEF EndInv
    <3> QED  BY <3>1, <3>2
  <2> QED  BY <1>3, <2>3, <2>4
<1>12. FreeInv' /\ RingInv'
  BY <1>1 DEF IInv, FreeInv, RingInv, Count
<1>13. SleepInv'
  <2> SUFFICES ASSUME NEW q \in Readers, pc'[q] = "sleep" PROVE FALSE
    BY DEF SleepInv
  <2>1. q \in Procs /\ lock' = q
    BY <1>2, <1>8 DEF LockInv
  <2> QED  BY <1>1, <2>1, PipeAssumption
<1>14. ReaderMissesOnlyKilled'
  <2>1. CASE other = Readers
    BY <1>5, <2>1 DEF ReaderMissesOnlyKilled
  <2>2. CASE mine = Readers
    BY <1>10, <2>2 DEF ReaderMissesOnlyKilled
  <2> QED  BY <1>3, <2>1, <2>2
<1> QED  BY <1>7, <1>8, <1>11, <1>12, <1>13, <1>14 DEF IInv

\* pipealloc()
LEMMA InitHolds == Init => IInv
<1> SUFFICES ASSUME Init PROVE IInv
  OBVIOUS
<1> USE PipeAssumption DEF Init
<1>1. TypeOK
  <2>1. ProcTypes
    BY DEF ProcTypes, Labels
  <2>2. RingTypes
    <3>1. nread \in 0..UINT - 1 /\ nwrite \in 0..UINT - 1
      OBVIOUS
    <3> QED  BY <3>1 DEF RingTypes
  <2>3. EndTypes
    BY DEF EndTypes
  <2> QED  BY <2>1, <2>2, <2>3, TypeParts
<1>2. CallInv /\ LockInv /\ FreeInv /\ SleepInv /\ ReaderMissesOnlyKilled
  <2>1. LockInv
    BY DEF LockInv
  <2>2. SleepInv /\ ReaderMissesOnlyKilled
    BY DEF SleepInv, ReaderMissesOnlyKilled, Procs
  <2> QED  BY <2>1, <2>2 DEF CallInv, FreeInv
<1>3. EndInv(Readers, readopen) /\ EndInv(Writers, writeopen)
  BY DEF EndInv, Procs
<1>4. RingInv
  <2>1. (0 - 0) % UINT = 0
    BY ModNear
  <2> QED  BY <2>1 DEF RingInv, Count
<1> QED  BY <1>1, <1>2, <1>3, <1>4 DEF IInv

\* kkill()
LEMMA KillKeeps == ASSUME IInv, NEW p \in Procs, Kill(p) PROVE IInv'
<1>1. killed \in [Procs -> BOOLEAN]
  BY DEF IInv, TypeOK
<1>2. killed' = [killed EXCEPT ![p] = TRUE]
  BY DEF Kill
<1>3. killed' \in [Procs -> BOOLEAN] /\ \A q \in Procs : killed[q] => killed'[q]
  BY <1>1, <1>2
<1> QED  BY <1>3, GoesOnKeeps DEF Kill

\* One step per action.
LEMMA NextKeeps == IInv /\ [Next]_vars => IInv'
<1> SUFFICES ASSUME IInv, [Next]_vars PROVE IInv'
  OBVIOUS
<1>1. CASE UNCHANGED vars
  <2>1. UNCHANGED <<data, nread, nwrite, readopen, writeopen, freed, lock, pc, i, n, killed, fd>>
    BY <1>1 DEF vars, pipeVars
  <2>2. TypeOK'
    BY <2>1 DEF IInv, TypeOK
  <2>3. CallInv' /\ LockInv' /\ EndInv(Readers, readopen)' /\ EndInv(Writers, writeopen)'
    BY <2>1 DEF IInv, CallInv, LockInv, EndInv
  <2>4. FreeInv' /\ RingInv' /\ SleepInv' /\ ReaderMissesOnlyKilled'
    BY <2>1 DEF IInv, FreeInv, RingInv, Count, SleepInv, Empty, ReaderMissesOnlyKilled, Inside
  <2> QED  BY <2>2, <2>3, <2>4 DEF IInv
<1>2. CASE Next
  <2>1. PICK p \in Procs : Call(p) \/ Run(p) \/ Close(p) \/ Kill(p)
    BY <1>2 DEF Next
  <2> QED  BY <2>1, EnterKeeps, SleepKeeps, WriteKeeps, ReadKeeps, CloseKeeps, PipeCloseKeeps, KillKeeps
           DEF Run
<1> QED  BY <1>1, <1>2

\* The invariant of the pipe.
THEOREM Inductive == Spec => []IInv
<1> QED  BY InitHolds, NextKeeps, PTL DEF Spec

\* The variables keep their types: no call copies more than the n bytes it was
\* asked for.
THEOREM PipeTypes == Spec => []TypeOK
<1>1. IInv => TypeOK
  BY DEF IInv
<1> QED  BY <1>1, Inductive, PTL

\* pipeclose() frees the pipe after its last use.
THEOREM FreedAfterLastUse == Spec => []FreedUnused
<1>1. IInv => FreedUnused
  BY DEF IInv, FreeInv, EndInv, FreedUnused, Procs
<1> QED  BY <1>1, Inductive, PTL

\* A reader sleeps with nothing to do, unless a writer was killed half way.
THEOREM OnlyKilledWritersMiss == Spec => []ReaderMissesOnlyKilled
<1>1. IInv => ReaderMissesOnlyKilled
  BY DEF IInv
<1> QED  BY <1>1, Inductive, PTL

-----------------------------------------------------------------------------
(* The ring buffer implements the stream.                                  *)

\* The c bytes of ring d from counter r on.
Ring(d, r, c) == [k \in 1..c |-> d[(r + k - 1) % PIPESIZE]]

\* They are a sequence of bytes.
LEMMA RingSeq ==
  ASSUME NEW d \in [0..PIPESIZE - 1 -> Bytes], NEW r \in Int, NEW c \in Nat
  PROVE  /\ Ring(d, r, c) \in Seq(Bytes) /\ Len(Ring(d, r, c)) = c
         /\ \A k \in 1..c : Ring(d, r, c)[k] = d[(r + k - 1) % PIPESIZE]
<1> DEFINE R == Ring(d, r, c)
<1>1. ASSUME NEW k \in 1..c PROVE d[(r + k - 1) % PIPESIZE] \in Bytes
  <2>1. PICK a \in Int : a = r + k - 1
    OBVIOUS
  <2>2. a % PIPESIZE \in 0..PIPESIZE - 1
    BY ModNear, PipeAssumption
  <2> QED  BY <2>1, <2>2
<1>2. R \in [1..c -> Bytes] /\ \A k \in 1..c : R[k] = d[(r + k - 1) % PIPESIZE]
  BY <1>1 DEF Ring
<1> HIDE DEF R
<1>3. R \in Seq(Bytes)
  BY <1>2
<1>4. Len(R) = c
  <2>1. Len(R) \in Nat /\ DOMAIN R = 1..Len(R)
    BY <1>3, LenProperties
  <2>2. DOMAIN R = 1..c
    BY <1>2
  <2>3. PICK l \in Nat : l = Len(R)
    BY <2>1
  <2>4. \A k \in Int : 1 <= k /\ k <= l <=> 1 <= k /\ k <= c
    <3>1. 1..l = 1..c
      BY <2>1, <2>2, <2>3
    <3> QED  BY ONLY <3>1, c \in Nat, l \in Nat
  <2>5. l = c
    BY ONLY <2>4, c \in Nat, l \in Nat
  <2> QED  BY <2>3, <2>5
<1> QED  BY <1>2, <1>3, <1>4 DEF R

\* Storing a byte behind the last one appends it.
LEMMA RingPut ==
  ASSUME NEW d \in [0..PIPESIZE - 1 -> Bytes], NEW r \in Int, NEW c \in 0..PIPESIZE - 1,
         NEW b \in Bytes
  PROVE  Ring([d EXCEPT ![(r + c) % PIPESIZE] = b], r, c + 1) = Append(Ring(d, r, c), b)
<1>1. PICK e : e = [d EXCEPT ![(r + c) % PIPESIZE] = b]
  OBVIOUS
<1>2. (r + c) % PIPESIZE \in 0..PIPESIZE - 1
  <2>1. PICK a \in Int : a = r + c
    OBVIOUS
  <2> QED  BY <2>1, ModNear, PipeAssumption
<1>3. e \in [0..PIPESIZE - 1 -> Bytes] /\ e[(r + c) % PIPESIZE] = b
  BY <1>1, <1>2
<1>4. ASSUME NEW k \in 1..c PROVE e[(r + k - 1) % PIPESIZE] = d[(r + k - 1) % PIPESIZE]
  <2>1. PICK x \in Int, y \in Int : x = r + k - 1 /\ y = r + c
    OBVIOUS
  <2>2. PIPESIZE \in Nat \ {0} /\ x < y /\ y < x + PIPESIZE
    BY <2>1, PipeAssumption
  <2>3. x % PIPESIZE # y % PIPESIZE /\ x % PIPESIZE \in 0..PIPESIZE - 1
    BY ONLY x \in Int, y \in Int, <2>2, ModDiffers, ModNear
  <2> QED  BY <1>1, <2>1, <2>3
<1>5. c \in Nat /\ c + 1 \in Nat
  BY PipeAssumption
<1>6. /\ Ring(e, r, c + 1) \in Seq(Bytes) /\ Len(Ring(e, r, c + 1)) = c + 1
      /\ \A k \in 1..c + 1 : Ring(e, r, c + 1)[k] = e[(r + k - 1) % PIPESIZE]
  BY <1>3, <1>5, RingSeq
<1>7. /\ Ring(d, r, c) \in Seq(Bytes) /\ Len(Ring(d, r, c)) = c
      /\ \A k \in 1..c : Ring(d, r, c)[k] = d[(r + k - 1) % PIPESIZE]
  BY <1>5, RingSeq
<1>8. PICK s \in Seq(Bytes) : s = Ring(e, r, c + 1)
  BY <1>6
<1>9. PICK t \in Seq(Bytes) : t = Ring(d, r, c)
  BY <1>7
<1>10. /\ Append(t, b) \in Seq(Bytes) /\ Len(Append(t, b)) = c + 1
       /\ \A k \in 1..c : Append(t, b)[k] = t[k]
       /\ Append(t, b)[c + 1] = b
  BY <1>7, <1>9, AppendProperties
<1>11. ASSUME NEW k \in 1..c + 1 PROVE s[k] = Append(t, b)[k]
  <2>1. CASE k \in 1..c
    BY <1>4, <1>6, <1>7, <1>8, <1>9, <1>10, <2>1
  <2>2. CASE k = c + 1
    <3>1. r + k - 1 = r + c
      BY <1>5, <2>2
    <3>2. s[k] = e[(r + k - 1) % PIPESIZE]
      BY <1>6, <1>8
    <3> QED  BY <1>3, <1>10, <2>2, <3>1, <3>2
  <2>3. k \in 1..c \/ k = c + 1
    BY ONLY <1>5, k \in 1..c + 1
  <2> QED  BY <2>1, <2>2, <2>3
<1>12. s = Append(t, b)
  BY <1>6, <1>8, <1>10, <1>11, SeqEqual
<1> QED  BY <1>1, <1>8, <1>9, <1>12

\* Counting a byte as read takes the first one.
LEMMA RingGet ==
  ASSUME NEW d \in [0..PIPESIZE - 1 -> Bytes], NEW r \in Int, NEW c \in Nat \ {0}, NEW q \in Int,
         \A k \in Int : (q + k) % PIPESIZE = (r + 1 + k) % PIPESIZE
  PROVE  Ring(d, r, c) # <<>> /\ Ring(d, q, c - 1) = Tail(Ring(d, r, c))
<1>1. /\ Ring(d, r, c) \in Seq(Bytes) /\ Len(Ring(d, r, c)) = c
      /\ \A k \in 1..c : Ring(d, r, c)[k] = d[(r + k - 1) % PIPESIZE]
  BY RingSeq
<1>2. /\ Ring(d, q, c - 1) \in Seq(Bytes) /\ Len(Ring(d, q, c - 1)) = c - 1
      /\ \A k \in 1..c - 1 : Ring(d, q, c - 1)[k] = d[(q + k - 1) % PIPESIZE]
  <2>1. c - 1 \in Nat
    OBVIOUS
  <2> QED  BY <2>1, RingSeq
<1>3. PICK s \in Seq(Bytes) : s = Ring(d, q, c - 1)
  BY <1>2
<1>4. PICK t \in Seq(Bytes) : t = Ring(d, r, c)
  BY <1>1
<1>5. t # <<>>
  BY <1>1, <1>4, EmptySeq
<1>6. /\ Tail(t) \in Seq(Bytes) /\ Len(Tail(t)) = c - 1
      /\ \A k \in 1..c - 1 : Tail(t)[k] = t[k + 1]
  BY <1>1, <1>4, <1>5, HeadTailProperties
<1>7. ASSUME NEW k \in 1..c - 1 PROVE s[k] = Tail(t)[k]
  <2>1. s[k] = d[(q + k - 1) % PIPESIZE] /\ Tail(t)[k] = d[(r + (k + 1) - 1) % PIPESIZE]
    BY <1>1, <1>2, <1>3, <1>4, <1>6
  <2>2. PICK j \in Int : j = k - 1
    OBVIOUS
  <2>3. q + k - 1 = q + j /\ r + (k + 1) - 1 = r + 1 + j
    BY <2>2
  <2> QED  BY <2>1, <2>3
<1>8. s = Tail(t)
  BY <1>2, <1>3, <1>6, <1>7, SeqEqual
<1> QED  BY <1>3, <1>4, <1>5, <1>8

\* The queue of the stream is the ring between the counters.
LEMMA QueueIsRing == Queue = Ring(data, nread, Count) /\ Queue' = Ring(data', nread', Count')
  BY DEF Queue, Ring, Count

\* A step that moves no byte is a close or none.
LEMMA QueueKept ==
  ASSUME UNCHANGED <<data, nread, nwrite>> PROVE Queue' = Queue
  BY DEF Queue

\* A byte is written.
LEMMA PutStep ==
  ASSUME IInv, NEW p \in Writers, pc[p] = "loop", readopen, ~Full, NEW b \in Bytes,
         data' = [data EXCEPT ![nwrite % PIPESIZE] = b], nwrite' = Inc(nwrite),
         UNCHANGED <<nread, readopen, writeopen>>
  PROVE  FIFO!Next
<1>1. /\ nread \in 0..UINT - 1 /\ nwrite \in 0..UINT - 1 /\ data \in [0..PIPESIZE - 1 -> Bytes]
      /\ Count \in 0..PIPESIZE - 1 /\ (Inc(nwrite) - nread) % UINT = Count + 1
  <2>1. /\ nread \in 0..UINT - 1 /\ nwrite \in 0..UINT - 1 /\ data \in [0..PIPESIZE - 1 -> Bytes]
        /\ Count \in 0..PIPESIZE /\ Count # PIPESIZE
        /\ Count < PIPESIZE => (Inc(nwrite) - nread) % UINT = Count + 1
    BY RingFacts
  <2>2. PIPESIZE \in Nat
    BY PipeAssumption
  <2>3. Count \in 0..PIPESIZE - 1 /\ Count < PIPESIZE
    BY ONLY <2>1, <2>2
  <2> QED  BY <2>1, <2>3
<1>2. nread \in Int /\ Count' = Count + 1
  BY <1>1, PipeAssumption DEF Count
<1>3. nwrite % PIPESIZE = (nread + Count) % PIPESIZE
  BY <1>1, Places DEF Count
<1>4. PICK c \in 0..PIPESIZE - 1 : c = Count
  BY <1>1
<1>5. PICK r \in Int : r = nread
  BY <1>2
<1>6. PICK e : e = data'
  OBVIOUS
<1>7. e = [data EXCEPT ![(r + c) % PIPESIZE] = b]
  BY <1>3, <1>4, <1>5, <1>6
<1>8. Ring(e, r, c + 1) = Append(Ring(data, r, c), b)
  BY <1>1, <1>7, RingPut
<1>9. Queue' = Append(Queue, b)
  BY <1>2, <1>4, <1>5, <1>6, <1>8, QueueIsRing
<1>10. Len(Queue) < PIPESIZE
  <2>1. c \in Nat /\ c < PIPESIZE
    BY PipeAssumption
  <2>2. Len(Ring(data, r, c)) = c
    BY <1>1, <2>1, RingSeq
  <2> QED  BY <1>4, <1>5, <2>1, <2>2, QueueIsRing
<1>11. writeopen
  <2>1. p \in Procs
    BY DEF Procs
  <2> QED  BY <2>1, InsideOpen
<1> QED  BY <1>9, <1>10, <1>11 DEF FIFO!Next, FIFO!Put

\* A byte is read.
LEMMA GetStep ==
  ASSUME IInv, NEW p \in Readers, pc[p] = "copy", ~Empty, nread' = Inc(nread),
         UNCHANGED <<data, nwrite, readopen, writeopen>>
  PROVE  FIFO!Next
<1>1. /\ nread \in 0..UINT - 1 /\ nwrite \in 0..UINT - 1 /\ data \in [0..PIPESIZE - 1 -> Bytes]
      /\ Count \in Nat \ {0} /\ (nwrite - Inc(nread)) % UINT = Count - 1 /\ Inc(nread) \in 0..UINT - 1
  BY RingFacts, PipeAssumption
<1>2. Count' = Count - 1
  BY <1>1 DEF Count
<1>3. \A k \in Int : (Inc(nread) + k) % PIPESIZE = (nread + 1 + k) % PIPESIZE
  BY <1>1, Places
<1>4. PICK c \in Nat \ {0} : c = Count
  BY <1>1
<1>5. PICK r \in Int : r = nread
  BY <1>1
<1>6. PICK q \in Int : q = Inc(nread)
  BY <1>1
<1>7. Ring(data, r, c) # <<>> /\ Ring(data, q, c - 1) = Tail(Ring(data, r, c))
  BY <1>1, <1>3, <1>5, <1>6, RingGet
<1>8. Queue # <<>> /\ Queue' = Tail(Queue)
  BY <1>2, <1>4, <1>5, <1>6, <1>7, QueueIsRing
<1>9. readopen
  <2>1. p \in Procs
    BY DEF Procs
  <2> QED  BY <2>1, InsideOpen
<1> QED  BY <1>8, <1>9 DEF FIFO!Next, FIFO!Get

\* Every step is one of the stream or none.
LEMMA StepRefines == IInv /\ [Next]_vars => FIFO!Next \/ UNCHANGED FIFO!vars
<1> SUFFICES ASSUME IInv, [Next]_vars PROVE FIFO!Next \/ UNCHANGED FIFO!vars
  OBVIOUS
<1>1. ASSUME UNCHANGED pipeVars PROVE UNCHANGED FIFO!vars
  BY <1>1, QueueKept DEF pipeVars, FIFO!vars
<1>2. CASE UNCHANGED vars
  BY <1>1, <1>2 DEF vars
<1>3. ASSUME NEW p \in Procs, Call(p) \/ Run(p) \/ Close(p) \/ Kill(p)
      PROVE  FIFO!Next \/ UNCHANGED FIFO!vars
  <2>1. CASE Call(p) \/ Acquire(p) \/ Sleep(p) \/ WriteReturn(p) \/ ReadLoop(p) \/ Close(p) \/ Kill(p)
    BY <1>1, <2>1 DEF Call, Acquire, Sleep, WriteReturn, ReadLoop, Close, Kill
  <2>2. CASE WriteLoop(p)
    <3>1. /\ p \in Writers /\ pc[p] = "loop" /\ readopen
          /\ UNCHANGED <<nread, readopen, writeopen, freed>>
      BY <2>2 DEF WriteLoop, At
    <3>2. CASE UNCHANGED <<data, nwrite>>
      BY <1>1, <3>1, <3>2 DEF pipeVars
    <3>3. CASE ~UNCHANGED <<data, nwrite>>
      <4>1. /\ ~Full /\ nwrite' = Inc(nwrite)
            /\ \E b \in Bytes : data' = [data EXCEPT ![nwrite % PIPESIZE] = b]
        BY <2>2, <3>3 DEF WriteLoop
      <4> QED  BY <3>1, <4>1, PutStep
    <3> QED  BY <3>2, <3>3
  <2>3. CASE ReadCopy(p)
    <3>1. /\ p \in Readers /\ pc[p] = "copy"
          /\ UNCHANGED <<data, nwrite, readopen, writeopen, freed>>
      BY <2>3 DEF ReadCopy, At
    <3>2. CASE UNCHANGED nread
      BY <1>1, <3>1, <3>2 DEF pipeVars
    <3>3. CASE ~UNCHANGED nread
      BY <2>3, <3>1, <3>3, GetStep DEF ReadCopy
    <3> QED  BY <3>2, <3>3
  <2>4. CASE PipeClose(p)
    <3>1. UNCHANGED <<data, nread, nwrite>> /\ pc[p] = "close"
      BY <2>4 DEF PipeClose, At
    <3>2. Queue' = Queue
      BY <3>1, QueueKept
    <3>3. (p \in Readers => readopen) /\ (p \in Writers => writeopen)
      BY <3>1 DEF IInv, EndInv
    <3> QED  BY <2>4, <3>2, <3>3 DEF PipeClose, FIFO!Next, FIFO!CloseRead, FIFO!CloseWrite
  <2> QED  BY <1>3, <2>1, <2>2, <2>3, <2>4 DEF Run
<1> QED  BY <1>2, <1>3 DEF Next

\* The ring buffer with its wrapping counters implements the bounded stream: no
\* byte is lost, duplicated or reordered, none is stored in a full pipe, and none
\* after the read end is closed.
THEOREM PipeImplementsStream == Spec => PipeIsFifo
<1>1. Init => FIFO!Init
  <2> SUFFICES ASSUME Init PROVE FIFO!Init
    OBVIOUS
  <2>1. IInv /\ Empty
    BY InitHolds DEF Init, Empty
  <2>2. Count = 0 /\ data \in [0..PIPESIZE - 1 -> Bytes] /\ nread \in Int
    BY <2>1, RingFacts, PipeAssumption
  <2>3. Queue \in Seq(Bytes) /\ Len(Queue) = 0
    BY <2>2, RingSeq, QueueIsRing
  <2>4. Queue = <<>>
    BY <2>3, EmptySeq
  <2> QED  BY <2>4 DEF Init, FIFO!Init
<1>2. IInv /\ [Next]_vars => [FIFO!Next]_FIFO!vars
  BY StepRefines
<1> QED  BY <1>1, <1>2, Inductive, PTL DEF Spec, PipeIsFifo, FIFO!Spec
=============================================================================
