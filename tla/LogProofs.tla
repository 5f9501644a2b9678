----------------------------- MODULE LogProofs -----------------------------
(***************************************************************************)
(* Proofs about Log for every number of processes and blocks and every     *)
(* MAXOPBLOCKS <= LOGBLOCKS.                                               *)
(***************************************************************************)
EXTENDS Log, FiniteSetTheorems, TLAPS

Running == machine \in {"up", "panic"}

\* Control: who may be where, and what the counters mean.
CtlInv ==
  /\ ~Running => \A p \in Procs : pc[p] = "idle"
  /\ outstanding = Cardinality(Active)
  /\ committing => Active = {}
  /\ \A p \in Procs : pc[p] \in CommitPC => committing
  /\ \A p, q \in Procs : pc[p] \in CommitPC /\ pc[q] \in CommitPC => p = q
  /\ \A p \in Procs : pc[p] = "held" <=> held[p] # NoBlock

\* The transaction in memory: when it is empty, how far the loops are, and why
\* every sleeper in begin_op() sleeps.
TransInv ==
  /\ \A p \in Procs : pc[p] = "finish" => lh = <<>>
  /\ Running /\ ~committing /\ outstanding = 0 => lh = <<>>
  /\ \A p \in Procs : pc[p] \in {"write_log", "install"} => tail <= Len(lh)
  /\ \A p \in Procs : pc[p] = "write_head" => tail = 0
  /\ machine = "recover" => tail <= Len(lh)
  /\ SleeperHasWaker

\* The slots that begin_op() reserved for the operations of A and that their
\* log_write() calls, which recorded the blocks w, have not used yet.
TokensOf(A, w) == {t \in A \X (1..MAXOPBLOCKS) : t[2] > Cardinality(w[t[1]])}
Tokens == TokensOf(Active, written)

SpaceInv ==
  /\ Len(lh) + Cardinality(Tokens) <= LOGBLOCKS
  /\ Len(hdr) <= LOGBLOCKS
  /\ \A p \in Procs : written[p] \subseteq IF p \in Active THEN Entries(lh) ELSE {}
  /\ \A p \in Procs : pc[p] = "held" =>
       Cardinality(written[p] \cup {held[p]}) <= OpBlocks

PinInv ==
  /\ Running => \A b \in Blocks : pin[b] = IF b \in ToInstall THEN 1 ELSE 0
  /\ ~Running => \A b \in Blocks : pin[b] = 0
  /\ \A i, j \in 1..Len(lh) : lh[i] = lh[j] => i = j
  /\ \A i, j \in 1..Len(hdr) : hdr[i] = hdr[j] => i = j

IInv == TypeOK /\ CtlInv /\ TransInv /\ SpaceInv /\ PinInv

-----------------------------------------------------------------------------
\* Active is finite, and what its cardinality says of it.
LEMMA ActiveCard ==
  ASSUME NEW A \in SUBSET Procs
  PROVE  /\ IsFiniteSet(A)
         /\ Cardinality(A) \in Nat
         /\ Cardinality(A) = 0 <=> A = {}
<1>1. IsFiniteSet(A)
  BY LogAssumption, FS_Subset
<1>. QED BY <1>1, FS_CardinalityType, FS_EmptySet

(* The blocks of a write set and the one about to be added: cardinality. *)
LEMMA WrittenCard ==
  ASSUME NEW w \in SUBSET Blocks, NEW b
  PROVE  /\ Cardinality(w) \in Nat
         /\ Cardinality(w \cup {b}) = IF b \in w THEN Cardinality(w) ELSE Cardinality(w) + 1
<1>1. IsFiniteSet(w)
  BY LogAssumption, FS_Subset
<1>. QED BY <1>1, FS_CardinalityType, FS_AddElement

\* The unused reservations are at most MAXOPBLOCKS for each operation.
LEMMA TokensCard ==
  ASSUME NEW A \in SUBSET Procs, NEW w
  PROVE  /\ IsFiniteSet(TokensOf(A, w))
         /\ Cardinality(TokensOf(A, w)) \in Nat
         /\ Cardinality(TokensOf(A, w)) <= Cardinality(A) * MAXOPBLOCKS
<1>1. /\ IsFiniteSet(1..MAXOPBLOCKS)
      /\ Cardinality(1..MAXOPBLOCKS) = MAXOPBLOCKS
  BY FS_Interval, LogAssumption
<1>2. /\ IsFiniteSet(A \X (1..MAXOPBLOCKS))
      /\ Cardinality(A \X (1..MAXOPBLOCKS)) = Cardinality(A) * MAXOPBLOCKS
  <2>1. IsFiniteSet(A)
    BY ActiveCard
  <2>2. /\ IsFiniteSet(A \X (1..MAXOPBLOCKS))
        /\ Cardinality(A \X (1..MAXOPBLOCKS)) = Cardinality(A) * Cardinality(1..MAXOPBLOCKS)
    BY <1>1, <2>1, FS_Product, Zenon
  <2>. QED BY <1>1, <2>2
<1>3. TokensOf(A, w) \in SUBSET (A \X (1..MAXOPBLOCKS))
  BY DEF TokensOf
<1>. QED BY <1>2, <1>3, FS_Subset, FS_CardinalityType

(* The entries of a log header after one more block is appended to it. *)
LEMMA EntriesAppend ==
  ASSUME NEW h \in Seq(Blocks), NEW b \in Blocks
  PROVE  Entries(Append(h, b)) = Entries(h) \cup {b}
<1>. DEFINE g == Append(h, b)
<1>1. /\ Len(h) \in Nat /\ Len(g) = Len(h) + 1 /\ g[Len(h) + 1] = b
      /\ \A i \in 1..Len(h) : g[i] = h[i]
  OBVIOUS
<1>. HIDE DEF g
<1>2. 1..Len(g) = 1..Len(h) \cup {Len(h) + 1}
  BY <1>1
<1>3. Entries(g) \subseteq Entries(h) \cup {b}
  BY <1>1, <1>2 DEF Entries
<1>4. Entries(h) \subseteq Entries(g)
  BY <1>1, <1>2 DEF Entries
<1>5. b \in Entries(g)
  BY <1>1, <1>2 DEF Entries
<1>. QED BY <1>3, <1>4, <1>5 DEF g

(* initlog() on a disk with an empty log establishes the invariant. *)
LEMMA InitIInv == Init => IInv
<1>. SUFFICES ASSUME Init PROVE IInv
  OBVIOUS
<1>1. TypeOK
  <2>1. hdr \in Seq(Blocks) /\ lh \in Seq(Blocks)
    BY DEF Init
  <2>. QED BY <2>1, LogAssumption DEF Init, TypeOK, RunPC, CommitPC
<1>2. Active = {} /\ Tokens = {}
  BY DEF Init, Active, Tokens, TokensOf
<1>3. CtlInv
  BY <1>2, FS_EmptySet DEF Init, CtlInv, Running, CommitPC
<1>4. TransInv
  BY DEF Init, TransInv, Running, SleeperHasWaker
<1>5. SpaceInv
  BY <1>2, FS_EmptySet, LogAssumption DEF Init, SpaceInv, Active
<1>6. PinInv
  BY DEF Init, PinInv, Running
<1>. QED BY <1>1, <1>3, <1>4, <1>5, <1>6 DEF IInv

-----------------------------------------------------------------------------
(* One lemma per action.                                                   *)

(* bget() recycling a clean, unpinned buffer. *)
LEMMA EvictIInv == ASSUME IInv, NEW b \in Blocks, Evict(b) PROVE IInv'
<1>. USE DEF Evict, diskVars
<1>1. TypeOK'
  BY DEF IInv, TypeOK
<1>2. CtlInv'
  BY DEF IInv, CtlInv, Active, Running
<1>3. TransInv'
  BY DEF IInv, TransInv, SleeperHasWaker, MustWait, Running
<1>4. SpaceInv'
  BY DEF IInv, SpaceInv, Tokens, TokensOf, Active, Entries
<1>5. PinInv'
  BY DEF IInv, PinInv, ToInstall, Entries, Running
<1>. QED BY <1>1, <1>2, <1>3, <1>4, <1>5 DEF IInv

(* begin_op(): the admission test is what keeps the reservation within LOGBLOCKS. *)
LEMMA BeginOpIInv == ASSUME IInv, NEW p \in Procs, BeginOp(p) PROVE IInv'
<1>. USE DEF BeginOp, diskVars
<1>1. ToInstall' = ToInstall
  BY DEF IInv, TypeOK, ToInstall, Entries
<1>2. PinInv'
  BY <1>1 DEF IInv, PinInv, Running
<1>3. CASE MustWait /\ pc' = [pc EXCEPT ![p] = "sleep"] /\ outstanding' = outstanding
  <2>1. TypeOK'
    BY <1>3 DEF IInv, TypeOK, RunPC
  <2>2. Active' = Active
    BY <1>3 DEF IInv, TypeOK, Active
  <2>3. CtlInv'
    BY <1>3, <2>2 DEF IInv, TypeOK, CtlInv, Running, CommitPC
  <2>4. TransInv'
    <3>1. committing \/ outstanding > 0
      BY <1>3, LogAssumption DEF IInv, TypeOK, TransInv, MustWait, Running
    <3>. QED BY <1>3, <3>1 DEF IInv, TypeOK, TransInv, SleeperHasWaker, MustWait, Running
  <2>5. SpaceInv'
    BY <1>3, <2>2 DEF IInv, TypeOK, SpaceInv, Tokens, TokensOf, Entries
  <2>. QED BY <1>2, <2>1, <2>3, <2>4, <2>5 DEF IInv
<1>4. CASE ~MustWait /\ pc' = [pc EXCEPT ![p] = "op"] /\ outstanding' = outstanding + 1
  <2>1. TypeOK'
    BY <1>4 DEF IInv, TypeOK, RunPC
  <2>2. Active' = Active \cup {p} /\ p \notin Active
    BY <1>4 DEF IInv, TypeOK, Active
  <2>3. Active \in SUBSET Procs /\ Active' \in SUBSET Procs
    BY DEF Active
  <2>4. Cardinality(Active') = outstanding + 1
    BY <2>2, <2>3, ActiveCard, FS_AddElement DEF IInv, CtlInv
  <2>5. CtlInv'
    BY <1>4, <2>2, <2>4 DEF IInv, TypeOK, CtlInv, Running, CommitPC, MustWait
  <2>6. TransInv'
    BY <1>4, LogAssumption DEF IInv, TypeOK, TransInv, SleeperHasWaker, MustWait, Running
  <2>7. SpaceInv'
    <3>1. Cardinality(Tokens') <= (outstanding + 1) * MAXOPBLOCKS /\ Cardinality(Tokens') \in Nat
      BY <2>3, <2>4, TokensCard DEF Tokens
    <3>2. Len(lh) + (outstanding + 1) * MAXOPBLOCKS <= LOGBLOCKS
      BY <1>4, LogAssumption DEF IInv, TypeOK, MustWait
    <3>3. Len(lh') + Cardinality(Tokens') <= LOGBLOCKS
      <4>1. (outstanding + 1) * MAXOPBLOCKS \in Nat
        BY LogAssumption DEF IInv, TypeOK
      <4>. QED BY <4>1, <3>1, <3>2, LogAssumption DEF IInv, TypeOK
    <3>. QED BY <1>4, <2>2, <3>3 DEF IInv, TypeOK, SpaceInv, Entries
  <2>. QED BY <1>2, <2>1, <2>5, <2>6, <2>7 DEF IInv
<1>. QED BY <1>3, <1>4

(* A change to a buffer inside an operation, before its log_write(). *)
LEMMA ModifyIInv ==
  ASSUME IInv, NEW p \in Procs, NEW b \in Blocks, NEW v \in Data, Modify(p, b, v)
  PROVE  IInv'
<1>. USE DEF Modify, diskVars
<1>1. TypeOK'
  BY DEF IInv, TypeOK, RunPC
<1>2. Active' = Active
  BY DEF IInv, TypeOK, Active
<1>3. ToInstall' = ToInstall
  BY DEF IInv, TypeOK, ToInstall, Entries
<1>4. CtlInv'
  BY <1>2, LogAssumption DEF IInv, TypeOK, CtlInv, Running, CommitPC
<1>5. TransInv'
  BY DEF IInv, TypeOK, TransInv, SleeperHasWaker, MustWait, Running
<1>6. SpaceInv'
  <2>1. Tokens' = Tokens
    BY <1>2 DEF Tokens, TokensOf
  <2>2. ASSUME NEW q \in Procs, pc'[q] = "held"
        PROVE  Cardinality(written'[q] \cup {held'[q]}) <= OpBlocks
    BY <2>2 DEF IInv, TypeOK, SpaceInv
  <2>. QED BY <1>2, <2>1, <2>2 DEF IInv, SpaceInv, Entries
<1>7. PinInv'
  BY <1>3 DEF IInv, PinInv, Running
<1>. QED BY <1>1, <1>4, <1>5, <1>6, <1>7 DEF IInv

\* The block a process is about to log takes one of its own reservations.
LEMMA HeldToken ==
  ASSUME IInv, NEW p \in Procs, pc[p] = "held", held[p] \notin Entries(lh)
  PROVE  /\ held[p] \notin written[p]
         /\ Cardinality(written[p]) \in Nat
         /\ <<p, Cardinality(written[p]) + 1>> \in Tokens
         /\ Len(lh) < LOGBLOCKS
<1>1. p \in Active /\ Active \in SUBSET Procs
  BY DEF Active
<1>2. held[p] \notin written[p]
  BY <1>1 DEF IInv, SpaceInv
<1>3. Cardinality(written[p]) \in Nat /\ Cardinality(written[p]) + 1 <= MAXOPBLOCKS
  <2>1. written[p] \in SUBSET Blocks
    BY DEF IInv, TypeOK
  <2>2. Cardinality(written[p] \cup {held[p]}) = Cardinality(written[p]) + 1
    BY <1>2, <2>1, WrittenCard
  <2>3. Cardinality(written[p]) \in Nat
    BY <2>1, WrittenCard
  <2>4. Cardinality(written[p] \cup {held[p]}) <= OpBlocks
    BY DEF IInv, SpaceInv
  <2>. QED BY <2>2, <2>3, <2>4, LogAssumption
<1>4. <<p, Cardinality(written[p]) + 1>> \in Tokens
  BY <1>1, <1>3, LogAssumption DEF Tokens, TokensOf
<1>5. IsFiniteSet(Tokens) /\ Cardinality(Tokens) \in Nat
  BY <1>1, TokensCard DEF Tokens
<1>6. Cardinality(Tokens) # 0
  BY <1>4, <1>5, FS_EmptySet
<1>. QED BY <1>2, <1>3, <1>4, <1>5, <1>6, LogAssumption DEF IInv, TypeOK, SpaceInv

(* log_write(): absorbed, or appended and pinned. *)
LEMMA LogWriteIInv == ASSUME IInv, NEW p \in Procs, LogWrite(p) PROVE IInv'
<1>. USE DEF LogWrite, diskVars
<1>1. Active \in SUBSET Procs /\ p \in Active
  BY DEF Active
<1>2. CASE LogWritePanics
  <2>1. TypeOK'
    BY <1>2 DEF IInv, TypeOK
  <2>2. Active' = Active /\ ToInstall' = ToInstall
    BY <1>2 DEF Active, ToInstall, Entries
  <2>3. CtlInv' /\ PinInv'
    BY <1>2, <2>2 DEF IInv, CtlInv, PinInv, Running
  <2>4. TransInv'
    BY <1>2 DEF IInv, TransInv, SleeperHasWaker, MustWait, Running
  <2>5. SpaceInv'
    BY <1>2, <2>2 DEF IInv, SpaceInv, Tokens, TokensOf, Entries
  <2>. QED BY <2>1, <2>3, <2>4, <2>5 DEF IInv
<1>3. CASE ~LogWritePanics
  <2>1. /\ held[p] \in Blocks
        /\ written' = [written EXCEPT ![p] = @ \cup {held[p]}]
        /\ held' = [held EXCEPT ![p] = NoBlock]
        /\ pc' = [pc EXCEPT ![p] = "op"]
        /\ machine' = machine
        /\ UNCHANGED <<disk, logblk, hdr, cache, outstanding, committing, tail>>
        /\ Record(held[p])
    BY <1>3 DEF IInv, TypeOK, CtlInv
  <2>. HIDE DEF LogWrite
  <2>2. Active' = Active
    BY <2>1, <1>1 DEF IInv, TypeOK, Active
  <2>3. \A q \in Procs : pc[q] \notin CommitPC
    BY <1>1 DEF IInv, CtlInv
  <2>4. \A q \in Procs : pc'[q] \notin CommitPC
    BY <2>1, <2>3 DEF IInv, TypeOK, CommitPC
  <2>5. ToInstall = Entries(lh) /\ ToInstall' = Entries(lh')
    BY <2>3, <2>4 DEF ToInstall, CommitPC
  <2>6. CtlInv'
    BY <2>1, <2>2, <2>3, <2>4, LogAssumption DEF IInv, TypeOK, CtlInv, Running
  <2>7. CASE held[p] \in Entries(lh) /\ lh' = lh /\ pin' = pin
    <3>1. TypeOK'
      BY <2>1, <2>7 DEF IInv, TypeOK, RunPC
    <3>2. TransInv'
      BY <2>1, <2>7 DEF IInv, TypeOK, TransInv, SleeperHasWaker, MustWait, Running
    <3>3. Entries(lh') = Entries(lh)
      BY <2>7
    <3>4. Tokens' \in SUBSET Tokens
      <4>1. ASSUME NEW q \in Procs
            PROVE  Cardinality(written[q]) <= Cardinality(written'[q])
        <5>1. written[q] \in SUBSET Blocks
          BY DEF IInv, TypeOK
        <5>2. written'[q] = written[q] \/ written'[q] = written[q] \cup {held[p]}
          BY <2>1 DEF IInv, TypeOK
        <5>3. Cardinality(written[q]) \in Nat
          BY <5>1, WrittenCard
        <5>4. Cardinality(written[q] \cup {held[p]}) \in {Cardinality(written[q]), Cardinality(written[q]) + 1}
          BY <5>1, WrittenCard
        <5>5. CASE written'[q] = written[q]
          BY <5>3, <5>5
        <5>6. CASE written'[q] = written[q] \cup {held[p]}
          BY <5>3, <5>4, <5>6
        <5>. QED BY <5>2, <5>5, <5>6
      <4>2. ASSUME NEW q \in Procs
            PROVE  Cardinality(written[q]) \in Nat /\ Cardinality(written'[q]) \in Nat
        BY <3>1, WrittenCard DEF IInv, TypeOK
      <4>. QED BY <4>1, <4>2, <2>2, <1>1, LogAssumption DEF Tokens, TokensOf
    <3>5. Cardinality(Tokens') <= Cardinality(Tokens)
          /\ Cardinality(Tokens') \in Nat /\ Cardinality(Tokens) \in Nat
      BY <1>1, <2>2, <3>4, TokensCard, FS_Subset DEF Tokens
    <3>6. SpaceInv'
      <4>1. Len(lh') + Cardinality(Tokens') <= LOGBLOCKS
        BY <3>5, <2>7, LogAssumption DEF IInv, TypeOK, SpaceInv
      <4>2. \A q \in Procs : written'[q] \subseteq IF q \in Active' THEN Entries(lh') ELSE {}
        BY <1>1, <2>1, <2>2, <2>7, <3>3 DEF IInv, TypeOK, SpaceInv
      <4>. QED BY <2>1, <4>1, <4>2 DEF IInv, TypeOK, SpaceInv
    <3>7. PinInv'
      BY <2>1, <2>5, <2>7, <3>3 DEF IInv, PinInv, Running
    <3>. QED BY <2>6, <3>1, <3>2, <3>6, <3>7 DEF IInv
  <2>8. CASE /\ held[p] \notin Entries(lh)
             /\ lh' = Append(lh, held[p])
             /\ pin' = [pin EXCEPT ![held[p]] = @ + 1]
    <3>1. TypeOK'
      BY <2>1, <2>8 DEF IInv, TypeOK, RunPC
    <3>2. Len(lh') = Len(lh) + 1 /\ Len(lh) \in Nat
      BY <2>1, <2>8 DEF IInv, TypeOK
    <3>3. Entries(lh') = Entries(lh) \cup {held[p]}
      BY <2>1, <2>8, EntriesAppend DEF IInv, TypeOK
    <3>4. pc[p] = "held"
      BY DEF LogWrite
    <3>5. outstanding > 0
      BY <1>1, ActiveCard, SMTT(20) DEF IInv, CtlInv, TypeOK
    <3>6. TransInv'
      <4>1. \A q \in Procs : pc'[q] = "sleep" => MustWait'
        BY <2>1, <2>8, <3>2, LogAssumption DEF IInv, TypeOK, TransInv, SleeperHasWaker, MustWait
      <4>. QED BY <2>1, <2>4, <3>2, <3>5, <4>1 DEF IInv, TypeOK, TransInv, SleeperHasWaker, Running, CommitPC
    <3>7. SpaceInv'
      <4>. DEFINE t == <<p, Cardinality(written[p]) + 1>>
      <4>1. t \in Tokens /\ held[p] \notin written[p] /\ Cardinality(written[p]) \in Nat
        BY <2>8, <3>4, HeldToken
      <4>2. Cardinality(written'[p]) = Cardinality(written[p]) + 1
        BY <2>1, <4>1, WrittenCard DEF IInv, TypeOK
      <4>3. Tokens' \in SUBSET (Tokens \ {t})
        BY <1>1, <2>1, <2>2, <4>1, <4>2, LogAssumption DEF IInv, TypeOK, Tokens, TokensOf
      <4>4. Cardinality(Tokens \ {t}) = Cardinality(Tokens) - 1 /\ IsFiniteSet(Tokens \ {t})
        <5>1. IsFiniteSet(Tokens)
          BY <1>1, TokensCard DEF Tokens
        <5>2. t \in Tokens
          BY <4>1
        <5>. HIDE DEF t
        <5>. QED BY <5>1, <5>2, FS_RemoveElement
      <4>5. Cardinality(Tokens') <= Cardinality(Tokens) - 1
            /\ Cardinality(Tokens') \in Nat /\ Cardinality(Tokens) \in Nat
        BY <1>1, <2>2, <4>3, <4>4, TokensCard, FS_Subset, ZenonT(30) DEF Tokens
      <4>6. Len(lh') + Cardinality(Tokens') <= LOGBLOCKS
        BY <3>2, <4>5, LogAssumption DEF IInv, SpaceInv
      <4>7. \A q \in Procs : written'[q] \subseteq IF q \in Active' THEN Entries(lh') ELSE {}
        BY <1>1, <2>1, <2>2, <3>3 DEF IInv, TypeOK, SpaceInv
      <4>. QED BY <2>1, <4>6, <4>7 DEF IInv, TypeOK, SpaceInv
    <3>8. PinInv'
      <4>1. machine = "up" /\ machine' = "up"
        BY <2>1 DEF LogWrite
      <4>2. \A i, j \in 1..Len(lh') : lh'[i] = lh'[j] => i = j
        BY <2>1, <2>8, <3>2 DEF IInv, TypeOK, PinInv, Entries
      <4>3. \A b \in Blocks : pin'[b] = IF b \in ToInstall' THEN 1 ELSE 0
        BY <2>1, <2>5, <2>8, <3>3, <4>1 DEF IInv, TypeOK, PinInv, Running
      <4>. QED BY <2>1, <4>1, <4>2, <4>3 DEF IInv, PinInv, Running
    <3>. QED BY <2>6, <3>1, <3>6, <3>7, <3>8 DEF IInv
  <2>. QED BY <2>1, <2>7, <2>8 DEF Record
<1>. QED BY <1>2, <1>3

(* end_op(): the last operation becomes the committer, the others only leave. *)
LEMMA EndOpIInv == ASSUME IInv, NEW p \in Procs, EndOp(p) PROVE IInv'
<1>. USE DEF EndOp, diskVars
<1>1. /\ Active \in SUBSET Procs /\ p \in Active
      /\ Active' \in SUBSET Procs
  BY DEF Active
<1>2. ~committing /\ machine' = "up" /\ \A q \in Procs : pc[q] \notin CommitPC
  BY <1>1 DEF IInv, CtlInv
<1>3. IsFiniteSet(Active) /\ outstanding = Cardinality(Active) /\ outstanding \in Nat \ {0}
  BY <1>1, ActiveCard DEF IInv, CtlInv
<1>4. Active' = Active \ {p}
  BY <1>2 DEF IInv, TypeOK, Active, Wakeup
<1>5. Cardinality(Active') = outstanding'
  BY <1>1, <1>3, <1>4, FS_RemoveElement
<1>6. Tokens' \in SUBSET Tokens
  BY <1>1, <1>4 DEF IInv, TypeOK, Tokens, TokensOf
<1>7. /\ Cardinality(Tokens') <= Cardinality(Tokens)
      /\ Cardinality(Tokens') \in Nat /\ Cardinality(Tokens) \in Nat
  BY <1>1, <1>6, TokensCard, FS_Subset DEF Tokens
<1>8. SpaceInv'
  <2>1. Len(lh') + Cardinality(Tokens') <= LOGBLOCKS
    BY <1>7, LogAssumption DEF IInv, TypeOK, SpaceInv
  <2>2. \A q \in Procs : written'[q] \subseteq IF q \in Active' THEN Entries(lh') ELSE {}
    BY <1>1, <1>4 DEF IInv, TypeOK, SpaceInv, Entries
  <2>3. \A q \in Procs : pc'[q] = "held" => pc[q] = "held" /\ q # p
    BY DEF IInv, TypeOK, Wakeup
  <2>. QED BY <2>1, <2>2, <2>3 DEF IInv, TypeOK, SpaceInv
<1>9. ToInstall = Entries(lh) /\ ToInstall' = Entries(lh')
  BY <1>2 DEF IInv, TypeOK, ToInstall, CommitPC, Wakeup
<1>10. PinInv'
  BY <1>2, <1>9 DEF IInv, PinInv, Running, Entries
<1>11. CASE outstanding = 1
  <2>1. TypeOK'
    BY <1>2, <1>11, SMTT(20) DEF IInv, TypeOK, RunPC, CommitPC
  <2>2. Active' = {}
    BY <1>1, <1>5, <1>11, ActiveCard DEF IInv, TypeOK
  <2>3. CtlInv'
    BY <1>2, <1>5, <1>11, <2>2 DEF IInv, TypeOK, CtlInv, Running, CommitPC
  <2>4. TransInv'
    BY <1>2, <1>11 DEF IInv, TypeOK, TransInv, SleeperHasWaker, MustWait, Running, CommitPC
  <2>. QED BY <1>8, <1>10, <2>1, <2>3, <2>4 DEF IInv
<1>12. CASE outstanding # 1
  <2>1. outstanding' \in Nat \ {0}
    BY <1>3, <1>12
  <2>2. TypeOK'
    BY <1>2, <1>12, <2>1 DEF IInv, TypeOK, RunPC, Wakeup
  <2>3. \A q \in Procs : pc'[q] \notin CommitPC /\ pc'[q] # "sleep"
    BY <1>2, <1>12 DEF IInv, TypeOK, Wakeup, CommitPC
  <2>4. \A q \in Procs : pc'[q] = "held" <=> pc[q] = "held"
    BY <1>12 DEF IInv, TypeOK, Wakeup
  <2>5. CtlInv'
    BY <1>2, <1>5, <1>12, <2>3, <2>4 DEF IInv, CtlInv, Running
  <2>6. TransInv'
    BY <1>2, <2>1, <2>3 DEF TransInv, SleeperHasWaker, CommitPC
  <2>. QED BY <1>8, <1>10, <2>2, <2>5, <2>6 DEF IInv
<1>. QED BY <1>11, <1>12

\* While a process commits, no operation is active and it is the only one.
LEMMA CommitterAlone ==
  ASSUME IInv, NEW p \in Procs, pc[p] \in CommitPC
  PROVE  /\ committing /\ Active = {} /\ outstanding = 0
         /\ \A q \in Procs \ {p} : pc[q] \notin CommitPC
         /\ machine \in {"up", "panic"}
BY FS_EmptySet DEF IInv, CtlInv, CommitPC, Running

(* One bwrite() of write_log(). *)
LEMMA WriteLogIInv == ASSUME IInv, NEW p \in Procs, WriteLog(p) PROVE IInv'
<1>. USE DEF WriteLog, At, Goto, diskVars
<1>1. /\ committing /\ Active = {} /\ outstanding = 0
      /\ \A q \in Procs \ {p} : pc[q] \notin CommitPC
  BY CommitterAlone DEF CommitPC
<1>2. TypeOK'
  <2>1. tail < Len(lh) => Bread(lh[tail + 1]) \in Data
    BY DEF IInv, TypeOK, Bread
  <2>2. logblk' \in [1..LOGBLOCKS -> Data] /\ tail' \in Nat
    BY <2>1 DEF IInv, TypeOK
  <2>3. pc' \in [Procs -> RunPC \cup CommitPC]
    BY DEF IInv, TypeOK, CommitPC
  <2>. QED BY <2>2, <2>3 DEF IInv, TypeOK
<1>3. Active' = {} /\ Tokens' = Tokens
  BY <1>1 DEF IInv, TypeOK, Active, Tokens, TokensOf
<1>4. CtlInv'
  BY <1>1, <1>3 DEF IInv, TypeOK, CtlInv, Running, CommitPC
<1>5. TransInv'
  BY <1>1 DEF IInv, TypeOK, TransInv, SleeperHasWaker, MustWait, Running, CommitPC
<1>6. SpaceInv'
  BY <1>1, <1>3 DEF IInv, TypeOK, SpaceInv, Entries
<1>7. ToInstall' = ToInstall
  BY <1>1 DEF IInv, TypeOK, ToInstall, Entries, CommitPC
<1>8. PinInv'
  BY <1>7 DEF IInv, PinInv, Running
<1>. QED BY <1>2, <1>4, <1>5, <1>6, <1>8 DEF IInv

(* write_head() of commit(): the commit point. *)
LEMMA WriteHeadIInv == ASSUME IInv, NEW p \in Procs, WriteHead(p) PROVE IInv'
<1>. USE DEF WriteHead, At, Goto, diskVars
<1>1. /\ committing /\ Active = {} /\ outstanding = 0
      /\ \A q \in Procs \ {p} : pc[q] \notin CommitPC
  BY CommitterAlone DEF CommitPC
<1>2. TypeOK'
  BY DEF IInv, TypeOK, RunPC, CommitPC
<1>3. Active' = {} /\ Tokens' = Tokens
  BY <1>1 DEF IInv, TypeOK, Active, Tokens, TokensOf
<1>4. CtlInv'
  BY <1>1, <1>3 DEF IInv, TypeOK, CtlInv, Running, CommitPC
<1>5. TransInv'
  BY <1>1 DEF IInv, TypeOK, TransInv, SleeperHasWaker, MustWait, Running, CommitPC
<1>6. SpaceInv'
  <2>1. Cardinality(Tokens) \in Nat
    BY <1>1, TokensCard DEF Tokens, Active
  <2>. QED BY <1>1, <1>3, <2>1, LogAssumption DEF IInv, TypeOK, SpaceInv, Entries
<1>7. ToInstall = Entries(lh) /\ ToInstall' = Entries(lh)
  BY <1>1 DEF IInv, TypeOK, TransInv, ToInstall, Entries, CommitPC
<1>8. PinInv'
  BY <1>7 DEF IInv, PinInv, Running
<1>. QED BY <1>2, <1>4, <1>5, <1>6, <1>8 DEF IInv

\* The entry that install_trans() copies next, in a commit or in a recovery.
LEMMA CopyHomeType ==
  ASSUME IInv, tail < Len(lh), CopyHome
  PROVE  /\ lh[tail + 1] \in Blocks /\ tail + 1 \in 1..Len(lh) /\ tail + 1 \in 1..LOGBLOCKS
         /\ disk' \in [Blocks -> Data] /\ cache' \in [Blocks -> Data \cup {NoData}]
         /\ tail' = tail + 1 /\ tail' \in Nat
<1>1. Len(lh) <= LOGBLOCKS /\ Len(lh) \in Nat /\ tail \in Nat
  <2>1. Cardinality(Tokens) \in Nat
    BY TokensCard DEF Tokens, Active
  <2>. QED BY <2>1, LogAssumption DEF IInv, TypeOK, SpaceInv
<1>2. tail + 1 \in 1..Len(lh) /\ tail + 1 \in 1..LOGBLOCKS
  BY <1>1, LogAssumption
<1>3. lh[tail + 1] \in Blocks /\ logblk[tail + 1] \in Data
  BY <1>2 DEF IInv, TypeOK
<1>. QED BY <1>1, <1>2, <1>3 DEF IInv, TypeOK, CopyHome

(* One block of install_trans(), with its bunpin(). *)
LEMMA InstallIInv == ASSUME IInv, NEW p \in Procs, Install(p) PROVE IInv'
<1>. USE DEF Install, At, Goto
<1>1. /\ committing /\ Active = {} /\ outstanding = 0
      /\ \A q \in Procs \ {p} : pc[q] \notin CommitPC
  BY CommitterAlone DEF CommitPC
<1>2. ToInstall = {lh[i] : i \in tail + 1..Len(lh)}
  BY DEF ToInstall
<1>3. CASE tail < Len(lh) /\ CopyHome /\ pin' = [pin EXCEPT ![lh[tail + 1]] = @ - 1] /\ pc' = pc
  <2>. DEFINE b == lh[tail + 1]
  <2>1. /\ b \in Blocks /\ tail + 1 \in 1..Len(lh)
        /\ disk' \in [Blocks -> Data] /\ cache' \in [Blocks -> Data \cup {NoData}]
        /\ tail' = tail + 1 /\ tail' \in Nat
    BY <1>3, CopyHomeType
  <2>2. pin[b] = 1
    BY <1>2, <2>1 DEF IInv, TypeOK, PinInv, Running
  <2>3. TypeOK'
    <3>1. pin' \in [Blocks -> Nat]
      BY <1>3, <2>1, <2>2 DEF IInv, TypeOK
    <3>. QED BY <1>3, <2>1, <3>1 DEF IInv, TypeOK
  <2>4. Active' = Active
    BY <1>3 DEF Active
  <2>5. CtlInv'
    BY <1>3, <2>4 DEF IInv, CtlInv, Running
  <2>6. TransInv'
    BY <1>1, <1>3, <2>1 DEF IInv, TypeOK, TransInv, SleeperHasWaker, MustWait, Running, CommitPC
  <2>7. SpaceInv'
    BY <1>3, <2>4 DEF IInv, SpaceInv, Tokens, TokensOf, Entries
  <2>8. ToInstall' = ToInstall \ {b}
    <3>1. ToInstall' = {lh[i] : i \in tail + 2..Len(lh)}
      BY <1>3, <2>1 DEF IInv, TypeOK, ToInstall
    <3>2. \A i \in 1..Len(lh) : lh[i] = b => i = tail + 1
      BY <2>1 DEF IInv, PinInv
    <3>3. tail \in Nat /\ Len(lh) \in Nat
      BY DEF IInv, TypeOK
    <3>. QED BY <1>2, <2>1, <3>1, <3>2, <3>3
  <2>9. PinInv'
    BY <1>3, <2>1, <2>2, <2>8 DEF IInv, TypeOK, PinInv, Running
  <2>. QED BY <2>3, <2>5, <2>6, <2>7, <2>9 DEF IInv
<1>4. CASE /\ tail >= Len(lh) /\ tail' = 0
           /\ pc' = [pc EXCEPT ![p] = "clear_head"]
           /\ UNCHANGED <<disk, cache, pin>>
  <2>1. TypeOK'
    BY <1>4 DEF IInv, TypeOK, CommitPC
  <2>2. Active' = {} /\ Tokens' = Tokens
    BY <1>1, <1>4 DEF IInv, TypeOK, Active, Tokens, TokensOf
  <2>3. CtlInv'
    BY <1>1, <1>4, <2>2 DEF IInv, TypeOK, CtlInv, Running, CommitPC
  <2>4. TransInv'
    BY <1>1, <1>4 DEF IInv, TypeOK, TransInv, SleeperHasWaker, MustWait, Running, CommitPC
  <2>5. SpaceInv'
    BY <1>1, <1>4, <2>2 DEF IInv, TypeOK, SpaceInv, Entries
  <2>6. ToInstall = {}
    BY <1>2, <1>4 DEF IInv, TypeOK
  <2>7. ToInstall' = {}
    BY <1>1, <1>4 DEF IInv, TypeOK, ToInstall, CommitPC
  <2>8. PinInv'
    BY <1>4, <2>6, <2>7 DEF IInv, PinInv, Running
  <2>. QED BY <2>1, <2>3, <2>4, <2>5, <2>8 DEF IInv
<1>. QED BY <1>3, <1>4

(* The second write_head(), which erases the transaction. *)
LEMMA ClearHeadIInv == ASSUME IInv, NEW p \in Procs, ClearHead(p) PROVE IInv'
<1>. USE DEF ClearHead, At, Goto
<1>1. /\ committing /\ Active = {} /\ outstanding = 0
      /\ \A q \in Procs \ {p} : pc[q] \notin CommitPC
  BY CommitterAlone DEF CommitPC
<1>2. TypeOK'
  <2>1. <<>> \in Seq(Blocks)
    OBVIOUS
  <2>. QED BY <2>1 DEF IInv, TypeOK, CommitPC
<1>3. Active' = {} /\ Tokens' = {}
  BY <1>1 DEF IInv, TypeOK, Active, Tokens, TokensOf
<1>4. CtlInv'
  BY <1>1, <1>3 DEF IInv, TypeOK, CtlInv, Running, CommitPC
<1>5. TransInv'
  BY <1>1 DEF IInv, TypeOK, TransInv, SleeperHasWaker, MustWait, Running, CommitPC
<1>6. SpaceInv'
  <2>1. \A q \in Procs : written'[q] = {}
    BY <1>1 DEF IInv, SpaceInv
  <2>2. \A q \in Procs : pc'[q] # "held"
    BY <1>3 DEF Active
  <2>3. Len(lh') + Cardinality(Tokens') = 0
    BY <1>3, FS_EmptySet
  <2>. QED BY <2>1, <2>2, <2>3, LogAssumption DEF SpaceInv
<1>7. ToInstall = {}
  BY <1>1 DEF ToInstall, CommitPC
<1>8. ToInstall' = {}
  BY <1>1 DEF IInv, TypeOK, ToInstall, Entries, CommitPC
<1>9. PinInv'
  BY <1>7, <1>8 DEF IInv, PinInv, Running
<1>. QED BY <1>2, <1>4, <1>5, <1>6, <1>9 DEF IInv

(* The end of end_op() after commit(). *)
LEMMA FinishIInv == ASSUME IInv, NEW p \in Procs, Finish(p) PROVE IInv'
<1>. USE DEF Finish, At, diskVars
<1>1. /\ committing /\ Active = {} /\ outstanding = 0
      /\ \A q \in Procs \ {p} : pc[q] \notin CommitPC
  BY CommitterAlone DEF CommitPC
<1>2. TypeOK'
  BY DEF IInv, TypeOK, RunPC, Wakeup
<1>3. Active' = {} /\ Tokens' = Tokens
  BY <1>1 DEF IInv, TypeOK, Active, Tokens, TokensOf, Wakeup
<1>4. \A q \in Procs : pc'[q] \notin CommitPC /\ pc'[q] # "sleep" /\ pc'[q] # "held" /\ pc[q] # "held"
  BY <1>1 DEF IInv, TypeOK, CommitPC, Wakeup, Active
<1>5. CtlInv'
  BY <1>1, <1>3, <1>4 DEF IInv, TypeOK, CtlInv, Running
<1>6. lh' = <<>>
  BY DEF IInv, TransInv
<1>7. TransInv'
  BY <1>1, <1>4, <1>6 DEF IInv, TransInv, SleeperHasWaker, Running, CommitPC
<1>8. SpaceInv'
  BY <1>1, <1>3, <1>4 DEF IInv, TypeOK, SpaceInv, Entries
<1>9. ToInstall' = ToInstall
  BY <1>1, <1>4 DEF ToInstall, Entries, CommitPC
<1>10. PinInv'
  BY <1>9 DEF IInv, PinInv, Running
<1>. QED BY <1>2, <1>5, <1>7, <1>8, <1>10 DEF IInv

(* A crash keeps the disk and loses everything else. *)
LEMMA CrashIInv == ASSUME IInv, Crash PROVE IInv'
<1>. USE DEF Crash, diskVars
<1>1. TypeOK'
  <2>1. <<>> \in Seq(Blocks)
    OBVIOUS
  <2>. QED BY <2>1 DEF IInv, TypeOK, RunPC
<1>2. Active' = {} /\ Tokens' = {}
  BY DEF Active, Tokens, TokensOf
<1>3. CtlInv'
  BY <1>2, FS_EmptySet, LogAssumption DEF CtlInv, CommitPC
<1>4. TransInv'
  BY DEF TransInv, SleeperHasWaker, Running
<1>5. SpaceInv'
  BY <1>2, FS_EmptySet, LogAssumption DEF IInv, SpaceInv
<1>6. PinInv'
  BY DEF IInv, PinInv, Running
<1>. QED BY <1>1, <1>3, <1>4, <1>5, <1>6 DEF IInv

\* During recovery no process is in an operation.
LEMMA RecoveryIdle ==
  ASSUME IInv, ~Running
  PROVE  /\ Active = {} /\ outstanding = 0 /\ Tokens = {}
         /\ \A p \in Procs : pc[p] = "idle" /\ written[p] = {}
<1>1. \A p \in Procs : pc[p] = "idle"
  BY DEF IInv, CtlInv
<1>2. Active = {}
  BY <1>1 DEF Active
<1>. QED BY <1>1, <1>2, FS_EmptySet DEF IInv, CtlInv, SpaceInv, Tokens, TokensOf

(* The steps of recover_from_log(). *)
LEMMA RecoveryIInv ==
  ASSUME IInv, ReadHead \/ Recover \/ ClearLog PROVE IInv'
<1>1. ~Running
  BY DEF ReadHead, Recover, ClearLog, Running
<1>2. /\ Active = {} /\ outstanding = 0 /\ Tokens = {}
      /\ \A p \in Procs : pc[p] = "idle" /\ written[p] = {}
  BY <1>1, RecoveryIdle
<1>3. UNCHANGED <<pc, held, written, outstanding, committing, pin, logblk>>
  BY DEF ReadHead, Recover, ClearLog, diskVars
<1>4. Active' = {} /\ Tokens' = {}
  BY <1>2, <1>3 DEF Active, Tokens, TokensOf
<1>5. CtlInv'
  BY <1>2, <1>3, <1>4 DEF IInv, CtlInv
<1>6. ~committing \/ \A p \in Procs : pc[p] # "sleep"
  BY <1>2
<1>7. CASE ReadHead
  <2>. USE <1>7 DEF ReadHead, diskVars
  <2>1. TypeOK'
    BY DEF IInv, TypeOK
  <2>2. TransInv'
    BY <1>2 DEF IInv, TypeOK, TransInv, SleeperHasWaker, Running
  <2>3. SpaceInv'
    BY <1>2, <1>4, FS_EmptySet DEF IInv, TypeOK, SpaceInv
  <2>4. PinInv'
    BY <1>1 DEF IInv, PinInv, Running
  <2>. QED BY <1>5, <2>1, <2>2, <2>3, <2>4 DEF IInv
<1>8. CASE Recover
  <2>. USE <1>8 DEF Recover
  <2>1. TypeOK'
    <3>1. CASE tail < Len(lh) /\ CopyHome
      BY <3>1, <1>3, CopyHomeType DEF IInv, TypeOK
    <3>2. CASE tail >= Len(lh)
      BY <3>2, <1>3 DEF IInv, TypeOK
    <3>. QED BY <3>1, <3>2
  <2>2. TransInv'
    BY <1>2 DEF IInv, TypeOK, TransInv, SleeperHasWaker, Running, CopyHome
  <2>3. SpaceInv'
    BY <1>2, <1>4 DEF IInv, TypeOK, SpaceInv
  <2>4. PinInv'
    BY <1>1 DEF IInv, PinInv, Running
  <2>. QED BY <1>5, <2>1, <2>2, <2>3, <2>4 DEF IInv
<1>9. CASE ClearLog
  <2>. USE <1>9 DEF ClearLog
  <2>1. TypeOK'
    <3>1. <<>> \in Seq(Blocks)
      OBVIOUS
    <3>. QED BY <3>1 DEF IInv, TypeOK
  <2>2. TransInv'
    BY <1>2 DEF IInv, TypeOK, TransInv, SleeperHasWaker, Running
  <2>3. SpaceInv'
    BY <1>2, <1>4, FS_EmptySet, LogAssumption DEF SpaceInv
  <2>4. ToInstall' = {}
    BY <1>2 DEF ToInstall, Entries
  <2>5. PinInv'
    BY <1>1, <2>4 DEF IInv, PinInv, Running
  <2>. QED BY <1>5, <2>1, <2>2, <2>3, <2>5 DEF IInv
<1>. QED BY <1>7, <1>8, <1>9

(* A step that changes nothing. *)
LEMMA StutterIInv == ASSUME IInv, UNCHANGED vars PROVE IInv'
<1>. USE DEF vars
<1>1. TypeOK'
  BY DEF IInv, TypeOK
<1>2. CtlInv' /\ TransInv'
  BY DEF IInv, CtlInv, TransInv, SleeperHasWaker, MustWait, Active, Running
<1>3. SpaceInv' /\ PinInv'
  BY DEF IInv, SpaceInv, PinInv, ToInstall, Tokens, TokensOf, Active, Entries, Running
<1>. QED BY <1>1, <1>2, <1>3 DEF IInv

-----------------------------------------------------------------------------
(* The theorems.                                                           *)

\* IInv is an invariant of the log: what the other theorems rest on.
THEOREM LogIInv == Spec => []IInv
<1>1. ASSUME IInv, [Next]_vars PROVE IInv'
  <2>1. ASSUME NEW b \in Blocks, Evict(b) PROVE IInv'
    BY <1>1, <2>1, EvictIInv
  <2>2. ASSUME NEW p \in Procs, BeginOp(p) \/ LogWrite(p) \/ EndOp(p) PROVE IInv'
    BY <1>1, <2>2, BeginOpIInv, LogWriteIInv, EndOpIInv
  <2>3. ASSUME NEW p \in Procs, NEW b \in Blocks, NEW v \in Data, Modify(p, b, v) PROVE IInv'
    BY <1>1, <2>3, ModifyIInv
  <2>4. ASSUME NEW p \in Procs, Committer(p) PROVE IInv'
    BY <1>1, <2>4, WriteLogIInv, WriteHeadIInv, InstallIInv, ClearHeadIInv, FinishIInv
       DEF Committer
  <2>5. CASE ReadHead \/ Recover \/ ClearLog
    BY <1>1, <2>5, RecoveryIInv
  <2>6. CASE Crash
    BY <1>1, <2>6, CrashIInv
  <2>7. CASE UNCHANGED vars
    BY <1>1, <2>7, StutterIInv
  <2>. QED BY <1>1, <2>1, <2>2, <2>3, <2>4, <2>5, <2>6, <2>7 DEF Next
<1>. QED BY <1>1, InitIInv, PTL DEF Spec

\* Every variable keeps its type; in particular log.outstanding and the pin
\* counts never go below zero.
THEOREM LogTypeOK == Spec => []TypeOK
<1>1. IInv => TypeOK
  BY DEF IInv
<1>. QED BY <1>1, LogIInv, PTL

\* begin_op()'s reservation suffices for every new block of every admitted
\* operation, whatever the interleaving of operations, commits and crashes.
THEOREM LogSpaceHolds == Spec => []LogSpace
<1>1. IInv => LogSpace
  <2>. SUFFICES ASSUME IInv PROVE LogSpace
    OBVIOUS
  <2>1. Cardinality(Tokens) \in Nat
    BY TokensCard DEF Tokens, Active
  <2>2. Len(lh) <= LOGBLOCKS
    BY <2>1, LogAssumption DEF IInv, TypeOK, SpaceInv
  <2>. QED BY <2>2, HeldToken DEF LogSpace
<1>. QED BY <1>1, LogIInv, PTL

\* commit() runs while no other process is in an operation or in commit().
THEOREM CommitAloneHolds == Spec => []CommitAlone
<1>1. IInv => CommitAlone
  <2>. SUFFICES ASSUME IInv, NEW p \in Procs, pc[p] \in CommitPC
               PROVE  /\ committing /\ outstanding = 0
                      /\ \A q \in Procs \ {p} : pc[q] \in {"idle", "begin", "sleep"}
    BY DEF CommitAlone
  <2>1. \A q \in Procs : pc[q] \notin {"op", "held"}
    BY CommitterAlone DEF Active
  <2>. QED BY <2>1, CommitterAlone DEF IInv, TypeOK, RunPC
<1>. QED BY <1>1, LogIInv, PTL

\* No process sleeps in begin_op() without a reason and without a waker.
THEOREM SleeperHasWakerHolds == Spec => []SleeperHasWaker
<1>1. IInv => SleeperHasWaker
  BY DEF IInv, TransInv
<1>. QED BY <1>1, LogIInv, PTL

\* log_write() pins each buffer of the transaction once and install_trans()
\* unpins it once.
THEOREM PinsMatchLogHolds == Spec => []PinsMatchLog
<1>1. IInv => PinsMatchLog
  BY DEF IInv, PinInv, PinsMatchLog, Running
<1>. QED BY <1>1, LogIInv, PTL

\* An operation that writes fewer than MAXOPBLOCKS distinct blocks never meets
\* a panic of log_write() or end_op().
THEOREM NoPanicHolds ==
  ASSUME OpBlocks < MAXOPBLOCKS
  PROVE  Spec => []NoPanic
<1>1. Init => NoPanic
  BY DEF Init, NoPanic
<1>2. ASSUME IInv, NoPanic, [Next]_vars PROVE NoPanic'
  <2>1. ASSUME NEW p \in Procs, LogWrite(p) PROVE NoPanic'
    <3>1. p \in Active /\ Active \in SUBSET Procs /\ pc[p] = "held"
      BY <2>1 DEF LogWrite, Active
    <3>2. Cardinality(written[p]) \in Nat /\ Cardinality(written[p]) < MAXOPBLOCKS
      <4>1. written[p] \in SUBSET Blocks
        BY <1>2 DEF IInv, TypeOK
      <4>2. Cardinality(written[p]) \in Nat
        BY <4>1, WrittenCard
      <4>3. Cardinality(written[p] \cup {held[p]}) \in {Cardinality(written[p]), Cardinality(written[p]) + 1}
        BY <4>1, WrittenCard
      <4>4. Cardinality(written[p] \cup {held[p]}) <= OpBlocks
        BY <1>2, <3>1 DEF IInv, SpaceInv
      <4>. QED BY <4>2, <4>3, <4>4, LogAssumption
    <3>3. <<p, MAXOPBLOCKS>> \in Tokens
      BY <3>1, <3>2, LogAssumption DEF Tokens, TokensOf
    <3>4. IsFiniteSet(Tokens) /\ Cardinality(Tokens) \in Nat
      BY <3>1, TokensCard DEF Tokens
    <3>5. Cardinality(Tokens) # 0
      BY <3>3, <3>4, FS_EmptySet
    <3>6. Len(lh) < LOGBLOCKS
      BY <1>2, <3>4, <3>5, LogAssumption DEF IInv, TypeOK, SpaceInv
    <3>7. outstanding >= 1
      BY <1>2, <3>1, ActiveCard, SMTT(20) DEF IInv, CtlInv, TypeOK
    <3>8. ~LogWritePanics
      BY <1>2, <3>6, <3>7, LogAssumption DEF LogWritePanics, IInv, TypeOK
    <3>. QED BY <1>2, <2>1, <3>8 DEF LogWrite, NoPanic
  <2>2. ASSUME NEW p \in Procs, EndOp(p) PROVE NoPanic'
    BY <1>2, <2>2 DEF EndOp, NoPanic, IInv, CtlInv, Active
  <2>3. ASSUME NEW p \in Procs, Committer(p) \/ BeginOp(p) PROVE NoPanic'
    BY <1>2, <2>3 DEF Committer, BeginOp, WriteLog, WriteHead, Install, ClearHead, Finish, NoPanic
  <2>4. ASSUME NEW p \in Procs, NEW b \in Blocks, NEW v \in Data, Modify(p, b, v)
        PROVE  NoPanic'
    BY <1>2, <2>4 DEF Modify, NoPanic
  <2>5. CASE ReadHead \/ Recover \/ ClearLog \/ Crash
    BY <1>2, <2>5 DEF ReadHead, Recover, ClearLog, Crash, NoPanic
  <2>6. ASSUME NEW b \in Blocks, Evict(b) PROVE NoPanic'
    BY <1>2, <2>6 DEF Evict, NoPanic
  <2>. QED BY <1>2, <2>1, <2>2, <2>3, <2>4, <2>5, <2>6 DEF Next, vars, NoPanic
<1>. QED BY <1>1, <1>2, LogIInv, PTL DEF Spec

-----------------------------------------------------------------------------
(* The log implements AtomicDisk: the invariant of the stored data, and the *)
(* proof of CrashAtomic.                                                    *)

\* Which header is on the disk.
HdrInv ==
  /\ Running /\ (\A p \in Procs : pc[p] \notin {"install", "clear_head"}) => hdr = <<>>
  /\ \A p \in Procs : pc[p] \in {"install", "clear_head"} => hdr = lh
  /\ machine \in {"recover", "recovered"} => hdr = lh

\* Where the only copy of a block is: what is not about to be installed and is
\* not being modified is the same in the cache and on the disk.
CacheInv ==
  /\ Running => \A b \in ToInstall : cache[b] # NoData
  /\ \A p \in Procs : held[p] # NoBlock => cache[held[p]] # NoData
  /\ \A b \in Blocks :
       \/ cache[b] \in {NoData, disk[b]}
       \/ Running /\ b \in ToInstall
       \/ Locked(b)

\* How far write_log() and install_trans() have come.
CopyInv ==
  /\ \A p \in Procs :
       /\ pc[p] = "write_log" => \A i \in 1..tail : logblk[i] = Bread(lh[i])
       /\ pc[p] \in {"write_head", "install"} =>
            \A i \in 1..Len(lh) : logblk[i] = Bread(lh[i])
       /\ pc[p] = "install" => \A i \in 1..tail : disk[lh[i]] = logblk[i]
       /\ pc[p] = "clear_head" => \A i \in 1..Len(lh) : disk[lh[i]] = logblk[i]
  /\ machine = "recover" => \A i \in 1..tail : disk[lh[i]] = logblk[i]
  /\ machine = "recovered" => \A i \in 1..Len(lh) : disk[lh[i]] = logblk[i]

StoreInv == HdrInv /\ CacheInv /\ CopyInv

IStore == IInv /\ StoreInv

-----------------------------------------------------------------------------
(* A block has one slot in the log: the absorption of log_write(). *)
LEMMA SlotUnique ==
  ASSUME NEW h \in Seq(Blocks), \A i, j \in 1..Len(h) : h[i] = h[j] => i = j,
         NEW k \in 1..Len(h)
  PROVE  (CHOOSE i \in 1..Len(h) : h[i] = h[k]) = k
OBVIOUS

\* RedoOf, entry by entry.
LEMMA RedoEntry ==
  ASSUME NEW h \in Seq(Blocks), \A i, j \in 1..Len(h) : h[i] = h[j] => i = j, NEW l, NEW d
  PROVE  /\ \A k \in 1..Len(h) : RedoOf(h, l, d)[h[k]] = l[k]
         /\ \A b \in Blocks \ Entries(h) : RedoOf(h, l, d)[b] = d[b]
<1>1. ASSUME NEW k \in 1..Len(h) PROVE RedoOf(h, l, d)[h[k]] = l[k]
  <2>1. h[k] \in Blocks /\ h[k] \in Entries(h)
    BY DEF Entries
  <2>. QED BY <2>1, SlotUnique DEF RedoOf
<1>. QED BY <1>1 DEF RedoOf

(* Redoing an empty log leaves the disk alone. *)
LEMMA RedoEmpty == ASSUME NEW l, NEW d \in [Blocks -> Data] PROVE RedoOf(<<>>, l, d) = d
BY DEF RedoOf, Entries

\* If every entry of the header is already at home, replaying it changes nothing.
LEMMA RedoInstalled ==
  ASSUME NEW h \in Seq(Blocks), \A i, j \in 1..Len(h) : h[i] = h[j] => i = j, NEW l,
         NEW d \in [Blocks -> Data], \A k \in 1..Len(h) : d[h[k]] = l[k]
  PROVE  RedoOf(h, l, d) = d
<1>1. ASSUME NEW b \in Blocks PROVE RedoOf(h, l, d)[b] = d[b]
  <2>1. CASE b \in Entries(h)
    <3>1. PICK k \in 1..Len(h) : b = h[k]
      BY <2>1 DEF Entries
    <3>. QED BY <3>1, RedoEntry
  <2>2. CASE b \notin Entries(h)
    BY <2>2, RedoEntry
  <2>. QED BY <2>1, <2>2
<1>. QED BY <1>1 DEF RedoOf

\* Copying one entry home does not change what a replay yields.
LEMMA RedoCopy ==
  ASSUME NEW h \in Seq(Blocks), \A i, j \in 1..Len(h) : h[i] = h[j] => i = j, NEW l,
         NEW d \in [Blocks -> Data]
  PROVE  \A k \in 1..Len(h) : RedoOf(h, l, [d EXCEPT ![h[k]] = l[k]]) = RedoOf(h, l, d)
<1>. SUFFICES ASSUME NEW k \in 1..Len(h)
              PROVE  RedoOf(h, l, [d EXCEPT ![h[k]] = l[k]]) = RedoOf(h, l, d)
  OBVIOUS
<1>. QED BY DEF RedoOf, Entries

(* RedoCopy for the header in memory. *)
LEMMA RedoInstall ==
  ASSUME IStore
  PROVE  \A n \in 1..Len(lh) :
           RedoOf(lh, logblk, [disk EXCEPT ![lh[n]] = logblk[n]]) = RedoOf(lh, logblk, disk)
<1>1. /\ lh \in Seq(Blocks) /\ \A i, j \in 1..Len(lh) : lh[i] = lh[j] => i = j
      /\ disk \in [Blocks -> Data]
  BY DEF IStore, IInv, TypeOK, PinInv
<1>. QED BY <1>1, RedoCopy

(* The storage invariant holds after boot. *)
LEMMA InitStore == Init => IStore
<1>. SUFFICES ASSUME Init PROVE StoreInv
  BY InitIInv DEF IStore
<1>1. HdrInv
  BY DEF Init, HdrInv, Running
<1>2. CacheInv
  BY DEF Init, CacheInv, Running
<1>3. CopyInv
  BY DEF Init, CopyInv
<1>. QED BY <1>1, <1>2, <1>3 DEF StoreInv

\* bget() recycles only buffers whose contents are on the disk.
LEMMA EvictStore ==
  ASSUME IStore, NEW b \in Blocks, Evict(b)
  PROVE  StoreInv' /\ View' = View /\ Redo' = Redo /\ Active' = Active
<1>. USE DEF Evict, diskVars
<1>1. ToInstall' = ToInstall /\ \A c \in Blocks : Locked(c)' = Locked(c)
  BY DEF ToInstall, Entries, Locked
<1>2. ~(Running /\ b \in ToInstall)
  BY DEF IStore, IInv, PinInv
<1>3. cache[b] = disk[b]
  BY <1>2 DEF IStore, StoreInv, CacheInv
<1>4. \A c \in Blocks : Bread(c)' = Bread(c)
  BY <1>3 DEF Bread, IStore, IInv, TypeOK
<1>5. HdrInv'
  BY DEF IStore, StoreInv, HdrInv, Running
<1>6. CacheInv'
  BY <1>1, <1>2 DEF IStore, IInv, TypeOK, StoreInv, CacheInv, Running, Locked
<1>7. CopyInv'
  <2>1. \A i \in 1..Len(lh) : lh[i] \in Blocks /\ Bread(lh[i])' = Bread(lh[i])
    BY <1>3 DEF Bread, IStore, IInv, TypeOK
  <2>2. \A p \in Procs : pc[p] = "write_log" => \A i \in 1..tail : i \in 1..Len(lh)
    BY DEF IStore, IInv, TypeOK, TransInv
  <2>. QED BY <2>1, <2>2 DEF IStore, StoreInv, CopyInv
<1>8. Redo' = Redo /\ Active' = Active
  BY DEF Redo, Active
<1>9. View' = View
  BY <1>4, <1>8 DEF View
<1>. QED BY <1>5, <1>6, <1>7, <1>8, <1>9 DEF StoreInv

(* begin_op() is a stutter or the start of an operation of AtomicDisk. *)
LEMMA BeginOpStore ==
  ASSUME IStore, NEW p \in Procs, BeginOp(p)
  PROVE  /\ StoreInv' /\ View' = View /\ Redo' = Redo
         /\ Active' = Active \/ (p \notin Active /\ Active' = Active \cup {p})
<1>. USE DEF BeginOp, diskVars
<1>1. ToInstall' = ToInstall /\ \A c \in Blocks : Locked(c)' = Locked(c)
  BY DEF IStore, IInv, TypeOK, ToInstall, Entries, Locked
<1>2. HdrInv'
  BY DEF IStore, IInv, TypeOK, StoreInv, HdrInv, Running
<1>3. CacheInv'
  BY <1>1 DEF IStore, StoreInv, CacheInv, Running
<1>4. CopyInv'
  <2>1. \A q \in Procs : pc'[q] = pc[q] \/ pc'[q] \in {"sleep", "op"}
    BY DEF IStore, IInv, TypeOK
  <2>2. \A i : Bread(lh[i])' = Bread(lh[i])
    BY DEF Bread
  <2>. QED BY <2>1, <2>2 DEF IStore, StoreInv, CopyInv
<1>5. Redo' = Redo
  BY DEF Redo
<1>6. View' = View
  BY <1>5 DEF View, Bread
<1>7. Active' = Active \/ (p \notin Active /\ Active' = Active \cup {p})
  BY DEF IStore, IInv, TypeOK, Active
<1>. QED BY <1>2, <1>3, <1>4, <1>5, <1>6, <1>7 DEF StoreInv

\* While an operation is active nobody commits.
LEMMA ActiveNoCommit ==
  ASSUME IInv, NEW p \in Procs, pc[p] \in {"op", "held"}
  PROVE  /\ p \in Active
         /\ \A q \in Procs : pc[q] \notin CommitPC
         /\ Running
BY DEF IInv, CtlInv, Active

(* A change to a cached block is a write of AtomicDisk. *)
LEMMA ModifyStore ==
  ASSUME IStore, NEW p \in Procs, NEW b \in Blocks, NEW v \in Data, Modify(p, b, v)
  PROVE  /\ StoreInv' /\ View' = [View EXCEPT ![b] = v] /\ Redo' = Redo
         /\ p \in Active /\ Active' = Active
<1>. USE DEF Modify, diskVars
<1>1. /\ p \in Active /\ Running /\ Running'
      /\ \A q \in Procs : pc[q] \notin CommitPC
  BY ActiveNoCommit DEF IStore, Running
<1>2. ToInstall' = ToInstall
  BY DEF IStore, IInv, TypeOK, ToInstall, Entries
<1>3. v # NoData
  BY LogAssumption
<1>4. Locked(b)' /\ \A c \in Blocks : Locked(c) => Locked(c)'
  <2>1. held'[p] = b
    BY DEF IStore, IInv, TypeOK
  <2>2. held[p] = NoBlock
    BY DEF IStore, IInv, CtlInv
  <2>3. ASSUME NEW c \in Blocks, Locked(c) PROVE Locked(c)'
    BY <2>2, <2>3, LogAssumption DEF IStore, IInv, TypeOK, Locked
  <2>. QED BY <2>1, <2>3 DEF Locked
<1>5. HdrInv'
  BY <1>1 DEF IStore, IInv, TypeOK, StoreInv, HdrInv, CommitPC, Running
<1>6. CacheInv'
  BY <1>1, <1>2, <1>3, <1>4 DEF IStore, IInv, TypeOK, StoreInv, CacheInv
<1>7. CopyInv'
  BY <1>1 DEF IStore, IInv, TypeOK, StoreInv, CopyInv, CommitPC
<1>8. Redo' = Redo
  BY DEF Redo
<1>9. Active' = Active
  BY DEF IStore, IInv, TypeOK, Active
<1>10. View' = [View EXCEPT ![b] = v]
  BY <1>3 DEF View, Bread, IStore, IInv, TypeOK
<1>. QED BY <1>1, <1>5, <1>6, <1>7, <1>8, <1>9, <1>10 DEF StoreInv

(* log_write() does not change what the cache shows. *)
LEMMA LogWriteStore ==
  ASSUME IStore, NEW p \in Procs, LogWrite(p)
  PROVE  StoreInv' /\ View' = View /\ Redo' = Redo /\ Active' = Active
<1>. USE DEF LogWrite, diskVars
<1>1. /\ Running /\ Running' /\ \A q \in Procs : pc[q] \notin CommitPC
  BY ActiveNoCommit DEF IStore, Running
<1>2. held[p] \in Blocks
  BY DEF IStore, IInv, TypeOK, CtlInv
<1>3. \A q \in Procs : pc'[q] \notin CommitPC
  BY <1>1 DEF IStore, IInv, TypeOK, CommitPC
<1>4. ToInstall = Entries(lh) /\ ToInstall' = Entries(lh')
  BY <1>1, <1>3 DEF ToInstall, CommitPC
<1>5. Entries(lh) \subseteq Entries(lh')
      /\ Entries(lh') \subseteq Entries(lh) \cup {held[p]}
      /\ (held' # held => held[p] \in Entries(lh'))
  <2>1. CASE lh' = lh /\ (held' # held => held[p] \in Entries(lh))
    BY <2>1
  <2>2. CASE lh' = Append(lh, held[p])
    BY <1>2, <2>2, EntriesAppend DEF IStore, IInv, TypeOK
  <2>. QED BY <2>1, <2>2 DEF Record
<1>6. HdrInv'
  BY <1>1, <1>3 DEF IStore, StoreInv, HdrInv, CommitPC, Running
<1>7. CacheInv'
  <2>1. \A q \in Procs : held'[q] # NoBlock => held'[q] = held[q]
    BY DEF IStore, IInv, TypeOK
  <2>2. \A c \in Blocks : Locked(c) => Locked(c)' \/ c \in Entries(lh')
    BY <1>5 DEF IStore, IInv, TypeOK, Locked
  <2>3. cache[held[p]] # NoData
    BY <1>2, LogAssumption DEF IStore, StoreInv, CacheInv
  <2>. QED BY <1>1, <1>4, <1>5, <2>1, <2>2, <2>3 DEF IStore, StoreInv, CacheInv
<1>8. CopyInv'
  BY <1>1, <1>3 DEF IStore, StoreInv, CopyInv, CommitPC, Running
<1>9. Redo' = Redo
  BY DEF Redo
<1>10. View' = View
  BY <1>9 DEF View, Bread
<1>11. Active' = Active
  BY DEF IStore, IInv, TypeOK, Active
<1>. QED BY <1>6, <1>7, <1>8, <1>9, <1>10, <1>11 DEF StoreInv

(* end_op() ends an operation of AtomicDisk. *)
LEMMA EndOpStore ==
  ASSUME IStore, NEW p \in Procs, EndOp(p)
  PROVE  /\ StoreInv' /\ View' = View /\ Redo' = Redo
         /\ p \in Active /\ Active' = Active \ {p}
<1>. USE DEF EndOp, diskVars
<1>1. /\ p \in Active /\ Running /\ Running' /\ \A q \in Procs : pc[q] \notin CommitPC
  BY ActiveNoCommit DEF IStore, Running
<1>2. \A q \in Procs : pc'[q] \notin {"write_head", "install", "clear_head"}
  BY <1>1 DEF IStore, IInv, TypeOK, CommitPC, Wakeup
<1>3. ToInstall' = ToInstall
  BY <1>1, <1>2 DEF ToInstall, CommitPC, Entries
<1>4. HdrInv'
  BY <1>1, <1>2 DEF IStore, StoreInv, HdrInv, CommitPC, Running
<1>5. \A c \in Blocks : Locked(c)' = Locked(c)
  BY DEF Locked
<1>6. CacheInv'
  BY <1>1, <1>3, <1>5 DEF IStore, StoreInv, CacheInv
<1>7. \A q \in Procs : pc'[q] = "write_log" => tail' = 0
  BY <1>1 DEF IStore, IInv, TypeOK, CommitPC, Wakeup
<1>8. CopyInv'
  BY <1>1, <1>2, <1>7 DEF CopyInv, Running
<1>9. Redo' = Redo
  BY DEF Redo
<1>10. View' = View
  BY <1>9 DEF View, Bread
<1>11. Active' = Active \ {p}
  BY <1>1 DEF IStore, IInv, TypeOK, Active, Wakeup
<1>. QED BY <1>1, <1>4, <1>6, <1>8, <1>9, <1>10, <1>11 DEF StoreInv

\* In commit() no buffer is locked by an operation.
LEMMA CommitUnlocked ==
  ASSUME IInv, NEW p \in Procs, pc[p] \in CommitPC, machine = "up"
  PROVE  /\ \A c \in Blocks : ~Locked(c)
         /\ \A q \in Procs : held[q] = NoBlock
         /\ \A q \in Procs \ {p} : pc[q] \notin CommitPC
<1>1. \A q \in Procs : held[q] = NoBlock
  BY CommitterAlone DEF IInv, CtlInv, Active
<1>. QED BY <1>1, CommitterAlone, LogAssumption DEF Locked

(* Copies to the log area change nothing before the header is written. *)
LEMMA WriteLogStore ==
  ASSUME IStore, NEW p \in Procs, WriteLog(p)
  PROVE  StoreInv' /\ View' = View /\ Redo' = Redo /\ Active' = Active
<1>. USE DEF WriteLog, At, Goto
<1>1. /\ Running /\ Running' /\ \A q \in Procs \ {p} : pc[q] \notin CommitPC
  BY CommitUnlocked DEF IStore, CommitPC, Running
<1>2. hdr = <<>>
  BY <1>1 DEF IStore, StoreInv, HdrInv, CommitPC
<1>3. ToInstall' = ToInstall
  BY <1>1 DEF IStore, IInv, TypeOK, ToInstall, Entries, CommitPC
<1>4. HdrInv'
  BY <1>1, <1>2 DEF IStore, IInv, TypeOK, HdrInv, CommitPC, Running
<1>5. CacheInv'
  BY <1>1, <1>3 DEF IStore, StoreInv, CacheInv, Locked
<1>6. tail <= Len(lh) /\ tail \in Nat /\ Len(lh) \in Nat /\ Len(lh) <= LOGBLOCKS
  <2>1. Cardinality(Tokens) \in Nat
    BY TokensCard DEF Tokens, Active
  <2>. QED BY <2>1, LogAssumption DEF IStore, IInv, TypeOK, TransInv, SpaceInv
<1>7. CopyInv'
  <2>1. CASE /\ tail < Len(lh) /\ tail' = tail + 1 /\ pc' = pc
             /\ logblk' = [logblk EXCEPT ![tail + 1] = Bread(lh[tail + 1])]
    <3>1. \A i \in 1..tail + 1 : logblk'[i] = Bread(lh[i])
      BY <1>6, <2>1, LogAssumption DEF IStore, IInv, TypeOK, StoreInv, CopyInv
    <3>. QED BY <1>1, <2>1, <3>1 DEF CopyInv, CommitPC, Bread, Running
  <2>2. CASE tail >= Len(lh) /\ pc' = [pc EXCEPT ![p] = "write_head"] /\ logblk' = logblk
    BY <1>1, <1>6, <2>2 DEF IStore, IInv, TypeOK, StoreInv, CopyInv, CommitPC, Bread, Running
  <2>. QED BY <2>1, <2>2
<1>8. Redo' = Redo
  BY <1>2, RedoEmpty DEF Redo, IStore, IInv, TypeOK
<1>9. View' = View
  BY <1>1 DEF View, Bread, Running
<1>10. Active' = Active
  BY DEF IStore, IInv, TypeOK, Active
<1>. QED BY <1>4, <1>5, <1>7, <1>8, <1>9, <1>10 DEF StoreInv

\* The commit point: from here on a replay yields what reads return.
LEMMA WriteHeadStore ==
  ASSUME IStore, NEW p \in Procs, WriteHead(p)
  PROVE  StoreInv' /\ View' = View /\ Redo' = View /\ Active = {} /\ Active' = {}
<1>. USE DEF WriteHead, At, Goto
<1>1. /\ Running /\ Running' /\ \A q \in Procs \ {p} : pc[q] \notin CommitPC
      /\ \A c \in Blocks : ~Locked(c)
  BY CommitUnlocked DEF IStore, CommitPC, Running
<1>2. ToInstall = Entries(lh) /\ ToInstall' = Entries(lh)
  BY <1>1 DEF IStore, IInv, TypeOK, TransInv, ToInstall, Entries, CommitPC
<1>3. HdrInv'
  BY <1>1 DEF IStore, IInv, TypeOK, HdrInv, CommitPC, Running
<1>4. CacheInv'
  BY <1>1, <1>2 DEF IStore, StoreInv, CacheInv, Locked
<1>5. tail = 0
  BY DEF IStore, IInv, TransInv
<1>6. CopyInv'
  BY <1>1, <1>5 DEF IStore, IInv, TypeOK, StoreInv, CopyInv, CommitPC, Bread, Running
<1>7. View' = View
  BY <1>1 DEF View, Bread, Running
<1>8. ASSUME NEW b \in Blocks PROVE Redo'[b] = View[b]
  <2>1. View[b] = Bread(b)
    BY <1>1 DEF View, Running
  <2>a. /\ Redo' = RedoOf(lh, logblk, disk)
        /\ lh \in Seq(Blocks) /\ \A i, j \in 1..Len(lh) : lh[i] = lh[j] => i = j
    BY DEF Redo, IStore, IInv, TypeOK, PinInv
  <2>2. CASE b \in Entries(lh)
    <3>1. PICK k \in 1..Len(lh) : b = lh[k]
      BY <2>2 DEF Entries
    <3>2. Redo'[b] = logblk[k]
      BY <2>a, <3>1, RedoEntry
    <3>. QED BY <2>1, <3>1, <3>2 DEF IStore, StoreInv, CopyInv
  <2>3. CASE b \notin Entries(lh)
    <3>1. Redo'[b] = disk[b]
      BY <2>a, <2>3, RedoEntry
    <3>2. Bread(b) = disk[b]
      BY <1>1, <1>2, <2>3 DEF IStore, StoreInv, CacheInv, Bread
    <3>. QED BY <2>1, <3>1, <3>2
  <2>. QED BY <2>2, <2>3
<1>9. Redo' = View
  BY <1>1, <1>8 DEF Redo, RedoOf, View, Running
<1>10. Active = {} /\ Active' = {}
  BY CommitterAlone DEF IStore, IInv, TypeOK, Active, CommitPC
<1>. QED BY <1>3, <1>4, <1>6, <1>7, <1>9, <1>10 DEF StoreInv

(* Installing a logged block does not change what a crash would recover. *)
LEMMA InstallStore ==
  ASSUME IStore, NEW p \in Procs, Install(p)
  PROVE  StoreInv' /\ View' = View /\ Redo' = Redo /\ Active' = Active
<1>. USE DEF Install, At, Goto
<1>1. /\ Running /\ Running' /\ \A q \in Procs \ {p} : pc[q] \notin CommitPC
      /\ \A c \in Blocks : ~Locked(c)
      /\ \A q \in Procs : held[q] = NoBlock
  BY CommitUnlocked DEF IStore, CommitPC, Running
<1>2. hdr = lh /\ ToInstall = {lh[i] : i \in tail + 1..Len(lh)}
  BY DEF IStore, StoreInv, HdrInv, ToInstall
<1>3. Active' = Active
  BY DEF IStore, IInv, TypeOK, Active
<1>4. HdrInv'
  BY <1>1, <1>2 DEF IStore, IInv, TypeOK, HdrInv, CommitPC, Running
<1>5. tail <= Len(lh) /\ tail \in Nat /\ Len(lh) \in Nat
  BY DEF IStore, IInv, TypeOK, TransInv
<1>6. CASE tail < Len(lh) /\ CopyHome /\ pc' = pc
  <2>. DEFINE k == tail + 1
  <2>1. lh[k] \in Blocks /\ k \in 1..Len(lh) /\ k \in 1..LOGBLOCKS /\ tail' = k
    BY <1>6, CopyHomeType DEF IStore
  <2>2. cache' = [cache EXCEPT ![lh[k]] = logblk[k]] /\ disk' = [disk EXCEPT ![lh[k]] = logblk[k]]
    BY <1>6 DEF CopyHome
  <2>3. logblk[k] \in Data /\ logblk[k] # NoData /\ logblk[k] = Bread(lh[k])
    BY <2>1, LogAssumption DEF IStore, IInv, TypeOK, StoreInv, CopyInv
  <2>4. \A i \in 1..Len(lh) : i # k => lh[i] # lh[k]
    BY <2>1 DEF IStore, IInv, PinInv
  <2>5. ToInstall' = {lh[i] : i \in tail + 2..Len(lh)}
    BY <1>5, <1>6, <2>1 DEF ToInstall
  <2>6. \A c \in Blocks : Bread(c)' = Bread(c)
    BY <2>1, <2>2, <2>3 DEF IStore, IInv, TypeOK, Bread
  <2>7. CacheInv'
    <3>1. ToInstall' \subseteq ToInstall /\ \A c \in ToInstall : c # lh[k] => c \in ToInstall'
      BY <1>2, <1>5, <2>5
    <3>2. \A b \in ToInstall : b \in Blocks
      BY <1>2, <1>5 DEF IStore, IInv, TypeOK
    <3>3. \A b \in ToInstall' : cache'[b] # NoData
      BY <1>1, <2>1, <2>2, <2>3, <3>1, <3>2 DEF IStore, IInv, TypeOK, StoreInv, CacheInv
    <3>4. ASSUME NEW b \in Blocks, b \notin ToInstall' PROVE cache'[b] \in {NoData, disk'[b]}
      BY <1>1, <2>1, <2>2, <3>1, <3>4 DEF IStore, IInv, TypeOK, StoreInv, CacheInv
    <3>. QED BY <1>1, <3>3, <3>4 DEF CacheInv
  <2>8. CopyInv'
    <3>1. \A i \in 1..Len(lh) : logblk[i] = Bread(lh[i])'
      <4>1. \A i \in 1..Len(lh) : lh[i] \in Blocks
        BY DEF IStore, IInv, TypeOK
      <4>. QED BY <4>1, <2>2, <2>3 DEF IStore, IInv, TypeOK, StoreInv, CopyInv, Bread
    <3>2. \A i \in 1..tail + 1 : disk'[lh[i]] = logblk[i]
      BY <1>5, <2>1, <2>2, <2>4 DEF IStore, IInv, TypeOK, StoreInv, CopyInv
    <3>. QED BY <1>1, <1>6, <2>1, <3>1, <3>2 DEF CopyInv, CommitPC, Running
  <2>9. Redo' = Redo
    <3>2. Redo = RedoOf(lh, logblk, disk) /\ Redo' = RedoOf(lh, logblk, disk')
      BY <1>2 DEF Redo
    <3>3. \A n \in 1..Len(lh) :
            RedoOf(lh, logblk, [disk EXCEPT ![lh[n]] = logblk[n]]) = RedoOf(lh, logblk, disk)
      BY RedoInstall
    <3>. QED BY <2>1, <2>2, <3>2, <3>3
  <2>10. View' = View
    BY <1>1, <2>6 DEF View, Running
  <2>. QED BY <1>3, <1>4, <2>7, <2>8, <2>9, <2>10 DEF StoreInv
<1>7. CASE tail >= Len(lh) /\ pc' = [pc EXCEPT ![p] = "clear_head"] /\ UNCHANGED <<disk, cache>>
  <2>1. ToInstall = {} /\ ToInstall' = {}
    BY <1>1, <1>2, <1>5, <1>7 DEF IStore, IInv, TypeOK, ToInstall, CommitPC
  <2>2. CacheInv'
    BY <1>1, <1>7, <2>1 DEF IStore, StoreInv, CacheInv, Locked
  <2>3. CopyInv'
    BY <1>1, <1>5, <1>7 DEF IStore, IInv, TypeOK, StoreInv, CopyInv, CommitPC, Running
  <2>4. Redo' = Redo
    BY <1>7 DEF Redo
  <2>5. View' = View
    BY <1>7, <2>4 DEF View, Bread
  <2>. QED BY <1>3, <1>4, <2>2, <2>3, <2>4, <2>5 DEF StoreInv
<1>. QED BY <1>6, <1>7

(* The header is erased only when every block is at home. *)
LEMMA ClearHeadStore ==
  ASSUME IStore, NEW p \in Procs, ClearHead(p)
  PROVE  StoreInv' /\ View' = View /\ Redo' = Redo /\ Active' = Active
<1>. USE DEF ClearHead, At, Goto
<1>1. /\ Running /\ Running' /\ \A q \in Procs \ {p} : pc[q] \notin CommitPC
      /\ \A c \in Blocks : ~Locked(c)
      /\ \A q \in Procs : held[q] = NoBlock
  BY CommitUnlocked DEF IStore, CommitPC, Running
<1>2. ToInstall = {} /\ ToInstall' = {}
  BY <1>1 DEF IStore, IInv, TypeOK, ToInstall, Entries, CommitPC
<1>3. HdrInv'
  BY <1>1 DEF IStore, IInv, TypeOK, HdrInv, CommitPC, Running
<1>4. CacheInv'
  BY <1>1, <1>2 DEF IStore, StoreInv, CacheInv, Locked
<1>5. CopyInv'
  BY <1>1 DEF IStore, IInv, TypeOK, CopyInv, CommitPC, Running
<1>6. Redo' = Redo
  <2>1. /\ hdr = lh /\ lh \in Seq(Blocks) /\ \A i, j \in 1..Len(lh) : lh[i] = lh[j] => i = j
        /\ disk \in [Blocks -> Data] /\ \A k \in 1..Len(lh) : disk[lh[k]] = logblk[k]
    BY DEF IStore, IInv, TypeOK, PinInv, StoreInv, HdrInv, CopyInv
  <2>2. RedoOf(lh, logblk, disk) = disk
    BY <2>1, RedoInstalled
  <2>3. RedoOf(<<>>, logblk, disk) = disk
    BY <2>1, RedoEmpty
  <2>. QED BY <2>1, <2>2, <2>3 DEF Redo
<1>7. View' = View
  BY <1>6 DEF View, Bread
<1>8. Active' = Active
  BY DEF IStore, IInv, TypeOK, Active
<1>. QED BY <1>3, <1>4, <1>5, <1>6, <1>7, <1>8 DEF StoreInv

(* The end of end_op() is a stutter of AtomicDisk. *)
LEMMA FinishStore ==
  ASSUME IStore, NEW p \in Procs, Finish(p)
  PROVE  StoreInv' /\ View' = View /\ Redo' = Redo /\ Active' = Active
<1>. USE DEF Finish, At, diskVars
<1>1. /\ Running /\ Running' /\ \A q \in Procs \ {p} : pc[q] \notin CommitPC
  BY CommitUnlocked DEF IStore, CommitPC, Running
<1>2. \A q \in Procs : pc'[q] \notin CommitPC
  BY <1>1 DEF IStore, IInv, TypeOK, CommitPC, Wakeup
<1>3. ToInstall' = ToInstall
  BY <1>1, <1>2 DEF ToInstall, Entries, CommitPC
<1>4. HdrInv'
  BY <1>1, <1>2 DEF IStore, StoreInv, HdrInv, CommitPC, Running
<1>5. CacheInv'
  BY <1>1, <1>3 DEF IStore, StoreInv, CacheInv, Locked
<1>6. CopyInv'
  BY <1>1, <1>2 DEF CopyInv, CommitPC, Running
<1>7. Redo' = Redo
  BY DEF Redo
<1>8. View' = View
  BY <1>7 DEF View, Bread
<1>9. Active' = Active
  BY DEF IStore, IInv, TypeOK, Active, Wakeup
<1>. QED BY <1>4, <1>5, <1>6, <1>7, <1>8, <1>9 DEF StoreInv

(* A crash leaves what the durable header says. *)
LEMMA CrashStore ==
  ASSUME IStore, Crash
  PROVE  StoreInv' /\ View' = Redo /\ Redo' = Redo /\ Active' = {}
<1>. USE DEF Crash, diskVars
<1>1. HdrInv' /\ CacheInv' /\ CopyInv'
  BY DEF HdrInv, CacheInv, CopyInv, Running
<1>2. Redo' = Redo /\ Active' = {}
  BY DEF Redo, Active
<1>. QED BY <1>1, <1>2 DEF StoreInv, View

(* Every step of the recovery, also when it is repeated, is a stutter. *)
LEMMA RecoveryStore ==
  ASSUME IStore, ReadHead \/ Recover \/ ClearLog
  PROVE  StoreInv' /\ View' = View /\ Redo' = Redo /\ Active' = Active
<1>1. ~Running /\ View = Redo
  BY DEF ReadHead, Recover, ClearLog, Running, View
<1>2. \A q \in Procs : pc[q] = "idle" /\ held[q] = NoBlock
  BY <1>1 DEF IStore, IInv, CtlInv
<1>3. pc' = pc /\ held' = held
  BY DEF ReadHead, Recover, ClearLog
<1>4. Active' = Active
  BY <1>3 DEF Active
<1>5. \A c \in Blocks : ~Locked(c) /\ ~Locked(c)'
  BY <1>2, <1>3, LogAssumption DEF Locked
<1>6. \A c \in Blocks : cache[c] \in {NoData, disk[c]}
  BY <1>1, <1>5 DEF IStore, StoreInv, CacheInv
<1>7. CASE ReadHead
  <2>. USE <1>7 DEF ReadHead, diskVars
  <2>1. HdrInv' /\ CopyInv'
    BY <1>2, <1>3 DEF HdrInv, CopyInv, Running
  <2>2. CacheInv'
    BY <1>2, <1>3, <1>5, <1>6 DEF CacheInv, Running
  <2>3. Redo' = Redo /\ View' = View
    BY <1>1 DEF Redo, View
  <2>. QED BY <1>4, <2>1, <2>2, <2>3 DEF StoreInv
<1>8. CASE Recover
  <2>. USE <1>8 DEF Recover
  <2>1. hdr = lh /\ lh \in Seq(Blocks) /\ (\A i, j \in 1..Len(lh) : lh[i] = lh[j] => i = j)
        /\ disk \in [Blocks -> Data] /\ tail <= Len(lh) /\ tail \in Nat /\ Len(lh) \in Nat
        /\ \A i \in 1..tail : disk[lh[i]] = logblk[i]
    BY DEF IStore, IInv, TypeOK, PinInv, TransInv, StoreInv, HdrInv, CopyInv
  <2>2. HdrInv'
    BY <1>2, <1>3, <2>1 DEF HdrInv, Running
  <2>3. CASE tail < Len(lh) /\ CopyHome /\ machine' = machine
    <3>. DEFINE k == tail + 1
    <3>1. lh[k] \in Blocks /\ k \in 1..Len(lh) /\ tail' = k
      BY <2>3, CopyHomeType DEF IStore
    <3>2. cache' = [cache EXCEPT ![lh[k]] = logblk[k]] /\ disk' = [disk EXCEPT ![lh[k]] = logblk[k]]
      BY <2>3 DEF CopyHome
    <3>3. \A c \in Blocks : cache'[c] \in {NoData, disk'[c]}
      BY <1>6, <3>1, <3>2 DEF IStore, IInv, TypeOK
    <3>4. CacheInv'
      BY <1>2, <1>3, <2>3, <3>3 DEF CacheInv, Running
    <3>5. \A i \in 1..tail + 1 : disk'[lh[i]] = logblk[i]
      BY <2>1, <3>1, <3>2 DEF IStore, IInv, TypeOK
    <3>6. CopyInv'
      BY <1>2, <1>3, <2>3, <3>1, <3>5 DEF CopyInv
    <3>7. Redo = RedoOf(lh, logblk, disk) /\ Redo' = RedoOf(lh, logblk, disk')
      BY <2>1 DEF Redo
    <3>8. Redo' = Redo
      <4>1. \A n \in 1..Len(lh) :
              RedoOf(lh, logblk, [disk EXCEPT ![lh[n]] = logblk[n]]) = RedoOf(lh, logblk, disk)
        BY RedoInstall
      <4>. QED BY <3>1, <3>2, <3>7, <4>1
    <3>. QED BY <1>1, <1>4, <2>2, <2>3, <3>4, <3>6, <3>8 DEF StoreInv, View
  <2>4. CASE tail >= Len(lh) /\ machine' = "recovered" /\ UNCHANGED <<disk, cache>>
    <3>1. CacheInv'
      BY <1>2, <1>3, <1>6, <2>4 DEF CacheInv, Running
    <3>2. CopyInv'
      BY <1>2, <1>3, <2>1, <2>4 DEF CopyInv
    <3>3. Redo' = Redo
      BY <2>4 DEF Redo
    <3>. QED BY <1>1, <1>4, <2>2, <2>4, <3>1, <3>2, <3>3 DEF StoreInv, View
  <2>. QED BY <2>3, <2>4
<1>9. CASE ClearLog
  <2>. USE <1>9 DEF ClearLog
  <2>1. hdr = lh /\ lh \in Seq(Blocks) /\ (\A i, j \in 1..Len(lh) : lh[i] = lh[j] => i = j)
        /\ disk \in [Blocks -> Data] /\ \A i \in 1..Len(lh) : disk[lh[i]] = logblk[i]
    BY DEF IStore, IInv, TypeOK, PinInv, StoreInv, HdrInv, CopyInv
  <2>2. Redo = disk
    BY <2>1, RedoInstalled DEF Redo
  <2>3. Redo' = disk
    BY <2>1, RedoEmpty DEF Redo
  <2>4. View' = disk
    BY <1>6, <2>1 DEF View, Bread
  <2>5. HdrInv' /\ CopyInv'
    BY <1>2, <1>3 DEF HdrInv, CopyInv, Running
  <2>6. ToInstall' = {}
    BY <1>2, <1>3 DEF ToInstall, Entries
  <2>7. CacheInv'
    BY <1>2, <1>3, <1>6, <2>6 DEF CacheInv, Running
  <2>. QED BY <1>1, <1>4, <2>2, <2>3, <2>4, <2>5, <2>7 DEF StoreInv
<1>. QED BY <1>7, <1>8, <1>9

(* A step that changes nothing. *)
LEMMA StutterStore ==
  ASSUME IStore, UNCHANGED vars
  PROVE  StoreInv' /\ View' = View /\ Redo' = Redo /\ Active' = Active
<1>. USE DEF vars
<1>1. HdrInv' /\ CacheInv'
  BY DEF IStore, StoreInv, HdrInv, CacheInv, ToInstall, Entries, Locked, Running
<1>2. CopyInv'
  BY DEF IStore, StoreInv, CopyInv, Bread
<1>3. Redo' = Redo /\ Active' = Active
  BY DEF Redo, Active
<1>4. View' = View
  BY <1>3 DEF View, Bread
<1>. QED BY <1>1, <1>2, <1>3, <1>4 DEF StoreInv

-----------------------------------------------------------------------------
\* What each step of the log is to the atomic disk.
LEMMA StepRefines ==
  ASSUME IStore, [Next]_vars
  PROVE  StoreInv' /\ [AD!Next]_(AD!vars)
<1>. USE DEF AD!Next, AD!vars
<1>1. ASSUME NEW b \in Blocks, Evict(b) PROVE StoreInv' /\ [AD!Next]_(AD!vars)
  BY <1>1, EvictStore
<1>2. ASSUME NEW p \in Procs, BeginOp(p) PROVE StoreInv' /\ [AD!Next]_(AD!vars)
  BY <1>2, BeginOpStore DEF AD!Begin
<1>3. ASSUME NEW p \in Procs, LogWrite(p) PROVE StoreInv' /\ [AD!Next]_(AD!vars)
  BY <1>3, LogWriteStore
<1>4. ASSUME NEW p \in Procs, EndOp(p) PROVE StoreInv' /\ [AD!Next]_(AD!vars)
  BY <1>4, EndOpStore DEF AD!End
<1>5. ASSUME NEW p \in Procs, NEW b \in Blocks, NEW v \in Data, Modify(p, b, v)
      PROVE  StoreInv' /\ [AD!Next]_(AD!vars)
  <2>1. AD!Write(p, b, v) /\ StoreInv'
    BY <1>5, ModifyStore DEF AD!Write
  <2>. QED BY <2>1
<1>6. ASSUME NEW p \in Procs, WriteHead(p) PROVE StoreInv' /\ [AD!Next]_(AD!vars)
  BY <1>6, WriteHeadStore DEF AD!Commit
<1>7. ASSUME NEW p \in Procs, WriteLog(p) \/ Install(p) \/ ClearHead(p) \/ Finish(p)
      PROVE  StoreInv' /\ [AD!Next]_(AD!vars)
  BY <1>7, WriteLogStore, InstallStore, ClearHeadStore, FinishStore
<1>8. CASE Crash
  BY <1>8, CrashStore DEF AD!Crash
<1>9. CASE ReadHead \/ Recover \/ ClearLog
  BY <1>9, RecoveryStore
<1>10. CASE UNCHANGED vars
  BY <1>10, StutterStore
<1>. HIDE DEF AD!Next, AD!vars
<1>. QED BY <1>1, <1>2, <1>3, <1>4, <1>5, <1>6, <1>7, <1>8, <1>9, <1>10 DEF Next, Committer

\* The log implements an atomic disk: a crash at any point, also during
\* recovery, keeps all the writes of an operation or none of them.
THEOREM LogIsAtomic == Spec => CrashAtomic
<1>1. Init => AD!Init
  <2>. SUFFICES ASSUME Init PROVE AD!Init
    OBVIOUS
  <2>1. Redo = disk /\ disk \in [Blocks -> Data]
    BY RedoEmpty DEF Init, Redo
  <2>2. View = Redo /\ Active = {}
    BY DEF Init, View, Active
  <2>. QED BY <2>1, <2>2 DEF AD!Init
<1>2. ASSUME IInv, StoreInv, [Next]_vars PROVE StoreInv' /\ [AD!Next]_(AD!vars)
  BY <1>2, StepRefines DEF IStore
<1>3. Init => StoreInv
  BY InitStore DEF IStore
<1>. QED BY <1>1, <1>2, <1>3, LogIInv, PTL DEF Spec, CrashAtomic, AD!Spec
=============================================================================
