---------------------------- MODULE CourseProofs ----------------------------
(***************************************************************************)
(* Proofs about the course's own programs: the list library (ListLib),     *)
(* then the Part A programs (Square).                                      *)
(*                                                                         *)
(* ListLib, for pools of every size: no sequence of calls makes two lists  *)
(* share a node (ListsDisjoint), loses a node (NodesConserved) or lets     *)
(* ListAdd or ListInsert index with the cursor -1 (CursorSafe).  None of   *)
(* the three is inductive.  The walks of Reach and Free are about the      *)
(* links, and a link that leads nowhere today is set tomorrow: OwnInv      *)
(* gives every node an owner that the links respect, ChainInv says that    *)
(* the free nodes are a tail of the pool, CountsInv that the counts add up *)
(* to the nodes before it.  What the walks and the sum compute is shown by *)
(* induction over the natural numbers, which SetInduction states for a set *)
(* instead of a predicate.                                                 *)
(*                                                                         *)
(* Square: what the parent of A2 and A4 prints for a child is the number   *)
(* of calls of Square() the child has made, for every number of children   *)
(* and every size.  SummaryExact says nothing of a counter that is not     *)
(* printed yet, nor of who is still running, so it is not inductive.       *)
(* SquareInv adds that a counter follows its child call by call            *)
(* (CountInv), which needs that the child's slot is the one it publishes   *)
(* and that the counters are still allocated when it counts (HeapInv), and *)
(* that nobody counts once the parent prints (OverInv): the parent's two   *)
(* loops over the children each leave those it has passed dead or done.    *)
(***************************************************************************)
EXTENDS ListLib, Square, FiniteSetTheorems, WellFoundedInduction, TLAPS

-----------------------------------------------------------------------------
(* Induction                                                               *)

\* A set of natural numbers that has 0 and with n also n + 1 has them all.  The
\* library states induction for an operator; a set can be given to the provers.
LEMMA SetInduction ==
  ASSUME NEW P, P \subseteq Nat, 0 \in P, \A n \in P : n + 1 \in P
  PROVE  P = Nat
<1> DEFINE Less == {p \in Nat \X Nat : p[1] < p[2]}
<1>1. IsWellFoundedOn(Less, Nat)
  BY NatLessThanWellFounded DEF OpToRel
<1> SUFFICES ASSUME Nat \ P # {} PROVE FALSE
  OBVIOUS
<1>2. PICK x \in Nat \ P : \A y \in Nat \ P : ~(<<y, x>> \in Less)
  <2> HIDE DEF Less
  <2> QED
    BY <1>1, WFMin, Zenon
<1>3. x # 0 /\ x - 1 \in Nat /\ x - 1 \notin P
  OBVIOUS
<1>4. <<x - 1, x>> \in Less
  BY <1>3
<1> QED
  BY <1>2, <1>3, <1>4

\* A function defined by its value at 0 and by a step F exists on 0..m.
LEMMA ChainExists ==
  ASSUME NEW T, NEW a \in T, NEW F \in [T -> T], NEW m \in Nat
  PROVE  \E g \in [0..m -> T] : g = [k \in 0..m |-> IF k = 0 THEN a ELSE F[g[k - 1]]]
<1> DEFINE Chain(g, j) == g \in [0..j -> T] /\ g[0] = a /\ \A k \in 1..j : g[k] = F[g[k - 1]]
           P == {j \in Nat : \E g : Chain(g, j)}
<1>1. 0 \in P
  <2>1. Chain([k \in 0..0 |-> a], 0)
    OBVIOUS
  <2> QED
    BY <2>1
<1>2. ASSUME NEW j \in P
      PROVE  j + 1 \in P
  <2>1. PICK g : Chain(g, j)
    OBVIOUS
  <2> DEFINE h == [k \in 0..j + 1 |-> IF k = j + 1 THEN F[g[j]] ELSE g[k]]
  <2>2. j \in Nat /\ g[j] \in T
    BY <2>1
  <2>3. h \in [0..j + 1 -> T]
    BY <2>1, <2>2
  <2>4. h[0] = a
    BY <2>1, <2>2
  <2>5. ASSUME NEW k \in 1..j + 1
        PROVE  h[k] = F[h[k - 1]]
    BY <2>1, <2>2
  <2>6. Chain(h, j + 1)
    BY <2>3, <2>4, <2>5
  <2> HIDE DEF h, Chain
  <2> QED
    BY <2>2, <2>6
<1>3. P = Nat
  <2> HIDE DEF P
  <2>1. P \subseteq Nat
    BY DEF P
  <2> QED
    BY <1>1, <1>2, <2>1, SetInduction
<1>4. PICK g : Chain(g, m)
  BY <1>3
<1>5. g = [k \in 0..m |-> IF k = 0 THEN a ELSE F[g[k - 1]]]
  BY <1>4
<1> QED
  BY <1>4, <1>5

-----------------------------------------------------------------------------
(* The sum of the counts                                                   *)

Sum(c, L) == MapThenSumSet(LAMBDA l : c[l], L)

\* The element of s that the fold takes first.
Pick(s) == CHOOSE x \in s : TRUE

\* it is the recursive function that the fold is defined by.
Folds(it, c, L) ==
  it = [s \in SUBSET L |-> IF s = {} THEN 0 ELSE c[Pick(s)] + it[s \ {Pick(s)}]]

\* Taking the first element leaves a smaller set.
LEMMA PickShrinks ==
  ASSUME NEW L, IsFiniteSet(L), NEW s \in SUBSET L, s # {}
  PROVE  /\ Pick(s) \in s /\ s \ {Pick(s)} \in SUBSET L
         /\ Cardinality(s) \in Nat /\ Cardinality(s \ {Pick(s)}) = Cardinality(s) - 1
         /\ Cardinality(s) # 0
<1>1. Pick(s) \in s
  BY DEF Pick
<1>2. IsFiniteSet(s)
  BY FS_Subset
<1> QED
  BY <1>1, <1>2, FS_RemoveElement, FS_CardinalityType, FS_EmptySet

\* A set of finite sets that has {} and every set whose rest it has, has them all.
LEMMA PickInduction ==
  ASSUME NEW L, IsFiniteSet(L), NEW Q, {} \in Q,
         \A s \in SUBSET L : s # {} /\ s \ {Pick(s)} \in Q => s \in Q
  PROVE  SUBSET L \subseteq Q
<1> DEFINE P == {m \in Nat : \A s \in SUBSET L : Cardinality(s) <= m => s \in Q}
<1>0. \A s \in SUBSET L : Cardinality(s) \in Nat /\ (Cardinality(s) = 0 => s = {})
  BY FS_Subset, FS_CardinalityType, FS_EmptySet
<1>1. 0 \in P
  BY <1>0
<1>2. ASSUME NEW m \in P
      PROVE  m + 1 \in P
  <2> SUFFICES ASSUME NEW s \in SUBSET L, Cardinality(s) <= m + 1, s # {}
               PROVE  s \in Q
    OBVIOUS
  <2>1. s \ {Pick(s)} \in SUBSET L /\ Cardinality(s \ {Pick(s)}) <= m
    BY <1>0, PickShrinks
  <2> QED
    BY <2>1
<1>3. P = Nat
  <2> HIDE DEF P
  <2>1. P \subseteq Nat
    BY DEF P
  <2> QED
    BY <1>1, <1>2, <2>1, SetInduction
<1> QED
  BY <1>0, <1>3

\* The fold's recursive function exists, and its values are natural numbers.
LEMMA FoldExists ==
  ASSUME NEW L, IsFiniteSet(L), NEW c \in [L -> Nat]
  PROVE  \E it : it \in [SUBSET L -> Nat] /\ Folds(it, c, L)
<1> DEFINE D(m) == {s \in SUBSET L : Cardinality(s) <= m}
           Val(g, s) == IF s = {} THEN 0 ELSE c[Pick(s)] + g[s \ {Pick(s)}]
           Part(g, m) == g \in [D(m) -> Nat] /\ \A s \in D(m) : g[s] = Val(g, s)
           P == {m \in Nat : \E g : Part(g, m)}
<1>0. \A s \in SUBSET L : Cardinality(s) \in Nat /\ (Cardinality(s) = 0 => s = {})
  BY FS_Subset, FS_CardinalityType, FS_EmptySet
<1>1. 0 \in P
  <2>1. \A s \in D(0) : s = {}
    BY <1>0
  <2>2. Part([s \in D(0) |-> 0], 0)
    BY <2>1
  <2> QED
    BY <2>2
<1>2. ASSUME NEW m \in P
      PROVE  m + 1 \in P
  <2>1. PICK g : Part(g, m)
    OBVIOUS
  <2> DEFINE h == [s \in D(m + 1) |-> Val(g, s)]
  <2>2. \A s \in D(m + 1) : s # {} => s \ {Pick(s)} \in D(m) /\ c[Pick(s)] \in Nat
    BY <1>0, PickShrinks
  <2>3. \A s \in D(m) : s \in D(m + 1) /\ h[s] = g[s]
    BY <1>0, <2>1
  <2>4. h \in [D(m + 1) -> Nat]
    BY <2>1, <2>2
  <2>5. \A s \in D(m + 1) : h[s] = Val(h, s)
    BY <2>2, <2>3
  <2>6. Part(h, m + 1)
    BY <2>4, <2>5
  <2> HIDE DEF h, Part
  <2> QED
    BY <2>6
<1>3. P = Nat
  <2> HIDE DEF P
  <2>1. P \subseteq Nat
    BY DEF P
  <2> QED
    BY <1>1, <1>2, <2>1, SetInduction
<1>4. Cardinality(L) \in Nat /\ D(Cardinality(L)) = SUBSET L
  BY <1>0, FS_Subset, FS_CardinalityType
<1>5. PICK g : Part(g, Cardinality(L))
  BY <1>3, <1>4
<1> QED
  BY <1>4, <1>5 DEF Folds

\* Sum is the value of that function at the whole set.
LEMMA SumIsFold ==
  ASSUME NEW L, IsFiniteSet(L), NEW c \in [L -> Nat]
  PROVE  \E it : it \in [SUBSET L -> Nat] /\ Folds(it, c, L) /\ Sum(c, L) = it[L]
<1>1. PICK g : g \in [SUBSET L -> Nat] /\ Folds(g, c, L)
  BY FoldExists
<1>2. PICK it : Folds(it, c, L) /\ Sum(c, L) = it[L]
  BY <1>1, Zenon DEF Folds, Pick, Sum, MapThenSumSet, MapThenFoldSet
<1> DEFINE Q == {s \in SUBSET L : it[s] \in Nat}
<1>3. {} \in Q
  BY <1>2 DEF Folds
<1>4. ASSUME NEW s \in SUBSET L, s # {}, s \ {Pick(s)} \in Q
      PROVE  s \in Q
  <2>1. Pick(s) \in L /\ s \ {Pick(s)} \in SUBSET L
    BY <1>4, PickShrinks
  <2>2. it[s] = c[Pick(s)] + it[s \ {Pick(s)}]
    BY <1>2, <1>4 DEF Folds
  <2> QED
    BY <1>4, <2>1, <2>2
<1>5. SUBSET L \subseteq Q
  <2> HIDE DEF Q
  <2> QED
    BY <1>3, <1>4, PickInduction
<1>6. it \in [SUBSET L -> Nat]
  <2>1. it = [s \in SUBSET L |-> it[s]]
    BY <1>2 DEF Folds
  <2> QED
    BY <1>5, <2>1
<1> QED
  BY <1>2, <1>6

\* Adding v to one summand adds v to the sum.
LEMMA SumAdds ==
  ASSUME NEW L, IsFiniteSet(L), NEW c \in [L -> Nat], NEW a \in L, NEW v \in Nat
  PROVE  Sum([c EXCEPT ![a] = c[a] + v], L) = Sum(c, L) + v
<1> DEFINE d == [c EXCEPT ![a] = c[a] + v]
<1>1. d \in [L -> Nat] /\ d[a] = c[a] + v /\ \A x \in L : x # a => d[x] = c[x]
  OBVIOUS
<1> HIDE DEF d
<1>2. PICK ic : ic \in [SUBSET L -> Nat] /\ Folds(ic, c, L) /\ Sum(c, L) = ic[L]
  BY SumIsFold
<1>3. PICK id : id \in [SUBSET L -> Nat] /\ Folds(id, d, L) /\ Sum(d, L) = id[L]
  BY <1>1, SumIsFold
<1> DEFINE Q == {s \in SUBSET L : id[s] = ic[s] + (IF a \in s THEN v ELSE 0)}
<1>4. {} \in Q
  BY <1>2, <1>3 DEF Folds
<1>5. ASSUME NEW s \in SUBSET L, s # {}, s \ {Pick(s)} \in Q
      PROVE  s \in Q
  <2>1. Pick(s) \in s /\ s \ {Pick(s)} \in SUBSET L
    BY <1>5, PickShrinks
  <2>2. /\ ic[s] = c[Pick(s)] + ic[s \ {Pick(s)}]
        /\ id[s] = d[Pick(s)] + id[s \ {Pick(s)}]
        /\ id[s \ {Pick(s)}] = ic[s \ {Pick(s)}] + (IF a \in s \ {Pick(s)} THEN v ELSE 0)
        /\ ic[s \ {Pick(s)}] \in Nat /\ c[Pick(s)] \in Nat
    BY <1>2, <1>3, <1>5, <2>1 DEF Folds
  <2>3. CASE Pick(s) = a
    BY <1>1, <2>1, <2>2, <2>3
  <2>4. CASE Pick(s) # a
    BY <1>1, <2>1, <2>2, <2>4
  <2> QED
    BY <2>3, <2>4
<1>6. SUBSET L \subseteq Q
  <2> HIDE DEF Q
  <2> QED
    BY <1>4, <1>5, PickInduction
<1>7. id[L] = ic[L] + v
  BY <1>6
<1> QED
  BY <1>2, <1>3, <1>7 DEF d

\* A sum of natural numbers is one, and no smaller than any of them; no smaller
\* than two of them together.
LEMMA SumBounds ==
  ASSUME NEW L, IsFiniteSet(L), NEW c \in [L -> Nat]
  PROVE  /\ Sum(c, L) \in Nat
         /\ \A a \in L : c[a] <= Sum(c, L)
         /\ \A a, b \in L : a # b => c[a] + c[b] <= Sum(c, L)
<1>1. ASSUME NEW d \in [L -> Nat]
      PROVE  Sum(d, L) \in Nat
  <2>1. PICK it : it \in [SUBSET L -> Nat] /\ Sum(d, L) = it[L]
    BY SumIsFold
  <2> QED
    BY <2>1
<1>2. ASSUME NEW d \in [L -> Nat], NEW a \in L
      PROVE  d[a] <= Sum(d, L) /\ Sum([d EXCEPT ![a] = 0], L) = Sum(d, L) - d[a]
  <2> DEFINE e == [d EXCEPT ![a] = 0]
  <2>1. e \in [L -> Nat] /\ d = [e EXCEPT ![a] = e[a] + d[a]]
    <3>1. e \in [L -> Nat] /\ e[a] + d[a] = d[a] /\ \A x \in L : x # a => e[x] = d[x]
      OBVIOUS
    <3> HIDE DEF e
    <3> QED
      BY <3>1
  <2>2. Sum(d, L) = Sum(e, L) + d[a]
    <3> HIDE DEF e
    <3>1. d[a] \in Nat
      OBVIOUS
    <3> QED
      BY <2>1, <3>1, SumAdds
  <2>3. Sum(e, L) \in Nat /\ d[a] \in Nat
    BY <1>1, <2>1
  <2> QED
    BY <2>2, <2>3
<1>3. ASSUME NEW a \in L, NEW b \in L, a # b
      PROVE  c[a] + c[b] <= Sum(c, L)
  <2> DEFINE e == [c EXCEPT ![a] = 0]
  <2>1. e \in [L -> Nat] /\ e[b] = c[b]
    BY <1>3
  <2>2. Sum(e, L) = Sum(c, L) - c[a] /\ e[b] <= Sum(e, L)
    BY <1>2, <2>1
  <2>3. Sum(c, L) \in Nat /\ c[a] \in Nat /\ c[b] \in Nat
    BY <1>1
  <2> HIDE DEF e
  <2> QED
    BY <2>1, <2>2, <2>3
<1> QED
  BY <1>1, <1>2, <1>3

\* The sum of zeros is zero.
LEMMA SumOfZeros ==
  ASSUME NEW L, IsFiniteSet(L)
  PROVE  Sum([l \in L |-> 0], L) = 0
<1> DEFINE z == [l \in L |-> 0]
<1>1. z \in [L -> Nat] /\ \A x \in L : z[x] = 0
  OBVIOUS
<1> HIDE DEF z
<1>2. PICK it : it \in [SUBSET L -> Nat] /\ Folds(it, z, L) /\ Sum(z, L) = it[L]
  BY <1>1, SumIsFold
<1> DEFINE Q == {s \in SUBSET L : it[s] = 0}
<1>3. {} \in Q
  BY <1>2 DEF Folds
<1>4. ASSUME NEW s \in SUBSET L, s # {}, s \ {Pick(s)} \in Q
      PROVE  s \in Q
  <2>1. Pick(s) \in L /\ s \ {Pick(s)} \in SUBSET L
    BY <1>4, PickShrinks
  <2>2. it[s] = z[Pick(s)] + it[s \ {Pick(s)}]
    BY <1>2, <1>4 DEF Folds
  <2> QED
    BY <1>1, <1>4, <2>1, <2>2
<1>5. SUBSET L \subseteq Q
  <2> HIDE DEF Q
  <2> QED
    BY <1>3, <1>4, PickInduction
<1> QED
  BY <1>2, <1>5 DEF z

\* Moving all of one summand to another keeps the sum.
LEMMA SumMoves ==
  ASSUME NEW L, IsFiniteSet(L), NEW c \in [L -> Nat], NEW d \in [L -> Nat],
         NEW a \in L, NEW b \in L, a # b,
         d[a] = c[a] + c[b], d[b] = 0, \A x \in L : x # a /\ x # b => d[x] = c[x]
  PROVE  Sum(d, L) = Sum(c, L)
<1> DEFINE z == [c EXCEPT ![b] = 0]
           v == c[b]
<1>1. /\ z \in [L -> Nat] /\ v \in Nat
      /\ z[b] = 0 /\ \A x \in L : x # b => z[x] = c[x]
  OBVIOUS
<1> HIDE DEF z
<1>2. c = [z EXCEPT ![b] = z[b] + v]
  BY <1>1
<1>3. d = [z EXCEPT ![a] = z[a] + v]
  BY <1>1
<1> HIDE DEF v
<1>4. Sum([z EXCEPT ![b] = z[b] + v], L) = Sum(z, L) + v
  BY <1>1, SumAdds
<1>5. Sum([z EXCEPT ![a] = z[a] + v], L) = Sum(z, L) + v
  BY <1>1, SumAdds
<1> QED
  BY <1>2, <1>3, <1>4, <1>5

-----------------------------------------------------------------------------
(* The inductive invariant                                                 *)

\* The nodes 0, ..., Used - 1 have been handed out, in this order: no operation
\* gives one back.
Used == IF free_node_head = Nil THEN MAX_NODES ELSE free_node_head

\* Before the first ListCreate there are no lists and all nodes are free.
StartInv == initialized = 0 => created = {} /\ free_node_head = 0 /\ lost = 0

\* The free nodes are still chained in the order in which InitPools left them.
ChainInv == initialized = 1 => \A n \in Nodes : n >= Used => link[n] = FreeChain(Nodes)[n]

\* The lists' counts and the dropped nodes add up to the nodes handed out.
CountsInv == initialized = 1 => Sum(count, Lists) + lost = Used

\* own says for every node which list has it: the links do not leave a list's
\* nodes, and head, tail and cursor of a list are among them.
Owns(own) ==
  /\ own \in [Nodes -> Lists \cup {Nil}]
  /\ \A n \in Nodes : n >= Used => own[n] = Nil
  /\ \A n \in Nodes : own[n] = Nil => next[n] = Nil /\ prev[n] = Nil
  /\ \A n \in Nodes : next[n] # Nil => own[next[n]] = own[n]
  /\ \A n \in Nodes : prev[n] # Nil => own[prev[n]] = own[n]
  /\ \A l \in Lists : /\ head[l] # Nil => own[head[l]] = l
                      /\ tail[l] # Nil => own[tail[l]] = l
                      /\ curr[l] # Nil => own[curr[l]] = l

OwnInv == initialized = 1 => \E own : Owns(own)

\* CursorSafe, for the lists that are not created yet as well.
CursorInv ==
  initialized = 1 => \A l \in Lists : /\ curr[l] = Nil => before[l] = 1 \/ after[l] = 1
                                      /\ count[l] > 0 <=> head[l] # Nil
                                      /\ count[l] > 0 <=> tail[l] # Nil

IInv == TypeOK /\ StartInv /\ ChainInv /\ CountsInv /\ OwnInv /\ CursorInv

-----------------------------------------------------------------------------
(* The adders                                                              *)

\* The facts about the constants and the state that every proof below uses.
LEMMA Basics ==
  /\ MAX_NODES \in Nat /\ MAX_NODES >= 1 /\ IsFiniteSet(Lists)
  /\ 0 \in Nodes /\ 0 \in Lists /\ Nil \notin Nodes /\ Nil \notin Lists
  /\ \A n \in Nodes : n \in Nat /\ n < MAX_NODES
  /\ \A n \in Nodes : FreeChain(Nodes)[n] = (IF n + 1 < MAX_NODES THEN n + 1 ELSE Nil)
<1>1. IsFiniteSet(Lists)
  BY FS_Interval, ListAssumption DEF Lists
<1> QED
  BY <1>1, ListAssumption DEF Nodes, Lists, Nil, FreeChain

\* The types of the state.
LEMMA Types ==
  ASSUME TypeOK
  PROVE  /\ count \in [Lists -> Nat] /\ Used \in Nat /\ Used <= MAX_NODES /\ lost \in Nat
         /\ free_node_head # Nil => free_node_head \in Nodes /\ Used = free_node_head
BY Basics DEF TypeOK, Used, Nodes, Nil

\* Taking a node for list l: the chain of free nodes and the counts stay right.
LEMMA TakesNode ==
  ASSUME IInv, initialized = 1, NEW l \in Lists, NodeAllocator,
         count' = Set(count, l, count[l] + 1), UNCHANGED <<createVars, lost>>
  PROVE  /\ ChainInv' /\ CountsInv' /\ StartInv'
         /\ count' \in [Lists -> 0..MAX_NODES] /\ count'[l] > 0
         /\ \A m \in Lists : m # l => count'[m] = count[m]
         /\ link' \in [Nodes -> Nodes \cup {Nil}] /\ free_node_head' \in Nodes \cup {Nil}
         /\ free_node_head \in Nodes /\ Used = free_node_head /\ Used' = Used + 1
<1>1. /\ free_node_head \in Nodes /\ Used = free_node_head
      /\ count \in [Lists -> Nat] /\ link \in [Nodes -> Nodes \cup {Nil}] /\ lost \in Nat
  BY Types DEF IInv, TypeOK, NodeAllocator
<1>2. free_node_head' = (IF Used + 1 < MAX_NODES THEN Used + 1 ELSE Nil)
  BY <1>1, Basics DEF IInv, ChainInv, NodeAllocator
<1>3. Used' = Used + 1 /\ free_node_head' \in Nodes \cup {Nil}
  BY <1>1, <1>2, Basics DEF Used, Nodes, Nil
<1>4. link' \in [Nodes -> Nodes \cup {Nil}] /\ \A n \in Nodes : n # Used => link'[n] = link[n]
  BY <1>1 DEF NodeAllocator, Set
<1>5. ChainInv'
  BY <1>1, <1>3, <1>4, Basics DEF IInv, ChainInv, createVars
<1>6. StartInv'
  BY DEF StartInv, createVars
<1>7. Sum(count', Lists) + lost' = Used'
  <2>1. \A v \in Nat : Sum([count EXCEPT ![l] = count[l] + v], Lists) = Sum(count, Lists) + v
    BY <1>1, Basics, SumAdds
  <2>2. Sum(count, Lists) \in Nat
    BY <1>1, Basics, SumBounds
  <2>3. Sum(count', Lists) = Sum(count, Lists) + 1
    BY <2>1 DEF Set
  <2>4. Sum(count, Lists) + lost = Used /\ lost' = lost /\ Used \in Nat
    BY <1>1, Types DEF IInv, CountsInv
  <2> QED
    BY <1>1, <1>3, <2>2, <2>3, <2>4
<1>8. CountsInv'
  BY <1>7 DEF CountsInv
<1>9. /\ count' \in [Lists -> Nat] /\ count'[l] > 0
      /\ \A m \in Lists : m # l => count'[m] = count[m]
  BY <1>1 DEF Set
<1>10. \A m \in Lists : count'[m] <= Used'
  <2>1. Sum(count', Lists) \in Nat /\ \A m \in Lists : count'[m] <= Sum(count', Lists)
    BY <1>9, Basics, SumBounds
  <2> QED
    BY <1>1, <1>7, <1>9, <2>1
<1>11. Used' <= MAX_NODES /\ Used' \in Nat
  BY <1>1, <1>3, Basics
<1>12. count' \in [Lists -> 0..MAX_NODES]
  BY <1>9, <1>10, <1>11, Basics
<1> QED
  BY <1>1, <1>3, <1>4, <1>5, <1>6, <1>8, <1>9, <1>12

\* A list that the client has is one after the pools are clean.
LEMMA CallFacts ==
  ASSUME IInv, NEW l \in Lists, Call(l)
  PROVE  initialized = 1
BY DEF IInv, StartInv, TypeOK, Call

\* The new node becomes one of l's nodes.
LEMMA NewOwner ==
  ASSUME IInv, NEW l \in Lists, NEW own, Owns(own), free_node_head \in Nodes,
         Used = free_node_head, Used' = Used + 1
  PROVE  LET new == [own EXCEPT ![free_node_head] = l]
         IN  /\ new \in [Nodes -> Lists \cup {Nil}]
             /\ new[free_node_head] = l
             /\ \A n \in Nodes : n # free_node_head => new[n] = own[n]
             /\ own[free_node_head] = Nil
             /\ \A n \in Nodes : n >= Used' => new[n] = Nil
<1>1. own \in [Nodes -> Lists \cup {Nil}]
  BY DEF Owns
<1>2. \A n \in Nodes : n >= Used => own[n] = Nil
  BY DEF Owns
<1> QED
  BY <1>1, <1>2, Basics

\* Nothing of the lists refers to a free node.
LEMMA FreeUnreached ==
  ASSUME IInv, NEW own, Owns(own), NEW f \in Nodes, own[f] = Nil
  PROVE  /\ next[f] = Nil /\ prev[f] = Nil
         /\ \A n \in Nodes : next[n] # f /\ prev[n] # f
         /\ \A l \in Lists : head[l] # f /\ tail[l] # f /\ curr[l] # f
<1>1. \A n \in Nodes : own[n] = Nil => next[n] = Nil /\ prev[n] = Nil
  BY DEF Owns
<1>2. \A n \in Nodes : /\ next[n] # Nil => own[next[n]] = own[n]
                       /\ prev[n] # Nil => own[prev[n]] = own[n]
  BY DEF Owns
<1>3. \A l \in Lists : /\ head[l] # Nil => own[head[l]] = l
                       /\ tail[l] # Nil => own[tail[l]] = l
                       /\ curr[l] # Nil => own[curr[l]] = l
  BY DEF Owns
<1> QED
  BY <1>1, <1>2, <1>3, Basics

\* An adder keeps the invariant if it leaves the types and links the new node to
\* nodes of its list only, and makes head, tail and cursor such nodes.
LEMMA AdderKeeps ==
  ASSUME IInv, NEW l \in Lists, Call(l), NodeAllocator,
         count' = Set(count, l, count[l] + 1), UNCHANGED <<createVars, lost, ub>>,
         NEW own, Owns(own),
         next' \in [Nodes -> Nodes \cup {Nil}], prev' \in [Nodes -> Nodes \cup {Nil}],
         head' \in [Lists -> Nodes \cup {Nil}], tail' \in [Lists -> Nodes \cup {Nil}],
         curr' \in [Lists -> Nodes \cup {Nil}],
         before' \in [Lists -> {0, 1}], after' \in [Lists -> {0, 1}],
         \A n \in Nodes : next'[n] = next[n]
                          \/ /\ n = free_node_head \/ own[n] = l
                             /\ next'[n] \in {free_node_head, Nil} \/ own[next'[n]] = l,
         \A n \in Nodes : prev'[n] = prev[n]
                          \/ /\ n = free_node_head \/ own[n] = l
                             /\ prev'[n] \in {free_node_head, Nil} \/ own[prev'[n]] = l,
         \A m \in Lists : m # l => /\ head'[m] = head[m] /\ tail'[m] = tail[m]
                                   /\ curr'[m] = curr[m]
                                   /\ before'[m] = before[m] /\ after'[m] = after[m],
         head'[l] = free_node_head \/ (head'[l] # Nil /\ own[head'[l]] = l),
         tail'[l] = free_node_head \/ (tail'[l] # Nil /\ own[tail'[l]] = l),
         curr'[l] = free_node_head \/ (curr'[l] # Nil /\ own[curr'[l]] = l)
  PROVE  IInv'
<1>1. initialized = 1
  BY CallFacts
<1>2. /\ ChainInv' /\ CountsInv' /\ StartInv'
      /\ count' \in [Lists -> 0..MAX_NODES] /\ count'[l] > 0
      /\ \A m \in Lists : m # l => count'[m] = count[m]
      /\ link' \in [Nodes -> Nodes \cup {Nil}] /\ free_node_head' \in Nodes \cup {Nil}
      /\ free_node_head \in Nodes /\ Used = free_node_head /\ Used' = Used + 1
  BY <1>1, TakesNode
<1>3. TypeOK'
  BY <1>2 DEF IInv, TypeOK, createVars
<1>4. head'[l] # Nil /\ tail'[l] # Nil /\ curr'[l] # Nil
  BY <1>2, Basics
<1>5. CursorInv'
  BY <1>1, <1>2, <1>4 DEF IInv, CursorInv, createVars
<1> PICK new : new = [own EXCEPT ![free_node_head] = l]
  OBVIOUS
<1>6. /\ new \in [Nodes -> Lists \cup {Nil}]
      /\ new[free_node_head] = l
      /\ \A n \in Nodes : n # free_node_head => new[n] = own[n]
      /\ own[free_node_head] = Nil
      /\ \A n \in Nodes : n >= Used' => new[n] = Nil
  BY <1>2, NewOwner
<1>7. /\ next[free_node_head] = Nil /\ prev[free_node_head] = Nil
      /\ \A n \in Nodes : next[n] # free_node_head /\ prev[n] # free_node_head
      /\ \A m \in Lists : /\ head[m] # free_node_head /\ tail[m] # free_node_head
                          /\ curr[m] # free_node_head
  BY <1>2, <1>6, FreeUnreached
<1>8. \A n \in Nodes : next[n] \in Nodes \cup {Nil} /\ prev[n] \in Nodes \cup {Nil}
  BY DEF IInv, TypeOK
<1>9. \A n \in Nodes : /\ own[n] = Nil => next[n] = Nil /\ prev[n] = Nil
                       /\ next[n] # Nil => own[next[n]] = own[n]
                       /\ prev[n] # Nil => own[prev[n]] = own[n]
  BY DEF Owns
<1>10. \A n \in Nodes : new[n] = Nil => next'[n] = Nil /\ prev'[n] = Nil
  BY <1>2, <1>6, <1>9, Basics
<1>11. \A n \in Nodes : next'[n] # Nil => new[next'[n]] = new[n]
  BY <1>2, <1>6, <1>7, <1>8, <1>9, Basics
<1>12. \A n \in Nodes : prev'[n] # Nil => new[prev'[n]] = new[n]
  BY <1>2, <1>6, <1>7, <1>8, <1>9, Basics
<1>13. \A m \in Lists : /\ head'[m] # Nil => new[head'[m]] = m
                        /\ tail'[m] # Nil => new[tail'[m]] = m
                        /\ curr'[m] # Nil => new[curr'[m]] = m
  <2>1. \A m \in Lists : /\ head[m] \in Nodes \cup {Nil} /\ tail[m] \in Nodes \cup {Nil}
                         /\ curr[m] \in Nodes \cup {Nil}
                         /\ head[m] # Nil => own[head[m]] = m
                         /\ tail[m] # Nil => own[tail[m]] = m
                         /\ curr[m] # Nil => own[curr[m]] = m
    BY DEF IInv, TypeOK, Owns
  <2>2. /\ head'[l] \in Nodes \cup {Nil} /\ tail'[l] \in Nodes \cup {Nil}
        /\ curr'[l] \in Nodes \cup {Nil}
    OBVIOUS
  <2> QED
    BY <1>2, <1>6, <1>7, <2>1, <2>2, Basics
<1>14. Owns(new)'
  BY <1>6, <1>10, <1>11, <1>12, <1>13 DEF Owns
<1>15. OwnInv'
  BY <1>14 DEF OwnInv
<1> QED
  BY <1>2, <1>3, <1>5, <1>15 DEF IInv

\* Where the cursor, the head and the tail of a list are.
LEMMA ListFacts ==
  ASSUME IInv, initialized = 1, NEW own, Owns(own), NEW l \in Lists
  PROVE  /\ count[l] \in Nat
         /\ count[l] # 0 => /\ head[l] \in Nodes /\ own[head[l]] = l
                            /\ tail[l] \in Nodes /\ own[tail[l]] = l
         /\ curr[l] # Nil => curr[l] \in Nodes /\ own[curr[l]] = l
         /\ before[l] # 1 /\ after[l] # 1 => curr[l] # Nil
         /\ next \in [Nodes -> Nodes \cup {Nil}] /\ prev \in [Nodes -> Nodes \cup {Nil}]
         /\ head \in [Lists -> Nodes \cup {Nil}] /\ tail \in [Lists -> Nodes \cup {Nil}]
         /\ curr \in [Lists -> Nodes \cup {Nil}]
         /\ before \in [Lists -> {0, 1}] /\ after \in [Lists -> {0, 1}]
         /\ \A n \in Nodes : own[n] = l => /\ next[n] # Nil => own[next[n]] = l
                                           /\ prev[n] # Nil => own[prev[n]] = l
<1>1. TypeOK
  BY DEF IInv
<1>2. count[l] \in Nat /\ head[l] \in Nodes \cup {Nil} /\ tail[l] \in Nodes \cup {Nil}
  BY <1>1, Types DEF TypeOK
<1>3. count[l] # 0 => head[l] # Nil /\ tail[l] # Nil
  BY <1>2 DEF IInv, CursorInv
<1> QED
  BY <1>1, <1>2, <1>3 DEF IInv, TypeOK, CursorInv, Owns

\* ListAppend links the new node behind the tail and before nothing.
LEMMA AppendKeeps ==
  ASSUME IInv, NEW l \in Lists, ListAppend(l)
  PROVE  IInv'
<1>1. initialized = 1 /\ Call(l) /\ NodeAllocator
  BY CallFacts DEF ListAppend
<1>2. PICK own : Owns(own)
  BY <1>1 DEF IInv, OwnInv
<1>3. free_node_head \in Nodes
  BY <1>1, Types DEF IInv, NodeAllocator
<1> DEFINE n == free_node_head
<1>4. /\ prev' = Set(prev, n, IF count[l] = 0 THEN n ELSE curr[l])
      /\ next' = [next EXCEPT ![n] = Nil, ![IF count[l] = 0 THEN n ELSE tail[l]] = n]
      /\ head' = IF count[l] = 0 THEN Set(head, l, n) ELSE head
      /\ tail' = Set(tail, l, n) /\ curr' = Set(curr, l, n)
      /\ count' = Set(count, l, count[l] + 1)
      /\ before' = Set(before, l, 0) /\ after' = Set(after, l, 0)
      /\ UNCHANGED <<createVars, lost, ub>>
  BY DEF ListAppend
<1> HIDE DEF n
<1>5. n = free_node_head /\ n \in Nodes
  BY <1>3 DEF n
<1>6. /\ prev' \in [Nodes -> Nodes \cup {Nil}] /\ next' \in [Nodes -> Nodes \cup {Nil}]
      /\ \A p \in Nodes : prev'[p] = prev[p]
                          \/ (p = n /\ (prev'[p] \in {n, Nil} \/ own[prev'[p]] = l))
      /\ \A p \in Nodes : next'[p] = next[p]
                          \/ ((p = n \/ own[p] = l) /\ next'[p] \in {n, Nil})
  <2>1. /\ next \in [Nodes -> Nodes \cup {Nil}] /\ prev \in [Nodes -> Nodes \cup {Nil}]
        /\ count[l] # 0 => tail[l] \in Nodes /\ own[tail[l]] = l
        /\ curr[l] \in Nodes \cup {Nil} /\ (curr[l] # Nil => own[curr[l]] = l)
    BY <1>1, <1>2, ListFacts
  <2> DEFINE t == IF count[l] = 0 THEN n ELSE tail[l]
             b == IF count[l] = 0 THEN n ELSE curr[l]
  <2>2. /\ t \in Nodes /\ (t = n \/ own[t] = l)
        /\ b \in Nodes \cup {Nil} /\ (b \in {n, Nil} \/ own[b] = l)
    BY <1>5, <2>1
  <2>3. prev' = [prev EXCEPT ![n] = b] /\ next' = [next EXCEPT ![n] = Nil, ![t] = n]
    BY <1>4 DEF Set
  <2> HIDE DEF t, b
  <2>4. /\ prev' \in [Nodes -> Nodes \cup {Nil}]
        /\ \A p \in Nodes : prev'[p] = prev[p] \/ (p = n /\ prev'[p] = b)
    BY <1>5, <2>1, <2>2, <2>3
  <2>5. /\ next' \in [Nodes -> Nodes \cup {Nil}]
        /\ \A p \in Nodes : next'[p] = next[p] \/ ((p = n \/ p = t) /\ next'[p] \in {n, Nil})
    BY <1>5, <2>1, <2>2, <2>3
  <2> QED
    BY <2>2, <2>4, <2>5
<1>7. /\ head' \in [Lists -> Nodes \cup {Nil}] /\ tail' \in [Lists -> Nodes \cup {Nil}]
      /\ curr' \in [Lists -> Nodes \cup {Nil}]
      /\ before' \in [Lists -> {0, 1}] /\ after' \in [Lists -> {0, 1}]
      /\ \A m \in Lists : m # l => /\ head'[m] = head[m] /\ tail'[m] = tail[m]
                                   /\ curr'[m] = curr[m]
                                   /\ before'[m] = before[m] /\ after'[m] = after[m]
      /\ head'[l] = n \/ (head'[l] # Nil /\ own[head'[l]] = l)
      /\ tail'[l] = n /\ curr'[l] = n
  BY <1>1, <1>2, <1>4, <1>5, ListFacts, Basics DEF Set
<1> QED
  BY <1>1, <1>2, <1>4, <1>5, <1>6, <1>7, AdderKeeps

\* ListPrepend links it before the head.
LEMMA PrependKeeps ==
  ASSUME IInv, NEW l \in Lists, ListPrepend(l)
  PROVE  IInv'
<1>1. initialized = 1 /\ Call(l) /\ NodeAllocator
  BY CallFacts DEF ListPrepend
<1>2. PICK own : Owns(own)
  BY <1>1 DEF IInv, OwnInv
<1>3. free_node_head \in Nodes
  BY <1>1, Types DEF IInv, NodeAllocator
<1> DEFINE n == free_node_head
           h == IF count[l] = 0 THEN n ELSE head[l]
<1>4. /\ next' = Set(next, n, h) /\ prev' = [prev EXCEPT ![n] = Nil, ![h] = n]
      /\ head' = Set(head, l, n)
      /\ tail' = IF count[l] = 0 THEN Set(tail, l, n) ELSE tail
      /\ curr' = Set(curr, l, n)
      /\ count' = Set(count, l, count[l] + 1)
      /\ before' = (IF count[l] = 0 THEN Set(before, l, 0) ELSE before)
      /\ after' = (IF count[l] = 0 THEN Set(after, l, 0) ELSE after)
      /\ UNCHANGED <<createVars, lost, ub>>
  BY DEF ListPrepend
<1>5. h \in Nodes /\ (h = n \/ own[h] = l)
  BY <1>1, <1>2, <1>3, ListFacts
<1> HIDE DEF n, h
<1>6. n = free_node_head /\ n \in Nodes
  BY <1>3 DEF n
<1>7. /\ next' \in [Nodes -> Nodes \cup {Nil}] /\ prev' \in [Nodes -> Nodes \cup {Nil}]
      /\ \A p \in Nodes : next'[p] = next[p] \/ (p = n /\ (next'[p] = n \/ own[next'[p]] = l))
      /\ \A p \in Nodes : prev'[p] = prev[p]
                          \/ ((p = n \/ own[p] = l) /\ prev'[p] \in {n, Nil})
  <2>1. next \in [Nodes -> Nodes \cup {Nil}] /\ prev \in [Nodes -> Nodes \cup {Nil}]
    BY <1>1, <1>2, ListFacts
  <2>2. /\ next' \in [Nodes -> Nodes \cup {Nil}]
        /\ \A p \in Nodes : next'[p] = next[p] \/ (p = n /\ next'[p] = h)
    BY <1>4, <1>5, <1>6, <2>1 DEF Set
  <2>3. /\ prev' \in [Nodes -> Nodes \cup {Nil}]
        /\ \A p \in Nodes : prev'[p] = prev[p] \/ ((p = n \/ p = h) /\ prev'[p] \in {n, Nil})
    BY <1>4, <1>5, <1>6, <2>1
  <2> QED
    BY <1>5, <2>2, <2>3
<1>8. /\ head' \in [Lists -> Nodes \cup {Nil}] /\ tail' \in [Lists -> Nodes \cup {Nil}]
      /\ curr' \in [Lists -> Nodes \cup {Nil}]
      /\ before' \in [Lists -> {0, 1}] /\ after' \in [Lists -> {0, 1}]
      /\ \A m \in Lists : m # l => /\ head'[m] = head[m] /\ tail'[m] = tail[m]
                                   /\ curr'[m] = curr[m]
                                   /\ before'[m] = before[m] /\ after'[m] = after[m]
      /\ tail'[l] = n \/ (tail'[l] # Nil /\ own[tail'[l]] = l)
      /\ head'[l] = n /\ curr'[l] = n
  BY <1>1, <1>2, <1>4, <1>6, ListFacts, Basics DEF Set
<1> QED
  BY <1>1, <1>2, <1>4, <1>6, <1>7, <1>8, AdderKeeps

\* ListAdd in the middle links the new node behind the cursor.
LEMMA AddAfterKeeps ==
  ASSUME IInv, NEW l \in Lists, AddAfter(l), count[l] # 0, curr[l] # Nil
  PROVE  IInv'
<1>1. initialized = 1 /\ Call(l) /\ NodeAllocator
  BY CallFacts DEF AddAfter
<1>2. PICK own : Owns(own)
  BY <1>1 DEF IInv, OwnInv
<1>3. free_node_head \in Nodes
  BY <1>1, Types DEF IInv, NodeAllocator
<1> DEFINE n == free_node_head
           c == curr[l]
<1>4. /\ next' = [next EXCEPT ![n] = next[c], ![c] = n]
      /\ prev' = [p \in Nodes |-> IF p = next[c] THEN n ELSE IF p = n THEN c ELSE prev[p]]
      /\ count' = Set(count, l, count[l] + 1)
      /\ UNCHANGED <<head, tail, cursor, createVars, lost, ub>>
  BY DEF AddAfter
<1>5. /\ c \in Nodes /\ own[c] = l /\ c = curr[l]
      /\ next[c] = Nil \/ (next[c] \in Nodes /\ own[next[c]] = l)
  BY <1>1, <1>2, ListFacts
<1> HIDE DEF n, c
<1>6. n = free_node_head /\ n \in Nodes
  BY <1>3 DEF n
<1>7. /\ next' \in [Nodes -> Nodes \cup {Nil}] /\ prev' \in [Nodes -> Nodes \cup {Nil}]
      /\ \A p \in Nodes : next'[p] = next[p]
                          \/ ((p = n \/ own[p] = l) /\ (next'[p] \in {n, Nil} \/ own[next'[p]] = l))
      /\ \A p \in Nodes : prev'[p] = prev[p]
                          \/ ((p = n \/ own[p] = l) /\ (prev'[p] \in {n, Nil} \/ own[prev'[p]] = l))
  <2>1. next \in [Nodes -> Nodes \cup {Nil}] /\ prev \in [Nodes -> Nodes \cup {Nil}]
    BY <1>1, <1>2, ListFacts
  <2>2. /\ next' \in [Nodes -> Nodes \cup {Nil}]
        /\ \A p \in Nodes : next'[p] = next[p] \/ (p = n /\ next'[p] = next[c])
                                              \/ (p = c /\ next'[p] = n)
    BY <1>4, <1>5, <1>6, <2>1
  <2>3. /\ prev' \in [Nodes -> Nodes \cup {Nil}]
        /\ \A p \in Nodes : prev'[p] = prev[p] \/ (p = next[c] /\ prev'[p] = n)
                                              \/ (p = n /\ prev'[p] = c)
    BY <1>4, <1>5, <1>6, <2>1
  <2> QED
    BY <1>5, <2>2, <2>3, Basics
<1>8. /\ head \in [Lists -> Nodes \cup {Nil}] /\ tail \in [Lists -> Nodes \cup {Nil}]
      /\ curr \in [Lists -> Nodes \cup {Nil}]
      /\ before \in [Lists -> {0, 1}] /\ after \in [Lists -> {0, 1}]
      /\ head[l] # Nil /\ own[head[l]] = l /\ tail[l] # Nil /\ own[tail[l]] = l
  BY <1>1, <1>2, ListFacts, Basics
<1>9. UNCHANGED <<head, tail, curr, before, after>>
  BY <1>4 DEF cursor
<1> QED
  BY <1>1, <1>2, <1>4, <1>5, <1>6, <1>7, <1>8, <1>9, Basics, AdderKeeps

\* ListInsert in the middle links it before the cursor, which moves to it.
LEMMA InsertBeforeKeeps ==
  ASSUME IInv, NEW l \in Lists, InsertBefore(l), count[l] # 0, curr[l] # Nil
  PROVE  IInv'
<1>1. initialized = 1 /\ Call(l) /\ NodeAllocator
  BY CallFacts DEF InsertBefore
<1>2. PICK own : Owns(own)
  BY <1>1 DEF IInv, OwnInv
<1>3. free_node_head \in Nodes
  BY <1>1, Types DEF IInv, NodeAllocator
<1> DEFINE n == free_node_head
           c == curr[l]
<1>4. /\ next' = [p \in Nodes |-> IF p = prev[c] THEN n ELSE IF p = n THEN c ELSE next[p]]
      /\ prev' = [prev EXCEPT ![n] = prev[c], ![c] = n]
      /\ head' = IF head[l] = c THEN Set(head, l, n) ELSE head
      /\ curr' = Set(curr, l, n)
      /\ count' = Set(count, l, count[l] + 1)
      /\ UNCHANGED <<tail, before, after, createVars, lost, ub>>
  BY DEF InsertBefore
<1>5. /\ c \in Nodes /\ own[c] = l
      /\ prev[c] = Nil \/ (prev[c] \in Nodes /\ own[prev[c]] = l)
  BY <1>1, <1>2, ListFacts
<1> HIDE DEF n, c
<1>6. n = free_node_head /\ n \in Nodes
  BY <1>3 DEF n
<1>7. /\ next' \in [Nodes -> Nodes \cup {Nil}] /\ prev' \in [Nodes -> Nodes \cup {Nil}]
      /\ \A p \in Nodes : next'[p] = next[p]
                          \/ ((p = n \/ own[p] = l) /\ (next'[p] \in {n, Nil} \/ own[next'[p]] = l))
      /\ \A p \in Nodes : prev'[p] = prev[p]
                          \/ ((p = n \/ own[p] = l) /\ (prev'[p] \in {n, Nil} \/ own[prev'[p]] = l))
  <2>1. prev \in [Nodes -> Nodes \cup {Nil}] /\ next \in [Nodes -> Nodes \cup {Nil}]
    BY <1>1, <1>2, ListFacts
  <2>2. /\ prev' \in [Nodes -> Nodes \cup {Nil}]
        /\ \A p \in Nodes : prev'[p] = prev[p] \/ (p = n /\ prev'[p] = prev[c])
                                              \/ (p = c /\ prev'[p] = n)
    BY <1>4, <1>5, <1>6, <2>1
  <2>3. /\ next' \in [Nodes -> Nodes \cup {Nil}]
        /\ \A p \in Nodes : next'[p] = next[p] \/ (p = prev[c] /\ next'[p] = n)
                                              \/ (p = n /\ next'[p] = c)
    BY <1>4, <1>5, <1>6, <2>1
  <2> QED
    BY <1>5, <2>2, <2>3, Basics
<1>8. /\ head' \in [Lists -> Nodes \cup {Nil}] /\ tail' \in [Lists -> Nodes \cup {Nil}]
      /\ curr' \in [Lists -> Nodes \cup {Nil}]
      /\ before' \in [Lists -> {0, 1}] /\ after' \in [Lists -> {0, 1}]
      /\ \A m \in Lists : m # l => /\ head'[m] = head[m] /\ tail'[m] = tail[m]
                                   /\ curr'[m] = curr[m]
      /\ head'[l] = n \/ (head'[l] # Nil /\ own[head'[l]] = l)
      /\ tail'[l] # Nil /\ own[tail'[l]] = l /\ curr'[l] = n
  BY <1>1, <1>2, <1>4, <1>6, ListFacts, Basics DEF Set
<1> QED
  BY <1>1, <1>2, <1>4, <1>6, <1>7, <1>8, AdderKeeps

\* ListAdd and ListInsert: the flags keep them from the index -1.
LEMMA AddInsertKeep ==
  ASSUME IInv, NEW l \in Lists, Call(l), ListAdd(l) \/ ListInsert(l)
  PROVE  IInv'
<1>1. PICK own : Owns(own)
  BY CallFacts DEF IInv, OwnInv
<1>2. count[l] # 0 /\ before[l] # 1 /\ after[l] # 1 => curr[l] # Nil
  BY <1>1, CallFacts, ListFacts
<1>3. CASE ListAdd(l)
  BY <1>3, AppendKeeps, PrependKeeps, AddAfterKeeps DEF ListAdd
<1>4. CASE ListInsert(l)
  BY <1>2, <1>4, AppendKeeps, PrependKeeps, InsertBeforeKeeps DEF ListInsert
<1> QED
  BY <1>3, <1>4

-----------------------------------------------------------------------------
(* The movers, ListConcat and ListCreate                                   *)

\* Only the cursor of l moves: to a node of l, or off the list with a flag set.
LEMMA CursorMoves ==
  ASSUME IInv, NEW l \in Lists, Call(l), NEW own, Owns(own),
         UNCHANGED <<nodeVars, head, tail, count, createVars, lost>>, ub' \in BOOLEAN,
         curr' \in [Lists -> Nodes \cup {Nil}],
         before' \in [Lists -> {0, 1}], after' \in [Lists -> {0, 1}],
         \A m \in Lists : m # l => /\ curr'[m] = curr[m] /\ before'[m] = before[m]
                                   /\ after'[m] = after[m],
         curr'[l] = Nil => before'[l] = 1 \/ after'[l] = 1,
         curr'[l] # Nil => own[curr'[l]] = l
  PROVE  IInv'
<1>1. initialized = 1
  BY CallFacts
<1>2. /\ UNCHANGED <<next, prev, link, free_node_head, head, tail, count>>
      /\ UNCHANGED <<listlink, free_list_head, initialized, created>> /\ Used' = Used
  BY DEF nodeVars, createVars, Used
<1>3. TypeOK'
  BY <1>2 DEF IInv, TypeOK
<1>4. StartInv' /\ ChainInv' /\ CountsInv'
  BY <1>2 DEF IInv, StartInv, ChainInv, CountsInv
<1>5. CursorInv'
  BY <1>1, <1>2 DEF IInv, CursorInv
<1>6. Owns(own)'
  BY <1>2 DEF Owns
<1>7. OwnInv'
  BY <1>6 DEF OwnInv
<1> QED
  BY <1>3, <1>4, <1>5, <1>7 DEF IInv

\* The movers keep the cursor on the list or say that it is off it.
LEMMA MoversKeep ==
  ASSUME IInv, NEW l \in Lists, ListFirst(l) \/ ListLast(l) \/ ListNext(l) \/ ListPrev(l)
  PROVE  IInv'
<1>1. Call(l) /\ initialized = 1
  BY CallFacts DEF ListFirst, ListLast, ListNext, ListPrev
<1>2. PICK own : Owns(own)
  BY <1>1 DEF IInv, OwnInv
<1>3. /\ curr \in [Lists -> Nodes \cup {Nil}]
      /\ before \in [Lists -> {0, 1}] /\ after \in [Lists -> {0, 1}]
      /\ count[l] # 0 => /\ head[l] \in Nodes /\ own[head[l]] = l
                         /\ tail[l] \in Nodes /\ own[tail[l]] = l
      /\ curr[l] = Nil => before[l] = 1 \/ after[l] = 1
      /\ curr[l] # Nil => /\ next[curr[l]] \in Nodes \cup {Nil}
                          /\ prev[curr[l]] \in Nodes \cup {Nil}
                          /\ next[curr[l]] # Nil => own[next[curr[l]]] = l
                          /\ prev[curr[l]] # Nil => own[prev[curr[l]]] = l
      /\ ub \in BOOLEAN
  BY <1>1, <1>2, ListFacts DEF IInv, TypeOK, CursorInv
<1>4. CASE ListFirst(l)
  <2>1. /\ curr' = [curr EXCEPT ![l] = head[l]]
        /\ before' = [before EXCEPT ![l] = 0] /\ after' = [after EXCEPT ![l] = 0]
        /\ UNCHANGED <<nodeVars, head, tail, count, createVars, lost, ub>> /\ count[l] # 0
    BY <1>4 DEF ListFirst, Set
  <2> QED
    BY <1>1, <1>2, <1>3, <2>1, CursorMoves, Basics
<1>5. CASE ListLast(l)
  <2>1. /\ curr' = [curr EXCEPT ![l] = tail[l]]
        /\ before' = [before EXCEPT ![l] = 0]
        /\ UNCHANGED <<nodeVars, head, tail, count, after, createVars, lost, ub>> /\ count[l] # 0
    BY <1>5 DEF ListLast, Set
  <2> QED
    BY <1>1, <1>2, <1>3, <2>1, CursorMoves, Basics
<1>6. ASSUME NEW to \in Nodes \cup {Nil}, NEW at_before \in BOOLEAN, Step(l, to, at_before),
             to # Nil => own[to] = l, UNCHANGED <<nodeVars, head, tail, count, createVars, lost, ub>>
      PROVE  IInv'
  <2>1. /\ curr' \in [Lists -> Nodes \cup {Nil}] /\ curr'[l] = to
        /\ before' \in [Lists -> {0, 1}] /\ after' \in [Lists -> {0, 1}]
        /\ \A m \in Lists : m # l => /\ curr'[m] = curr[m] /\ before'[m] = before[m]
                                     /\ after'[m] = after[m]
        /\ to = Nil => before'[l] = 1 \/ after'[l] = 1
    BY <1>3, <1>6 DEF Step, Set
  <2> QED
    BY <1>1, <1>2, <1>3, <1>6, <2>1, CursorMoves
<1>7. ASSUME curr[l] = Nil, ub' = TRUE, UNCHANGED cursor,
             UNCHANGED <<nodeVars, head, tail, count, createVars, lost>>
      PROVE  IInv'
  BY <1>1, <1>2, <1>3, <1>7, CursorMoves DEF cursor
<1>8. CASE ListNext(l)
  BY <1>3, <1>6, <1>7, <1>8 DEF ListNext
<1>9. CASE ListPrev(l)
  BY <1>3, <1>6, <1>7, <1>9 DEF ListPrev
<1> QED
  BY <1>4, <1>5, <1>8, <1>9

\* The undefined behaviour of ListConcat onto an empty list ends the behaviour;
\* otherwise all nodes of list2, and its count, become list1's.
LEMMA ConcatKeeps ==
  ASSUME IInv, NEW l \in Lists, NEW m \in Lists, l # m, ListConcat(l, m)
  PROVE  IInv'
<1>1. Call(l) /\ initialized = 1 /\ l # m /\ count[m] # 0
  BY CallFacts DEF ListConcat
<1>2. PICK own : Owns(own)
  BY <1>1 DEF IInv, OwnInv
<1>3. CASE count[l] = 0
  <2>1. ub' = TRUE /\ UNCHANGED <<nodeVars, listVars, createVars, lost>>
    BY <1>3 DEF ListConcat
  <2>2. /\ UNCHANGED <<nodeVars, head, tail, count, createVars, lost>> /\ UNCHANGED cursor
        /\ UNCHANGED <<curr, before, after>>
    BY <2>1 DEF listVars, cursor
  <2> QED
    BY <1>1, <1>2, <2>1, <2>2, CursorMoves DEF IInv, TypeOK, CursorInv, Owns
<1>4. CASE count[l] # 0
  <2>1. /\ next' = [next EXCEPT ![tail[l]] = head[m]]
        /\ prev' = [prev EXCEPT ![head[m]] = tail[l]]
        /\ head' = [head EXCEPT ![m] = Nil]
        /\ tail' = [tail EXCEPT ![l] = tail[m], ![m] = Nil]
        /\ count' = [count EXCEPT ![l] = @ + count[m], ![m] = 0]
        /\ curr' = [curr EXCEPT ![m] = Nil]
        /\ before' = [before EXCEPT ![m] = 1] /\ after' = [after EXCEPT ![m] = 0]
        /\ UNCHANGED <<link, free_node_head, createVars, lost, ub>>
    BY <1>1, <1>4 DEF ListConcat, Emptied, Set
  <2>2. /\ head[l] \in Nodes /\ own[head[l]] = l /\ tail[l] \in Nodes /\ own[tail[l]] = l
        /\ head[m] \in Nodes /\ own[head[m]] = m /\ tail[m] \in Nodes /\ own[tail[m]] = m
        /\ count \in [Lists -> Nat] /\ count[l] \in Nat /\ count[m] \in Nat
        /\ next \in [Nodes -> Nodes \cup {Nil}] /\ prev \in [Nodes -> Nodes \cup {Nil}]
        /\ head \in [Lists -> Nodes \cup {Nil}] /\ tail \in [Lists -> Nodes \cup {Nil}]
        /\ curr \in [Lists -> Nodes \cup {Nil}]
        /\ before \in [Lists -> {0, 1}] /\ after \in [Lists -> {0, 1}]
    BY <1>1, <1>2, <1>4, ListFacts, Types DEF IInv
  <2>3. /\ UNCHANGED <<listlink, free_list_head, initialized, created, link, free_node_head, lost>>
        /\ Used' = Used /\ Used \in Nat /\ Used <= MAX_NODES /\ lost \in Nat
    BY <2>1, Types DEF createVars, Used, IInv
  <2>4. /\ count' \in [Lists -> Nat] /\ count'[l] = count[l] + count[m] /\ count'[m] = 0
        /\ \A x \in Lists : x # l /\ x # m => count'[x] = count[x]
    BY <1>1, <2>1, <2>2
  <2>5. Sum(count', Lists) + lost' = Used'
    <3>1. Sum(count', Lists) = Sum(count, Lists)
      <4>1. \A c, d \in [Lists -> Nat] :
              /\ d[l] = c[l] + c[m] /\ d[m] = 0
              /\ \A x \in Lists : x # l /\ x # m => d[x] = c[x]
              => Sum(d, Lists) = Sum(c, Lists)
        BY <1>1, Basics, SumMoves
      <4> QED
        BY <2>2, <2>4, <4>1
    <3> QED
      BY <1>1, <2>3, <3>1 DEF IInv, CountsInv
  <2>6. \A x \in Lists : count'[x] <= Used'
    <3>1. Sum(count', Lists) \in Nat /\ \A x \in Lists : count'[x] <= Sum(count', Lists)
      BY <2>4, Basics, SumBounds
    <3> QED
      BY <2>3, <2>4, <2>5, <3>1
  <2>7. count' \in [Lists -> 0..MAX_NODES]
    BY <2>3, <2>4, <2>6, Basics
  <2>8. /\ next' \in [Nodes -> Nodes \cup {Nil}] /\ prev' \in [Nodes -> Nodes \cup {Nil}]
        /\ head' \in [Lists -> Nodes \cup {Nil}] /\ tail' \in [Lists -> Nodes \cup {Nil}]
        /\ curr' \in [Lists -> Nodes \cup {Nil}]
        /\ before' \in [Lists -> {0, 1}] /\ after' \in [Lists -> {0, 1}]
    BY <2>1, <2>2
  <2>9. TypeOK'
    BY <2>1, <2>3, <2>7, <2>8 DEF IInv, TypeOK
  <2>10. StartInv' /\ ChainInv' /\ CountsInv'
    BY <2>3, <2>5 DEF IInv, StartInv, ChainInv, CountsInv
  <2>11. /\ head'[m] = Nil /\ tail'[m] = Nil /\ curr'[m] = Nil /\ before'[m] = 1
         /\ head'[l] = head[l] /\ tail'[l] = tail[m] /\ curr'[l] = curr[l]
         /\ \A x \in Lists : x # m => /\ head'[x] = head[x] /\ curr'[x] = curr[x]
                                      /\ before'[x] = before[x] /\ after'[x] = after[x]
         /\ \A x \in Lists : x # m /\ x # l => tail'[x] = tail[x]
    BY <1>1, <2>1, <2>2
  <2>12. CursorInv'
    <3> SUFFICES ASSUME NEW x \in Lists
                 PROVE  /\ curr'[x] = Nil => before'[x] = 1 \/ after'[x] = 1
                        /\ count'[x] > 0 <=> head'[x] # Nil
                        /\ count'[x] > 0 <=> tail'[x] # Nil
      BY DEF CursorInv
    <3>1. /\ curr[x] = Nil => before[x] = 1 \/ after[x] = 1
          /\ count[x] > 0 <=> head[x] # Nil
          /\ count[x] > 0 <=> tail[x] # Nil
      BY <1>1 DEF IInv, CursorInv
    <3>2. CASE x = m
      BY <2>4, <2>11, <3>2
    <3>3. CASE x = l
      BY <1>1, <1>4, <2>2, <2>4, <2>11, <3>1, <3>3, Basics
    <3>4. CASE x # l /\ x # m
      BY <2>4, <2>11, <3>1, <3>4
    <3> QED
      BY <3>2, <3>3, <3>4
  <2>13. PICK new : new = [n \in Nodes |-> IF own[n] = m THEN l ELSE own[n]]
    OBVIOUS
  <2>14. own \in [Nodes -> Lists \cup {Nil}]
    BY <1>2 DEF Owns
  <2>15. /\ new \in [Nodes -> Lists \cup {Nil}]
         /\ \A n \in Nodes : new[n] = (IF own[n] = m THEN l ELSE own[n])
    BY <2>13, <2>14
  <2>16. \A n \in Nodes : /\ n >= Used => own[n] = Nil
                          /\ own[n] = Nil => next[n] = Nil /\ prev[n] = Nil
                          /\ next[n] # Nil => own[next[n]] = own[n]
                          /\ prev[n] # Nil => own[prev[n]] = own[n]
    BY <1>2 DEF Owns
  <2>17. /\ next'[tail[l]] = head[m] /\ \A n \in Nodes : n # tail[l] => next'[n] = next[n]
         /\ prev'[head[m]] = tail[l] /\ \A n \in Nodes : n # head[m] => prev'[n] = prev[n]
    BY <2>1, <2>2
  <2>18. \A n \in Nodes : new[n] = Nil <=> own[n] = Nil
    BY <2>15, Basics
  <2>19. \A n \in Nodes : /\ n >= Used' => new[n] = Nil
                          /\ new[n] = Nil => next'[n] = Nil /\ prev'[n] = Nil
    BY <2>2, <2>3, <2>16, <2>17, <2>18, Basics
  <2>20. \A n \in Nodes : next'[n] # Nil => new[next'[n]] = new[n]
    BY <2>2, <2>15, <2>16, <2>17
  <2>21. \A n \in Nodes : prev'[n] # Nil => new[prev'[n]] = new[n]
    BY <2>2, <2>15, <2>16, <2>17
  <2>22. \A x \in Lists : /\ head[x] # Nil => own[head[x]] = x
                          /\ tail[x] # Nil => own[tail[x]] = x
                          /\ curr[x] # Nil => own[curr[x]] = x
    BY <1>2 DEF Owns
  <2>23. \A x \in Lists : /\ head'[x] # Nil => new[head'[x]] = x
                          /\ tail'[x] # Nil => new[tail'[x]] = x
                          /\ curr'[x] # Nil => new[curr'[x]] = x
    BY <1>1, <2>2, <2>11, <2>15, <2>22
  <2>24. Owns(new)'
    BY <2>15, <2>19, <2>20, <2>21, <2>23 DEF Owns
  <2> QED
    BY <2>9, <2>10, <2>12, <2>24 DEF IInv, OwnInv
<1> QED
  BY <1>3, <1>4

\* A list that is concatenated to itself becomes empty.  Its nodes keep it as
\* their owner, and their number goes from its count to lost.
LEMMA SelfConcatKeeps ==
  ASSUME IInv, NEW l \in Lists, ListConcat(l, l)
  PROVE  IInv'
<1>1. Call(l) /\ initialized = 1 /\ count[l] # 0
  BY CallFacts DEF ListConcat
<1>2. PICK own : Owns(own)
  BY <1>1 DEF IInv, OwnInv
<1>3. /\ head[l] \in Nodes /\ own[head[l]] = l /\ tail[l] \in Nodes /\ own[tail[l]] = l
      /\ count \in [Lists -> Nat] /\ lost \in Nat /\ Used \in Nat /\ Used <= MAX_NODES
      /\ count \in [Lists -> 0..MAX_NODES]
      /\ next \in [Nodes -> Nodes \cup {Nil}] /\ prev \in [Nodes -> Nodes \cup {Nil}]
      /\ head \in [Lists -> Nodes \cup {Nil}] /\ tail \in [Lists -> Nodes \cup {Nil}]
      /\ curr \in [Lists -> Nodes \cup {Nil}]
      /\ before \in [Lists -> {0, 1}] /\ after \in [Lists -> {0, 1}]
  BY <1>1, <1>2, ListFacts, Types DEF IInv, TypeOK
<1>4. /\ next' = [next EXCEPT ![tail[l]] = head[l]]
      /\ prev' = [prev EXCEPT ![head[l]] = tail[l]]
      /\ head' = [head EXCEPT ![l] = Nil] /\ tail' = [tail EXCEPT ![l] = Nil]
      /\ count' = [count EXCEPT ![l] = 0] /\ lost' = lost + count[l]
      /\ curr' = [curr EXCEPT ![l] = Nil]
      /\ before' = [before EXCEPT ![l] = 1] /\ after' = [after EXCEPT ![l] = 0]
      /\ UNCHANGED <<listlink, free_list_head, initialized, created, link, free_node_head, ub>>
  BY <1>1, <1>3 DEF ListConcat, Emptied, Set, createVars
<1>5. Used' = Used
  BY <1>4 DEF Used
<1>6. Sum(count', Lists) + lost' = Used' /\ lost' \in 0..MAX_NODES
  <2>1. PICK z \in [Lists -> Nat] : z = count'
    BY <1>3, <1>4
  <2>2. PICK v \in Nat : v = count[l]
    BY <1>3
  <2>3. count = [z EXCEPT ![l] = z[l] + v]
    <3>1. z[l] = 0 /\ z[l] + v = count[l] /\ \A x \in Lists : x # l => z[x] = count[x]
      BY <1>3, <1>4, <2>1, <2>2
    <3>2. [z EXCEPT ![l] = z[l] + v] \in [Lists -> Nat]
      BY <2>1, <2>2, <3>1
    <3>3. \A x \in Lists : [z EXCEPT ![l] = z[l] + v][x] = count[x]
      BY <2>1, <3>1
    <3>4. \A f, g \in [Lists -> Nat] : (\A x \in Lists : f[x] = g[x]) => f = g
      OBVIOUS
    <3> QED
      BY <1>3, <3>2, <3>3, <3>4
  <2>4. Sum(count, Lists) = Sum(z, Lists) + v /\ Sum(z, Lists) \in Nat
    BY <2>3, Basics, SumAdds, SumBounds
  <2>5. Sum(count, Lists) + lost = Used
    BY <1>1 DEF IInv, CountsInv
  <2> QED
    BY <1>3, <1>4, <1>5, <2>1, <2>2, <2>4, <2>5, Basics
<1>7. TypeOK'
  BY <1>3, <1>4, <1>6, Basics DEF IInv, TypeOK
<1>8. StartInv' /\ ChainInv' /\ CountsInv'
  BY <1>1, <1>4, <1>5, <1>6 DEF IInv, StartInv, ChainInv, CountsInv
<1>9. CursorInv'
  BY <1>1, <1>3, <1>4, Basics DEF IInv, CursorInv
<1>10. Owns(own)'
  <2>1. /\ next'[tail[l]] = head[l] /\ \A n \in Nodes : n # tail[l] => next'[n] = next[n]
        /\ prev'[head[l]] = tail[l] /\ \A n \in Nodes : n # head[l] => prev'[n] = prev[n]
    BY <1>3, <1>4
  <2>2. \A x \in Lists : /\ x # l => head'[x] = head[x] /\ tail'[x] = tail[x] /\ curr'[x] = curr[x]
                         /\ head'[l] = Nil /\ tail'[l] = Nil /\ curr'[l] = Nil
    BY <1>3, <1>4
  <2> QED
    BY <1>2, <1>3, <1>5, <2>1, <2>2, Basics DEF Owns
<1> QED
  BY <1>7, <1>8, <1>9, <1>10 DEF IInv, OwnInv

\* ListCreate cleans the pools the first time, and hands out a list that is empty.
LEMMA CreateKeeps ==
  ASSUME IInv, ListCreate
  PROVE  IInv'
<1>1. /\ free_list_head \in Lists /\ created \subseteq Lists
      /\ listlink \in [Lists -> Lists \cup {Nil}] /\ initialized \in {0, 1}
  BY DEF IInv, TypeOK, ListCreate
<1>2. FreeChain(Lists) \in [Lists -> Lists \cup {Nil}]
  BY DEF FreeChain
<1>3. /\ free_list_head' \in Lists \cup {Nil} /\ listlink' \in [Lists -> Lists \cup {Nil}]
      /\ created' \subseteq Lists /\ ub' = ub /\ lost' = lost
  BY <1>1, <1>2 DEF ListCreate, Set
<1>4. CASE initialized = 1
  <2>1. /\ UNCHANGED <<next, prev, link, free_node_head, head, tail, count, curr, before, after>>
        /\ initialized' = initialized /\ Used' = Used
    BY <1>4 DEF ListCreate, InitPools, nodeVars, listVars, cursor, Used
  <2>2. TypeOK'
    BY <1>3, <2>1 DEF IInv, TypeOK
  <2>3. StartInv' /\ ChainInv' /\ CountsInv' /\ CursorInv'
    BY <1>3, <1>4, <2>1 DEF IInv, StartInv, ChainInv, CountsInv, CursorInv
  <2>4. PICK own : Owns(own)
    BY <1>4 DEF IInv, OwnInv
  <2>5. Owns(own)'
    BY <2>1, <2>4 DEF Owns
  <2> QED
    BY <2>2, <2>3, <2>5 DEF IInv, OwnInv
<1>5. CASE initialized = 0
  <2>1. /\ next' = [n \in Nodes |-> Nil] /\ prev' = [n \in Nodes |-> Nil]
        /\ link' = FreeChain(Nodes)
        /\ head' = [l \in Lists |-> Nil] /\ tail' = [l \in Lists |-> Nil]
        /\ curr' = [l \in Lists |-> Nil] /\ count' = [l \in Lists |-> 0]
        /\ before' = [l \in Lists |-> 1] /\ after' = [l \in Lists |-> 0]
        /\ initialized' = 1 /\ free_node_head' = 0 /\ lost' = 0
    BY <1>3, <1>5 DEF ListCreate, InitPools, IInv, StartInv
  <2>2. FreeChain(Nodes) \in [Nodes -> Nodes \cup {Nil}]
    BY DEF FreeChain
  <2>3. TypeOK'
    BY <1>3, <2>1, <2>2, Basics DEF IInv, TypeOK
  <2>4. Used' = 0
    BY <2>1 DEF Used, Nil
  <2>5. StartInv' /\ ChainInv'
    BY <2>1 DEF StartInv, ChainInv
  <2>6. CountsInv'
    BY <2>1, <2>4, Basics, SumOfZeros DEF CountsInv
  <2>7. CursorInv'
    BY <2>1, Basics DEF CursorInv
  <2>8. PICK own : own = [n \in Nodes |-> Nil]
    OBVIOUS
  <2>9. Owns(own)'
    BY <2>1, <2>8 DEF Owns
  <2> QED
    BY <2>3, <2>5, <2>6, <2>7, <2>9 DEF IInv, OwnInv
<1> QED
  BY <1>1, <1>4, <1>5

-----------------------------------------------------------------------------
(* What the invariant says of the walks                                    *)

\* The nodes on the chain of free nodes are those not handed out yet.
LEMMA FreeIsTheRest ==
  ASSUME IInv, initialized = 1
  PROVE  Free = Used..MAX_NODES - 1
<1>1. MAX_NODES \in Nat /\ Used \in Nat /\ Used <= MAX_NODES
  BY Basics, Types DEF IInv
<1>2. free_node_head = (IF Used < MAX_NODES THEN Used ELSE Nil)
  BY Basics, Types DEF IInv, TypeOK, Used, Nodes, Nil
<1> DEFINE At(k) == IF Used + k < MAX_NODES THEN Used + k ELSE Nil
<1>3. ASSUME NEW k \in Nat
      PROVE  At(k + 1) = IF At(k) = Nil THEN Nil ELSE link[At(k)]
  <2>1. CASE Used + k < MAX_NODES
    <3>1. Used + k \in Nodes /\ Used + k >= Used /\ Used + k # Nil
      BY <1>1, <2>1 DEF Nodes, Nil
    <3>2. link[Used + k] = (IF (Used + k) + 1 < MAX_NODES THEN (Used + k) + 1 ELSE Nil)
      BY <3>1, Basics DEF IInv, ChainInv
    <3> QED
      BY <1>1, <2>1, <3>1, <3>2
  <2>2. CASE ~(Used + k < MAX_NODES)
    BY <1>1, <2>2
  <2> QED
    BY <2>1, <2>2
<1>4. At(0) = free_node_head
  BY <1>1, <1>2
<1> HIDE DEF At
<1> DEFINE g == [k \in 0..MAX_NODES |-> At(k)]
<1>5. g = [k \in 0..MAX_NODES |-> IF k = 0 THEN free_node_head
                                  ELSE IF g[k - 1] = Nil THEN Nil ELSE link[g[k - 1]]]
  <2>1. \A k \in 0..MAX_NODES : k # 0 => k - 1 \in 0..MAX_NODES /\ k - 1 \in Nat /\ (k - 1) + 1 = k
    BY <1>1
  <2>2. \A k \in 0..MAX_NODES : k # 0 => At(k) = IF g[k - 1] = Nil THEN Nil ELSE link[g[k - 1]]
    BY <1>3, <2>1
  <2> QED
    BY <1>4, <2>2
<1> HIDE DEF g
<1> DEFINE f == CHOOSE f : f = [k \in 0..MAX_NODES |-> IF k = 0 THEN free_node_head
                                  ELSE IF f[k - 1] = Nil THEN Nil ELSE link[f[k - 1]]]
<1>6. f = [k \in 0..MAX_NODES |-> IF k = 0 THEN free_node_head
                                 ELSE IF f[k - 1] = Nil THEN Nil ELSE link[f[k - 1]]]
  BY <1>5, Zenon
<1>7. Free = {f[k] : k \in 0..MAX_NODES} \ {Nil}
  BY DEF Free
<1> HIDE DEF f
<1> DEFINE P == {k \in Nat : k <= MAX_NODES => f[k] = At(k)}
<1>8. 0 \in P
  BY <1>1, <1>4, <1>6
<1>9. ASSUME NEW k \in P
      PROVE  k + 1 \in P
  <2> SUFFICES ASSUME k + 1 <= MAX_NODES
               PROVE  f[k + 1] = At(k + 1)
    OBVIOUS
  <2>1. k \in Nat /\ f[k] = At(k) /\ k + 1 \in 0..MAX_NODES /\ k + 1 # 0 /\ (k + 1) - 1 = k
    BY <1>1
  <2>2. f[k + 1] = IF f[k] = Nil THEN Nil ELSE link[f[k]]
    BY <1>6, <2>1
  <2> QED
    BY <1>3, <2>1, <2>2
<1>10. P = Nat
  <2> HIDE DEF P
  <2>1. P \subseteq Nat
    BY DEF P
  <2> QED
    BY <1>8, <1>9, <2>1, SetInduction
<1>11. ASSUME NEW k \in 0..MAX_NODES
       PROVE  f[k] = At(k)
  <2>1. k \in P /\ k <= MAX_NODES
    <3> HIDE DEF P
    <3> QED
      BY <1>1, <1>10
  <2> QED
    BY <2>1
<1>12. \A x \in Used..MAX_NODES - 1 : x - Used \in 0..MAX_NODES /\ f[x - Used] = x /\ x # Nil
  BY <1>1, <1>11 DEF At, Nil
<1>13. \A x \in Free : x \in Used..MAX_NODES - 1
  BY <1>1, <1>7, <1>11 DEF At
<1>14. \A x \in Used..MAX_NODES - 1 : x \in Free
  BY <1>7, <1>12
<1> QED
  BY <1>13, <1>14

\* First, Last, Next and Prev lead to nodes of the list only.
LEMMA ReachOwned ==
  ASSUME IInv, initialized = 1, NEW own, Owns(own), NEW l \in Lists
  PROVE  \A n \in Reach(l) : own[n] = l
<1> DEFINE T == SUBSET Nodes
           Near(S) == (S \cup {next[n] : n \in S} \cup {prev[n] : n \in S}) \ {Nil}
           F == [S \in T |-> Near(S)]
           a == {head[l], tail[l], curr[l]} \ {Nil}
           C == {S \in T : \A n \in S : own[n] = l}
<1>1. a \in T /\ a \in C
  BY DEF IInv, TypeOK, Owns
<1>2. F \in [T -> T]
  <2>1. \A n \in Nodes : next[n] \in Nodes \cup {Nil} /\ prev[n] \in Nodes \cup {Nil}
    BY DEF IInv, TypeOK
  <2> QED
    BY <2>1
<1>3. \A S \in C : F[S] \in C
  <2> SUFFICES ASSUME NEW S \in C
               PROVE  F[S] \in C
    OBVIOUS
  <2>1. S \in T /\ F[S] \in T
    BY <1>2
  <2>2. F[S] = Near(S)
    OBVIOUS
  <2>3. \A n \in S : /\ n \in Nodes /\ own[n] = l
                     /\ next[n] # Nil => own[next[n]] = l
                     /\ prev[n] # Nil => own[prev[n]] = l
    BY DEF Owns
  <2>4. \A n \in F[S] : own[n] = l
    <3> HIDE DEF F, C, T
    <3> QED
      BY <2>2, <2>3
  <2> QED
    BY <2>1, <2>4
<1>4. MAX_NODES \in Nat
  BY Basics
<1>5. PICK g \in [0..MAX_NODES -> T] :
        g = [k \in 0..MAX_NODES |-> IF k = 0 THEN a ELSE F[g[k - 1]]]
  <2> HIDE DEF F, T, a
  <2> QED
    BY <1>1, <1>2, <1>4, ChainExists
<1>6. g = [k \in 0..MAX_NODES |-> IF k = 0 THEN a ELSE Near(g[k - 1])]
  <2>1. \A k \in 0..MAX_NODES : k # 0 => k - 1 \in 0..MAX_NODES
    BY <1>4
  <2>2. \A S \in T : F[S] = Near(S)
    OBVIOUS
  <2> HIDE DEF F, T, a, Near
  <2>3. \A k \in 0..MAX_NODES : k # 0 => g[k - 1] \in T
    BY <1>5, <2>1
  <2> QED
    BY <1>5, <2>2, <2>3
<1>7. PICK r : /\ r = [k \in 0..MAX_NODES |-> IF k = 0 THEN a ELSE Near(r[k - 1])]
               /\ Reach(l) = r[MAX_NODES]
  BY <1>6, Zenon DEF Reach
<1> DEFINE P == {k \in Nat : k <= MAX_NODES => r[k] \in C}
<1>8. 0 \in P
  BY <1>1, <1>4, <1>7
<1>9. ASSUME NEW k \in P
      PROVE  k + 1 \in P
  <2> SUFFICES ASSUME k + 1 <= MAX_NODES
               PROVE  r[k + 1] \in C
    OBVIOUS
  <2>1. k \in Nat /\ r[k] \in C
    BY <1>4
  <2>2. r[k + 1] = Near(r[k])
    <3> HIDE DEF a, C
    <3>1. k + 1 \in 0..MAX_NODES /\ k + 1 # 0 /\ (k + 1) - 1 = k
      BY <1>4, <2>1
    <3>2. r[k + 1] = Near(r[(k + 1) - 1])
      BY <1>7, <3>1
    <3> QED
      BY <3>1, <3>2
  <2>3. r[k + 1] = F[r[k]]
    BY <2>1, <2>2
  <2> HIDE DEF F, C
  <2> QED
    BY <1>3, <2>1, <2>3
<1>10. P = Nat
  <2> HIDE DEF P
  <2>1. P \subseteq Nat
    BY DEF P
  <2> QED
    BY <1>8, <1>9, <2>1, SetInduction
<1>11. MAX_NODES \in P
  <2> HIDE DEF P
  <2> QED
    BY <1>4, <1>10
<1> QED
  BY <1>4, <1>7, <1>11

-----------------------------------------------------------------------------
(* The theorems                                                            *)

\* The program starts with the invariant.
LEMMA InitEstablishes == Init => IInv
<1> SUFFICES ASSUME Init PROVE IInv
  OBVIOUS
<1>1. 0 \in Nodes /\ 0 \in Lists /\ 0 \in 0..MAX_NODES
  BY Basics
<1>2. TypeOK
  BY <1>1 DEF Init, TypeOK
<1>3. StartInv /\ ChainInv /\ CountsInv /\ OwnInv /\ CursorInv
  BY DEF Init, StartInv, ChainInv, CountsInv, OwnInv, CursorInv
<1> QED
  BY <1>2, <1>3 DEF IInv

\* Every call keeps it.
LEMMA NextKeeps == IInv /\ [Next]_vars => IInv'
<1> SUFFICES ASSUME IInv, [Next]_vars PROVE IInv'
  OBVIOUS
<1>1. CASE UNCHANGED vars
  <2>1. /\ UNCHANGED <<next, prev, link, free_node_head, head, tail, count, curr, before, after>>
        /\ UNCHANGED <<listlink, free_list_head, initialized, created, lost, ub>> /\ Used' = Used
    BY <1>1 DEF vars, nodeVars, listVars, cursor, createVars, Used
  <2>2. TypeOK' /\ StartInv' /\ ChainInv' /\ CountsInv' /\ CursorInv'
    BY <2>1 DEF IInv, TypeOK, StartInv, ChainInv, CountsInv, CursorInv
  <2>3. \A own : Owns(own) => Owns(own)'
    BY <2>1 DEF Owns
  <2>4. OwnInv'
    BY <2>1, <2>3 DEF IInv, OwnInv
  <2> QED
    BY <2>2, <2>4 DEF IInv
<1>2. CASE ListCreate
  BY <1>2, CreateKeeps
<1>3. ASSUME NEW l \in Lists,
             \/ ListAppend(l) \/ ListPrepend(l) \/ (Call(l) /\ (ListAdd(l) \/ ListInsert(l)))
             \/ ListFirst(l) \/ ListLast(l) \/ ListNext(l) \/ ListPrev(l)
             \/ \E m \in Lists : ListConcat(l, m)
      PROVE  IInv'
  BY <1>3, AppendKeeps, PrependKeeps, AddInsertKeep, MoversKeep, ConcatKeeps, SelfConcatKeeps
<1> QED
  BY <1>1, <1>2, <1>3 DEF Next

\* The inductive invariant holds after every sequence of calls.
THEOREM Inductive == Spec => []IInv
BY InitEstablishes, NextKeeps, PTL DEF Spec

\* The library's state is type correct: every index is -1 or in its pool, and
\* no count exceeds the pool.
THEOREM ListTypes == Spec => []TypeOK
<1>1. IInv => TypeOK
  BY DEF IInv
<1> QED
  BY Inductive, <1>1, PTL

\* ListAdd and ListInsert never use the cursor -1 as an index, however the
\* client moves the cursor.
THEOREM CursorIsSafe == Spec => []CursorSafe
<1>1. IInv => CursorSafe
  BY DEF IInv, CursorInv, CursorSafe, StartInv, TypeOK
<1> QED
  BY Inductive, <1>1, PTL

\* Whatever is appended, inserted and concatenated, two lists never share a node.
THEOREM ListsStayDisjoint == Spec => []ListsDisjoint
<1>1. ASSUME IInv
      PROVE  ListsDisjoint
  <2> SUFFICES ASSUME initialized = 1, NEW l \in Lists, NEW m \in Lists, l # m
               PROVE  Reach(l) \cap Reach(m) = {}
    BY DEF ListsDisjoint
  <2>1. PICK own : Owns(own)
    BY <1>1 DEF IInv, OwnInv
  <2>2. (\A n \in Reach(l) : own[n] = l) /\ (\A n \in Reach(m) : own[n] = m)
    BY <1>1, <2>1, ReachOwned
  <2> QED
    BY <2>2
<1> QED
  BY Inductive, <1>1, PTL

\* No node is lost or used twice, for pools of every size: the counts of the
\* lists, the free chain and the nodes of the lists that were concatenated to
\* themselves add up to the pool.
THEOREM NoNodeIsLost == Spec => []NodesConserved
<1>1. ASSUME IInv
      PROVE  NodesConserved
  <2> SUFFICES ASSUME initialized = 1
               PROVE  Cardinality(Free) + Sum(count, Lists) + lost = MAX_NODES
    BY DEF NodesConserved, Sum
  <2>1. Used \in Nat /\ Used <= MAX_NODES /\ MAX_NODES \in Nat /\ lost \in Nat /\ Sum(count, Lists) \in Nat
    BY <1>1, Types, Basics, SumBounds DEF IInv
  <2>2. Cardinality(Used..MAX_NODES - 1) = MAX_NODES - Used
    <3>1. Used \in Int /\ MAX_NODES - 1 \in Int
      BY <2>1
    <3>2. Cardinality(Used..MAX_NODES - 1)
            = IF Used > MAX_NODES - 1 THEN 0 ELSE MAX_NODES - 1 - Used + 1
      BY <3>1, FS_Interval
    <3> QED
      BY <2>1, <3>2
  <2>3. Sum(count, Lists) + lost = Used
    BY <1>1 DEF IInv, CountsInv
  <2> QED
    BY <1>1, <2>1, <2>2, <2>3, FreeIsTheRest
<1> QED
  BY Inductive, <1>1, PTL

-----------------------------------------------------------------------------
(* The Part A programs                                                     *)

Started(c) == child[c].pc # "none"

\* A child in Square(d) was called from Square(i), i <= size.
ChildInv ==
  \A c \in Ids : child[c].pc = "square" => child[c].i <= size /\ child[c].d <= child[c].i

\* The children are made in order, by a parent that has its memory.
MadeInv ==
  \A c \in Ids : Started(c) => /\ c <= threads /\ parent \notin {"none", "alloc"}
                               /\ parent = "create" => c < turn

\* main() starts the parent, which starts from its first child; A4 only waits.
MainInv ==
  /\ parent = "create" => heap = "live"
  /\ parent \in {"none", "alloc"} => turn = 1
  /\ parent # "none" => main \notin {"start", "run"}
  /\ parent = "wait" => part = "A4"

\* Kill() and waitpid() have dealt with the children before k; when the parent
\* prints, with all of them.
OverInv ==
  /\ part = "A2" /\ parent = "stop" => \A c \in Ids : c < turn /\ Started(c) => Over(c)
  /\ part = "A4" /\ parent = "wait" => \A c \in Ids : c < turn => Over(c)
  /\ Awaits /\ parent \in {"print", "free", "returned"}
       => \A c \in Ids : Started(c) => Over(c)

\* No thread of A2 counts in memory that was freed.
HeapInv == part = "A2" => \A c \in Ids : Started(c) /\ ~Over(c) => heap = "live"

\* A counter is the number of calls its child has made.
CountInv ==
  Awaits => \A c \in Ids : /\ counter[c] = Calls(c)
                           /\ child[c].pc = "square" => child[c].cur = c

\* A counter is printed in the last loop only.
PrintInv == \A c \in Ids : summary[c] >= 0 => parent \in {"print", "free", "returned"}

\* The inductive invariant.
SquareInv ==
  /\ SquareTypeOK /\ ChildInv /\ MadeInv /\ MainInv /\ OverInv
  /\ HeapInv /\ CountInv /\ PrintInv /\ SummaryExact

\* A child's state, and the calls it stands for.
ChildRec == [pc : {"none", "created", "asleep", "loop", "square", "report", "done"},
             i : 1..SMAX + 1, d : 0..SMAX, cur : -1..NMAX]

CallsOf(r) == ((r.i - 1) * (r.i + 2)) \div 2 + (IF r.pc = "square" THEN r.i - r.d ELSE 0)

-----------------------------------------------------------------------------
(* Arithmetic                                                              *)

\* Half of a number grows by m when the number grows by 2m.
LEMMA HalfOfSum ==
  ASSUME NEW x \in Int, NEW m \in Int
  PROVE  (x + 2 * m) \div 2 = (x \div 2) + m
OBVIOUS

\* Square(i) is i + 1 calls, so the calls of Square(1), ..., Square(i) are those
\* of Square(1), ..., Square(i - 1) and i + 1 more.
LEMMA CallsOfOneMore ==
  ASSUME NEW i \in Nat
  PROVE  (((i + 1) - 1) * ((i + 1) + 2)) \div 2 = (((i - 1) * (i + 2)) \div 2) + (i + 1)
<1> DEFINE x == (i - 1) * (i + 2)
<1>1. x \in Int
  OBVIOUS
<1>2. ((i + 1) - 1) * ((i + 1) + 2) = x + 2 * (i + 1)
  OBVIOUS
<1>3. (x + 2 * (i + 1)) \div 2 = (x \div 2) + (i + 1)
  BY <1>1, HalfOfSum
<1> QED
  BY <1>2, <1>3

\* The number of calls is a natural number.
LEMMA CallsAreNat ==
  ASSUME NEW r \in ChildRec, r.pc = "square" => r.d <= r.i
  PROVE  CallsOf(r) \in Nat
<1> USE BoundsAssumption
<1>1. r.i \in Nat /\ r.d \in Nat /\ r.i >= 1
  BY DEF ChildRec
<1>2. (r.i - 1) * (r.i + 2) \in Nat
  BY <1>1
<1>3. ((r.i - 1) * (r.i + 2)) \div 2 \in Nat
  BY <1>2
<1> QED
  BY <1>1, <1>3 DEF CallsOf

-----------------------------------------------------------------------------
(* A step of one child                                                     *)

\* The facts about the state that every proof below uses.
LEMMA SquareFacts ==
  ASSUME SquareInv
  PROVE  /\ child \in [Ids -> ChildRec] /\ counter \in [Ids -> Nat]
         /\ threads \in Nat /\ turn \in Nat /\ size \in Nat /\ threads <= NMAX /\ size <= SMAX
         /\ \A c \in Ids : /\ child[c].i \in Nat /\ child[c].d \in Nat /\ child[c].cur \in Int
                           /\ child[c] \in ChildRec /\ c \in Nat
BY BoundsAssumption, SMTT(20) DEF SquareInv, SquareTypeOK, ChildRec, Ids

\* A running child c goes to the state r: the invariant holds again when c's
\* counter, and nobody else's, follows it.
LEMMA ChildMoves ==
  ASSUME SquareInv, NEW c \in Ids, NEW r \in ChildRec,
         Started(c), ~Over(c), r.pc # "none",
         child' = [child EXCEPT ![c] = r],
         r.pc = "square" => r.i <= size /\ r.d <= r.i /\ (Awaits => r.cur = c),
         counter' \in [Ids -> Nat],
         Awaits => counter'[c] = CallsOf(r) /\ \A x \in Ids : x # c => counter'[x] = counter[x],
         UNCHANGED <<run, main, parent, turn, heap, keep, dead, summary>>,
         sig' \subseteq Ids
  PROVE  SquareInv'
<1>1. /\ child'[c] = r /\ \A x \in Ids : x # c => child'[x] = child[x]
      /\ child' \in [Ids -> ChildRec]
  BY SquareFacts
<1>2. SquareTypeOK'
  BY <1>1 DEF SquareInv, SquareTypeOK, ChildRec, run
<1>3. ChildInv'
  BY <1>1 DEF SquareInv, ChildInv, run
<1>4. \A x \in Ids : /\ Started(x)' <=> Started(x)
                     /\ Over(x) => Over(x)'
  BY <1>1 DEF Started, Over
<1>5. MadeInv'
  BY <1>4 DEF SquareInv, MadeInv, run
<1>6. MainInv'
  BY DEF SquareInv, MainInv, run
<1>7. ~(Awaits /\ parent \in {"print", "free", "returned"})
  BY DEF SquareInv, OverInv
<1>8. OverInv'
  BY <1>4, <1>7 DEF SquareInv, OverInv, run, Awaits
<1>9. HeapInv'
  BY <1>4 DEF SquareInv, HeapInv, run
<1>10. CountInv'
  <2> SUFFICES ASSUME Awaits', NEW x \in Ids
               PROVE  /\ counter'[x] = Calls(x)'
                      /\ child'[x].pc = "square" => child'[x].cur = x
    BY DEF CountInv
  <2>1. Awaits
    BY DEF Awaits, run
  <2>2. CASE x = c
    BY <1>1, <2>1, <2>2 DEF Calls, CallsOf
  <2>3. CASE x # c
    BY <1>1, <2>1, <2>3 DEF Calls, SquareInv, CountInv
  <2> QED
    BY <2>2, <2>3
<1>11. PrintInv'
  BY DEF SquareInv, PrintInv
<1>12. SummaryExact'
  BY <1>7 DEF SquareInv, PrintInv, SummaryExact, Awaits, run
<1> QED
  BY <1>2, <1>3, <1>5, <1>6, <1>8, <1>9, <1>10, <1>11, <1>12 DEF SquareInv

\* The steps that do not count: the child starts, wakes, tests its loop, reports.
LEMMA ChildWalks ==
  ASSUME SquareInv, NEW c \in Ids,
         ChildStart(c) \/ ChildWakes(c) \/ ChildLoop(c) \/ ChildReport(c)
  PROVE  SquareInv'
<1>1. /\ child[c] \in ChildRec /\ child[c].i \in Nat /\ child[c].i >= 1 /\ c \in -1..NMAX
      /\ -1 \in -1..NMAX /\ size \in Nat /\ size <= SMAX
  BY SquareFacts, BoundsAssumption, SMTT(20) DEF ChildRec, Ids
<1>2. Awaits => counter[c] = CallsOf(child[c])
  BY DEF SquareInv, CountInv, Calls, CallsOf
<1>3. /\ counter \in [Ids -> Nat] /\ sig \subseteq Ids
  BY DEF SquareInv, SquareTypeOK
<1>4. CASE ChildStart(c)
  <2> DEFINE r == [child[c] EXCEPT !.pc = "asleep", !.cur = IF part = "A4" THEN -1 ELSE c]
  <2>1. r \in ChildRec /\ r.pc = "asleep" /\ r.i = child[c].i
    BY <1>1 DEF ChildRec
  <2>2. child' = [child EXCEPT ![c] = r]
    BY <1>4, SquareFacts DEF ChildStart
  <2>3. CallsOf(r) = CallsOf(child[c])
    BY <1>4, <2>1 DEF CallsOf, ChildStart, Child
  <2>4. Started(c) /\ ~Over(c)
    BY <1>4 DEF ChildStart, Child, Started, Over
  <2> HIDE DEF r
  <2> QED
    BY <1>2, <1>3, <1>4, <2>1, <2>2, <2>3, <2>4, ChildMoves DEF ChildStart, mem
<1>5. CASE ChildWakes(c)
  <2> DEFINE r == [child[c] EXCEPT !.pc = "loop"]
  <2>1. r \in ChildRec /\ r.pc = "loop" /\ r.i = child[c].i
    BY <1>1 DEF ChildRec
  <2>2. child' = [child EXCEPT ![c] = r]
    BY <1>5, SquareFacts DEF ChildWakes
  <2>3. CallsOf(r) = CallsOf(child[c])
    BY <1>5, <2>1 DEF CallsOf, ChildWakes, Child
  <2>4. Started(c) /\ ~Over(c)
    BY <1>5 DEF ChildWakes, Child, Started, Over
  <2> HIDE DEF r
  <2> QED
    BY <1>2, <1>3, <1>5, <2>1, <2>2, <2>3, <2>4, ChildMoves DEF ChildWakes, mem
<1>6. CASE ChildLoop(c) /\ child[c].i <= size /\ KeepRunning(c)
  <2> DEFINE r == [child[c] EXCEPT !.pc = "square", !.d = child[c].i, !.cur = Published(c)]
  <2>1. Published(c) \in -1..NMAX /\ child[c].i \in 0..SMAX
    BY <1>1, <1>6, BoundsAssumption DEF Published, ChildRec
  <2>2. /\ r \in ChildRec /\ r.pc = "square" /\ r.i = child[c].i /\ r.d = child[c].i
        /\ r.cur = Published(c)
    BY <1>1, <2>1 DEF ChildRec
  <2>3. child' = [child EXCEPT ![c] = r]
    BY <1>6, SquareFacts DEF ChildLoop
  <2>4. CallsOf(r) = CallsOf(child[c])
    BY <1>1, <1>6, <2>2 DEF CallsOf, ChildLoop, Child
  <2>5. Started(c) /\ ~Over(c) /\ (Awaits => r.cur = c)
    BY <1>6, <2>2 DEF ChildLoop, Child, Started, Over, Awaits, Published
  <2>6. r.pc = "square" => r.i <= size /\ r.d <= r.i /\ (Awaits => r.cur = c)
    BY <1>1, <1>6, <2>2, <2>5
  <2>7. /\ UNCHANGED <<run, main, parent, turn, heap, keep, dead, summary>>
        /\ counter' = counter /\ sig' = sig
    BY <1>6 DEF ChildLoop, mem
  <2> HIDE DEF r
  <2> QED
    BY <1>2, <1>3, <2>2, <2>3, <2>4, <2>5, <2>6, <2>7, ChildMoves
<1>7. CASE ChildLoop(c) /\ ~(child[c].i <= size /\ KeepRunning(c))
  <2> DEFINE r == [child[c] EXCEPT !.pc = "report"]
  <2>1. r \in ChildRec /\ r.pc = "report" /\ r.i = child[c].i
    BY <1>1 DEF ChildRec
  <2>2. child' = [child EXCEPT ![c] = r]
    BY <1>7, SquareFacts DEF ChildLoop
  <2>3. CallsOf(r) = CallsOf(child[c])
    BY <1>7, <2>1 DEF CallsOf, ChildLoop, Child
  <2>4. Started(c) /\ ~Over(c)
    BY <1>7 DEF ChildLoop, Child, Started, Over
  <2> HIDE DEF r
  <2> QED
    BY <1>2, <1>3, <1>7, <2>1, <2>2, <2>3, <2>4, ChildMoves DEF ChildLoop, mem
<1>8. CASE ChildReport(c)
  <2> DEFINE r == [child[c] EXCEPT !.pc = "done"]
  <2>1. r \in ChildRec /\ r.pc = "done" /\ r.i = child[c].i
    BY <1>1 DEF ChildRec
  <2>2. child' = [child EXCEPT ![c] = r]
    BY <1>8, SquareFacts DEF ChildReport
  <2>3. CallsOf(r) = CallsOf(child[c])
    BY <1>8, <2>1 DEF CallsOf, ChildReport, Child
  <2>4. Started(c) /\ ~Over(c)
    BY <1>8 DEF ChildReport, Child, Started, Over
  <2> HIDE DEF r
  <2> QED
    BY <1>2, <1>3, <1>8, <2>1, <2>2, <2>3, <2>4, ChildMoves DEF ChildReport, mem
<1> QED
  BY <1>4, <1>5, <1>6, <1>7, <1>8

\* A call of Square() counts in the caller's slot, also when it is the last of
\* the calls that Square(i) makes.
LEMMA SquareCounts ==
  ASSUME SquareInv, NEW c \in Ids, Square(c)
  PROVE  SquareInv'
<1>1. /\ child[c] \in ChildRec /\ child[c].i \in Nat /\ child[c].i >= 1 /\ child[c].i <= size
      /\ child[c].d \in Nat /\ child[c].d <= child[c].i /\ size \in Nat /\ size <= SMAX
      /\ child[c].pc = "square" /\ child[c].cur \in -1..NMAX
  BY SquareFacts, BoundsAssumption DEF ChildRec, SquareInv, ChildInv, Square, Child
<1>2. Started(c) /\ ~Over(c)
  BY DEF Square, Child, Started, Over
<1>3. Awaits => child[c].cur = c /\ counter[c] = CallsOf(child[c]) /\ Counts(c)
  BY <1>2, BoundsAssumption DEF SquareInv, CountInv, HeapInv, Counts, Calls, CallsOf, Awaits, Square, Child, Ids
<1>4. counter \in [Ids -> Nat] /\ (Counts(c) => child[c].cur \in Ids)
  <2>1. counter \in [Ids -> Nat]
    BY DEF SquareInv, SquareTypeOK
  <2>2. Counts(c) => child[c].cur > 0
    BY DEF Counts
  <2> QED
    BY <1>1, <2>1, <2>2, BoundsAssumption DEF Ids
<1>5. /\ counter' \in [Ids -> Nat]
      /\ Awaits => /\ counter'[c] = CallsOf(child[c]) + 1
                   /\ \A x \in Ids : x # c => counter'[x] = counter[x]
  BY <1>3, <1>4 DEF Square
<1>6. ((child[c].i - 1) * (child[c].i + 2)) \div 2 \in Int
  BY <1>1
<1>7. CASE child[c].d = 0
  <2> DEFINE r == [child[c] EXCEPT !.pc = "loop", !.i = @ + 1]
  <2>1. r \in ChildRec /\ r.pc = "loop" /\ r.i = child[c].i + 1
    <3>1. child[c].i + 1 \in 1..SMAX + 1
      BY <1>1, BoundsAssumption
    <3> QED
      BY <1>1, <3>1 DEF ChildRec
  <2>2. child' = [child EXCEPT ![c] = r]
    BY <1>7, SquareFacts DEF Square
  <2>3. ((r.i - 1) * (r.i + 2)) \div 2 = (((child[c].i - 1) * (child[c].i + 2)) \div 2) + (child[c].i + 1)
    BY <1>1, <2>1, CallsOfOneMore
  <2>4. CallsOf(r) = CallsOf(child[c]) + 1
    BY <1>1, <1>6, <1>7, <2>1, <2>3 DEF CallsOf
  <2> HIDE DEF r
  <2> QED
    BY <1>2, <1>5, <2>1, <2>2, <2>4, ChildMoves DEF Square, SquareInv, SquareTypeOK
<1>8. CASE child[c].d # 0
  <2> DEFINE r == [child[c] EXCEPT !.d = @ - 1]
  <2>1. /\ r \in ChildRec /\ r.pc = "square" /\ r.i = child[c].i /\ r.d = child[c].d - 1
        /\ r.cur = child[c].cur
    BY <1>1, <1>8, BoundsAssumption DEF ChildRec
  <2>2. child' = [child EXCEPT ![c] = r]
    BY <1>8, SquareFacts DEF Square
  <2>3. CallsOf(r) = CallsOf(child[c]) + 1
    BY <1>1, <1>6, <2>1 DEF CallsOf
  <2>4. r.pc = "square" => r.i <= size /\ r.d <= r.i /\ (Awaits => r.cur = c)
    BY <1>1, <1>3, <2>1
  <2>5. UNCHANGED <<run, main, parent, turn, heap, keep, dead, summary>> /\ sig' \subseteq Ids
    BY DEF Square, SquareInv, SquareTypeOK
  <2> HIDE DEF r
  <2> QED
    BY <1>2, <1>5, <2>1, <2>2, <2>3, <2>4, <2>5, ChildMoves
<1> QED
  BY <1>7, <1>8

\* SIGUSR1 stops a child or kills it; either way it counts no more than before.
LEMMA SignalKeeps ==
  ASSUME SquareInv, NEW c \in Ids, Signalled(c)
  PROVE  SquareInv'
<1> USE BoundsAssumption DEF Signalled, run, mem
<1>1. keep' \in [0..NMAX -> BOOLEAN] /\ sig' \subseteq Ids /\ dead \subseteq dead' /\ dead' \subseteq Ids
  BY DEF SquareInv, SquareTypeOK, Ids
<1>2. SquareTypeOK'
  BY <1>1 DEF SquareInv, SquareTypeOK
<1>3. \A x \in Ids : (Over(x) => Over(x)') /\ (Started(x)' <=> Started(x)) /\ Calls(x)' = Calls(x)
  BY <1>1 DEF Over, Started, Calls
<1>4. OverInv'
  BY <1>3 DEF SquareInv, OverInv, Awaits
<1>5. HeapInv'
  BY <1>3 DEF SquareInv, HeapInv
<1>6. CountInv' /\ SummaryExact'
  BY <1>3 DEF SquareInv, CountInv, SummaryExact, Awaits
<1>7. ChildInv' /\ MadeInv' /\ MainInv' /\ PrintInv'
  BY <1>3 DEF SquareInv, ChildInv, MadeInv, MainInv, PrintInv
<1> QED
  BY <1>2, <1>4, <1>5, <1>6, <1>7 DEF SquareInv

\* Every step of a child.
LEMMA ChildStepKeeps ==
  ASSUME SquareInv, NEW c \in Ids, ChildStep(c)
  PROVE  SquareInv'
BY ChildWalks, SquareCounts, SignalKeeps DEF ChildStep

-----------------------------------------------------------------------------
(* The steps of main() and of the parent                                   *)

\* main() changes nothing while there are children, but for its own return and,
\* in A2, the end of the program.
LEMMA MainStepKeeps ==
  ASSUME SquareInv, MainStep
  PROVE  SquareInv'
<1> USE BoundsAssumption DEF run, mem
<1>1. UNCHANGED <<part, turn, heap, counter, keep, sig, dead, child, summary>>
  BY DEF MainStep, Args, CreateParent, MainReturns, ThreadsExit
<1>2. \A x \in Ids : (Over(x) <=> Over(x)') /\ (Started(x)' <=> Started(x)) /\ Calls(x)' = Calls(x)
  BY <1>1 DEF Over, Started, Calls
<1>3. CASE Args
  <2>1. parent = "none" /\ parent' = parent /\ main = "start"
    BY <1>3 DEF Args, SquareInv, MainInv, SquareTypeOK
  <2>2. \A x \in Ids : ~Started(x)
    BY <2>1 DEF SquareInv, MadeInv
  <2>3. threads' \in 0..NMAX /\ size' \in 0..SMAX /\ main' \in {"run", "exited"}
    BY <1>3 DEF Args, Accepted, SquareInv, SquareTypeOK
  <2>4. SquareTypeOK'
    BY <1>1, <2>1, <2>3 DEF SquareInv, SquareTypeOK
  <2>5. ChildInv' /\ MadeInv' /\ HeapInv'
    BY <1>1, <1>2, <2>2 DEF ChildInv, MadeInv, HeapInv, Started
  <2>6. MainInv' /\ OverInv'
    BY <1>1, <2>1 DEF SquareInv, MainInv, OverInv
  <2>7. CountInv' /\ SummaryExact' /\ PrintInv'
    BY <1>1, <1>2, <2>1 DEF SquareInv, CountInv, SummaryExact, PrintInv, Awaits
  <2> QED
    BY <2>4, <2>5, <2>6, <2>7 DEF SquareInv
<1>4. CASE CreateParent
  <2>1. /\ main = "run" /\ parent = "none" /\ parent' \in {"none", "alloc"}
        /\ parent' = "alloc" => main' = "sleep"
        /\ parent' \in {"none", "alloc"} /\ main' \in {"sleep", "exited"} /\ UNCHANGED <<threads, size>>
    BY <1>4 DEF CreateParent, SquareInv, MainInv, SquareTypeOK
  <2>2. \A x \in Ids : ~Started(x)
    BY <2>1 DEF SquareInv, MadeInv
  <2>3. SquareTypeOK'
    BY <1>1, <2>1 DEF SquareInv, SquareTypeOK
  <2>4. ChildInv' /\ MadeInv' /\ HeapInv'
    BY <1>1, <1>2, <2>2 DEF ChildInv, MadeInv, HeapInv, Started
  <2>5. MainInv' /\ OverInv'
    BY <1>1, <2>1 DEF SquareInv, MainInv, OverInv
  <2>6. CountInv' /\ SummaryExact'
    BY <1>1, <1>2, <2>1 DEF SquareInv, CountInv, SummaryExact, Awaits
  <2>7. PrintInv'
    BY <1>1, <2>1 DEF SquareInv, PrintInv
  <2> QED
    BY <2>3, <2>4, <2>5, <2>6, <2>7 DEF SquareInv
<1>5. CASE MainReturns \/ ThreadsExit
  <2>1. main' \in {"returned", "exited"} /\ UNCHANGED <<threads, size, parent>>
    BY <1>5 DEF MainReturns, ThreadsExit
  <2>2. SquareTypeOK'
    BY <1>1, <2>1 DEF SquareInv, SquareTypeOK
  <2>3. ChildInv' /\ MadeInv' /\ HeapInv'
    BY <1>1, <1>2, <2>1 DEF SquareInv, ChildInv, MadeInv, HeapInv
  <2>4. MainInv' /\ OverInv'
    BY <1>1, <1>2, <2>1 DEF SquareInv, MainInv, OverInv, Awaits
  <2>5. CountInv' /\ SummaryExact' /\ PrintInv'
    BY <1>1, <1>2, <2>1 DEF SquareInv, CountInv, SummaryExact, PrintInv, Awaits
  <2> QED
    BY <2>2, <2>3, <2>4, <2>5 DEF SquareInv
<1> QED
  BY <1>3, <1>4, <1>5 DEF MainStep

\* The parent makes its next child, or gives up and leaves the others running.
LEMMA ParentCreates ==
  ASSUME SquareInv, Create
  PROVE  SquareInv'
<1> USE BoundsAssumption DEF run, mem
<1>1. /\ UNCHANGED <<part, threads, size, heap, counter, keep, sig, dead, summary>>
      /\ parent = "create" /\ heap = "live" /\ turn \in Ids /\ turn <= threads /\ threads \in Nat /\ threads <= NMAX
      /\ parent' \in {"create", "failed"}
      /\ main \notin {"start", "run"} /\ main' \in {main, "exited"}
  BY DEF Create, Parent, GiveUp, SquareInv, SquareTypeOK, MainInv, Ids
<1>2. CASE child' = [child EXCEPT ![turn].pc = "created"] /\ turn' = turn + 1 /\ UNCHANGED <<main, parent>>
  <2> DEFINE r == [child[turn] EXCEPT !.pc = "created"]
  <2>1. child[turn].pc = "none" /\ child[turn] \in ChildRec
    BY <1>1, SquareFacts DEF SquareInv, MadeInv, Started, Ids
  <2>2. r \in ChildRec /\ r.pc = "created" /\ r.i = child[turn].i
    BY <2>1 DEF ChildRec
  <2>3. child' = [child EXCEPT ![turn] = r]
    BY <1>1, <1>2, SquareFacts
  <2> HIDE DEF r
  <2>4. /\ child'[turn] = r /\ \A x \in Ids : x # turn => child'[x] = child[x]
        /\ child' \in [Ids -> ChildRec]
    BY <1>1, <2>2, <2>3, SquareFacts
  <2>5. turn' \in 1..NMAX + 1
    BY <1>1, <1>2 DEF Ids
  <2>6. SquareTypeOK'
    BY <1>1, <1>2, <2>4, <2>5 DEF SquareInv, SquareTypeOK, ChildRec
  <2>7. ChildInv'
    BY <1>1, <2>2, <2>4 DEF SquareInv, ChildInv
  <2>8. MadeInv'
    BY <1>1, <1>2, <2>4, SquareFacts DEF SquareInv, MadeInv, Started, Ids
  <2>9. MainInv' /\ OverInv' /\ HeapInv'
    BY <1>1, <1>2 DEF SquareInv, MainInv, OverInv, HeapInv
  <2>10. \A x \in Ids : Calls(x)' = Calls(x) /\ (child'[x].pc = "square" => child'[x] = child[x])
    BY <2>1, <2>2, <2>4 DEF Calls
  <2>11. CountInv'
    BY <1>1, <2>10 DEF SquareInv, CountInv, Awaits
  <2>12. PrintInv' /\ SummaryExact'
    BY <1>1, <1>2, <2>10 DEF SquareInv, PrintInv, SummaryExact, Awaits
  <2> QED
    BY <2>6, <2>7, <2>8, <2>9, <2>11, <2>12 DEF SquareInv
<1>3. CASE GiveUp /\ UNCHANGED <<turn, child>>
  <2>1. parent' = "failed" /\ UNCHANGED <<turn, child>>
    BY <1>3 DEF GiveUp
  <2>2. SquareTypeOK'
    BY <1>1, <2>1 DEF SquareInv, SquareTypeOK
  <2>3. \A x \in Ids : (Over(x) <=> Over(x)') /\ (Started(x)' <=> Started(x)) /\ Calls(x)' = Calls(x)
    BY <1>1, <2>1 DEF Over, Started, Calls
  <2>4. ChildInv' /\ MadeInv' /\ MainInv' /\ OverInv' /\ HeapInv'
    BY <1>1, <2>1, <2>3 DEF SquareInv, ChildInv, MadeInv, MainInv, OverInv, HeapInv
  <2>5. PrintInv'
    BY <1>1, <2>1 DEF SquareInv, PrintInv
  <2>6. CountInv' /\ SummaryExact'
    BY <1>1, <2>1, <2>3 DEF SquareInv, CountInv, SummaryExact, Awaits
  <2> QED
    BY <2>2, <2>4, <2>5, <2>6 DEF SquareInv
<1> QED
  BY <1>2, <1>3 DEF Create

\* The parent's loops: they leave the counters and the children's states alone,
\* and each hands the next one children that are over.
LEMMA ParentLoops ==
  ASSUME SquareInv, Alloc \/ Deadline \/ StopChild \/ Waitpid \/ FreeCounters
  PROVE  SquareInv'
<1> USE BoundsAssumption DEF run, mem
<1>1. UNCHANGED <<part, threads, size, counter, child, summary>> /\ dead \subseteq dead'
  BY DEF Alloc, Deadline, StopChild, Waitpid, FreeCounters
<1>2. \A x \in Ids : (Over(x) => Over(x)') /\ (Started(x)' <=> Started(x)) /\ Calls(x)' = Calls(x)
  BY <1>1 DEF Over, Started, Calls
<1>3. ChildInv' /\ CountInv' /\ SummaryExact'
  BY <1>1, <1>2 DEF SquareInv, ChildInv, CountInv, SummaryExact, Awaits
<1>4. CASE Alloc
  <2>1. /\ parent = "alloc" /\ parent' \in {"create", "failed"} /\ turn = 1 /\ turn' = turn
        /\ parent' = "create" => heap' = "live"
        /\ heap' \in {"none", "live"} /\ main \notin {"start", "run"} /\ main' \in {main, "exited"}
        /\ UNCHANGED <<keep, sig, dead>>
    BY <1>4 DEF Alloc, Parent, GiveUp, SquareInv, MainInv
  <2>2. \A x \in Ids : ~Started(x)
    BY <2>1 DEF SquareInv, MadeInv
  <2>3. SquareTypeOK'
    BY <1>1, <2>1 DEF SquareInv, SquareTypeOK
  <2>4. MadeInv' /\ MainInv' /\ OverInv' /\ HeapInv'
    BY <1>2, <2>1, <2>2 DEF MadeInv, MainInv, OverInv, HeapInv
  <2>5. PrintInv'
    BY <1>1, <2>1 DEF SquareInv, PrintInv
  <2> QED
    BY <1>3, <2>3, <2>4, <2>5 DEF SquareInv
<1>5. CASE Deadline
  <2>1. /\ parent = "create" /\ parent' = "stop" /\ turn' = 1
        /\ UNCHANGED <<main, heap, sig, dead>> /\ keep' = [keep EXCEPT ![0] = FALSE]
    BY <1>5 DEF Deadline, Parent
  <2>2. SquareTypeOK'
    BY <1>1, <2>1 DEF SquareInv, SquareTypeOK
  <2>3. MadeInv' /\ MainInv' /\ HeapInv'
    BY <1>1, <1>2, <2>1 DEF SquareInv, MadeInv, MainInv, HeapInv
  <2>4. OverInv' /\ PrintInv'
    BY <1>1, <2>1 DEF SquareInv, OverInv, PrintInv, Ids
  <2> QED
    BY <1>3, <2>2, <2>3, <2>4 DEF SquareInv
<1>6. CASE StopChild /\ turn <= threads
  <2>1. /\ parent = "stop" /\ parent' = parent /\ turn \in Ids /\ turn' = turn + 1
        /\ UNCHANGED <<main, heap, keep>> /\ turn' \in 1..NMAX + 1
    BY <1>6 DEF StopChild, Parent, SquareInv, SquareTypeOK, Ids
  <2>2. dead' = (IF part = "A2" /\ ~Over(turn) THEN dead \cup {turn} ELSE dead) /\ sig' \subseteq sig \cup {turn}
    BY <1>6 DEF StopChild
  <2>3. SquareTypeOK'
    BY <1>1, <2>1, <2>2 DEF SquareInv, SquareTypeOK
  <2>4. MadeInv' /\ MainInv' /\ HeapInv'
    BY <1>1, <1>2, <2>1 DEF SquareInv, MadeInv, MainInv, HeapInv
  <2>5. \A x \in Ids : x = turn /\ part = "A2" => Over(x)'
    BY <1>2, <2>1, <2>2 DEF Over
  <2>6. \A x \in Ids : x < turn' => x < turn \/ x = turn
    BY <2>1 DEF Ids
  <2>7. OverInv'
    BY <1>1, <1>2, <2>1, <2>5, <2>6 DEF SquareInv, OverInv
  <2>8. PrintInv'
    BY <1>1, <2>1 DEF SquareInv, PrintInv
  <2> QED
    BY <1>3, <2>3, <2>4, <2>7, <2>8 DEF SquareInv
<1>7. CASE StopChild /\ ~(turn <= threads)
  <2>1. /\ parent = "stop" /\ parent' = (IF part = "A4" THEN "wait" ELSE "print") /\ turn' = 1
        /\ UNCHANGED <<main, heap, keep, dead, sig>>
    BY <1>7 DEF StopChild, Parent
  <2>2. SquareTypeOK'
    BY <1>1, <2>1 DEF SquareInv, SquareTypeOK
  <2>3. MadeInv' /\ MainInv' /\ HeapInv'
    BY <1>1, <1>2, <2>1 DEF SquareInv, MadeInv, MainInv, HeapInv
  <2>4. \A x \in Ids : Started(x) => x < turn
    BY <1>7, SquareFacts DEF SquareInv, MadeInv
  <2>5. OverInv'
    BY <1>1, <1>2, <2>1, <2>4 DEF SquareInv, OverInv, Awaits, Ids
  <2>6. PrintInv'
    BY <1>1, <2>1 DEF SquareInv, PrintInv
  <2> QED
    BY <1>3, <2>2, <2>3, <2>5, <2>6 DEF SquareInv
<1>8. CASE Waitpid
  <2>1. /\ parent = "wait" /\ UNCHANGED <<main, heap, keep, dead, sig>>
        /\ \/ turn \in Ids /\ Over(turn) /\ turn' = turn + 1 /\ parent' = "wait" /\ turn' \in 1..NMAX + 1
           \/ turn > threads /\ turn' = 1 /\ parent' = "print"
    <3>1. turn <= threads => turn \in Ids /\ turn + 1 \in 1..NMAX + 1
      BY DEF SquareInv, SquareTypeOK, Ids
    <3> QED
      BY <1>8, <3>1 DEF Waitpid, Parent, Reaped
  <2>2. SquareTypeOK'
    BY <1>1, <2>1 DEF SquareInv, SquareTypeOK
  <2>3. MadeInv' /\ MainInv' /\ HeapInv'
    BY <1>1, <1>2, <2>1 DEF SquareInv, MadeInv, MainInv, HeapInv
  <2>4. turn > threads => \A x \in Ids : Started(x) => x < turn
    BY SquareFacts DEF SquareInv, MadeInv
  <2>5. CASE parent' = "wait"
    <3>1. \A x \in Ids : x < turn' => x < turn \/ x = turn
      BY <2>1, <2>5 DEF Ids
    <3>2. OverInv'
      BY <1>1, <1>2, <2>1, <2>5, <3>1 DEF SquareInv, OverInv
    <3> QED
      BY <1>1, <1>3, <2>1, <2>2, <2>3, <2>5, <3>2 DEF SquareInv, PrintInv
  <2>6. CASE parent' = "print"
    <3>1. OverInv'
      BY <1>1, <1>2, <2>1, <2>4, <2>6 DEF SquareInv, MainInv, OverInv, Awaits
    <3> QED
      BY <1>1, <1>3, <2>1, <2>2, <2>3, <2>6, <3>1 DEF SquareInv, PrintInv
  <2> QED
    BY <2>1, <2>5, <2>6
<1>9. CASE FreeCounters
  <2>1. /\ parent = "free" /\ parent' = "returned" /\ heap' = "freed" /\ turn' = turn
        /\ UNCHANGED <<keep, dead, sig>> /\ main' \in {main, "exited"}
    BY <1>9 DEF FreeCounters, Parent
  <2>2. SquareTypeOK'
    BY <1>1, <2>1 DEF SquareInv, SquareTypeOK
  <2>3. MadeInv' /\ MainInv'
    BY <1>1, <1>2, <2>1 DEF SquareInv, MadeInv, MainInv
  <2>4. OverInv'
    BY <1>1, <1>2, <2>1 DEF SquareInv, OverInv, Awaits
  <2>5. HeapInv'
    BY <1>1, <2>1, <2>4 DEF OverInv, HeapInv, Awaits
  <2>6. PrintInv'
    BY <1>1, <2>1 DEF SquareInv, PrintInv
  <2> QED
    BY <1>3, <2>2, <2>3, <2>4, <2>5, <2>6 DEF SquareInv
<1> QED
  BY <1>4, <1>5, <1>6, <1>7, <1>8, <1>9

\* The parent prints a counter, which is its child's number of calls.
LEMMA PrintKeeps ==
  ASSUME SquareInv, PrintSummary
  PROVE  SquareInv'
<1> USE BoundsAssumption DEF run, mem
<1>1. /\ UNCHANGED <<part, threads, size, main, heap, counter, keep, sig, dead, child>>
      /\ parent = "print" /\ parent' \in {"print", "free"} /\ turn' \in 1..NMAX + 1
  BY DEF PrintSummary, Parent, SquareInv, SquareTypeOK
<1>2. \A x \in Ids : (Over(x) <=> Over(x)') /\ (Started(x)' <=> Started(x)) /\ Calls(x)' = Calls(x)
  BY <1>1 DEF Over, Started, Calls
<1>3. /\ summary' \in [Ids -> Nat \cup {-1}]
      /\ \A x \in Ids : summary'[x] = summary[x] \/ summary'[x] = counter[x]
  BY DEF PrintSummary, SquareInv, SquareTypeOK, Ids
<1>4. SquareTypeOK'
  BY <1>1, <1>3 DEF SquareInv, SquareTypeOK
<1>5. ChildInv' /\ MadeInv' /\ MainInv' /\ OverInv' /\ HeapInv'
  BY <1>1, <1>2 DEF SquareInv, ChildInv, MadeInv, MainInv, OverInv, HeapInv, Awaits
<1>6. CountInv' /\ PrintInv'
  BY <1>1, <1>2 DEF SquareInv, CountInv, PrintInv, Awaits
<1>7. SummaryExact'
  BY <1>1, <1>2, <1>3 DEF SquareInv, CountInv, SummaryExact, Awaits
<1> QED
  BY <1>4, <1>5, <1>6, <1>7 DEF SquareInv

-----------------------------------------------------------------------------
(* The theorems                                                            *)

\* The programs start with the invariant.
LEMMA SquareBegins == SquareInit => SquareInv
<1> SUFFICES ASSUME SquareInit PROVE SquareInv
  OBVIOUS
<1> USE BoundsAssumption
<1>1. \A c \in Ids : child[c] = [pc |-> "none", i |-> 1, d |-> 0, cur |-> -1]
  BY DEF SquareInit
<1>2. 1 \in 1..SMAX + 1 /\ 0 \in 0..SMAX /\ -1 \in -1..NMAX /\ 1 \in 1..NMAX + 1 /\ 0 \in 0..NMAX
  OBVIOUS
<1>3. SquareTypeOK
  BY <1>2 DEF SquareInit, SquareTypeOK
<1>4. ChildInv /\ MadeInv /\ MainInv /\ OverInv /\ HeapInv
  BY <1>1 DEF SquareInit, ChildInv, MadeInv, MainInv, OverInv, HeapInv, Started, Awaits
<1>5. \A c \in Ids : Calls(c) = 0
  BY <1>1 DEF Calls
<1>6. CountInv /\ PrintInv /\ SummaryExact
  BY <1>1, <1>5 DEF SquareInit, CountInv, PrintInv, SummaryExact
<1> QED
  BY <1>3, <1>4, <1>6 DEF SquareInv

\* Every step of every program keeps the invariant.
LEMMA SquareSteps == SquareInv /\ [SquareNext]_squareVars => SquareInv'
<1> SUFFICES ASSUME SquareInv, [SquareNext]_squareVars PROVE SquareInv'
  OBVIOUS
<1>1. CASE MainStep
  BY <1>1, MainStepKeeps
<1>2. CASE ParentStep
  BY <1>2, ParentCreates, ParentLoops, PrintKeeps DEF ParentStep
<1>3. CASE \E c \in Ids : ChildStep(c)
  BY <1>3, ChildStepKeeps
<1>4. CASE UNCHANGED squareVars
  <2>1. \A x \in Ids : (Over(x) <=> Over(x)') /\ (Started(x)' <=> Started(x)) /\ Calls(x)' = Calls(x)
    BY <1>4 DEF Over, Started, Calls, squareVars
  <2>2. SquareTypeOK' /\ ChildInv' /\ MainInv' /\ PrintInv'
    BY <1>4 DEF SquareInv, SquareTypeOK, ChildInv, MainInv, PrintInv, squareVars
  <2>3. MadeInv' /\ OverInv' /\ HeapInv' /\ CountInv' /\ SummaryExact'
    BY <1>4, <2>1 DEF SquareInv, MadeInv, OverInv, HeapInv, CountInv, SummaryExact, Awaits, squareVars
  <2> QED
    BY <2>2, <2>3 DEF SquareInv
<1> QED
  BY <1>1, <1>2, <1>3, <1>4 DEF SquareNext

\* The inductive invariant holds in every state of the four programs.
THEOREM SquareInductive == SquareSpec => []SquareInv
BY SquareBegins, SquareSteps, PTL DEF SquareSpec

\* The four programs are type correct: in particular a child's recursion and its
\* loop stay within size, and a counter is a number of calls.
THEOREM SquareTypes == SquareSpec => []SquareTypeOK
<1>1. SquareInv => SquareTypeOK
  BY DEF SquareInv
<1> QED
  BY SquareInductive, <1>1, PTL

\* What A2 and A4 print for a child is the number of calls of Square() it has
\* made, for every number of children and every size, although Kill() and SIGUSR1
\* hit the child at any point of its recursion or before it has started.
THEOREM SummariesAreExact == SquareSpec => []SummaryExact
<1>1. SquareInv => SummaryExact
  BY DEF SquareInv
<1> QED
  BY SquareInductive, <1>1, PTL

\* In A2 a thread that can still count finds its counter allocated: free() comes
\* after Kill() has ended every thread.
THEOREM NoCountAfterFree == SquareSpec => []HeapInv
<1>1. SquareInv => HeapInv
  BY DEF SquareInv
<1> QED
  BY SquareInductive, <1>1, PTL
=============================================================================
