------------------------------ MODULE ListLib ------------------------------
(***************************************************************************)
(* The list library of a1-phase2: doubly linked lists with a cursor, in a  *)
(* static pool of nodes and list headers that are addressed by index.      *)
(* ListRemove, ListFree, ListTrim and ListSearch are stubs, and ListCount  *)
(* and ListCurr only look, so they are no actions; a call that fails (a    *)
(* null argument, an exhausted pool, an empty list) changes nothing.       *)
(*                                                                         *)
(* Some calls use the index -1 into pool_nodes.  C gives that no meaning:  *)
(* the behaviour sets ub and stops.                                        *)
(***************************************************************************)
EXTENDS Integers, FiniteSets, FiniteSetsExt

CONSTANTS MAX_NODES, MAX_LISTS

ASSUME ListAssumption == MAX_NODES \in Nat \ {0} /\ MAX_LISTS \in Nat \ {0}

Nodes == 0..MAX_NODES - 1
Lists == 0..MAX_LISTS - 1
Nil == -1

VARIABLES
  next, prev, link,                         \* pool_nodes
  head, tail, curr, count, before, after,   \* pool_lists
  listlink,                                 \* pool_lists[l].link
  free_node_head, free_list_head, initialized,
  created,   \* the lists that the client has got from ListCreate
  lost,      \* the number of nodes that self-concatenations have dropped (history)
  ub         \* index -1 was used

nodeVars == <<next, prev, link, free_node_head>>
cursor == <<curr, before, after>>
listVars == <<head, tail, count, cursor>>
createVars == <<listlink, free_list_head, initialized, created>>
vars == <<nodeVars, listVars, createVars, lost, ub>>

TypeOK ==
  /\ next \in [Nodes -> Nodes \cup {Nil}] /\ prev \in [Nodes -> Nodes \cup {Nil}]
  /\ link \in [Nodes -> Nodes \cup {Nil}]
  /\ head \in [Lists -> Nodes \cup {Nil}] /\ tail \in [Lists -> Nodes \cup {Nil}]
  /\ curr \in [Lists -> Nodes \cup {Nil}]
  /\ count \in [Lists -> 0..MAX_NODES]
  /\ before \in [Lists -> {0, 1}] /\ after \in [Lists -> {0, 1}]
  /\ listlink \in [Lists -> Lists \cup {Nil}]
  /\ free_node_head \in Nodes \cup {Nil}
  /\ free_list_head \in Lists \cup {Nil}
  /\ initialized \in {0, 1}
  /\ created \subseteq Lists
  /\ lost \in 0..MAX_NODES /\ ub \in BOOLEAN

\* The pools are static objects, filled with zeros.
Init ==
  /\ next = [n \in Nodes |-> 0] /\ prev = [n \in Nodes |-> 0]
  /\ link = [n \in Nodes |-> 0]
  /\ head = [l \in Lists |-> 0] /\ tail = [l \in Lists |-> 0]
  /\ curr = [l \in Lists |-> 0] /\ count = [l \in Lists |-> 0]
  /\ before = [l \in Lists |-> 0] /\ after = [l \in Lists |-> 0]
  /\ listlink = [l \in Lists |-> 0]
  /\ free_node_head = 0 /\ free_list_head = 0 /\ initialized = 0
  /\ created = {}
  /\ lost = 0 /\ ub = FALSE

\* A call on list l.
Call(l) == l \in created /\ ~ub

Set(f, l, v) == [f EXCEPT ![l] = v]

-----------------------------------------------------------------------------
(* list_removers.c: ListCreate() and ListConcat()                          *)

\* The chain 0, 1, ..., max - 1 of free nodes or lists.
FreeChain(S) == [i \in S |-> IF i + 1 \in S THEN i + 1 ELSE Nil]

\* Clean the pools once.
InitPools ==
  /\ initialized = 0
  /\ next' = [n \in Nodes |-> Nil] /\ prev' = [n \in Nodes |-> Nil]
  /\ link' = FreeChain(Nodes)
  /\ head' = [l \in Lists |-> Nil] /\ tail' = [l \in Lists |-> Nil]
  /\ curr' = [l \in Lists |-> Nil] /\ count' = [l \in Lists |-> 0]
  /\ before' = [l \in Lists |-> 1] /\ after' = [l \in Lists |-> 0]
  /\ initialized' = 1
  /\ UNCHANGED free_node_head

ListCreate ==
  /\ free_list_head # Nil /\ ~ub
  /\ \/ InitPools
     \/ initialized = 1 /\ UNCHANGED <<nodeVars, listVars, initialized>>
  /\ LET links == IF initialized = 0 THEN FreeChain(Lists) ELSE listlink IN
     /\ free_list_head' = links[free_list_head]
     /\ listlink' = Set(links, free_list_head, Nil)
  /\ created' = created \cup {free_list_head}
  /\ UNCHANGED <<lost, ub>>

\* Mutant: the cursor stays on an item that list1 has now.
Emptied_Cursor(l) == UNCHANGED cursor

\* list2 is empty again.
Emptied(l) ==
  /\ curr' = Set(curr, l, Nil)
  /\ before' = Set(before, l, 1)
  /\ after' = Set(after, l, 0)

\* Mutant: the count of list2 is not reset.
ListConcat_KeepsCount(l1, l2) ==
  /\ Call(l1) /\ l2 \in created
  /\ count[l2] # 0
  /\ count[l1] # 0
  /\ next' = Set(next, tail[l1], head[l2])
  /\ prev' = Set(prev, head[l2], tail[l1])
  /\ head' = head
  /\ tail' = Set(tail, l1, tail[l2])
  /\ count' = Set(count, l1, count[l1] + count[l2])
  /\ Emptied(l2)
  /\ UNCHANGED <<link, free_node_head, createVars, lost, ub>>

\* list1 takes the items of list2.  If list1 is empty, its tail is -1.  Nothing
\* refuses the same list twice: its chain is closed to a ring, then its header is
\* emptied, and no header leads to the nodes any more.
ListConcat(l1, l2) ==
  /\ Call(l1) /\ l2 \in created
  /\ count[l2] # 0
  /\ \/ /\ count[l1] = 0
        /\ ub' = TRUE
        /\ UNCHANGED <<nodeVars, listVars, createVars, lost>>
     \/ /\ count[l1] # 0
        /\ next' = Set(next, tail[l1], head[l2])
        /\ prev' = Set(prev, head[l2], tail[l1])
        /\ head' = Set(head, l2, Nil)
        /\ tail' = [tail EXCEPT ![l1] = tail[l2], ![l2] = Nil]
        /\ count' = [count EXCEPT ![l1] = @ + count[l2], ![l2] = 0]
        /\ Emptied(l2)
        /\ lost' = IF l1 = l2 THEN lost + count[l1] ELSE lost
        /\ UNCHANGED <<link, free_node_head, createVars, ub>>

-----------------------------------------------------------------------------
(* list_adders.c                                                           *)

\* nodeAllocator() returns free_node_head; its next and prev are set to -1 by
\* the callers' updates below.
NodeAllocator ==
  /\ free_node_head # Nil
  /\ free_node_head' = link[free_node_head]
  /\ link' = Set(link, free_node_head, Nil)

\* The new node is linked behind the tail, but its prev is the cursor.  In an
\* empty list tail and curr are the new node itself by then.
ListAppend(l) ==
  /\ Call(l)
  /\ NodeAllocator
  /\ LET n == free_node_head IN
     /\ prev' = Set(prev, n, IF count[l] = 0 THEN n ELSE curr[l])
     /\ next' = [next EXCEPT ![n] = Nil, ![IF count[l] = 0 THEN n ELSE tail[l]] = n]
     /\ head' = IF count[l] = 0 THEN Set(head, l, n) ELSE head
     /\ tail' = Set(tail, l, n)
     /\ curr' = Set(curr, l, n)
  /\ count' = Set(count, l, count[l] + 1)
  /\ before' = Set(before, l, 0) /\ after' = Set(after, l, 0)
  /\ UNCHANGED <<createVars, lost, ub>>

\* The new node is linked before the head, which in an empty list is the new
\* node itself by then.
ListPrepend(l) ==
  /\ Call(l)
  /\ NodeAllocator
  /\ LET n == free_node_head
         h == IF count[l] = 0 THEN n ELSE head[l] IN
     /\ next' = Set(next, n, h)
     /\ prev' = [prev EXCEPT ![n] = Nil, ![h] = n]
     /\ head' = Set(head, l, n)
     /\ tail' = IF count[l] = 0 THEN Set(tail, l, n) ELSE tail
     /\ curr' = Set(curr, l, n)
  /\ IF count[l] = 0
     THEN before' = Set(before, l, 0) /\ after' = Set(after, l, 0)
     ELSE UNCHANGED <<before, after>>
  /\ count' = Set(count, l, count[l] + 1)
  /\ UNCHANGED <<createVars, lost, ub>>

\* Link a new node behind the cursor; tail and cursor stay.
AddAfter(l) ==
  /\ Call(l)
  /\ NodeAllocator
  /\ LET n == free_node_head
         c == curr[l] IN
     /\ next' = [next EXCEPT ![n] = next[c], ![c] = n]
     /\ prev' = [p \in Nodes |-> IF p = next[c] THEN n ELSE IF p = n THEN c ELSE prev[p]]
  /\ count' = Set(count, l, count[l] + 1)
  /\ UNCHANGED <<head, tail, cursor, createVars, lost, ub>>

\* Link a new node before the cursor, and make it the cursor.
InsertBefore(l) ==
  /\ Call(l)
  /\ NodeAllocator
  /\ LET n == free_node_head
         c == curr[l] IN
     /\ next' = [p \in Nodes |-> IF p = prev[c] THEN n ELSE IF p = n THEN c ELSE next[p]]
     /\ prev' = [prev EXCEPT ![n] = prev[c], ![c] = n]
     /\ head' = IF head[l] = c THEN Set(head, l, n) ELSE head
     /\ curr' = Set(curr, l, n)
  /\ count' = Set(count, l, count[l] + 1)
  /\ UNCHANGED <<tail, before, after, createVars, lost, ub>>

ListAdd(l) ==
  IF count[l] = 0 \/ after[l] = 1 \/ curr[l] = Nil THEN ListAppend(l)
  ELSE IF before[l] = 1 THEN ListPrepend(l)
  ELSE AddAfter(l)

ListInsert(l) ==
  IF count[l] = 0 THEN ListAppend(l)
  ELSE IF before[l] = 1 THEN ListPrepend(l)
  ELSE IF after[l] = 1 THEN ListAppend(l)
  ELSE InsertBefore(l)

-----------------------------------------------------------------------------
(* list_movers.c                                                           *)

ListFirst(l) ==
  /\ Call(l) /\ count[l] # 0
  /\ curr' = Set(curr, l, head[l])
  /\ before' = Set(before, l, 0) /\ after' = Set(after, l, 0)
  /\ UNCHANGED <<nodeVars, head, tail, count, createVars, lost, ub>>

\* after is left alone.
ListLast(l) ==
  /\ Call(l) /\ count[l] # 0
  /\ curr' = Set(curr, l, tail[l])
  /\ before' = Set(before, l, 0)
  /\ UNCHANGED <<nodeVars, head, tail, count, after, createVars, lost, ub>>

\* Mutant: the end of the list is not noted.
Step_NoFlag(l, to, at_before) ==
  /\ curr' = Set(curr, l, to)
  /\ UNCHANGED <<before, after>>

\* The cursor goes to node to; off the list, before or after is to say so.
Step(l, to, at_before) ==
  /\ curr' = Set(curr, l, to)
  /\ IF to = Nil
     THEN /\ before' = Set(before, l, IF at_before THEN 1 ELSE 0)
          /\ after' = Set(after, l, IF at_before THEN 0 ELSE 1)
     ELSE UNCHANGED <<before, after>>

\* The cursor may be -1 here: before the first item, or in an empty list.
ListNext(l) ==
  /\ Call(l) /\ after[l] = 0
  /\ \/ curr[l] # Nil /\ Step(l, next[curr[l]], FALSE) /\ UNCHANGED ub
     \/ curr[l] = Nil /\ ub' = TRUE /\ UNCHANGED cursor
  /\ UNCHANGED <<nodeVars, head, tail, count, createVars, lost>>

ListPrev(l) ==
  /\ Call(l) /\ before[l] = 0
  /\ \/ curr[l] # Nil /\ Step(l, prev[curr[l]], TRUE) /\ UNCHANGED ub
     \/ curr[l] = Nil /\ ub' = TRUE /\ UNCHANGED cursor
  /\ UNCHANGED <<nodeVars, head, tail, count, createVars, lost>>

-----------------------------------------------------------------------------
Next == \/ ListCreate
        \/ \E l \in Lists :
             \/ ListAppend(l) \/ ListPrepend(l) \/ (Call(l) /\ (ListAdd(l) \/ ListInsert(l)))
             \/ ListFirst(l) \/ ListLast(l) \/ ListNext(l) \/ ListPrev(l)
             \/ \E m \in Lists : ListConcat(l, m)

Spec == Init /\ [][Next]_vars

-----------------------------------------------------------------------------
(* Properties.                                                             *)

\* The nodes on the chain of free nodes.
Free == LET f[k \in 0..MAX_NODES] == IF k = 0 THEN free_node_head
                                     ELSE IF f[k - 1] = Nil THEN Nil ELSE link[f[k - 1]]
        IN  {f[k] : k \in 0..MAX_NODES} \ {Nil}

\* No node is lost or used twice: the counts of the lists and the length of
\* the chain of free nodes add up to the pool, through every combination of
\* insertions and concatenations, but for the nodes of a list that the client
\* concatenated to itself, which are dropped once and for all.
NodesConserved ==
  initialized = 1 =>
    Cardinality(Free) + MapThenSumSet(LAMBDA l : count[l], Lists) + lost = MAX_NODES

\* What a client reaches from list l with First, Last, Next and Prev.
Reach(l) ==
  LET Step1(S) == S \cup {next[n] : n \in S} \cup {prev[n] : n \in S}
      r[k \in 0..MAX_NODES] == IF k = 0 THEN {head[l], tail[l], curr[l]} \ {Nil}
                               ELSE Step1(r[k - 1]) \ {Nil}
  IN  r[MAX_NODES]

\* Two lists never share a node: a concatenation hands over all of list2.
ListsDisjoint ==
  initialized = 1 =>
    \A l, m \in Lists : l # m => Reach(l) \cap Reach(m) = {}

\* ListAdd and ListInsert use the cursor as an index without looking: when the
\* cursor is -1 one of the flags says so, and a list that is not empty has a
\* head and a tail (list_adders.c:37-46, 76-90).  (ListNext, ListPrev and ListConcat
\* do use -1 and end in ub.)
CursorSafe ==
  \A l \in created :
    /\ curr[l] = Nil => before[l] = 1 \/ after[l] = 1
    /\ count[l] > 0 <=> head[l] # Nil
    /\ count[l] > 0 <=> tail[l] # Nil

\* "append adds nodes to the end of the chain" (list_adders.c:119): the tail
\* of a list has no next.
TailEndsChain == \A l \in created : count[l] > 0 => next[tail[l]] = Nil
=============================================================================
