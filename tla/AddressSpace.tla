---------------------------- MODULE AddressSpace ----------------------------
(***************************************************************************)
(* What the memory calls promise a process: a sequence of pages of its     *)
(* own, that fork() copies whole, exec() replaces whole, sbrk() extends    *)
(* with zeros or cuts, and only its owner's stores change.  A call that    *)
(* fails changes nothing.  space[p] = <<>> for a process without memory.   *)
(***************************************************************************)
EXTENDS Integers, Sequences

CONSTANTS Procs, Values, Images,
          MaxGrow   \* pages that one call adds

VARIABLE space

Zeros(n) == [k \in 1..n |-> "zero"]

Grow(p) == \E n \in 1..MaxGrow : space' = [space EXCEPT ![p] = @ \o Zeros(n)]
Shrink(p) == \E n \in 0..Len(space[p]) : space' = [space EXCEPT ![p] = SubSeq(@, 1, n)]
\* A store, by the process or by the kernel for it; the program text stays as it is.
Store(p) ==
  \E v \in DOMAIN space[p], x \in Values :
     space[p][v] # "text" /\ space' = [space EXCEPT ![p][v] = x]
Fork(p) == \E q \in Procs : space[q] = <<>> /\ space' = [space EXCEPT ![q] = space[p]]
Exec(p) == \E s \in Images : space' = [space EXCEPT ![p] = s]
Free(p) == space' = [space EXCEPT ![p] = <<>>]

Init == space = [p \in Procs |-> <<>>]
Next == \E p \in Procs : Grow(p) \/ Shrink(p) \/ Store(p) \/ Fork(p) \/ Exec(p) \/ Free(p)
Spec == Init /\ [][Next]_space
=============================================================================
