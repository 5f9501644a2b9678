------------------------------- MODULE Square -------------------------------
(***************************************************************************)
(* The four programs of Part A: a parent starts n children, each child     *)
(* calls Square(1), ..., Square(size) and counts every call in its own     *)
(* slot of square_counter; at a deadline the parent stops the children,    *)
(* prints the counters and releases them.  The programs differ in how      *)
(* children are started and stopped:                                       *)
(*   A1 Windows threads: a flag, a grace period, CloseHandle, no join;     *)
(*   A2 UBC threads: a flag, then Kill();                                  *)
(*   A3 POSIX threads: a flag, then pthread_detach(), no join;             *)
(*   A4 processes: shared memory, SIGUSR1, then waitpid().                 *)
(* Time is abstracted: a sleep ends at any moment, since the scheduler may *)
(* delay whoever sleeps or runs.  printf and clock reading are left out.   *)
(* The UBC threads library is external and runs its threads at user level, *)
(* inside one kernel thread.  They run one at a time, so current_thread,   *)
(* set right before Square(), is as good as local to the thread; the model *)
(* lets them interleave.  mainp()'s usleep() stops that kernel thread, so  *)
(* parent and children run only once mainp() has returned, as the recorded *)
(* runs show (partA2.testresults.txt:44-54), and the library ends the      *)
(* program when the last of them is over ("exiting threads").              *)
(***************************************************************************)
EXTENDS Integers, FiniteSets

CONSTANTS NMAX,   \* most children main() accepts (1000 in the code)
          SMAX    \* largest size main() accepts (10000 in the code)

ASSUME BoundsAssumption == NMAX \in Nat \ {0} /\ SMAX \in Nat \ {0}

Parts == {"A1", "A2", "A3", "A4"}
Ids   == 1..NMAX

VARIABLES
  part,      \* which program runs
  main,      \* where main() is; "returned": A2's mainp(); "exited": the program is over
  parent,    \* where the parent thread (A4: main itself) is
  turn,      \* the parent's loop variable i, counted from 1
  threads, size,  \* number_of_threads and size
  heap,      \* square_counter's memory: "none", "live" or "freed"
  keep,      \* keep_running: slot 0 is the parent's process, slot c child c's in A4
  sig,       \* children with SIGUSR1 pending (A4)
  dead,      \* children ended by Kill() or by the signal's default action
  child,     \* child -> its pc, loop variable i, depth of Square, current_thread
  counter,   \* square_counter[c]
  summary    \* what the parent printed for c, -1 before

squareVars == <<part, main, parent, turn, threads, size, heap, keep, sig, dead, child, counter, summary>>
run  == <<part, threads, size>>
mem  == <<heap, counter>>

SquareTypeOK ==
  /\ part \in Parts /\ main \in {"start", "run", "sleep", "returned", "exited"}
  /\ parent \in {"none", "alloc", "create", "stop", "wait", "print", "free",
                 "returned", "failed"}
  /\ turn \in 1..NMAX + 1 /\ threads \in 0..NMAX /\ size \in 0..SMAX
  /\ heap \in {"none", "live", "freed"}
  /\ keep \in [0..NMAX -> BOOLEAN] /\ sig \subseteq Ids /\ dead \subseteq Ids
  /\ child \in [Ids -> [pc : {"none", "created", "asleep", "loop", "square", "report", "done"},
                        i : 1..SMAX + 1, d : 0..SMAX, cur : -1..NMAX]]
  /\ counter \in [Ids -> Nat] /\ summary \in [Ids -> Nat \cup {-1}]

SquareInit ==
  /\ part \in Parts /\ main = "start" /\ parent = "none" /\ turn = 1 /\ threads = 0 /\ size = 0
  /\ heap = "none" /\ keep = [c \in 0..NMAX |-> TRUE] /\ sig = {} /\ dead = {}
  /\ child = [c \in Ids |-> [pc |-> "none", i |-> 1, d |-> 0, cur |-> -1]]
  /\ counter = [c \in Ids |-> 0] /\ summary = [c \in Ids |-> -1]

-----------------------------------------------------------------------------
(* main()                                                                  *)

\* The argument checks: both numbers between 1 and their limit.
Accepted(num, sz) == num > 0 /\ num <= NMAX /\ sz > 0 /\ sz <= SMAX

Args ==
  /\ main = "start"
  /\ \E num \in 0..NMAX + 1, sz \in 0..SMAX + 1 :
       IF Accepted(num, sz) THEN main' = "run" /\ threads' = num /\ size' = sz
                            ELSE main' = "exited" /\ UNCHANGED <<threads, size>>
  /\ UNCHANGED <<part, parent, turn, mem, keep, sig, dead, child, summary>>

\* main() starts the parent thread and sleeps; in A4 main() is the parent.
CreateParent ==
  /\ main = "run"
  /\ \/ main' = "sleep" /\ parent' = "alloc"
     \/ part # "A4" /\ main' = "exited" /\ parent' = parent
  /\ UNCHANGED <<run, turn, mem, keep, sig, dead, child, summary>>

\* main() wakes after deadline + 1 seconds, looks at nobody and returns.  In A1
\* and A3 that ends every thread of the process; A2's mainp() returns to the
\* threads library.
MainReturns ==
  /\ main = "sleep" /\ part # "A4"
  /\ main' = IF part = "A2" THEN "returned" ELSE "exited"
  /\ UNCHANGED <<run, parent, turn, mem, keep, sig, dead, child, summary>>

\* Can threads run?  A2's only when mainp() no longer holds their kernel thread.
ThreadsRun == IF part = "A2" THEN main = "returned" ELSE main # "exited"

-----------------------------------------------------------------------------
(* The parent                                                              *)

Parent(at) == parent = at /\ ThreadsRun

\* How the parent gives up: A1 and A2 return from the thread, A3 calls
\* exit(1), A4 returns 1 from main().
GiveUp == parent' = "failed" /\ main' = IF part \in {"A3", "A4"} THEN "exited" ELSE main

\* malloc/calloc or shmget/shmat, then malloc.  A1 does not check args: with
\* only that allocation failed it dies on the first store.  A4 leaves the
\* segment behind when malloc fails after shmget.
Alloc ==
  /\ Parent("alloc")
  /\ \/ parent' = "create" /\ heap' = "live" /\ UNCHANGED main
     \/ GiveUp /\ heap' \in (IF part = "A4" THEN {"none", "live"} ELSE {"none"})
     \/ part = "A1" /\ parent' = "failed" /\ main' = "exited" /\ heap' = "live"
  /\ UNCHANGED <<run, turn, counter, keep, sig, dead, child, summary>>

\* CreateThread, Create, pthread_create or fork of child k.  A failure leaves
\* the children made so far running.
Create ==
  /\ Parent("create") /\ turn <= threads
  /\ \/ child' = [child EXCEPT ![turn].pc = "created"] /\ turn' = turn + 1 /\ UNCHANGED <<main, parent>>
     \/ GiveUp /\ UNCHANGED <<turn, child>>
  /\ UNCHANGED <<run, mem, keep, sig, dead, summary>>

\* The parent's sleep ends: keep_running = 0, in its own process.
Deadline ==
  /\ Parent("create") /\ turn > threads
  /\ keep' = [keep EXCEPT ![0] = FALSE] /\ parent' = "stop" /\ turn' = 1
  /\ UNCHANGED <<run, main, mem, sig, dead, child, summary>>

Over(c) == child[c].pc = "done" \/ c \in dead

\* CloseHandle (A1, after the grace period) and pthread_detach (A3) do not touch
\* the thread; Kill (A2) ends it; kill (A4) makes SIGUSR1 pending.
StopChild ==
  /\ Parent("stop")
  /\ IF turn <= threads
     THEN /\ turn' = turn + 1 /\ parent' = parent
          /\ dead' = IF part = "A2" /\ ~Over(turn) THEN dead \cup {turn} ELSE dead
          /\ sig'  = IF part = "A4" /\ ~Over(turn) THEN sig \cup {turn} ELSE sig
     ELSE /\ turn' = 1 /\ parent' = (IF part = "A4" THEN "wait" ELSE "print")
          /\ UNCHANGED <<dead, sig>>
  /\ UNCHANGED <<run, main, mem, keep, child, summary>>

\* Mutant of waitpid: it waits for a normal exit only.
Reaped_Exited(c) == child[c].pc = "done"

\* waitpid() returns for a child that exited or that a signal killed.
Reaped(c) == Over(c)

Waitpid ==
  /\ Parent("wait")
  /\ \/ turn <= threads /\ Reaped(turn) /\ turn' = turn + 1 /\ parent' = parent
     \/ turn > threads /\ turn' = 1 /\ parent' = "print"
  /\ UNCHANGED <<run, main, mem, keep, sig, dead, child, summary>>

PrintSummary ==
  /\ Parent("print")
  /\ IF turn <= threads
     THEN summary' = [summary EXCEPT ![turn] = counter[turn]] /\ turn' = turn + 1 /\ parent' = parent
     ELSE parent' = "free" /\ UNCHANGED <<summary, turn>>
  /\ UNCHANGED <<run, main, mem, keep, sig, dead, child>>

\* free(), or shmdt() and shmctl(IPC_RMID); A4's main() then returns.
\* square_counter keeps its old, now dangling, value.
FreeCounters ==
  /\ Parent("free") /\ heap' = "freed" /\ parent' = "returned"
  /\ main' = IF part = "A4" THEN "exited" ELSE main
  /\ UNCHANGED <<run, turn, counter, keep, sig, dead, child, summary>>

-----------------------------------------------------------------------------
(* A child.  Threads end with the process; A4's children may outlive it.   *)

Child(c, at) == child[c].pc = at /\ c \notin dead /\ (part = "A4" \/ ThreadsRun)

KeepRunning(c) == IF part = "A4" THEN keep[c] ELSE keep[0]

\* A4 installs signal_handler; the threads publish current_thread.
ChildStart(c) ==
  /\ Child(c, "created")
  /\ child' = [child EXCEPT ![c].pc = "asleep",
                            ![c].cur = IF part = "A4" THEN -1 ELSE c]
  /\ UNCHANGED <<run, main, parent, turn, mem, keep, sig, dead, summary>>

ChildWakes(c) ==
  /\ Child(c, "asleep") /\ child' = [child EXCEPT ![c].pc = "loop"]
  /\ UNCHANGED <<run, main, parent, turn, mem, keep, sig, dead, summary>>

\* Mutant: A4 does not set current_thread before the call.
Published_Once(c) == child[c].cur

\* A2 and A4 set current_thread before each call of Square().
Published(c) == IF part \in {"A2", "A4"} THEN c ELSE child[c].cur

\* The loop's test of i <= size and of keep_running, and the call of Square(i).
ChildLoop(c) ==
  /\ Child(c, "loop")
  /\ child' = IF child[c].i <= size /\ KeepRunning(c)
              THEN [child EXCEPT ![c].pc = "square", ![c].d = child[c].i,
                                 ![c].cur = Published(c)]
              ELSE [child EXCEPT ![c].pc = "report"]
  /\ UNCHANGED <<run, main, parent, turn, mem, keep, sig, dead, summary>>

\* Is square_counter[current_thread]++ a store to the counters?  The pointer is
\* never NULL here; after free() it dangles, except in A4, where each child has
\* the segment attached itself.
Counts(c) == child[c].cur > 0 /\ (heap = "live" \/ part = "A4")

\* One call of Square(N), N = d: count it, then return (N = 0) or recurse.
Square(c) ==
  /\ Child(c, "square")
  /\ counter' = IF Counts(c) THEN [counter EXCEPT ![child[c].cur] = @ + 1] ELSE counter
  /\ child' = IF child[c].d = 0
              THEN [child EXCEPT ![c].pc = "loop", ![c].i = @ + 1]
              ELSE [child EXCEPT ![c].d = @ - 1]
  /\ UNCHANGED <<run, main, parent, turn, heap, keep, sig, dead, summary>>

\* The child prints its counter and returns (A4: exit(0)).
ChildReport(c) ==
  /\ Child(c, "report") /\ child' = [child EXCEPT ![c].pc = "done"]
  /\ sig' = sig \ {c}
  /\ UNCHANGED <<run, main, parent, turn, mem, keep, dead, summary>>

\* SIGUSR1 reaches child c between two of its steps: signal_handler clears the
\* child's keep_running, or, before signal() was called, the child dies.
Signalled(c) ==
  /\ c \in sig /\ ~Over(c) /\ sig' = sig \ {c}
  /\ IF child[c].pc = "created"
     THEN dead' = dead \cup {c} /\ keep' = keep
     ELSE keep' = [keep EXCEPT ![c] = FALSE] /\ dead' = dead
  /\ UNCHANGED <<run, main, parent, turn, mem, child, summary>>

\* A2: the library ends the program once no thread is left.
ThreadsExit ==
  /\ part = "A2" /\ main = "returned" /\ parent \in {"returned", "failed"}
  /\ \A c \in Ids : child[c].pc = "none" \/ Over(c)
  /\ main' = "exited"
  /\ UNCHANGED <<run, parent, turn, mem, keep, sig, dead, child, summary>>

-----------------------------------------------------------------------------
MainStep   == Args \/ CreateParent \/ MainReturns \/ ThreadsExit
ParentStep == Alloc \/ Create \/ Deadline \/ StopChild \/ Waitpid \/ PrintSummary \/ FreeCounters
ChildStep(c) == \/ ChildStart(c) \/ ChildWakes(c) \/ ChildLoop(c) \/ Square(c)
                \/ ChildReport(c) \/ Signalled(c)

SquareNext == MainStep \/ ParentStep \/ \E c \in Ids : ChildStep(c)

\* Sleeps end, the scheduler runs everyone, signals are delivered.
Fairness == /\ WF_squareVars(MainStep) /\ WF_squareVars(ParentStep)
            /\ \A c \in Ids : WF_squareVars(ChildStep(c))

SquareSpec == SquareInit /\ [][SquareNext]_squareVars /\ Fairness

-----------------------------------------------------------------------------
\* Square(1), ..., Square(i - 1) make 2 + 3 + ... + i calls; Square(i) has made i - d.
Calls(c) == ((child[c].i - 1) * (child[c].i + 2)) \div 2
              + (IF child[c].pc = "square" THEN child[c].i - child[c].d ELSE 0)

\* The programs whose parent makes sure that a child is over before it goes on.
Awaits == part \in {"A2", "A4"}

\* What A2 and A4 print for a child is exactly the number of calls the child has
\* made and will ever make: it counted in its own slot and missed no call, and it
\* is over, although Kill() and SIGUSR1 arrive in the middle of Square() or before
\* the child has started.  (A1 and A3 do not wait, so the same formula fails there.)
SummaryExact ==
  \A c \in Ids : Awaits /\ summary[c] >= 0 => summary[c] = Calls(c)

\* A2 and A4 end with no child left and, unless an allocation or a creation
\* failed, with the counters released: neither a child that Kill() or SIGUSR1
\* hits in the middle of Square() or before it started, nor one that a failing
\* parent left behind unstopped, keeps the program from ending.  (In A1 and A3
\* main()'s return ends whatever is left, so there is nothing to state.)
Terminates ==
  <>[](Awaits => /\ main = "exited"
                 /\ \A c \in Ids : child[c].pc = "none" \/ Over(c)
                 /\ parent \in {"none", "failed"} \/ heap = "freed")
=============================================================================
