------------------------------- MODULE InOrder -------------------------------
(***************************************************************************)
(* src/src/threads.rs: in_order_on.  A list of items is run by a few       *)
(* worker threads that share one cursor, and the results are given back in *)
(* the items' order.  A worker takes the next item not yet taken, runs it  *)
(* without any lock, and puts the result into the slot of its own item     *)
(* under a mutex.  The caller waits for every worker (thread::scope) and   *)
(* then opens every slot.                                                  *)
(*                                                                         *)
(* Items are 1..N (the code counts from 0).  What running an item answers  *)
(* is the constant function Answer; a run may also panic, which ends its   *)
(* worker and nothing else until the scope is joined.                      *)
(***************************************************************************)
EXTENDS Naturals

CONSTANTS
  N,        \* items.len()
  Most,     \* the most threads the caller allows
  Cores,    \* threads(): PARLEY_THREADS, or the machine's cores
  Answer,   \* Answer[i] is what running item i returns
  Nothing,  \* None
  Panicked, \* the outcome of a call that panics, and a worker's after a panic
  CanPanic  \* the items whose run may panic

ASSUME CountsAssumption == N \in Nat /\ Most \in Nat /\ Cores \in Nat \ {0}
ASSUME AnswerAssumption ==
  /\ Nothing # Panicked
  /\ \A i \in 1..N : Answer[i] # Nothing
  /\ CanPanic \subseteq 1..N

AtMost(a, b) == IF a <= b THEN a ELSE b

Items == 1..N

\* most.min(threads()).min(items.len()).max(1): one worker even for no item.
WorkerCount == LET n == AtMost(AtMost(Most, Cores), N) IN IF n = 0 THEN 1 ELSE n

Workers == 1..WorkerCount

VARIABLES
  next,     \* the cursor: the item the next fetch_add answers
  done,     \* the slots
  pc,       \* where each worker stands
  item,     \* the item each worker took last
  outcome   \* what the call returned: Nothing while it runs

vars == <<next, done, pc, item, outcome>>

TypeOK ==
  /\ next \in Nat \ {0}
  /\ done \in [Items -> {Answer[i] : i \in Items} \cup {Nothing}]
  /\ pc \in [Workers -> {"take", "run", "put", "left", "panicked"}]
  /\ item \in [Workers -> Nat \ {0}]
  /\ outcome \in {Nothing, Panicked} \cup [Items -> {Answer[i] : i \in Items}]

Init ==
  /\ next = 1
  /\ done = [i \in Items |-> Nothing]
  /\ pc = [w \in Workers |-> "take"]
  /\ item = [w \in Workers |-> 1]
  /\ outcome = Nothing

(***************************************************************************)
(* The worker's loop.                                                      *)
(***************************************************************************)

\* A worker reads the cursor, leaves it at "to", and past the end goes to "past".
TakeBy(w, to, past) ==
  /\ pc[w] = "take"
  /\ next' = to
  /\ item' = [item EXCEPT ![w] = next]
  /\ pc' = [pc EXCEPT ![w] = IF next \in Items THEN "run" ELSE past]
  /\ UNCHANGED <<done, outcome>>

\* Mutants of Take: the cursor is not advanced for the next worker; and a
\* worker past the end waits where it should leave.
TakeForgets(w) == TakeBy(w, IF w = 1 THEN next + 1 ELSE next, "left")
TakeWaits(w) == next \in Items /\ TakeBy(w, next + 1, "left")

\* let i = next.fetch_add(1): one atomic step, and past the end it leaves.
Take(w) == TakeBy(w, next + 1, "left")

\* run(&mut state, item), with no lock held.
Run(w) ==
  /\ pc[w] = "run"
  /\ \/ pc' = [pc EXCEPT ![w] = "put"]
     \/ item[w] \in CanPanic /\ pc' = [pc EXCEPT ![w] = "panicked"]
  /\ UNCHANGED <<next, done, item, outcome>>

\* A worker writes its answer into "slot" and goes to "then".
PutAt(w, slot, then) ==
  /\ pc[w] = "put"
  /\ done' = [done EXCEPT ![slot] = Answer[item[w]]]
  /\ pc' = [pc EXCEPT ![w] = then]
  /\ UNCHANGED <<next, item, outcome>>

\* A mutant of Put: a result goes to the first empty slot, as pushing it to
\* the end of a list would put it.
PutAppends(w) ==
  \E i \in Items : /\ done[i] = Nothing
                   /\ \A j \in Items : j < i => done[j] # Nothing
                   /\ PutAt(w, i, "take")

\* done.lock()[i] = Some(result): nothing in the lock can panic.
Put(w) == PutAt(w, item[w], "take")

Ended(w) == pc[w] \in {"left", "panicked"}

\* thread::scope waits for every worker and panics if one did; then every
\* slot is opened, and an empty one would panic ("every item was run").
Join ==
  /\ outcome = Nothing
  /\ \A w \in Workers : Ended(w)
  /\ outcome' = IF \/ \E w \in Workers : pc[w] = "panicked"
                   \/ \E i \in Items : done[i] = Nothing
                THEN Panicked
                ELSE done
  /\ UNCHANGED <<next, done, pc, item>>

Step(w) == Take(w) \/ Run(w) \/ Put(w)

Next == Join \/ \E w \in Workers : Step(w)

Fairness == WF_vars(Join) /\ \A w \in Workers : WF_vars(Step(w))

Spec == Init /\ [][Next]_vars

FairSpec == Spec /\ Fairness

(***************************************************************************)
(* Properties                                                              *)
(***************************************************************************)

Holds(w, i) == pc[w] \in {"run", "put"} /\ item[w] = i

\* No item is run by two workers at once, and none that is done is run
\* again: the cursor hands each item to one worker.
NoItemTwice ==
  \A i \in Items, w \in Workers :
    Holds(w, i) => /\ done[i] = Nothing
                   /\ \A v \in Workers : Holds(v, i) => v = w

\* No item is lost: one that was taken and is not done is in the hands of a
\* worker, or its worker panicked running it.
NoItemLost ==
  \A i \in Items :
    i < next /\ done[i] = Nothing =>
      \E w \in Workers : item[w] = i /\ pc[w] \in {"run", "put", "panicked"}

\* The call ends: no worker waits for an item that never comes, and the join
\* waits for no worker that has ended.
CallEnds == <>(outcome # Nothing)

\* What in_order promises its callers: the answers in the items' order in one
\* step, or a panic, whatever the workers do in between.
M == INSTANCE MapInOrder
ImplementsMap == M!Spec
=============================================================================
