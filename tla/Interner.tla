------------------------------- MODULE Interner -------------------------------
(***************************************************************************)
(* The tables every thread of a process shares: the interned texts         *)
(* (src/src/formula/symbol.rs), the registry of notations and of the       *)
(* literals of a notation (src/src/formula/notation_id.rs), each behind a  *)
(* lock of readers or one writer and looked in twice, and the libraries    *)
(* (src/src/tools/build.rs), one for each proved.mm, behind a lock held    *)
(* while one is read.  Notations and literals are behind one lock.         *)
(*                                                                         *)
(* What is added to the registry is written in interned texts, and so is a *)
(* library: they are asked for while its lock is held to write.            *)
(*                                                                         *)
(* An id is the place a text was added at: the notation's number, the      *)
(* literal's place, the address an interned text was given, the library    *)
(* read.  A thread keeps the interned texts it has met.  The registry      *)
(* stands from the start, with the notations and literals the code names.  *)
(***************************************************************************)
EXTENDS Naturals

CONSTANTS
  Threads,
  Texts,
  Kind,        \* the table each text is looked up in
  Spelt,       \* the interned texts each is made of where it is added
  Known,       \* the ids the code's own notations and literals have, else 0
  KnownOf,     \* how many of each table there are
  Capacity,    \* how many notations, and literals of one, have ids
  Asked,       \* the texts asked for for themselves
  MaxAsks,     \* how many asks there are
  None

Kinds == {"symbol", "notation", "literal", "library"}

\* The lock each table is behind.
LockOf == [k \in Kinds |-> IF k \in {"notation", "literal"} THEN "registry" ELSE k]
Locks == {LockOf[k] : k \in Kinds}

ASSUME InternerAssumption ==
  /\ Kind \in [Texts -> Kinds]
  /\ Spelt \in [Texts -> SUBSET {x \in Texts : Kind[x] = "symbol"}]
  /\ \A x \in Texts : Kind[x] = "symbol" => Spelt[x] = {}
  /\ Known \in [Texts -> Nat]
  /\ Capacity \in [{"notation", "literal"} -> Nat]
  /\ Asked \subseteq Texts /\ MaxAsks \in Nat
  /\ None \notin Threads \cup Texts
  /\ \A x, y \in Texts : x # y /\ Kind[x] = Kind[y] /\ Known[x] # 0 => Known[x] # Known[y]
  /\ KnownOf \in [Kinds -> Nat]
  /\ \A k \in {"notation", "literal"} : KnownOf[k] <= Capacity[k]
  /\ \A x \in Texts : Known[x] <= KnownOf[Kind[x]]

VARIABLES
  id,        \* the place of each text in its table, 0 where it is not there
  count,     \* how many texts each table holds
  readers,   \* the threads that hold each lock to read
  writer,    \* the thread that holds it to write, or None
  poisoned,  \* whether a thread panicked holding it to write
  near,      \* the interned texts each thread keeps, with their ids
  pc,        \* where each thread is in its ask
  ask,       \* the text it asks for
  whole,     \* the text it is adding meanwhile, or None
  unspelt,   \* the interned texts still to ask for, to add it
  answer,    \* what it was last answered
  asks       \* how many asks were made

locks == <<readers, writer, poisoned>>
adding == <<whole, unspelt>>
vars == <<id, count, locks, near, pc, ask, adding, answer, asks>>

Init ==
  /\ id = Known
  /\ count = KnownOf
  /\ readers = [l \in Locks |-> {}]
  /\ writer = [l \in Locks |-> None]
  /\ poisoned = [l \in Locks |-> FALSE]
  /\ near = [t \in Threads |-> [x \in Texts |-> 0]]
  /\ pc = [t \in Threads |-> "idle"]
  /\ ask = [t \in Threads |-> None]
  /\ whole = [t \in Threads |-> None]
  /\ unspelt = [t \in Threads |-> {}]
  /\ answer = [t \in Threads |-> 0]
  /\ asks = 0

\* The table t's text is looked up in, and its lock.
At(t) == Kind[ask[t]]
Lock(t) == LockOf[At(t)]

\* Where an ask for x begins: a library is asked for under its lock alone,
\* and an interned text the thread keeps under none.
Begins(t, x) ==
  /\ ask' = [ask EXCEPT ![t] = x]
  /\ pc' = [pc EXCEPT ![t] = IF Kind[x] = "library" THEN "write"
                              ELSE IF near[t][x] # 0 THEN "near" ELSE "read"]

\* A thread asks.
Ask(t) ==
  /\ pc[t] = "idle" /\ asks < MaxAsks /\ asks' = asks + 1
  /\ \E x \in Asked : Begins(t, x)
  /\ UNCHANGED <<id, count, locks, near, adding, answer>>

\* The ask is over, and a thread keeps the interned text it was given.  One
\* asked for to add another goes on with that.
Answered(t, place) ==
  /\ answer' = [answer EXCEPT ![t] = place]
  /\ near' = IF At(t) = "symbol" THEN [near EXCEPT ![t][ask[t]] = place] ELSE near
  /\ pc' = [pc EXCEPT ![t] = IF whole[t] = None THEN "idle" ELSE "adding"]
  /\ ask' = [ask EXCEPT ![t] = whole[t]]
  /\ whole' = [whole EXCEPT ![t] = None]

\* The text is among those this thread keeps: no lock is taken.
Near(t) ==
  /\ pc[t] = "near"
  /\ Answered(t, near[t][ask[t]])
  /\ UNCHANGED <<id, count, locks, unspelt, asks>>

TakeRead(t) ==
  /\ pc[t] = "read" /\ writer[Lock(t)] = None /\ ~poisoned[Lock(t)]
  /\ readers' = [readers EXCEPT ![Lock(t)] = @ \cup {t}]
  /\ pc' = [pc EXCEPT ![t] = "reading"]
  /\ UNCHANGED <<id, count, writer, poisoned, near, ask, adding, answer, asks>>

\* It is found: the lock is given back, and it is the answer.
Find(t) ==
  /\ pc[t] = "reading" /\ id[ask[t]] # 0
  /\ readers' = [readers EXCEPT ![Lock(t)] = @ \ {t}]
  /\ Answered(t, id[ask[t]])
  /\ UNCHANGED <<id, count, writer, poisoned, unspelt, asks>>

\* A mutant of Miss: the lock to read is held while the lock to write is
\* waited for.
MissHolding(t) ==
  /\ pc[t] = "reading" /\ id[ask[t]] = 0
  /\ pc' = [pc EXCEPT ![t] = "write"]
  /\ UNCHANGED <<id, count, locks, near, ask, adding, answer, asks>>

\* It is not found: the lock is given back before the other is asked for.
Miss(t) ==
  /\ pc[t] = "reading" /\ id[ask[t]] = 0
  /\ readers' = [readers EXCEPT ![Lock(t)] = @ \ {t}]
  /\ pc' = [pc EXCEPT ![t] = "write"]
  /\ UNCHANGED <<id, count, writer, poisoned, near, ask, adding, answer, asks>>

TakeWrite(t) ==
  /\ pc[t] = "write" /\ ~poisoned[Lock(t)]
  /\ readers[Lock(t)] = {} /\ writer[Lock(t)] = None
  /\ writer' = [writer EXCEPT ![Lock(t)] = t]
  /\ pc' = [pc EXCEPT ![t] = "writing"]
  /\ UNCHANGED <<id, count, readers, poisoned, near, ask, adding, answer, asks>>

GiveBack(t) == writer' = [writer EXCEPT ![Lock(t)] = None]

\* Another thread added it between the two locks.
FindLate(t) ==
  /\ pc[t] = "writing" /\ id[ask[t]] # 0
  /\ GiveBack(t)
  /\ Answered(t, id[ask[t]])
  /\ UNCHANGED <<id, count, readers, poisoned, unspelt, asks>>

MissLateIf(t, absent) ==
  /\ pc[t] = "writing" /\ absent
  /\ pc' = [pc EXCEPT ![t] = "adding"]
  /\ unspelt' = IF whole[t] = None THEN [unspelt EXCEPT ![t] = Spelt[ask[t]]] ELSE unspelt
  /\ UNCHANGED <<id, count, locks, near, ask, whole, answer, asks>>

\* A mutant of MissLate: the table is not looked in again under the lock to
\* write.
MissLateUnseen(t) == MissLateIf(t, TRUE)

\* It is still not there: it is made, or the library is read, under the lock.
MissLate(t) == MissLateIf(t, id[ask[t]] = 0)

\* There is no id for a notation, which is found before it is added.
NoNumber(t) == At(t) = "notation" /\ count["notation"] >= Capacity["notation"]

\* An interned text of what is added is asked for, its lock held to write:
\* the empty literal of a notation, a literal's own, every token of a library.
Intern(t) ==
  /\ pc[t] = "adding" /\ whole[t] = None /\ ~NoNumber(t)
  /\ \E y \in unspelt[t] : Begins(t, y) /\ unspelt' = [unspelt EXCEPT ![t] = @ \ {y}]
  /\ whole' = [whole EXCEPT ![t] = ask[t]]
  /\ UNCHANGED <<id, count, locks, near, answer, asks>>

\* It is in the table, at the next place.
GetsNumber(t) ==
  /\ id' = [id EXCEPT ![ask[t]] = count[At(t)] + 1]
  /\ count' = [count EXCEPT ![At(t)] = @ + 1]

Add(t) ==
  /\ pc[t] = "adding" /\ (At(t) = "symbol" \/ unspelt[t] = {})
  /\ At(t) \in DOMAIN Capacity => count[At(t)] < Capacity[At(t)]
  /\ GetsNumber(t)
  /\ GiveBack(t)
  /\ Answered(t, count[At(t)] + 1)
  /\ UNCHANGED <<readers, poisoned, unspelt, asks>>

\* The thread panics: each lock it holds to write is given back and refused
\* to every thread after.
Panics(t) ==
  /\ writer' = [l \in Locks |-> IF writer[l] = t THEN None ELSE writer[l]]
  /\ poisoned' = [l \in Locks |-> poisoned[l] \/ writer[l] = t]
  /\ pc' = [pc EXCEPT ![t] = "panicked"]
  /\ UNCHANGED <<readers, near, ask, adding, answer, asks>>

\* There is no id left for it: a literal is added before its place is found
\* to be too large.
Full(t) ==
  /\ pc[t] = "adding" /\ unspelt[t] = {}
  /\ At(t) = "literal" /\ count["literal"] >= Capacity["literal"]
  /\ GetsNumber(t)
  /\ Panics(t)

\* A notation has no number, or a library's text stops its reader.
Stopped(t) ==
  /\ pc[t] = "adding" /\ (NoNumber(t) \/ At(t) = "library")
  /\ Panics(t)
  /\ UNCHANGED <<id, count>>

\* A lock a thread panicked with is refused to every thread after it.
Refused(t) ==
  /\ pc[t] \in {"read", "write"} /\ poisoned[Lock(t)]
  /\ Panics(t)
  /\ UNCHANGED <<id, count>>

Go(t) ==
  \/ Near(t) \/ TakeRead(t) \/ Find(t) \/ Miss(t) \/ TakeWrite(t) \/ FindLate(t)
  \/ MissLate(t) \/ Intern(t) \/ Add(t) \/ Full(t) \/ Stopped(t) \/ Refused(t)

Next == \E t \in Threads : Ask(t) \/ Go(t)

Spec == Init /\ [][Next]_vars
FairSpec == Spec /\ \A t \in Threads : WF_vars(Go(t))

(***************************************************************************)
(* Properties                                                              *)
(***************************************************************************)

\* What the threads together make of a table, whatever the order they take
\* its lock in, is a table that gives each text one id for good.  A literal
\* added past the last place is not one the table gives an id.
Shared == INSTANCE Table WITH
  table <- [x \in Texts |->
              IF Kind[x] = "literal" /\ id[x] > Capacity["literal"] THEN 0 ELSE id[x]],
  asked <- ask,
  aside <- whole,
  got <- answer

ImplementsTable == Shared!Spec

\* Every ask is answered, or its thread panics: though a lock is held to write
\* while another is waited for, no thread waits for one that never comes.
AskEnds == \A t \in Threads : pc[t] \notin {"idle", "panicked"} ~> pc[t] \in {"idle", "panicked"}

=============================================================================
