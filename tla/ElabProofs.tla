----------------------------- MODULE ElabProofs -----------------------------
(***************************************************************************)
(* What holds of an elaboration for any threads and any page.              *)
(*                                                                         *)
(* However many threads ask, and in whatever order they take the locks, a  *)
(* table gives each text one id for good (ImplementsTable).  The invariant *)
(* says what the locks are for: while a thread is adding a text no other   *)
(* reads the table or writes it, so that what it saw, that the text is not *)
(* there, is still so when it adds it; that what a thread keeps is what    *)
(* the table has; and that a literal past the last place is met by nobody, *)
(* the lock being poisoned.                                                *)
(*                                                                         *)
(* However long the page and however its blocks nest, what is built of it  *)
(* stands where it is cited, and closes (KernelTakesEveryPage,             *)
(* LabelsStandInScope, FramesReachEveryScope).  The invariant is that of   *)
(* FramesInvariant; each step is shown to keep it from what it does to the *)
(* place the page stands at, and to the blocks around it.                  *)
(***************************************************************************)
EXTENDS Interner, FramesInvariant, Induction

(***************************************************************************)
(* Texts interned                                                          *)
(***************************************************************************)
\* Where a thread is in its ask.
Places == {"idle", "near", "read", "reading", "write", "writing", "adding", "panicked"}

\* The types of what the tables and the threads keep.
TypeOK ==
  /\ id \in [Texts -> Nat]
  /\ count \in [Kinds -> Nat]
  /\ readers \in [Locks -> SUBSET Threads]
  /\ writer \in [Locks -> Threads \cup {None}]
  /\ poisoned \in [Locks -> BOOLEAN]
  /\ near \in [Threads -> [Texts -> Nat]]
  /\ pc \in [Threads -> Places]
  /\ ask \in [Threads -> Texts \cup {None}]
  /\ whole \in [Threads -> Texts \cup {None}]
  /\ unspelt \in [Threads -> SUBSET {x \in Texts : Kind[x] = "symbol"}]
  /\ answer \in [Threads -> Nat]

\* A thread asks for something exactly while it is not idle, and for an
\* interned text while it adds what is none.
Asking ==
  /\ \A t \in Threads : ask[t] = None <=> pc[t] = "idle"
  /\ \A t \in Threads : whole[t] # None =>
       pc[t] # "idle" /\ Kind[ask[t]] = "symbol" /\ Kind[whole[t]] # "symbol"
  /\ \A t \in Threads : unspelt[t] # {} =>
       whole[t] # None \/ pc[t] = "panicked" \/ (pc[t] = "adding" /\ Kind[ask[t]] # "symbol")

\* The lock of what t is adding while it asks for an interned text.
KeptLock(t) == LockOf[Kind[whole[t]]]

\* Who holds a lock, and that one who holds it to write holds it alone.
Locked ==
  /\ \A t \in Threads : pc[t] = "reading" => t \in readers[Lock(t)] /\ ~poisoned[Lock(t)]
  /\ \A t \in Threads : pc[t] \in {"writing", "adding"} => writer[Lock(t)] = t /\ ~poisoned[Lock(t)]
  /\ \A t \in Threads : whole[t] # None /\ pc[t] # "panicked" => writer[KeptLock(t)] = t /\ ~poisoned[KeptLock(t)]
  /\ \A l \in Locks : writer[l] # None => readers[l] = {}

\* A text about to be added is not there.
Absent ==
  /\ \A t \in Threads : pc[t] = "adding" => id[ask[t]] = 0
  /\ \A t \in Threads : whole[t] # None /\ pc[t] # "panicked" => id[whole[t]] = 0

\* The places of a table are told apart, and there are as many as it counts.
PlacesApart ==
  /\ \A x \in Texts : id[x] <= count[Kind[x]]
  /\ \A x, y \in Texts : x # y /\ Kind[x] = Kind[y] /\ id[x] # 0 => id[x] # id[y]

\* No literal is past the last place until its lock is poisoned.
Within == poisoned["registry"] \/ count["literal"] <= Capacity["literal"]

\* What a thread keeps is what the table has.
KeptNear ==
  /\ \A t \in Threads : \A x \in Texts : near[t][x] # 0 => Kind[x] = "symbol" /\ near[t][x] = id[x]
  /\ \A t \in Threads : pc[t] = "near" => near[t][ask[t]] # 0

\* What the locks keep, and what they keep it with.
Inv == TypeOK /\ Asking /\ Locked /\ Absent /\ PlacesApart /\ Within /\ KeptNear

\* The interned texts have a lock of their own; notations and literals share one.
LEMMA LocksAre ==
  /\ \A k \in Kinds : LockOf[k] \in Locks
  /\ \A k \in Kinds : LockOf[k] = "symbol" <=> k = "symbol"
  /\ LockOf["literal"] = "registry" /\ "registry" \in Locks
  /\ {"symbol", "notation", "literal"} \subseteq Kinds
  /\ \A j, k \in Kinds : j # k /\ LockOf[j] = LockOf[k] => {j, k} = {"notation", "literal"}
  BY DEF Locks, LockOf, Kinds

\* The invariant is kept by every step of every thread.
LEMMA InvInvariant == Spec => []Inv
<1>1. Init => Inv
  <2>1. SUFFICES ASSUME Init PROVE Inv
    OBVIOUS
  <2>2. TypeOK /\ Asking
    BY <2>1, InternerAssumption DEF Init, TypeOK, Asking, Places
  <2>3. Locked /\ Absent
    BY <2>1, InternerAssumption, LocksAre DEF Init, Locked, Absent
  <2>4. PlacesApart /\ Within /\ KeptNear
    BY <2>1, InternerAssumption, LocksAre DEF Init, PlacesApart, Within, KeptNear
  <2> QED
    BY <2>2, <2>3, <2>4 DEF Inv
<1>2. Inv /\ [Next]_vars => Inv'
  <2> SUFFICES ASSUME Inv, [Next]_vars PROVE Inv'
    OBVIOUS
  <2> USE InternerAssumption, LocksAre DEF locks, adding
  <2>1. ASSUME NEW t \in Threads, Ask(t) PROVE Inv'
    <3>2. TypeOK' /\ Asking'
      <4>1. TypeOK'
        BY <2>1 DEF Inv, TypeOK, Places, Ask, Begins, At
      <4>2. Asking'
        BY <2>1 DEF Inv, TypeOK, Asking, Places, Ask, Begins, At
      <4> QED
        BY <4>1, <4>2
    <3>3. Locked'
      BY <2>1 DEF Inv, TypeOK, Asking, Places, Absent, Locked, Ask, Begins, At, Lock, KeptLock
    <3>4. Absent'
      BY <2>1 DEF Inv, TypeOK, Asking, Places, Locked, Absent, Ask, Begins, At, Lock, KeptLock
    <3>5. PlacesApart'
      BY <2>1 DEF Inv, TypeOK, PlacesApart, Absent, Ask, Begins, At, Lock, KeptLock
    <3>6. Within'
      BY <2>1 DEF Inv, TypeOK, Within, Locked, Ask, Begins, At, Lock, KeptLock
    <3>7. KeptNear'
      BY <2>1 DEF Inv, TypeOK, Asking, Places, KeptNear, Absent, Locked, PlacesApart, Ask, Begins, At, Lock, KeptLock
    <3> QED
      BY <3>2, <3>3, <3>4, <3>5, <3>6, <3>7 DEF Inv
  <2>2. ASSUME NEW t \in Threads, Near(t) PROVE Inv'
    <3>1. /\ ask[t] \in Texts /\ At(t) \in Kinds /\ Lock(t) \in Locks /\ t # None
          /\ whole[t] # None => whole[t] \in Texts /\ Kind[whole[t]] \in Kinds /\ KeptLock(t) \in Locks
      BY <2>2 DEF Inv, TypeOK, Asking, Near, Answered, At, Lock, KeptLock, Places
    <3>2. TypeOK' /\ Asking'
      <4>1. TypeOK'
        BY <2>2, <3>1 DEF Inv, TypeOK, Places, Near, Answered, At
      <4>2. /\ ask' = [ask EXCEPT ![t] = whole[t]] /\ whole' = [whole EXCEPT ![t] = None]
            /\ pc' = [pc EXCEPT ![t] = IF whole[t] = None THEN "idle" ELSE "adding"]
            /\ UNCHANGED unspelt /\ pc[t] = "near"
        BY <2>2 DEF Near, Answered
      <4>3. Asking'
        BY <3>1, <4>2 DEF Inv, TypeOK, Asking
      <4> QED
        BY <4>1, <4>3
    <3>a. /\ ask' = [ask EXCEPT ![t] = whole[t]] /\ whole' = [whole EXCEPT ![t] = None]
          /\ pc' = [pc EXCEPT ![t] = IF whole[t] = None THEN "idle" ELSE "adding"]
          /\ UNCHANGED locks
      BY <2>2 DEF Near, Answered
    <3>b. \A u \in Threads \ {t} : Lock(u)' = Lock(u) /\ KeptLock(u)' = KeptLock(u) /\ pc'[u] = pc[u] /\ whole'[u] = whole[u]
      BY <3>1, <3>a DEF Inv, TypeOK, At, Lock, KeptLock
    <3>c. whole[t] # None => Lock(t)' = KeptLock(t) /\ writer[KeptLock(t)] = t /\ ~poisoned[KeptLock(t)]
      <4>1. ask'[t] = whole[t] /\ pc[t] = "near"
        BY <2>2, <3>a DEF Near, Inv, TypeOK
      <4> QED
        BY <3>1, <4>1 DEF Inv, Locked, At, Lock, KeptLock
    <3>d. whole'[t] = None /\ pc'[t] = IF whole[t] = None THEN "idle" ELSE "adding"
      BY <3>a DEF Inv, TypeOK
    <3>3. Locked'
      BY <3>a, <3>b, <3>c, <3>d DEF Inv, Locked
    <3>4. Absent'
      BY <2>2, <3>1 DEF Inv, TypeOK, Asking, Places, Locked, Absent, Near, Answered, At, Lock, KeptLock
    <3>5. PlacesApart'
      BY <2>2, <3>1 DEF Inv, TypeOK, PlacesApart, Absent, Near, Answered, At, Lock, KeptLock
    <3>6. Within'
      BY <2>2, <3>1 DEF Inv, TypeOK, Within, Locked, Near, Answered, At, Lock, KeptLock
    <3>7. KeptNear'
      BY <2>2, <3>1 DEF Inv, TypeOK, Asking, Places, KeptNear, Absent, Locked, PlacesApart, Near, Answered, At, Lock, KeptLock
    <3> QED
      BY <3>2, <3>3, <3>4, <3>5, <3>6, <3>7 DEF Inv
  <2>3. ASSUME NEW t \in Threads, TakeRead(t) PROVE Inv'
    <3>1. /\ ask[t] \in Texts /\ At(t) \in Kinds /\ Lock(t) \in Locks /\ t # None
          /\ whole[t] # None => whole[t] \in Texts /\ Kind[whole[t]] \in Kinds /\ KeptLock(t) \in Locks
      BY <2>3 DEF Inv, TypeOK, Asking, TakeRead, At, Lock, KeptLock, Places
    <3>2. TypeOK' /\ Asking'
      <4>1. TypeOK'
        BY <2>3, <3>1 DEF Inv, TypeOK, Places, TakeRead, At
      <4>2. Asking'
        BY <2>3, <3>1 DEF Inv, TypeOK, Asking, Places, TakeRead, At
      <4> QED
        BY <4>1, <4>2
    <3>3. Locked'
      BY <2>3, <3>1 DEF Inv, TypeOK, Asking, Places, Absent, Locked, TakeRead, At, Lock, KeptLock
    <3>4. Absent'
      BY <2>3, <3>1 DEF Inv, TypeOK, Asking, Places, Locked, Absent, TakeRead, At, Lock, KeptLock
    <3>5. PlacesApart'
      BY <2>3, <3>1 DEF Inv, TypeOK, PlacesApart, Absent, TakeRead, At, Lock, KeptLock
    <3>6. Within'
      BY <2>3, <3>1 DEF Inv, TypeOK, Within, Locked, TakeRead, At, Lock, KeptLock
    <3>7. KeptNear'
      BY <2>3, <3>1 DEF Inv, TypeOK, Asking, Places, KeptNear, Absent, Locked, PlacesApart, TakeRead, At, Lock, KeptLock
    <3> QED
      BY <3>2, <3>3, <3>4, <3>5, <3>6, <3>7 DEF Inv
  <2>4. ASSUME NEW t \in Threads, Find(t) PROVE Inv'
    <3>1. /\ ask[t] \in Texts /\ At(t) \in Kinds /\ Lock(t) \in Locks /\ t # None
          /\ whole[t] # None => whole[t] \in Texts /\ Kind[whole[t]] \in Kinds /\ KeptLock(t) \in Locks
      BY <2>4 DEF Inv, TypeOK, Asking, Find, Answered, At, Lock, KeptLock, Places
    <3>a. /\ ask' = [ask EXCEPT ![t] = whole[t]] /\ whole' = [whole EXCEPT ![t] = None]
          /\ pc' = [pc EXCEPT ![t] = IF whole[t] = None THEN "idle" ELSE "adding"]
          /\ UNCHANGED unspelt /\ pc[t] = "reading"
      BY <2>4 DEF Find, Answered
    <3>b. TypeOK'
      BY <2>4, <3>1 DEF Inv, TypeOK, Places, Find, Answered, At
    <3>c. Asking'
      BY <3>1, <3>a DEF Inv, TypeOK, Asking
    <3>2. TypeOK' /\ Asking'
      BY <3>b, <3>c
    <3>3. Locked'
      BY <2>4, <3>1 DEF Inv, TypeOK, Asking, Places, Absent, Locked, Find, Answered, At, Lock, KeptLock
    <3>4. Absent'
      BY <2>4, <3>1 DEF Inv, TypeOK, Asking, Places, Locked, Absent, Find, Answered, At, Lock, KeptLock
    <3>5. PlacesApart'
      BY <2>4, <3>1 DEF Inv, TypeOK, PlacesApart, Absent, Find, Answered, At, Lock, KeptLock
    <3>6. Within'
      BY <2>4, <3>1 DEF Inv, TypeOK, Within, Locked, Find, Answered, At, Lock, KeptLock
    <3>7. KeptNear'
      BY <2>4, <3>1 DEF Inv, TypeOK, Asking, Places, KeptNear, Absent, Locked, PlacesApart, Find, Answered, At, Lock, KeptLock
    <3> QED
      BY <3>2, <3>3, <3>4, <3>5, <3>6, <3>7 DEF Inv
  <2>5. ASSUME NEW t \in Threads, Miss(t) PROVE Inv'
    <3>1. /\ ask[t] \in Texts /\ At(t) \in Kinds /\ Lock(t) \in Locks /\ t # None
          /\ whole[t] # None => whole[t] \in Texts /\ Kind[whole[t]] \in Kinds /\ KeptLock(t) \in Locks
      BY <2>5 DEF Inv, TypeOK, Asking, Miss, At, Lock, KeptLock, Places
    <3>2. TypeOK' /\ Asking'
      <4>1. TypeOK'
        BY <2>5, <3>1 DEF Inv, TypeOK, Places, Miss, At
      <4>2. Asking'
        BY <2>5, <3>1 DEF Inv, TypeOK, Asking, Places, Miss, At
      <4> QED
        BY <4>1, <4>2
    <3>3. Locked'
      BY <2>5, <3>1 DEF Inv, TypeOK, Asking, Places, Absent, Locked, Miss, At, Lock, KeptLock
    <3>4. Absent'
      BY <2>5, <3>1 DEF Inv, TypeOK, Asking, Places, Locked, Absent, Miss, At, Lock, KeptLock
    <3>5. PlacesApart'
      BY <2>5, <3>1 DEF Inv, TypeOK, PlacesApart, Absent, Miss, At, Lock, KeptLock
    <3>6. Within'
      BY <2>5, <3>1 DEF Inv, TypeOK, Within, Locked, Miss, At, Lock, KeptLock
    <3>7. KeptNear'
      BY <2>5, <3>1 DEF Inv, TypeOK, Asking, Places, KeptNear, Absent, Locked, PlacesApart, Miss, At, Lock, KeptLock
    <3> QED
      BY <3>2, <3>3, <3>4, <3>5, <3>6, <3>7 DEF Inv
  <2>6. ASSUME NEW t \in Threads, TakeWrite(t) PROVE Inv'
    <3>1. /\ ask[t] \in Texts /\ At(t) \in Kinds /\ Lock(t) \in Locks /\ t # None
          /\ whole[t] # None => whole[t] \in Texts /\ Kind[whole[t]] \in Kinds /\ KeptLock(t) \in Locks
      BY <2>6 DEF Inv, TypeOK, Asking, TakeWrite, At, Lock, KeptLock, Places
    <3>2. TypeOK' /\ Asking'
      <4>1. TypeOK'
        BY <2>6, <3>1 DEF Inv, TypeOK, Places, TakeWrite, At
      <4>2. Asking'
        BY <2>6, <3>1 DEF Inv, TypeOK, Asking, Places, TakeWrite, At
      <4> QED
        BY <4>1, <4>2
    <3>3. Locked'
      BY <2>6, <3>1 DEF Inv, TypeOK, Asking, Places, Absent, Locked, TakeWrite, At, Lock, KeptLock
    <3>4. Absent'
      BY <2>6, <3>1 DEF Inv, TypeOK, Asking, Places, Locked, Absent, TakeWrite, At, Lock, KeptLock
    <3>5. PlacesApart'
      BY <2>6, <3>1 DEF Inv, TypeOK, PlacesApart, Absent, TakeWrite, At, Lock, KeptLock
    <3>6. Within'
      BY <2>6, <3>1 DEF Inv, TypeOK, Within, Locked, TakeWrite, At, Lock, KeptLock
    <3>7. KeptNear'
      BY <2>6, <3>1 DEF Inv, TypeOK, Asking, Places, KeptNear, Absent, Locked, PlacesApart, TakeWrite, At, Lock, KeptLock
    <3> QED
      BY <3>2, <3>3, <3>4, <3>5, <3>6, <3>7 DEF Inv
  <2>7. ASSUME NEW t \in Threads, FindLate(t) PROVE Inv'
    <3>1. /\ ask[t] \in Texts /\ At(t) \in Kinds /\ Lock(t) \in Locks /\ t # None
          /\ whole[t] # None => whole[t] \in Texts /\ Kind[whole[t]] \in Kinds /\ KeptLock(t) \in Locks
      BY <2>7 DEF Inv, TypeOK, Asking, FindLate, Answered, GiveBack, At, Lock, KeptLock, Places
    <3>2. TypeOK' /\ Asking'
      <4>1. TypeOK'
        BY <2>7, <3>1 DEF Inv, TypeOK, Places, FindLate, Answered, GiveBack, At
      <4>2. /\ ask' = [ask EXCEPT ![t] = whole[t]] /\ whole' = [whole EXCEPT ![t] = None]
            /\ pc' = [pc EXCEPT ![t] = IF whole[t] = None THEN "idle" ELSE "adding"]
            /\ UNCHANGED unspelt /\ pc[t] = "writing"
        BY <2>7 DEF FindLate, Answered
      <4>3. Asking'
        BY <3>1, <4>2 DEF Inv, TypeOK, Asking
      <4> QED
        BY <4>1, <4>3
    <3>3. Locked'
      BY <2>7, <3>1 DEF Inv, TypeOK, Asking, Places, Absent, Locked, FindLate, Answered, GiveBack, At, Lock, KeptLock
    <3>4. Absent'
      BY <2>7, <3>1 DEF Inv, TypeOK, Asking, Places, Locked, Absent, FindLate, Answered, GiveBack, At, Lock, KeptLock
    <3>5. PlacesApart'
      BY <2>7, <3>1 DEF Inv, TypeOK, PlacesApart, Absent, FindLate, Answered, GiveBack, At, Lock, KeptLock
    <3>6. Within'
      BY <2>7, <3>1 DEF Inv, TypeOK, Within, Locked, FindLate, Answered, GiveBack, At, Lock, KeptLock
    <3>7. KeptNear'
      BY <2>7, <3>1 DEF Inv, TypeOK, Asking, Places, KeptNear, Absent, Locked, PlacesApart, FindLate, Answered, GiveBack, At, Lock, KeptLock
    <3> QED
      BY <3>2, <3>3, <3>4, <3>5, <3>6, <3>7 DEF Inv
  <2>8. ASSUME NEW t \in Threads, MissLate(t) PROVE Inv'
    <3>1. /\ ask[t] \in Texts /\ At(t) \in Kinds /\ Lock(t) \in Locks /\ t # None
          /\ whole[t] # None => whole[t] \in Texts /\ Kind[whole[t]] \in Kinds /\ KeptLock(t) \in Locks
      BY <2>8 DEF Inv, TypeOK, Asking, MissLate, MissLateIf, At, Lock, KeptLock, Places
    <3>2. TypeOK' /\ Asking'
      <4>1. TypeOK'
        BY <2>8, <3>1 DEF Inv, TypeOK, Places, MissLate, MissLateIf, At
      <4>2. Asking'
        BY <2>8, <3>1 DEF Inv, TypeOK, Asking, Places, MissLate, MissLateIf, At
      <4> QED
        BY <4>1, <4>2
    <3>3. Locked'
      BY <2>8, <3>1 DEF Inv, TypeOK, Asking, Places, Absent, Locked, MissLate, MissLateIf, At, Lock, KeptLock
    <3>4. Absent'
      BY <2>8, <3>1 DEF Inv, TypeOK, Asking, Places, Locked, Absent, MissLate, MissLateIf, At, Lock, KeptLock
    <3>5. PlacesApart'
      BY <2>8, <3>1 DEF Inv, TypeOK, PlacesApart, Absent, MissLate, MissLateIf, At, Lock, KeptLock
    <3>6. Within'
      BY <2>8, <3>1 DEF Inv, TypeOK, Within, Locked, MissLate, MissLateIf, At, Lock, KeptLock
    <3>7. KeptNear'
      BY <2>8, <3>1 DEF Inv, TypeOK, Asking, Places, KeptNear, Absent, Locked, PlacesApart, MissLate, MissLateIf, At, Lock, KeptLock
    <3> QED
      BY <3>2, <3>3, <3>4, <3>5, <3>6, <3>7 DEF Inv
  <2>9. ASSUME NEW t \in Threads, Intern(t) PROVE Inv'
    <3>1. /\ ask[t] \in Texts /\ At(t) \in Kinds /\ Lock(t) \in Locks /\ t # None
          /\ whole[t] # None => whole[t] \in Texts /\ Kind[whole[t]] \in Kinds /\ KeptLock(t) \in Locks
      BY <2>9 DEF Inv, TypeOK, Asking, Intern, Begins, NoNumber, At, Lock, KeptLock, Places
    <3>a. PICK y \in unspelt[t] : Begins(t, y) /\ unspelt' = [unspelt EXCEPT ![t] = @ \ {y}]
      BY <2>9 DEF Intern
    <3>b. y \in Texts /\ Kind[y] = "symbol" /\ Kind[ask[t]] # "symbol"
      <4>1. y \in Texts /\ Kind[y] = "symbol"
        BY <3>a DEF Inv, TypeOK
      <4>2. pc[t] = "adding" /\ whole[t] = None /\ unspelt[t] # {}
        BY <2>9 DEF Intern
      <4>3. Kind[ask[t]] # "symbol"
        BY <4>2 DEF Inv, Asking
      <4> QED
        BY <4>1, <4>3
    <3>c. pc'[t] \in {"near", "read"} /\ pc' \in [Threads -> Places]
      BY <3>a, <3>b DEF Begins, Inv, TypeOK, Places
    <3>d. /\ whole' = [whole EXCEPT ![t] = ask[t]] /\ ask' = [ask EXCEPT ![t] = y]
          /\ \A u \in Threads \ {t} : pc'[u] = pc[u]
          /\ UNCHANGED <<id, count, locks, near, answer>>
      BY <2>9, <3>a DEF Intern, Begins, Inv, TypeOK
    <3>e. TypeOK'
      BY <3>1, <3>a, <3>b, <3>c, <3>d DEF Inv, TypeOK
    <3>f. Asking'
      <4>1. /\ whole[t] = None /\ whole'[t] = ask[t] /\ ask'[t] = y /\ ask[t] # None
            /\ y # None /\ pc'[t] # "idle"
        BY <2>9, <3>1, <3>b, <3>c, <3>d DEF Intern, Inv, TypeOK
      <4>2. \A u \in Threads \ {t} : /\ pc'[u] = pc[u] /\ ask'[u] = ask[u]
                                    /\ whole'[u] = whole[u] /\ unspelt'[u] = unspelt[u]
        BY <3>a, <3>d DEF Inv, TypeOK
      <4>3. \A u \in Threads : ask'[u] = None <=> pc'[u] = "idle"
        BY <4>1, <4>2 DEF Inv, Asking
      <4>4. \A u \in Threads : whole'[u] # None =>
              pc'[u] # "idle" /\ Kind[ask'[u]] = "symbol" /\ Kind[whole'[u]] # "symbol"
        BY <3>b, <4>1, <4>2 DEF Inv, Asking
      <4>5. \A u \in Threads : unspelt'[u] # {} =>
              whole'[u] # None \/ pc'[u] = "panicked" \/ (pc'[u] = "adding" /\ Kind[ask'[u]] # "symbol")
        BY <4>1, <4>2 DEF Inv, Asking
      <4> QED
        BY <4>3, <4>4, <4>5 DEF Asking
    <3>2. TypeOK' /\ Asking'
      BY <3>e, <3>f
    <3>3. Locked'
      BY <2>9, <3>1 DEF Inv, TypeOK, Asking, Places, Absent, Locked, Intern, Begins, NoNumber, At, Lock, KeptLock
    <3>4. Absent'
      BY <2>9, <3>1 DEF Inv, TypeOK, Asking, Places, Locked, Absent, Intern, Begins, NoNumber, At, Lock, KeptLock
    <3>5. PlacesApart'
      BY <2>9, <3>1 DEF Inv, TypeOK, PlacesApart, Absent, Intern, Begins, NoNumber, At, Lock, KeptLock
    <3>6. Within'
      BY <2>9, <3>1 DEF Inv, TypeOK, Within, Locked, Intern, Begins, NoNumber, At, Lock, KeptLock
    <3>7. KeptNear'
      BY <2>9, <3>1 DEF Inv, TypeOK, Asking, Places, KeptNear, Absent, Locked, PlacesApart, Intern, Begins, NoNumber, At, Lock, KeptLock
    <3> QED
      BY <3>2, <3>3, <3>4, <3>5, <3>6, <3>7 DEF Inv
  <2>10. ASSUME NEW t \in Threads, Add(t) PROVE Inv'
    <3>1. /\ ask[t] \in Texts /\ At(t) \in Kinds /\ Lock(t) \in Locks /\ t # None
          /\ whole[t] # None => whole[t] \in Texts /\ Kind[whole[t]] \in Kinds /\ KeptLock(t) \in Locks
      BY <2>10 DEF Inv, TypeOK, Asking, Add, Answered, GiveBack, GetsNumber, At, Lock, KeptLock, Places
    <3>2. TypeOK' /\ Asking'
      <4>1. TypeOK'
        BY <2>10, <3>1 DEF Inv, TypeOK, Places, Add, Answered, GiveBack, GetsNumber, At
      <4>2. /\ ask' = [ask EXCEPT ![t] = whole[t]] /\ whole' = [whole EXCEPT ![t] = None]
            /\ pc' = [pc EXCEPT ![t] = IF whole[t] = None THEN "idle" ELSE "adding"]
            /\ UNCHANGED unspelt /\ pc[t] = "adding" /\ (Kind[ask[t]] = "symbol" \/ unspelt[t] = {})
        BY <2>10 DEF Add, Answered, At
      <4>3. Asking'
        BY <3>1, <4>2 DEF Inv, TypeOK, Asking
      <4> QED
        BY <4>1, <4>3
    <3>a. /\ ask' = [ask EXCEPT ![t] = whole[t]] /\ whole' = [whole EXCEPT ![t] = None]
          /\ pc' = [pc EXCEPT ![t] = IF whole[t] = None THEN "idle" ELSE "adding"]
          /\ writer' = [writer EXCEPT ![Lock(t)] = None] /\ UNCHANGED <<readers, poisoned>>
          /\ pc[t] = "adding"
      BY <2>10 DEF Add, Answered, GiveBack
    <3>b. \A u \in Threads \ {t} : /\ Lock(u)' = Lock(u) /\ KeptLock(u)' = KeptLock(u)
                                  /\ pc'[u] = pc[u] /\ whole'[u] = whole[u]
      BY <3>1, <3>a DEF Inv, TypeOK, At, Lock, KeptLock
    <3>c. writer[Lock(t)] = t /\ \A l \in Locks : writer'[l] = IF l = Lock(t) THEN None ELSE writer[l]
      BY <3>1, <3>a DEF Inv, TypeOK, Locked
    <3>d. \A u \in Threads : writer[Lock(t)] = u => u = t
      BY <3>c
    <3>e. whole[t] # None => /\ Lock(t)' = KeptLock(t) /\ KeptLock(t) # Lock(t)
                             /\ writer[KeptLock(t)] = t /\ ~poisoned[KeptLock(t)]
      <4>1. ask'[t] = whole[t]
        BY <3>a DEF Inv, TypeOK
      <4>2. whole[t] # None => Lock(t) = "symbol" /\ KeptLock(t) # "symbol"
        BY <3>1, LocksAre DEF Inv, Asking, At, Lock, KeptLock
      <4> QED
        BY <3>1, <3>a, <4>1, <4>2 DEF Inv, Locked, At, Lock, KeptLock
    <3>f. whole'[t] = None /\ pc'[t] = IF whole[t] = None THEN "idle" ELSE "adding"
      BY <3>a DEF Inv, TypeOK
    <3>g. \A u \in Threads \ {t} : Lock(u) \in Locks \/ ask[u] = None
      BY LocksAre DEF Inv, TypeOK, At, Lock, InternerAssumption
    <3>3. Locked'
      <4>1. \A u \in Threads : pc'[u] = "reading" => u \in readers'[Lock(u)'] /\ ~poisoned'[Lock(u)']
        BY <3>a, <3>b, <3>f DEF Inv, Locked
      <4>2. \A u \in Threads : pc'[u] \in {"writing", "adding"} => writer'[Lock(u)'] = u /\ ~poisoned'[Lock(u)']
        BY <3>1, <3>a, <3>b, <3>c, <3>d, <3>e, <3>f, <3>g DEF Inv, Locked, Asking
      <4>3. \A u \in Threads : whole'[u] # None /\ pc'[u] # "panicked" =>
              writer'[KeptLock(u)'] = u /\ ~poisoned'[KeptLock(u)']
        <5>1. \A u \in Threads \ {t} : whole[u] # None => KeptLock(u) \in Locks
          BY LocksAre, InternerAssumption DEF Inv, TypeOK, KeptLock
        <5> QED
          BY <5>1, <3>a, <3>b, <3>c, <3>d, <3>f DEF Inv, Locked
      <4>4. \A l \in Locks : writer'[l] # None => readers'[l] = {}
        BY <3>a, <3>c DEF Inv, Locked
      <4> QED
        BY <4>1, <4>2, <4>3, <4>4 DEF Locked
    <3>4. Absent'
      BY <2>10, <3>1 DEF Inv, TypeOK, Asking, Places, Locked, Absent, Add, Answered, GiveBack, GetsNumber, At, Lock, KeptLock
    <3>5. PlacesApart'
      BY <2>10, <3>1 DEF Inv, TypeOK, PlacesApart, Absent, Add, Answered, GiveBack, GetsNumber, At, Lock, KeptLock
    <3>6. Within'
      BY <2>10, <3>1 DEF Inv, TypeOK, Within, Locked, Add, Answered, GiveBack, GetsNumber, At, Lock, KeptLock
    <3>7. KeptNear'
      BY <2>10, <3>1 DEF Inv, TypeOK, Asking, Places, KeptNear, Absent, Locked, PlacesApart, Add, Answered, GiveBack, GetsNumber, At, Lock, KeptLock
    <3> QED
      BY <3>2, <3>3, <3>4, <3>5, <3>6, <3>7 DEF Inv
  <2>11. ASSUME NEW t \in Threads, Full(t) PROVE Inv'
    <3>1. /\ ask[t] \in Texts /\ At(t) \in Kinds /\ Lock(t) \in Locks /\ t # None
          /\ whole[t] # None => whole[t] \in Texts /\ Kind[whole[t]] \in Kinds /\ KeptLock(t) \in Locks
      BY <2>11 DEF Inv, TypeOK, Asking, Full, Panics, GetsNumber, At, Lock, KeptLock, Places
    <3>2. TypeOK' /\ Asking'
      <4>1. TypeOK'
        BY <2>11, <3>1 DEF Inv, TypeOK, Places, Full, Panics, GetsNumber, At
      <4>2. Asking'
        BY <2>11, <3>1 DEF Inv, TypeOK, Asking, Places, Full, Panics, GetsNumber, At
      <4> QED
        BY <4>1, <4>2
    <3>3. Locked'
      BY <2>11, <3>1 DEF Inv, TypeOK, Asking, Places, Absent, Locked, Full, Panics, GetsNumber, At, Lock, KeptLock
    <3>4. Absent'
      BY <2>11, <3>1 DEF Inv, TypeOK, Asking, Places, Locked, Absent, Full, Panics, GetsNumber, At, Lock, KeptLock
    <3>5. PlacesApart'
      BY <2>11, <3>1 DEF Inv, TypeOK, PlacesApart, Absent, Full, Panics, GetsNumber, At, Lock, KeptLock
    <3>6. Within'
      <4>1. writer["registry"] = t
        BY <2>11, <3>1 DEF Inv, Locked, Full, At, Lock
      <4> QED
        BY <2>11, <4>1 DEF Full, Panics, Within
    <3>7. KeptNear'
      BY <2>11, <3>1 DEF Inv, TypeOK, Asking, Places, KeptNear, Absent, Locked, PlacesApart, Full, Panics, GetsNumber, At, Lock, KeptLock
    <3> QED
      BY <3>2, <3>3, <3>4, <3>5, <3>6, <3>7 DEF Inv
  <2>12. ASSUME NEW t \in Threads, Stopped(t) PROVE Inv'
    <3>1. /\ ask[t] \in Texts /\ At(t) \in Kinds /\ Lock(t) \in Locks /\ t # None
          /\ whole[t] # None => whole[t] \in Texts /\ Kind[whole[t]] \in Kinds /\ KeptLock(t) \in Locks
      BY <2>12 DEF Inv, TypeOK, Asking, Stopped, Panics, At, Lock, KeptLock, Places
    <3>2. TypeOK' /\ Asking'
      <4>1. TypeOK'
        BY <2>12, <3>1 DEF Inv, TypeOK, Places, Stopped, Panics, At
      <4>2. Asking'
        BY <2>12, <3>1 DEF Inv, TypeOK, Asking, Places, Stopped, Panics, At
      <4> QED
        BY <4>1, <4>2
    <3>3. Locked'
      BY <2>12, <3>1 DEF Inv, TypeOK, Asking, Places, Absent, Locked, Stopped, Panics, At, Lock, KeptLock
    <3>4. Absent'
      BY <2>12, <3>1 DEF Inv, TypeOK, Asking, Places, Locked, Absent, Stopped, Panics, At, Lock, KeptLock
    <3>5. PlacesApart'
      BY <2>12, <3>1 DEF Inv, TypeOK, PlacesApart, Absent, Stopped, Panics, At, Lock, KeptLock
    <3>6. Within'
      BY <2>12, <3>1 DEF Inv, TypeOK, Within, Locked, Stopped, Panics, At, Lock, KeptLock
    <3>7. KeptNear'
      BY <2>12, <3>1 DEF Inv, TypeOK, Asking, Places, KeptNear, Absent, Locked, PlacesApart, Stopped, Panics, At, Lock, KeptLock
    <3> QED
      BY <3>2, <3>3, <3>4, <3>5, <3>6, <3>7 DEF Inv
  <2>13. ASSUME NEW t \in Threads, Refused(t) PROVE Inv'
    <3>1. /\ ask[t] \in Texts /\ At(t) \in Kinds /\ Lock(t) \in Locks /\ t # None
          /\ whole[t] # None => whole[t] \in Texts /\ Kind[whole[t]] \in Kinds /\ KeptLock(t) \in Locks
      BY <2>13 DEF Inv, TypeOK, Asking, Refused, Panics, At, Lock, KeptLock, Places
    <3>2. TypeOK' /\ Asking'
      <4>1. TypeOK'
        BY <2>13, <3>1 DEF Inv, TypeOK, Places, Refused, Panics, At
      <4>2. Asking'
        BY <2>13, <3>1 DEF Inv, TypeOK, Asking, Places, Refused, Panics, At
      <4> QED
        BY <4>1, <4>2
    <3>3. Locked'
      BY <2>13, <3>1 DEF Inv, TypeOK, Asking, Places, Absent, Locked, Refused, Panics, At, Lock, KeptLock
    <3>4. Absent'
      BY <2>13, <3>1 DEF Inv, TypeOK, Asking, Places, Locked, Absent, Refused, Panics, At, Lock, KeptLock
    <3>5. PlacesApart'
      BY <2>13, <3>1 DEF Inv, TypeOK, PlacesApart, Absent, Refused, Panics, At, Lock, KeptLock
    <3>6. Within'
      BY <2>13, <3>1 DEF Inv, TypeOK, Within, Locked, Refused, Panics, At, Lock, KeptLock
    <3>7. KeptNear'
      BY <2>13, <3>1 DEF Inv, TypeOK, Asking, Places, KeptNear, Absent, Locked, PlacesApart, Refused, Panics, At, Lock, KeptLock
    <3> QED
      BY <3>2, <3>3, <3>4, <3>5, <3>6, <3>7 DEF Inv
  <2>14. CASE UNCHANGED vars
    BY <2>14 DEF vars, Inv, TypeOK, Asking, Locked, Absent, PlacesApart, Within, KeptNear, At, Lock, KeptLock
  <2> QED
    BY <2>1, <2>2, <2>3, <2>4, <2>5, <2>6, <2>7, <2>8, <2>9, <2>10, <2>11, <2>12, <2>13, <2>14 DEF Next, Go
<1>3. QED
  BY <1>1, <1>2, PTL DEF Spec

(***************************************************************************)
(* The refinement.                                                         *)
(***************************************************************************)

\* The table as the threads are given it.
TableOf ==
  [x \in Texts |-> IF Kind[x] = "literal" /\ id[x] > Capacity["literal"] THEN 0 ELSE id[x]]

\* A thread that reads a place reads one the table has.
LEMMA ReadsWithin ==
  ASSUME Inv, NEW t \in Threads, pc[t] \in {"reading", "writing", "adding"}
  PROVE  ask[t] \in Texts /\ TableOf[ask[t]] = id[ask[t]]
<1> USE InternerAssumption, LocksAre
<1>1. ask[t] \in Texts /\ At(t) \in Kinds
  BY DEF Inv, TypeOK, Asking, At, Places
<1>2. ~poisoned[Lock(t)]
  BY DEF Inv, Locked
<1>3. CASE Kind[ask[t]] = "literal"
  <2>1. ~poisoned["registry"]
    BY <1>2, <1>3 DEF Lock, At
  <2>2. id[ask[t]] <= count["literal"] /\ count["literal"] <= Capacity["literal"]
    BY <1>1, <1>3, <2>1 DEF Inv, PlacesApart, Within
  <2>3. id[ask[t]] \in Nat /\ count["literal"] \in Nat /\ Capacity["literal"] \in Nat
    BY <1>1 DEF Inv, TypeOK
  <2> QED
    BY <1>1, <2>2, <2>3 DEF TableOf
<1>4. CASE Kind[ask[t]] # "literal"
  BY <1>1, <1>4 DEF TableOf
<1> QED
  BY <1>3, <1>4

\* Every table of the process, shared by any number of threads, is a table
\* that gives each text one id for good: Ask and Intern ask, Near, Find,
\* FindLate and Add answer, and the rest the table does not see.
THEOREM SharingImplementsTable == Spec => ImplementsTable
<1>1. Init => Shared!Init
  <2> SUFFICES ASSUME Init PROVE Shared!Init
    OBVIOUS
  <2>1. TableOf = Known
    BY InternerAssumption, LocksAre DEF Init, TableOf
  <2> QED
    BY <2>1, InternerAssumption DEF Init, Shared!Init, Shared!Apart, TableOf
<1>2. Inv /\ Inv' /\ [Next]_vars => [Shared!Next]_(Shared!vars)
  <2> SUFFICES ASSUME Inv, Inv', [Next]_vars PROVE [Shared!Next]_(Shared!vars)
    OBVIOUS
  <2> USE InternerAssumption, LocksAre DEF locks, adding
  <2>a. UNCHANGED <<TableOf, ask, whole, answer>> => UNCHANGED Shared!vars
    BY DEF Shared!vars, TableOf
  <2>b. TypeOK
    BY DEF Inv
  <2>1. ASSUME NEW t \in Threads, Ask(t) PROVE Shared!Ask(t)
    <3>1. ask[t] = None
      BY <2>1 DEF Ask, Inv, Asking
    <3>2. \E x \in Texts : ask' = [ask EXCEPT ![t] = x]
      BY <2>1 DEF Ask, Begins
    <3>3. UNCHANGED <<TableOf, whole, answer>>
      BY <2>1 DEF Ask, TableOf
    <3> QED
      BY <3>1, <3>2, <3>3 DEF Shared!Ask, TableOf
  <2>2. ASSUME NEW t \in Threads, Intern(t) PROVE Shared!AskPart(t)
    <3>1. whole[t] = None /\ whole' = [whole EXCEPT ![t] = ask[t]] /\ ask[t] # None
      BY <2>2 DEF Intern, Inv, Asking
    <3>2. \E x \in Texts : ask' = [ask EXCEPT ![t] = x]
      <4>1. unspelt[t] \subseteq Texts
        BY <2>b DEF TypeOK
      <4> QED
        BY <2>2, <4>1 DEF Intern, Begins
    <3>3. UNCHANGED <<TableOf, answer>>
      BY <2>2 DEF Intern, TableOf
    <3> QED
      BY <3>1, <3>2, <3>3 DEF Shared!AskPart, TableOf
  <2>3. ASSUME NEW t \in Threads,
               TakeRead(t) \/ Miss(t) \/ TakeWrite(t) \/ MissLate(t) \/ Stopped(t) \/ Refused(t)
        PROVE  UNCHANGED <<TableOf, ask, whole, answer>>
    BY <2>3 DEF TakeRead, Miss, TakeWrite, MissLate, MissLateIf, Stopped, Refused, Panics, TableOf
  <2>4. ASSUME NEW t \in Threads, Near(t) \/ Find(t) \/ FindLate(t) PROVE Shared!Answer(t)
    <3>1. /\ ask[t] \in Texts
          /\ ask' = [ask EXCEPT ![t] = whole[t]] /\ whole' = [whole EXCEPT ![t] = None]
          /\ UNCHANGED id
      BY <2>4 DEF Near, Find, FindLate, Answered, Inv, TypeOK, Asking, Places
    <3>2. TableOf' = TableOf
      BY <3>1 DEF TableOf
    <3>3. TableOf[ask[t]] # 0 /\ answer' = [answer EXCEPT ![t] = TableOf[ask[t]]]
      <4>1. CASE Near(t)
        <5>1. near[t][ask[t]] # 0 /\ Kind[ask[t]] = "symbol" /\ near[t][ask[t]] = id[ask[t]]
          BY <3>1, <4>1 DEF Near, Inv, KeptNear
        <5>2. TableOf[ask[t]] = id[ask[t]]
          BY <3>1, <5>1 DEF TableOf
        <5> QED
          BY <4>1, <5>1, <5>2 DEF Near, Answered
      <4>2. CASE Find(t)
        BY <3>1, <4>2, ReadsWithin DEF Find, Answered
      <4>3. CASE FindLate(t)
        BY <3>1, <4>3, ReadsWithin DEF FindLate, Answered
      <4> QED BY <2>4, <4>1, <4>2, <4>3
    <3>4. ask[t] # None
      BY <3>1
    <3> QED
      BY <3>1, <3>2, <3>3, <3>4 DEF Shared!Answer, TableOf
  <2>5. ASSUME NEW t \in Threads, Add(t) PROVE Shared!Answer(t)
    <3>1. ask[t] \in Texts /\ At(t) \in Kinds /\ TableOf[ask[t]] = 0 /\ id[ask[t]] = 0 /\ ask[t] # None
      BY <2>5, ReadsWithin DEF Add, Inv, Absent, At
    <3>2. count[At(t)] \in Nat /\ count["literal"] \in Nat /\ Capacity["literal"] \in Nat
      BY <3>1 DEF Inv, TypeOK
    <3>3. /\ id' = [id EXCEPT ![ask[t]] = count[At(t)] + 1]
          /\ At(t) = "literal" => count["literal"] + 1 <= Capacity["literal"]
          /\ ask' = [ask EXCEPT ![t] = whole[t]] /\ whole' = [whole EXCEPT ![t] = None]
          /\ answer' = [answer EXCEPT ![t] = count[At(t)] + 1]
      BY <2>5, <3>1, <3>2 DEF Add, GetsNumber, Answered
    <3>4. TableOf'[ask[t]] = count[At(t)] + 1 /\ count[At(t)] + 1 # 0
      BY <2>b, <3>1, <3>2, <3>3 DEF TableOf, At, TypeOK
    <3>5. \A x \in Texts : x # ask[t] => TableOf'[x] = TableOf[x]
      BY <2>b, <3>1, <3>3 DEF TableOf, TypeOK
    <3>6. TableOf' \in [Texts -> Nat] /\ Shared!Apart(TableOf')
      BY DEF Inv, TypeOK, PlacesApart, TableOf, Shared!Apart
    <3> QED
      BY <3>1, <3>3, <3>4, <3>5, <3>6, ZenonT(60) DEF Shared!Answer, TableOf, Shared!Apart
  <2>6. ASSUME NEW t \in Threads, Full(t) PROVE UNCHANGED <<TableOf, ask, whole, answer>>
    <3>1. UNCHANGED <<ask, whole, answer>>
      BY <2>6 DEF Full, Panics
    <3>2. ask[t] \in Texts /\ Kind[ask[t]] = "literal" /\ id[ask[t]] = 0
      BY <2>6, ReadsWithin DEF Full, Inv, Absent, At
    <3>3. count["literal"] \in Nat /\ Capacity["literal"] \in Nat
      BY <3>2 DEF Inv, TypeOK
    <3>4. id' = [id EXCEPT ![ask[t]] = count["literal"] + 1] /\ count["literal"] + 1 > Capacity["literal"]
      BY <2>6, <3>2, <3>3 DEF Full, GetsNumber, At
    <3> QED
      BY <2>b, <3>1, <3>2, <3>4 DEF TableOf, TypeOK
  <2>7. ASSUME UNCHANGED vars PROVE UNCHANGED <<TableOf, ask, whole, answer>>
    BY <2>7 DEF vars, TableOf
  <2> DEFINE same == UNCHANGED <<TableOf, ask, whole, answer>>
  <2>8. ASSUME NEW t \in Threads, Ask(t) \/ Go(t)
        PROVE  Shared!Ask(t) \/ Shared!AskPart(t) \/ Shared!Answer(t) \/ same
    <3> HIDE DEF same
    <3>1. TakeRead(t) \/ Miss(t) \/ TakeWrite(t) \/ MissLate(t) \/ Stopped(t) \/ Refused(t) => same
      BY <2>3 DEF same
    <3>2. Full(t) => same
      BY <2>6 DEF same
    <3> QED
      BY <2>1, <2>2, <2>4, <2>5, <2>8, <3>1, <3>2 DEF Go
  <2>9. CASE Next
    BY <2>a, <2>8, <2>9, Zenon DEF Next, Shared!Next
  <2>10. CASE UNCHANGED vars
    BY <2>a, <2>7, <2>10, Zenon
  <2> QED
    BY <2>9, <2>10
<1>3. QED
  BY <1>1, <1>2, InvInvariant, PTL DEF Spec, ImplementsTable, Shared!Spec

(***************************************************************************)
(* What a page keeps: functions from some of a set, scopes and other       *)
(* sequences                                                               *)
(***************************************************************************)

\* What is a function from some of a set.
LEMMA MapsAre ==
  ASSUME NEW T, NEW S, NEW f
  PROVE  f \in Maps(T, S) <=> /\ f = [x \in DOMAIN f |-> f[x]]
                              /\ DOMAIN f \subseteq T
                              /\ \A x \in DOMAIN f : f[x] \in S
  BY DEF Maps

\* One more value keeps a function one from some of a set.
LEMMA WithIn ==
  ASSUME NEW T, NEW S
  PROVE  \A f \in Maps(T, S), x \in T, y \in S : With(f, x, y) \in Maps(T, S)
  BY MapsAre DEF With

\* A function with one more value has it, and the others it had.
LEMMA WithIs ==
  ASSUME NEW f, NEW x, NEW y
  PROVE  /\ DOMAIN With(f, x, y) = DOMAIN f \cup {x} /\ With(f, x, y)[x] = y
         /\ \A z \in DOMAIN f : z # x => With(f, x, y)[z] = f[z]
  BY DEF With

\* A function laid over another is one from some of the same set.
LEMMA OverIn ==
  ASSUME NEW T, NEW S
  PROVE  \A f \in Maps(T, S), g \in Maps(T, S) : Over(g, f) \in Maps(T, S)
  BY MapsAre DEF Over

\* A function laid over another hides it where both have a value.
LEMMA OverIs ==
  ASSUME NEW f, NEW g
  PROVE  /\ DOMAIN Over(g, f) = DOMAIN f \cup DOMAIN g
         /\ \A z \in DOMAIN g : Over(g, f)[z] = g[z]
         /\ \A z \in DOMAIN f : z \notin DOMAIN g => Over(g, f)[z] = f[z]
  BY DEF Over

\* A function of one value is one from some of a set.
LEMMA OnlyIn ==
  ASSUME NEW T, NEW S
  PROVE  \A x \in T, y \in S : Only(x, y) \in Maps(T, S)
  BY MapsAre DEF Only

\* A function of one value has it.
LEMMA OnlyIs ==
  ASSUME NEW x, NEW y
  PROVE  DOMAIN Only(x, y) = {x} /\ Only(x, y)[x] = y
  BY DEF Only

\* Where such a function is defined, and what its values are.
LEMMA MapIs ==
  ASSUME NEW T, NEW S
  PROVE  \A f \in Maps(T, S) : DOMAIN f \subseteq T /\ \A x \in DOMAIN f : f[x] \in S
  BY MapsAre

\* The empty sequence is the function with no value, as `facts` begins with
\* none.
LEMMA NoneIs ==
  ASSUME NEW T, NEW S
  PROVE  <<>> \in Maps(T, S) /\ DOMAIN <<>> = {}
<1>1. <<>> \in Seq(S) /\ Len(<<>>) = 0
  BY EmptySeq
<1>2. <<>> \in [1..Len(<<>>) -> S] /\ DOMAIN <<>> = 1..Len(<<>>)
  BY <1>1, LenProperties, Zenon
<1>3. 1..0 = {}
  OBVIOUS
<1>4. <<>> \in [{} -> S] /\ DOMAIN <<>> = {}
  BY <1>1, <1>2, <1>3, Zenon
<1>5. [{} -> S] \subseteq Maps(T, S)
  BY DEF Maps
<1> QED
  BY <1>4, <1>5, Zenon

\* One scope is another widened just where it agrees with it so far.
LEMMA PrefixIs ==
  ASSUME NEW s \in Scopes, NEW t \in Scopes
  PROVE  IsPrefix(s, t) <=> Len(s) <= Len(t) /\ \A i \in 1 .. Len(s) : s[i] = t[i]
<1>1. Len(s) \in Nat /\ Len(t) \in Nat
  BY DEF Scopes
<1>2. ASSUME Len(s) <= Len(t)
      PROVE  SubSeq(s, 1, Len(s)) = SubSeq(t, 1, Len(s)) <=> \A i \in 1 .. Len(s) : s[i] = t[i]
  <2>1. SubSeq(s, 1, Len(s)) \in Scopes /\ SubSeq(t, 1, Len(s)) \in Scopes
    BY <1>1, <1>2, SubSeqProperties DEF Scopes
  <2>2. Len(SubSeq(s, 1, Len(s))) = Len(s) /\ Len(SubSeq(t, 1, Len(s))) = Len(s)
    BY <1>1, <1>2, SubSeqProperties DEF Scopes
  <2>3. \A i \in 1 .. Len(s) : SubSeq(s, 1, Len(s))[i] = s[i] /\ SubSeq(t, 1, Len(s))[i] = t[i]
    BY <1>1, <1>2, SubSeqProperties DEF Scopes
  <2> QED
    BY <2>1, <2>2, <2>3, SeqEqual DEF Scopes
<1> QED
  BY <1>1, <1>2 DEF IsPrefix

\* A scope with one more thing assumed.
LEMMA AppendIs ==
  ASSUME NEW s \in Scopes, NEW a \in Saids
  PROVE  /\ Append(s, a) \in Scopes /\ Len(Append(s, a)) = Len(s) + 1 /\ Len(s) \in Nat
         /\ Append(s, a)[Len(s) + 1] = a
         /\ \A i \in 1 .. Len(s) : Append(s, a)[i] = s[i]
  BY AppendProperties DEF Scopes

\* What a sequence that has a last value is made of.
LEMMA LastIs ==
  ASSUME NEW S, NEW s \in Seq(S), Len(s) > 0
  PROVE  /\ Len(s) \in Nat /\ DOMAIN s = 1 .. Len(s) /\ Last(s) = s[Len(s)] /\ Last(s) \in S
         /\ Front(s) \in Seq(S) /\ Len(Front(s)) = Len(s) - 1
         /\ \A i \in 1 .. Len(s) - 1 : Front(s)[i] = s[i]
<1>1. Len(s) \in Nat /\ DOMAIN s = 1 .. Len(s) /\ \A i \in 1 .. Len(s) : s[i] \in S
  BY LenProperties, ElementOfSeq
<1>2. Front(s) \in Seq(S) /\ Len(Front(s)) = Len(s) - 1 /\ \A i \in 1 .. Len(s) - 1 : Front(s)[i] = s[i]
  BY <1>1, SubSeqProperties DEF Front
<1>3. Last(s) = s[Len(s)]
  BY DEF Last
<1> QED
  BY <1>1, <1>2, <1>3

\* A sequence with another last value.
LEMMA LastBecomes ==
  ASSUME NEW S, NEW s \in Seq(S), Len(s) > 0, NEW e \in S
  PROVE  /\ Append(Front(s), e) \in Seq(S) /\ Len(Append(Front(s), e)) = Len(s)
         /\ DOMAIN Append(Front(s), e) = 1 .. Len(s)
         /\ \A i \in 1 .. Len(s) - 1 : Append(Front(s), e)[i] = s[i]
         /\ Append(Front(s), e)[Len(s)] = e
<1>1. /\ Front(s) \in Seq(S) /\ Len(Front(s)) = Len(s) - 1 /\ Len(s) \in Nat
      /\ \A i \in 1 .. Len(s) - 1 : Front(s)[i] = s[i]
  BY LastIs
<1> DEFINE t == Append(Front(s), e)
<1>3. /\ t \in Seq(S) /\ Len(t) = Len(Front(s)) + 1
      /\ \A i \in 1 .. Len(Front(s)) : t[i] = Front(s)[i]
      /\ t[Len(Front(s)) + 1] = e
  BY <1>1, AppendProperties
<1> HIDE DEF t
<1>4. DOMAIN t = 1 .. Len(t)
  BY <1>3, LenProperties
<1>5. /\ t \in Seq(S) /\ Len(t) = Len(s) /\ DOMAIN t = 1 .. Len(s)
      /\ \A i \in 1 .. Len(s) - 1 : t[i] = s[i]
      /\ t[Len(s)] = e
  BY <1>1, <1>3, <1>4
<1> QED
  BY <1>5 DEF t

\* A sequence with one more value.
LEMMA AppendsIs ==
  ASSUME NEW S, NEW s \in Seq(S), NEW e \in S
  PROVE  /\ Append(s, e) \in Seq(S) /\ Len(Append(s, e)) = Len(s) + 1 /\ Len(s) \in Nat
         /\ DOMAIN s = 1 .. Len(s) /\ DOMAIN Append(s, e) = 1 .. Len(s) + 1
         /\ \A i \in 1 .. Len(s) : Append(s, e)[i] = s[i]
         /\ Append(s, e)[Len(s) + 1] = e
  BY AppendProperties, LenProperties

\* The first values of a sequence, as `frames.truncate` leaves them.
LEMMA FirstsAre ==
  ASSUME NEW S, NEW s \in Seq(S), NEW k \in 0 .. Len(s)
  PROVE  /\ SubSeq(s, 1, k) \in Seq(S) /\ Len(SubSeq(s, 1, k)) = k
         /\ \A i \in 1 .. k : SubSeq(s, 1, k)[i] = s[i]
<1>1. Len(s) \in Nat /\ \A i \in 1 .. Len(s) : s[i] \in S
  BY LenProperties, ElementOfSeq
<1> QED
  BY <1>1, SubSeqProperties

\* The same first values make the same first sequence.
LEMMA SameFirsts ==
  ASSUME NEW S, NEW s \in Seq(S), NEW t \in Seq(S), NEW k \in Nat, k <= Len(s), k <= Len(t),
         \A i \in 1 .. k : s[i] = t[i]
  PROVE  SubSeq(s, 1, k) = SubSeq(t, 1, k)
<1>1. Len(s) \in Nat /\ Len(t) \in Nat
  BY LenProperties
<1>2. k \in 0 .. Len(s) /\ k \in 0 .. Len(t)
  BY <1>1
<1>3. /\ SubSeq(s, 1, k) \in Seq(S) /\ Len(SubSeq(s, 1, k)) = k
      /\ \A i \in 1 .. k : SubSeq(s, 1, k)[i] = s[i]
  BY <1>2, FirstsAre
<1>4. /\ SubSeq(t, 1, k) \in Seq(S) /\ Len(SubSeq(t, 1, k)) = k
      /\ \A i \in 1 .. k : SubSeq(t, 1, k)[i] = t[i]
  BY <1>2, FirstsAre
<1> DEFINE u == SubSeq(s, 1, k)  v == SubSeq(t, 1, k)
<1>5. Len(u) = Len(v) /\ \A i \in 1 .. Len(u) : u[i] = v[i]
  BY <1>3, <1>4
<1> HIDE DEF u, v
<1>6. u \in Seq(S) /\ v \in Seq(S)
  BY <1>3, <1>4 DEF u, v
<1>7. u = v
  BY <1>5, <1>6, SeqEqual
<1> QED
  BY <1>7 DEF u, v

\* A scope widened twice is it widened.
LEMMA PrefixThrough ==
  ASSUME NEW s \in Scopes, NEW t \in Scopes, NEW u \in Scopes, IsPrefix(s, t), IsPrefix(t, u)
  PROVE  IsPrefix(s, u)
<1>1. Len(s) \in Nat /\ Len(t) \in Nat /\ Len(u) \in Nat
  BY DEF Scopes
<1>2. Len(s) <= Len(t) /\ (\A i \in 1 .. Len(s) : s[i] = t[i])
  BY PrefixIs
<1>3. Len(t) <= Len(u) /\ (\A i \in 1 .. Len(t) : t[i] = u[i])
  BY PrefixIs
<1>4. Len(s) <= Len(u) /\ (\A i \in 1 .. Len(s) : s[i] = u[i])
  BY <1>1, <1>2, <1>3
<1> QED
  BY <1>4, PrefixIs

\* A scope with one more thing assumed is it widened, and so is the scope
\* itself.
LEMMA PrefixOfAppend ==
  ASSUME NEW s \in Scopes, NEW a \in Saids
  PROVE  IsPrefix(s, Append(s, a)) /\ IsPrefix(s, s)
<1>1. Append(s, a) \in Scopes /\ Len(s) \in Nat /\ Len(Append(s, a)) = Len(s) + 1
  BY AppendIs
<1>2. \A i \in 1 .. Len(s) : Append(s, a)[i] = s[i]
  BY AppendIs
<1>3. IsPrefix(s, Append(s, a))
  <2>1. PICK t \in Scopes : t = Append(s, a) /\ Len(t) = Len(s) + 1 /\ \A i \in 1 .. Len(s) : t[i] = s[i]
    BY <1>1, <1>2
  <2>2. Len(s) <= Len(t) /\ \A i \in 1 .. Len(s) : s[i] = t[i]
    BY <1>1, <2>1
  <2>3. IsPrefix(s, t)
    BY <2>2, PrefixIs
  <2> QED
    BY <2>1, <2>3
<1>4. IsPrefix(s, s)
  BY <1>1, PrefixIs
<1> QED
  BY <1>3, <1>4

\* A scope with any more things assumed is it widened.
LEMMA PrefixOfConcat ==
  ASSUME NEW s \in Scopes, NEW t \in Scopes
  PROVE  IsPrefix(s, s \o t) /\ s \o t \in Scopes
<1>1. Len(s) \in Nat /\ Len(t) \in Nat
  BY DEF Scopes
<1>2. PICK u : u = s \o t
  OBVIOUS
<1>3. u \in Scopes /\ Len(u) = Len(s) + Len(t) /\ \A i \in 1 .. Len(s) : u[i] = s[i]
  BY <1>2, ConcatProperties DEF Scopes
<1>4. IsPrefix(s, u)
  <2>1. Len(s) <= Len(u) /\ \A i \in 1 .. Len(s) : s[i] = u[i]
    BY <1>1, <1>3
  <2> QED
    BY <1>3, <2>1, PrefixIs
<1> QED
  BY <1>2, <1>3, <1>4

(***************************************************************************)
(* What the checker reads                                                  *)
(***************************************************************************)

\* A set of numbers up to one has a greatest, if it has any.
LEMMA MaxIn ==
  \A n \in Nat : \A T \in SUBSET (1 .. n) : T # {} => \E i \in T : \A j \in T : j <= i
<1> DEFINE N == {n \in Nat : \A T \in SUBSET (1 .. n) : T # {} => \E i \in T : \A j \in T : j <= i}
<1>1. 0 \in N
  <2>1. 1 .. 0 = {}
    OBVIOUS
  <2> QED
    BY <2>1
<1>2. ASSUME NEW n \in Nat, n \in N PROVE n + 1 \in N
  <2> SUFFICES ASSUME NEW T \in SUBSET (1 .. n + 1), T # {} PROVE \E i \in T : \A j \in T : j <= i
    OBVIOUS
  <2>1. CASE n + 1 \in T
    BY <2>1
  <2>2. CASE n + 1 \notin T
    <3>1. T \subseteq 1 .. n
      BY <2>2
    <3> QED
      BY <1>2, <3>1
  <2> QED
    BY <2>1, <2>2
<1> HIDE DEF N
<1>3. \A n \in Nat : n \in N
  BY <1>1, <1>2, SetInduction
<1> QED
  BY <1>3 DEF N

\* A label is read in the innermost block that gives it.
LEMMA ReadingIs ==
  ASSUME NEW rd \in Seq(Readings)
  PROVE  /\ Reading(rd) \in Readings
         /\ \A label : label \in DOMAIN Reading(rd) <=> \E i \in 1 .. Len(rd) : label \in DOMAIN rd[i]
         /\ \A label, i : /\ i \in 1 .. Len(rd) /\ label \in DOMAIN rd[i]
                          /\ \A j \in 1 .. Len(rd) : label \in DOMAIN rd[j] => j <= i
                          => Reading(rd)[label] = rd[i][label]
<1>1. /\ Len(rd) \in Nat /\ DOMAIN rd = 1 .. Len(rd) /\ \A i \in 1 .. Len(rd) : rd[i] \in Readings
  BY LenProperties, ElementOfSeq
<1>2. \A i \in 1 .. Len(rd) : DOMAIN rd[i] \subseteq Labels /\ \A l \in DOMAIN rd[i] : rd[i][l] \in Saids
  BY <1>1, MapsAre DEF Readings
<1> DEFINE In(label) == {i \in DOMAIN rd : label \in DOMAIN rd[i]}
           Inmost(label) == CHOOSE i \in In(label) : \A j \in In(label) : j <= i
           D == UNION {DOMAIN rd[i] : i \in DOMAIN rd}
<1>3. \A label : label \in D <=> \E i \in 1 .. Len(rd) : label \in DOMAIN rd[i]
  BY <1>1
<1>4. \A label, i : i \in In(label) /\ (\A j \in In(label) : j <= i) => Inmost(label) = i
  <2> SUFFICES ASSUME NEW label, NEW i \in In(label), \A j \in In(label) : j <= i PROVE Inmost(label) = i
    OBVIOUS
  <2>1. Inmost(label) \in In(label) /\ \A j \in In(label) : j <= Inmost(label)
    OBVIOUS
  <2>2. In(label) \subseteq Nat
    BY <1>1
  <2> QED
    BY <2>1, <2>2
<1>5. \A label \in D : Inmost(label) \in In(label)
  <2> SUFFICES ASSUME NEW label \in D PROVE Inmost(label) \in In(label)
    OBVIOUS
  <2>1. PICK i0 \in 1 .. Len(rd) : label \in DOMAIN rd[i0]
    BY <1>3
  <2>2. In(label) \subseteq 1 .. Len(rd) /\ i0 \in In(label)
    BY <1>1, <2>1
  <2>3. PICK T : T = In(label)
    OBVIOUS
  <2>4. \E i \in T : \A j \in T : j <= i
    <3>1. T \in SUBSET (1 .. Len(rd)) /\ T # {}
      BY <2>2, <2>3
    <3> QED
      BY <1>1, <3>1, MaxIn
  <2> QED
    BY <2>3, <2>4
<1>6. Reading(rd) = [label \in D |-> rd[Inmost(label)][label]]
  BY DEF Reading
<1> HIDE DEF D, Inmost
<1>7. \A label \in D : rd[Inmost(label)][label] \in Saids
  BY <1>1, <1>2, <1>5
<1>8. D \subseteq Labels
  BY <1>2, <1>3
<1>9. Reading(rd) \in Readings
  BY <1>6, <1>7, <1>8, MapsAre DEF Readings
<1>10. ASSUME NEW label, NEW i \in 1 .. Len(rd), label \in DOMAIN rd[i],
              \A j \in 1 .. Len(rd) : label \in DOMAIN rd[j] => j <= i
       PROVE  Reading(rd)[label] = rd[i][label]
  <2>1. i \in In(label) /\ (\A j \in In(label) : j <= i)
    BY <1>1, <1>10
  <2>2. Inmost(label) = i
    BY <1>4, <2>1
  <2>3. label \in D
    BY <1>3, <1>10
  <2> QED
    BY <1>6, <2>2, <2>3
<1> QED
  BY <1>3, <1>6, <1>9, <1>10

\* One more block's labels are read before those of the blocks around it.
LEMMA ReadingOver ==
  ASSUME NEW rd \in Seq(Readings), NEW m \in Readings
  PROVE  /\ Append(rd, m) \in Seq(Readings)
         /\ DOMAIN Reading(Append(rd, m)) = DOMAIN Reading(rd) \cup DOMAIN m
         /\ \A label \in DOMAIN m : Reading(Append(rd, m))[label] = m[label]
         /\ \A label \in DOMAIN Reading(rd) : label \notin DOMAIN m =>
              Reading(Append(rd, m))[label] = Reading(rd)[label]
<1> DEFINE t == Append(rd, m)
<1>1. /\ t \in Seq(Readings) /\ Len(t) = Len(rd) + 1 /\ Len(rd) \in Nat
      /\ \A i \in 1 .. Len(rd) : t[i] = rd[i]
      /\ t[Len(rd) + 1] = m
  BY AppendsIs
<1> HIDE DEF t
<1>2. \A label : label \in DOMAIN Reading(t) <=> \E i \in 1 .. Len(t) : label \in DOMAIN t[i]
  BY <1>1, ReadingIs
<1>3. \A label : label \in DOMAIN Reading(rd) <=> \E i \in 1 .. Len(rd) : label \in DOMAIN rd[i]
  BY ReadingIs
<1>4. DOMAIN Reading(t) = DOMAIN Reading(rd) \cup DOMAIN m
  <2>1. \A label : label \in DOMAIN Reading(t) <=> label \in DOMAIN Reading(rd) \/ label \in DOMAIN m
    BY <1>1, <1>2, <1>3
  <2> QED
    BY <2>1
<1>5. ASSUME NEW label \in DOMAIN m PROVE Reading(t)[label] = m[label]
  <2>1. Len(rd) + 1 \in 1 .. Len(t) /\ \A j \in 1 .. Len(t) : j <= Len(rd) + 1
    BY <1>1
  <2> QED
    BY <1>1, <1>5, <2>1, ReadingIs
<1>6. ASSUME NEW label \in DOMAIN Reading(rd), label \notin DOMAIN m PROVE Reading(t)[label] = Reading(rd)[label]
  <2>1. PICK T : T = {i \in 1 .. Len(rd) : label \in DOMAIN rd[i]}
    OBVIOUS
  <2>2. T \in SUBSET (1 .. Len(rd)) /\ T # {}
    BY <1>3, <2>1
  <2>3. PICK i \in T : \A j \in T : j <= i
    BY <1>1, <2>2, MaxIn
  <2>4. i \in 1 .. Len(rd) /\ label \in DOMAIN rd[i] /\ \A j \in 1 .. Len(rd) : label \in DOMAIN rd[j] => j <= i
    BY <2>1, <2>3
  <2>5. Reading(rd)[label] = rd[i][label]
    BY <2>4, ReadingIs
  <2>6. i \in 1 .. Len(t) /\ label \in DOMAIN t[i] /\ \A j \in 1 .. Len(t) : label \in DOMAIN t[j] => j <= i
    BY <1>1, <1>6, <2>4
  <2>7. Reading(t)[label] = t[i][label]
    BY <1>1, <2>6, ReadingIs
  <2> QED
    BY <1>1, <2>4, <2>5, <2>7
<1> QED
  BY <1>1, <1>4, <1>5, <1>6 DEF t

\* One more line in the innermost block is read before any other of its label.
LEMMA ReadingNoted ==
  ASSUME NEW rd \in Seq(Readings), Len(rd) > 0, NEW label \in Labels, NEW claim \in Saids
  PROVE  /\ Noted(rd, label, claim) \in Seq(Readings) /\ Len(Noted(rd, label, claim)) = Len(rd)
         /\ \A d \in 1 .. Len(rd) - 1 : Noted(rd, label, claim)[d] = rd[d]
         /\ DOMAIN Reading(Noted(rd, label, claim)) = DOMAIN Reading(rd) \cup {label}
         /\ Reading(Noted(rd, label, claim))[label] = claim
         /\ \A l \in DOMAIN Reading(rd) : l # label => Reading(Noted(rd, label, claim))[l] = Reading(rd)[l]
<1>1. /\ Len(rd) \in Nat /\ Last(rd) \in Readings /\ Front(rd) \in Seq(Readings) /\ Len(Front(rd)) = Len(rd) - 1
      /\ Last(rd) = rd[Len(rd)] /\ \A i \in 1 .. Len(rd) - 1 : Front(rd)[i] = rd[i]
  BY LastIs
<1> DEFINE m == Last(rd)
           fr == Front(rd)
           m1 == With(m, label, claim)
           t == Append(fr, m1)
<1>2. /\ m1 \in Readings /\ DOMAIN m1 = DOMAIN m \cup {label} /\ m1[label] = claim
      /\ \A z \in DOMAIN m : z # label => m1[z] = m[z]
  <2>1. m \in Maps(Labels, Saids)
    BY <1>1 DEF Readings
  <2> HIDE DEF m
  <2>2. With(m, label, claim) \in Maps(Labels, Saids)
    BY <2>1, WithIn
  <2>3. DOMAIN With(m, label, claim) = DOMAIN m \cup {label}
    BY DEF With
  <2>4. With(m, label, claim)[label] = claim
    BY DEF With
  <2>6. \A z \in DOMAIN m : z # label => With(m, label, claim)[z] = m[z]
    BY DEF With
  <2> QED
    BY <2>2, <2>3, <2>4, <2>6 DEF Readings
<1>3. rd = Append(fr, m)
  <2> DEFINE r1 == Append(fr, m)
  <2>1. /\ r1 \in Seq(Readings) /\ Len(r1) = Len(rd) /\ r1[Len(rd)] = m
        /\ \A i \in 1 .. Len(rd) - 1 : r1[i] = rd[i]
    BY <1>1, LastBecomes
  <2> HIDE DEF r1
  <2>2. \A i \in 1 .. Len(rd) : r1[i] = rd[i]
    BY <1>1, <2>1
  <2>3. r1 = rd
    BY <2>1, <2>2, SeqEqual
  <2> QED
    BY <2>3 DEF r1
<1>4. Noted(rd, label, claim) = t
  BY DEF Noted
<1> HIDE DEF m1, m, fr, t
<1>5. m \in Readings /\ fr \in Seq(Readings)
  BY <1>1 DEF m, fr
<1>6. /\ DOMAIN Reading(rd) = DOMAIN Reading(fr) \cup DOMAIN m
      /\ \A l \in DOMAIN m : Reading(rd)[l] = m[l]
      /\ \A l \in DOMAIN Reading(fr) : l \notin DOMAIN m => Reading(rd)[l] = Reading(fr)[l]
  BY <1>3, <1>5, ReadingOver
<1>7. /\ t \in Seq(Readings)
      /\ DOMAIN Reading(t) = DOMAIN Reading(fr) \cup DOMAIN m1
      /\ \A l \in DOMAIN m1 : Reading(t)[l] = m1[l]
      /\ \A l \in DOMAIN Reading(fr) : l \notin DOMAIN m1 => Reading(t)[l] = Reading(fr)[l]
  BY <1>2, <1>5, ReadingOver DEF t
<1>8. Len(t) = Len(rd) /\ \A d \in 1 .. Len(rd) - 1 : t[d] = rd[d]
  BY <1>1, <1>2, LastBecomes DEF t, fr
<1>9. DOMAIN Reading(t) = DOMAIN Reading(rd) \cup {label} /\ Reading(t)[label] = claim
  BY <1>2, <1>6, <1>7
<1>10. \A l \in DOMAIN Reading(rd) : l # label => Reading(t)[l] = Reading(rd)[l]
  <2> SUFFICES ASSUME NEW l \in DOMAIN Reading(rd), l # label PROVE Reading(t)[l] = Reading(rd)[l]
    OBVIOUS
  <2>1. CASE l \in DOMAIN m
    BY <1>2, <1>6, <1>7, <2>1
  <2>2. CASE l \notin DOMAIN m
    BY <1>2, <1>6, <1>7, <2>2
  <2> QED
    BY <2>1, <2>2
<1> QED
  BY <1>4, <1>7, <1>8, <1>9, <1>10

\* The blocks around are read the same while their labels are.
LEMMA ReadingAtSame ==
  ASSUME NEW rd \in Seq(Readings), NEW t \in Seq(Readings), NEW d \in Nat, d <= Len(rd), d <= Len(t),
         \A i \in 1 .. d : t[i] = rd[i]
  PROVE  ReadingAt(t, d) = ReadingAt(rd, d) /\ ReadingAt(rd, d) \in Readings
<1>1. SubSeq(t, 1, d) = SubSeq(rd, 1, d)
  BY SameFirsts
<1>2. d \in 0 .. Len(rd)
  BY LenProperties
<1>3. SubSeq(rd, 1, d) \in Seq(Readings)
  BY <1>2, FirstsAre
<1> QED
  BY <1>1, <1>3, ReadingIs DEF ReadingAt

(***************************************************************************)
(* Frames, and assuming one thing more                                     *)
(***************************************************************************)

\* There is a frame, and the innermost stands under the scope.
LEMMA FramedIs ==
  ASSUME NEW fs \in Seq(FrameSet), NEW at \in Scopes, Framed(fs, at)
  PROVE  /\ Len(fs) \in Nat /\ Len(fs) > 0 /\ Len(at) \in Nat
         /\ \A i \in 1 .. Len(fs) : fs[i] \in FrameSet /\ fs[i].scope \in Scopes /\ fs[i].known \in KnownSet
         /\ Last(fs).scope = at
<1>1. Len(fs) \in Nat /\ Len(at) \in Nat /\ Len(fs) = Len(at) + 1
  BY LenProperties DEF Framed, Scopes
<1>2. SubSeq(at, 1, Len(at)) = at
  BY SubSeqFull DEF Scopes
<1>3. \A i \in 1 .. Len(fs) : fs[i] \in FrameSet
  BY ElementOfSeq
<1>4. Last(fs).scope = at
  BY <1>1, <1>2 DEF Framed, FrameIs, Last
<1> QED
  BY <1>1, <1>3, <1>4 DEF FrameSet

\* The innermost frame brought up to what has been proved stays a frame of
\* the scope.
LEMMA UpdatedIs ==
  ASSUME NEW w \in Stances, Framed(w.frames, w.scope), AllAt(w.facts, w.scope)
  PROVE  /\ Updated(w) \in Seq(FrameSet) /\ Framed(Updated(w), w.scope)
         /\ Deeper(w.frames, Updated(w)) /\ Len(Updated(w)) = Len(w.frames)
         /\ Updated(w)[Len(w.frames)].known = w.facts
<1> DEFINE fs == w.frames  at == w.scope  top == [Last(fs) EXCEPT !.known = w.facts]
<1>1. fs \in Seq(FrameSet) /\ at \in Scopes /\ w.facts \in KnownSet
  BY DEF Stances
<1>2. Len(fs) \in Nat /\ Len(fs) > 0 /\ Len(at) \in Nat /\ Last(fs).scope = at
  BY <1>1, FramedIs
<1>3. Last(fs) \in FrameSet /\ Last(fs) = fs[Len(fs)]
  BY <1>1, <1>2, LastIs
<1>4. top \in FrameSet /\ top.scope = Last(fs).scope /\ top.added = Last(fs).added /\ top.known = w.facts
  BY <1>1, <1>3 DEF FrameSet
<1> HIDE DEF top
<1>5. Updated(w) = Append(Front(fs), top)
  BY <1>2 DEF Updated, top
<1>6. /\ Updated(w) \in Seq(FrameSet) /\ Len(Updated(w)) = Len(fs)
      /\ \A i \in 1 .. Len(fs) - 1 : Updated(w)[i] = fs[i]
      /\ Updated(w)[Len(fs)] = top
  BY <1>1, <1>2, <1>4, <1>5, LastBecomes
<1>7. FrameIs(top, at, Len(fs))
  BY <1>2, <1>3, <1>4 DEF FrameIs, Framed
<1>8. Framed(Updated(w), at)
  <2>1. ASSUME NEW i \in 1 .. Len(fs) PROVE FrameIs(Updated(w)[i], at, i)
    <3>1. FrameIs(fs[i], at, i)
      BY DEF Framed
    <3>2. i # Len(fs) => i \in 1 .. Len(fs) - 1
      BY <1>2
    <3> QED
      BY <1>6, <1>7, <3>1, <3>2
  <2>2. Len(fs) = Len(at) + 1
    BY DEF Framed
  <2> QED
    BY <1>6, <2>1, <2>2 DEF Framed
<1> QED
  BY <1>4, <1>6, <1>8 DEF Deeper

\* All that is known is carried in under one more assumption.
LEMMA LiftedIs ==
  ASSUME NEW w \in Stances, AllAt(w.facts, w.scope), NEW added \in Saids
  PROVE  /\ Lifted(w, added) \in KnownSet /\ DOMAIN Lifted(w, added) = DOMAIN w.facts \cup {added}
         /\ AllAt(Lifted(w, added), Append(w.scope, added))
<1> DEFINE inner == Append(w.scope, added)  f == [c \in DOMAIN w.facts |-> Weakened(w.facts[c], w.scope, added)]
<1>1. w.facts \in Maps(Saids, Scopes) /\ w.scope \in Scopes
  BY DEF Stances, KnownSet
<1>2. inner \in Scopes
  BY <1>1, AppendIs
<1>3. \A c \in DOMAIN w.facts : f[c] = inner
  BY DEF AllAt, Weakened
<1>4. DOMAIN f = DOMAIN w.facts /\ DOMAIN w.facts \subseteq Saids
  BY <1>1, MapsAre
<1>5. f \in Maps(Saids, Scopes)
  <2>1. f = [c \in DOMAIN f |-> f[c]] /\ \A c \in DOMAIN f : f[c] \in Scopes
    BY <1>2, <1>3, <1>4
  <2>2. DOMAIN f \subseteq Saids
    BY <1>4
  <2> HIDE DEF f
  <2> QED
    BY <2>1, <2>2, MapsAre
<1>6. Lifted(w, added) = With(f, added, inner)
  BY DEF Lifted
<1> HIDE DEF f, inner
<1>7. /\ DOMAIN With(f, added, inner) = DOMAIN f \cup {added}
      /\ With(f, added, inner)[added] = inner
      /\ \A z \in DOMAIN f : z # added => With(f, added, inner)[z] = f[z]
  BY DEF With
<1>9. With(f, added, inner) \in Maps(Saids, Scopes)
  BY <1>2, <1>5, WithIn
<1>8. AllAt(Lifted(w, added), inner)
  BY <1>3, <1>4, <1>6, <1>7 DEF AllAt
<1> QED
  BY <1>4, <1>6, <1>7, <1>8, <1>9 DEF inner, KnownSet

\* One goes on from another: in no narrower a scope, with the frames under its
\* innermost and its letters as they were.
Onward(w, v) ==
  /\ IsPrefix(w.scope, v.scope) /\ Deeper(w.frames, v.frames)
  /\ Len(w.letters) <= Len(v.letters) /\ \A i \in 1 .. Len(w.letters) : v.letters[i] = w.letters[i]

\* What the parts of how the elaborator stands are.
LEMMA StanceIs ==
  ASSUME NEW w \in Stances
  PROVE  /\ w.frames \in Seq(FrameSet) /\ w.scope \in Scopes /\ w.facts \in KnownSet /\ w.lines \in Lines
         /\ w.letters \in Seq(LetterSet) /\ w.closers \in Seq(CloserSet)
         /\ Len(w.frames) \in Nat /\ Len(w.scope) \in Nat /\ Len(w.letters) \in Nat /\ Len(w.closers) \in Nat
<1>1. /\ w.frames \in Seq(FrameSet) /\ w.scope \in Scopes /\ w.facts \in KnownSet /\ w.lines \in Lines
      /\ w.letters \in Seq(LetterSet) /\ w.closers \in Seq(CloserSet)
  BY DEF Stances
<1>2. w.scope \in Seq(Saids)
  BY <1>1 DEF Scopes
<1> QED
  BY <1>1, <1>2, LenProperties

\* Going on, and on again, is going on.
LEMMA OnwardThrough ==
  ASSUME NEW w \in Stances, NEW v \in Stances, NEW u \in Stances, Onward(w, v), Onward(v, u)
  PROVE  Onward(w, u)
<1>1. IsPrefix(w.scope, u.scope)
  BY PrefixThrough, StanceIs DEF Onward
<1>2. Deeper(w.frames, u.frames)
  <2>1. Len(w.frames) \in Nat /\ Len(v.frames) \in Nat /\ Len(u.frames) \in Nat
    BY StanceIs
  <2>2. /\ Len(w.frames) <= Len(v.frames) /\ Len(v.frames) <= Len(u.frames)
        /\ \A i \in 1 .. Len(w.frames) - 1 : v.frames[i] = w.frames[i]
        /\ \A i \in 1 .. Len(v.frames) - 1 : u.frames[i] = v.frames[i]
    BY DEF Onward, Deeper
  <2>3. \A i \in 1 .. Len(w.frames) - 1 : u.frames[i] = w.frames[i]
    BY <2>1, <2>2
  <2> QED
    BY <2>1, <2>2, <2>3 DEF Deeper
<1>3. Len(w.letters) <= Len(u.letters) /\ \A i \in 1 .. Len(w.letters) : u.letters[i] = w.letters[i]
  <2>1. Len(w.letters) \in Nat /\ Len(v.letters) \in Nat /\ Len(u.letters) \in Nat
    BY StanceIs
  <2> QED
    BY <2>1 DEF Onward
<1> QED
  BY <1>1, <1>2, <1>3 DEF Onward

\* What is known around is known as it was.
LEMMA ViewedOnward ==
  ASSUME NEW w \in Stances, NEW v \in Stances, Framed(w.frames, w.scope), Onward(w, v),
         NEW at \in Scopes, NEW known, NEW ls, NEW k \in Nat, NEW R, NEW n, NEW n1 \in Nat, n \in Int, n <= n1,
         Viewed(w, at, known, ls, k, R, n)
  PROVE  Viewed(v, at, known, ls, k, R, n1)
<1>1. /\ Len(at) \in Nat /\ Len(w.scope) \in Nat /\ Len(w.frames) = Len(w.scope) + 1
      /\ Len(w.letters) \in Nat /\ Len(v.letters) \in Nat
  BY StanceIs DEF Framed, Scopes
<1>2. Len(at) <= Len(w.scope)
  BY PrefixIs, StanceIs DEF Viewed
<1>3. IsPrefix(at, v.scope)
  BY PrefixThrough, StanceIs DEF Viewed, Onward
<1>4. \A i \in 1 .. Len(at) : v.frames[i] = w.frames[i]
  BY <1>1, <1>2 DEF Onward, Deeper
<1>5. k <= Len(v.letters) /\ Lettered(v.letters, k, at)
  <2>1. \A i \in 1 .. k : v.letters[i] = w.letters[i]
    BY <1>1 DEF Viewed, Onward
  <2> QED
    BY <1>1, <2>1, SMTT(30) DEF Viewed, Onward, Lettered
<1>6. Inscribed(v.frames, at, known, ls, R, n1)
  <2> SUFFICES ASSUME NEW label \in DOMAIN R
               PROVE  /\ Numbered(label, n1) /\ label \in DOMAIN ls
                      /\ InscribedLine(v.frames, at, known, ls[label], R[label])
    BY DEF Inscribed
  <2>1. /\ Numbered(label, n) /\ label \in DOMAIN ls
        /\ InscribedLine(w.frames, at, known, ls[label], R[label])
    BY DEF Viewed, Inscribed
  <2>2. Numbered(label, n1)
    BY <2>1 DEF Numbered
  <2>3. InscribedLine(v.frames, at, known, ls[label], R[label])
    BY <1>4, <2>1 DEF InscribedLine
  <2> QED
    BY <2>1, <2>2, <2>3
<1> QED
  BY <1>3, <1>5, <1>6 DEF Viewed

\* One more thing is assumed.
Wider(w, added, v) ==
  /\ v \in Stances
  /\ v.scope = Append(w.scope, added)
  /\ DOMAIN v.facts = DOMAIN w.facts \cup {added} /\ v.facts[added] = v.scope
  /\ v.lines = w.lines /\ v.names = w.names /\ v.letters = w.letters /\ v.closers = w.closers
  /\ v.opened = w.opened /\ v.b = w.b

\* What `widen_to` makes of where the elaborator stands: the old frames and
\* one more.
LEMMA WidenShape ==
  ASSUME NEW w \in Stances, NEW added \in Saids, Framed(w.frames, w.scope), AllAt(w.facts, w.scope)
  PROVE  /\ Wider(w, added, Widen(w, added)) /\ Onward(w, Widen(w, added))
         /\ Widen(w, added).facts = Lifted(w, added)
         /\ Len(Widen(w, added).frames) = Len(w.frames) + 1
         /\ \A i \in 1 .. Len(w.frames) : Widen(w, added).frames[i] = Updated(w)[i]
         /\ FrameIs(Widen(w, added).frames[Len(w.frames) + 1], Append(w.scope, added), Len(w.frames) + 1)
<1> DEFINE v == Widen(w, added)
          inner == Append(w.scope, added)
          fs == w.frames
          us == Updated(w)
          top == [scope |-> inner, added |-> added, known |-> Lifted(w, added)]
          gs == Append(us, top)
<1>1. fs \in Seq(FrameSet) /\ w.scope \in Scopes /\ Len(fs) \in Nat
  BY StanceIs
<1>2. /\ Lifted(w, added) \in KnownSet /\ DOMAIN Lifted(w, added) = DOMAIN w.facts \cup {added}
      /\ AllAt(Lifted(w, added), inner)
  BY <1>1, LiftedIs
<1>3. /\ us \in Seq(FrameSet) /\ Framed(us, w.scope) /\ Deeper(fs, us) /\ Len(us) = Len(fs)
      /\ us[Len(fs)].known = w.facts
  BY <1>1, UpdatedIs
<1>4. /\ inner \in Scopes /\ Len(inner) = Len(w.scope) + 1 /\ Len(w.scope) \in Nat
      /\ inner[Len(w.scope) + 1] = added
  BY <1>1, AppendIs
<1>5. v = [w EXCEPT !.scope = inner, !.facts = Lifted(w, added), !.frames = gs]
  BY DEF Widen
<1>6. top \in FrameSet /\ top.scope = inner /\ top.added = added /\ top.known = Lifted(w, added)
  BY <1>2, <1>4 DEF FrameSet
<1> HIDE DEF us, inner, top
<1>7. /\ gs \in Seq(FrameSet) /\ Len(gs) = Len(us) + 1
      /\ \A i \in 1 .. Len(us) : gs[i] = us[i]
      /\ gs[Len(us) + 1] = top
  BY <1>3, <1>6, AppendsIs
<1> HIDE DEF gs
<1>8. v \in Stances /\ v.scope = inner /\ v.facts = Lifted(w, added) /\ v.frames = gs
  BY <1>2, <1>4, <1>5, <1>7 DEF Stances
<1>9. /\ v.lines = w.lines /\ v.names = w.names /\ v.letters = w.letters /\ v.closers = w.closers
      /\ v.opened = w.opened /\ v.b = w.b
  BY <1>5 DEF Stances
<1> HIDE DEF v
<1>10. Len(us) = Len(w.scope) + 1
  BY <1>3 DEF Framed
<1>11. FrameIs(top, inner, Len(us) + 1)
  <2>1. SubSeq(inner, 1, Len(inner)) = inner
    BY <1>4, SubSeqFull DEF Scopes
  <2>2. Len(us) + 1 - 1 = Len(inner) /\ Len(us) + 1 > 1
    BY <1>4, <1>10
  <2> QED
    BY <1>2, <1>4, <1>6, <1>10, <2>1, <2>2 DEF FrameIs
<1>12. Onward(w, v)
  <2>1. IsPrefix(w.scope, inner)
    BY <1>1, PrefixOfAppend DEF inner
  <2>2. Deeper(fs, gs)
    <3>1. Len(us) = Len(fs) /\ \A i \in 1 .. Len(fs) - 1 : us[i] = fs[i]
      BY <1>3 DEF Deeper
    <3>2. Len(fs) <= Len(gs) /\ \A i \in 1 .. Len(fs) - 1 : gs[i] = us[i]
      BY <1>1, <1>7, <3>1
    <3> QED
      BY <3>1, <3>2 DEF Deeper
  <2>3. Len(w.letters) <= Len(v.letters) /\ \A i \in 1 .. Len(w.letters) : v.letters[i] = w.letters[i]
    BY <1>9, StanceIs
  <2> QED
    BY <1>8, <2>1, <2>2, <2>3 DEF Onward
<1>13. Wider(w, added, v)
  <2>1. v.facts[added] = inner
    BY <1>2, <1>8 DEF AllAt
  <2> QED
    BY <1>2, <1>8, <1>9, <2>1 DEF Wider, inner
<1>14. /\ v.facts = Lifted(w, added) /\ Len(v.frames) = Len(fs) + 1
       /\ \A i \in 1 .. Len(fs) : v.frames[i] = us[i]
       /\ FrameIs(v.frames[Len(fs) + 1], inner, Len(fs) + 1)
  BY <1>3, <1>7, <1>8, <1>11
<1> QED
  BY <1>12, <1>13, <1>14 DEF v, us, inner

\* One more assumption leaves all that was known known.
LEMMA WidenIs ==
  ASSUME NEW w \in Stances, NEW added \in Saids, NEW R, NEW n, Sound(w, R, n)
  PROVE  Sound(Widen(w, added), R, n) /\ Wider(w, added, Widen(w, added)) /\ Onward(w, Widen(w, added))
<1> DEFINE fs == w.frames
           us == Updated(w)
<1>1. /\ fs \in Seq(FrameSet) /\ w.scope \in Scopes /\ Len(fs) \in Nat /\ Framed(fs, w.scope)
      /\ AllAt(w.facts, w.scope)
  BY StanceIs DEF Sound, Viewed
<1>2. /\ us \in Seq(FrameSet) /\ Framed(us, w.scope) /\ Deeper(fs, us) /\ Len(us) = Len(fs)
      /\ us[Len(fs)].known = w.facts
  BY <1>1, UpdatedIs
<1>3. PICK inner \in Scopes : /\ inner = Append(w.scope, added) /\ Len(inner) = Len(w.scope) + 1 /\ Len(w.scope) \in Nat
                              /\ inner[Len(w.scope) + 1] = added
                              /\ \A i \in 1 .. Len(w.scope) : inner[i] = w.scope[i]
  BY <1>1, AppendIs, ZenonT(60)
<1> HIDE DEF us
<1>4. PICK v \in Stances : v = Widen(w, added) /\ Wider(w, added, v) /\ Onward(w, v)
                           /\ v.facts = Lifted(w, added) /\ Len(v.frames) = Len(fs) + 1
                           /\ (\A i \in 1 .. Len(fs) : v.frames[i] = us[i])
                           /\ FrameIs(v.frames[Len(fs) + 1], inner, Len(fs) + 1)
  BY <1>1, <1>3, WidenShape DEF Wider, us
<1>5. Len(fs) = Len(w.scope) + 1 /\ v.scope = inner /\ v.lines = w.lines /\ v.letters = w.letters
  BY <1>1, <1>3, <1>4 DEF Framed, Wider
<1>6. Framed(v.frames, inner)
  <2>1. \A k \in 0 .. Len(w.scope) : SubSeq(inner, 1, k) = SubSeq(w.scope, 1, k)
    <3>1. ASSUME NEW k \in 0 .. Len(w.scope) PROVE SubSeq(inner, 1, k) = SubSeq(w.scope, 1, k)
      <4>1. k \in Nat /\ k <= Len(inner) /\ k <= Len(w.scope) /\ \A i \in 1 .. k : inner[i] = w.scope[i]
        BY <1>3
      <4> QED
        BY <1>1, <1>3, <4>1, SameFirsts DEF Scopes
    <3> QED
      BY <3>1
  <2>2. ASSUME NEW i \in 1 .. Len(us) PROVE FrameIs(v.frames[i], inner, i)
    <3>1. FrameIs(us[i], w.scope, i)
      BY <1>2 DEF Framed
    <3>2. i - 1 \in 0 .. Len(w.scope) /\ (i > 1 => inner[i - 1] = w.scope[i - 1])
      BY <1>1, <1>2, <1>3, <1>5
    <3>3. v.frames[i] = us[i]
      BY <1>2, <1>4
    <3> QED
      BY <2>1, <3>1, <3>2, <3>3 DEF FrameIs
  <2>3. Len(v.frames) = Len(inner) + 1
    BY <1>1, <1>3, <1>4, <1>5
  <2>4. \A i \in 1 .. Len(v.frames) : i \in 1 .. Len(us) \/ i = Len(fs) + 1
    BY <1>1, <1>2, <1>4
  <2> QED
    BY <1>4, <2>2, <2>3, <2>4 DEF Framed
<1>7. AllAt(v.facts, inner)
  BY <1>1, <1>3, <1>4, LiftedIs
<1>8. IsPrefix(w.scope, inner) /\ IsPrefix(inner, inner)
  BY <1>1, <1>3, PrefixOfAppend
<1>9. Lettered(v.letters, Len(v.letters), inner)
  <2>1. ASSUME NEW i \in 1 .. Len(w.letters) PROVE w.letters[i].under = w.letters[i].at /\ IsPrefix(w.letters[i].at, inner)
    <3>1. w.letters[i] \in LetterSet
      BY ElementOfSeq, StanceIs
    <3>2. w.letters[i].at \in Scopes
      BY <3>1 DEF LetterSet
    <3>3. w.letters[i].under = w.letters[i].at /\ IsPrefix(w.letters[i].at, w.scope)
      BY DEF Sound, Viewed, Lettered
    <3> QED
      BY <1>1, <1>3, <1>8, <3>2, <3>3, PrefixThrough
  <2> QED
    BY <1>5, <2>1 DEF Lettered
<1>10. Inscribed(v.frames, inner, v.facts, w.lines, R, n)
  <2> SUFFICES ASSUME NEW label \in DOMAIN R
               PROVE  /\ Numbered(label, n) /\ label \in DOMAIN w.lines
                      /\ InscribedLine(v.frames, inner, v.facts, w.lines[label], R[label])
    BY DEF Inscribed
  <2>1. /\ Numbered(label, n) /\ label \in DOMAIN w.lines
        /\ InscribedLine(fs, w.scope, w.facts, w.lines[label], R[label])
    BY DEF Sound, Viewed, Inscribed
  <2>2. PICK line : line = w.lines[label]
    OBVIOUS
  <2>3. line \in LineSet
    <3>1. w.lines \in Maps(Labels, LineSet)
      BY StanceIs DEF Lines
    <3> QED
      BY <2>1, <2>2, <3>1, MapIs
  <2>4. Len(line.under) \in Nat
    BY <2>3 DEF LineSet, Scopes
  <2>5. Len(line.under) <= Len(inner)
    BY <1>3, <2>1, <2>2, <2>4 DEF InscribedLine
  <2>6. ASSUME NEW i \in 1 .. Len(inner), line.under = v.frames[i].scope PROVE line.claim \in DOMAIN v.frames[i].known
    <3>1. i \in 1 .. Len(us) /\ v.frames[i] = us[i]
      BY <1>2, <1>3, <1>4, <1>5
    <3>2. CASE i = Len(us)
      BY <1>2, <2>1, <2>2, <3>1, <3>2 DEF InscribedLine
    <3>3. CASE i < Len(us)
      <4>1. us[i] = fs[i] /\ i \in 1 .. Len(w.scope)
        BY <1>2, <1>3, <1>5, <3>1, <3>3 DEF Deeper
      <4> QED
        BY <2>1, <2>2, <2>6, <3>1, <4>1 DEF InscribedLine
    <3> QED
      BY <1>2, <3>1, <3>2, <3>3
  <2>7. line.claim \in DOMAIN v.facts /\ Plain(line.claim) = R[label]
    BY <1>4, <2>1, <2>2 DEF InscribedLine, Wider
  <2> QED
    BY <2>1, <2>2, <2>5, <2>6, <2>7 DEF InscribedLine
<1>11. Len(v.letters) <= Len(v.letters)
  BY StanceIs
<1>12. Sound(v, R, n)
  BY <1>5, <1>6, <1>7, <1>8, <1>9, <1>10, <1>11 DEF Sound, Viewed
<1> QED
  BY <1>4, <1>12

\* What is known at a scope is known there from wherever the frames around it
\* and its letters are the same.
LEMMA ViewedAs ==
  ASSUME NEW w, NEW v, NEW at \in Scopes, NEW known, NEW ls, NEW k \in Nat, NEW R, NEW n \in Int, NEW n1 \in Int,
         n <= n1, Viewed(w, at, known, ls, k, R, n),
         IsPrefix(at, v.scope), \A i \in 1 .. Len(at) : v.frames[i] = w.frames[i],
         k <= Len(v.letters), \A i \in 1 .. k : v.letters[i] = w.letters[i]
  PROVE  Viewed(v, at, known, ls, k, R, n1)
<1>1. Lettered(v.letters, k, at)
  BY DEF Viewed, Lettered
<1>2. Inscribed(v.frames, at, known, ls, R, n1)
  <2> SUFFICES ASSUME NEW label \in DOMAIN R
               PROVE  /\ Numbered(label, n1) /\ label \in DOMAIN ls
                      /\ InscribedLine(v.frames, at, known, ls[label], R[label])
    BY DEF Inscribed
  <2>1. /\ Numbered(label, n) /\ label \in DOMAIN ls
        /\ InscribedLine(w.frames, at, known, ls[label], R[label])
    BY DEF Viewed, Inscribed
  <2>2. Numbered(label, n1)
    BY <2>1 DEF Numbered
  <2>3. InscribedLine(v.frames, at, known, ls[label], R[label])
    BY <2>1 DEF InscribedLine
  <2> QED
    BY <2>1, <2>2, <2>3
<1> QED
  BY <1>1, <1>2 DEF Viewed

\* Every frame but the innermost stands under a narrower scope.
LEMMA FramesNarrower ==
  ASSUME NEW w \in Stances, Framed(w.frames, w.scope)
  PROVE  \A i \in 1 .. Len(w.scope) : w.frames[i].scope # w.scope
<1>1. Len(w.frames) = Len(w.scope) + 1 /\ Len(w.scope) \in Nat /\ w.scope \in Scopes
  BY StanceIs DEF Framed
<1> SUFFICES ASSUME NEW i \in 1 .. Len(w.scope) PROVE w.frames[i].scope # w.scope
  OBVIOUS
<1>2. i \in 1 .. Len(w.frames) /\ i - 1 \in 0 .. Len(w.scope)
  BY <1>1
<1>3. w.frames[i].scope = SubSeq(w.scope, 1, i - 1)
  BY <1>2 DEF Framed, FrameIs
<1>4. Len(SubSeq(w.scope, 1, i - 1)) = i - 1
  BY <1>1, <1>2, FirstsAre DEF Scopes
<1> QED
  BY <1>1, <1>3, <1>4

\* A line written under the scope it is written in.
LEMMA WriteIs ==
  ASSUME NEW w \in Stances, NEW v \in Stances, NEW R, NEW R1, NEW n \in Int, NEW n1 \in Int, n <= n1, Sound(w, R, n),
         v.frames = w.frames, v.scope = w.scope, v.letters = w.letters,
         AllAt(v.facts, v.scope), DOMAIN w.facts \subseteq DOMAIN v.facts,
         NEW label, Numbered(label, n1), DOMAIN R1 = DOMAIN R \cup {label},
         \A l \in DOMAIN R : l # label => R1[l] = R[l] /\ l \in DOMAIN v.lines /\ v.lines[l] = w.lines[l],
         label \in DOMAIN v.lines, v.lines[label].claim \in DOMAIN v.facts, R1[label] = Plain(v.lines[label].claim),
         v.lines[label].under = v.scope
  PROVE  Sound(v, R1, n1)
<1>1. /\ Framed(w.frames, w.scope) /\ Len(w.frames) = Len(w.scope) + 1 /\ Len(w.scope) \in Nat
      /\ w.scope \in Scopes
  BY StanceIs DEF Sound, Framed
<1>2. Inscribed(v.frames, v.scope, v.facts, v.lines, R1, n1)
  <2> SUFFICES ASSUME NEW l \in DOMAIN R1
               PROVE  /\ Numbered(l, n1) /\ l \in DOMAIN v.lines
                      /\ InscribedLine(v.frames, v.scope, v.facts, v.lines[l], R1[l])
    BY DEF Inscribed
  <2>1. CASE l = label
    <3>1. \A i \in 1 .. Len(v.scope) : v.frames[i].scope # v.scope
      BY <1>1, FramesNarrower
    <3>2. Len(v.scope) <= Len(v.scope)
      BY <1>1
    <3> QED
      BY <2>1, <3>1, <3>2 DEF InscribedLine
  <2>2. CASE l # label
    <3>1. l \in DOMAIN R /\ R1[l] = R[l] /\ l \in DOMAIN v.lines /\ v.lines[l] = w.lines[l]
      BY <2>2
    <3>2. Numbered(l, n) /\ InscribedLine(w.frames, w.scope, w.facts, w.lines[l], R[l])
      BY <3>1 DEF Sound, Viewed, Inscribed
    <3>3. Numbered(l, n1)
      BY <3>2 DEF Numbered
    <3>4. InscribedLine(v.frames, v.scope, v.facts, v.lines[l], R1[l])
      BY <3>1, <3>2 DEF InscribedLine
    <3> QED
      BY <3>1, <3>3, <3>4
  <2> QED
    BY <2>1, <2>2
<1>3. Viewed(v, v.scope, v.facts, v.lines, Len(v.letters), R1, n1)
  BY <1>2 DEF Viewed, Sound
<1> QED
  BY <1>1, <1>3 DEF Sound

\* Nothing else tells whether what is known is as it is said.
LEMMA SoundAlike ==
  ASSUME NEW w, NEW v, NEW R, NEW n, Sound(w, R, n),
         v.frames = w.frames, v.scope = w.scope, v.letters = w.letters, v.facts = w.facts, v.lines = w.lines
  PROVE  Sound(v, R, n)
  BY DEF Sound, Viewed

\* A letter is introduced under the scope of its let.
LEMMA LetterIs ==
  ASSUME NEW w \in Stances, NEW R, NEW n, Sound(w, R, n), NEW letter \in Nat, NEW v,
         v = [w EXCEPT !.letters = Append(@, [letter |-> letter, at |-> w.scope, under |-> w.scope])]
  PROVE  Sound(v, R, n) /\ Onward(w, v) /\ v \in Stances
<1> DEFINE e == [letter |-> letter, at |-> w.scope, under |-> w.scope]
           lts == Append(w.letters, e)
<1>1. e \in LetterSet /\ e.at = w.scope /\ e.under = w.scope
  BY StanceIs DEF LetterSet
<1>2. v = [w EXCEPT !.letters = lts]
  OBVIOUS
<1> HIDE DEF e
<1>3. /\ lts \in Seq(LetterSet) /\ Len(lts) = Len(w.letters) + 1 /\ Len(w.letters) \in Nat
      /\ \A i \in 1 .. Len(w.letters) : lts[i] = w.letters[i]
      /\ lts[Len(w.letters) + 1] = e
  BY <1>1, StanceIs, AppendsIs
<1> HIDE DEF lts
<1>4. /\ v \in Stances /\ v.letters = lts /\ v.frames = w.frames /\ v.scope = w.scope /\ v.facts = w.facts
      /\ v.lines = w.lines
  BY <1>2, <1>3 DEF Stances
<1>5. IsPrefix(w.scope, w.scope)
  BY StanceIs, PrefixIs
<1>6. Onward(w, v)
  <2>1. Deeper(w.frames, w.frames)
    BY StanceIs DEF Deeper
  <2> QED
    BY <1>3, <1>4, <1>5, <2>1 DEF Onward
<1>7. Lettered(lts, Len(lts), w.scope)
  <2>1. Lettered(w.letters, Len(w.letters), w.scope)
    BY DEF Sound, Viewed
  <2> QED
    BY <1>1, <1>3, <1>5, <2>1 DEF Lettered
<1>8. Len(v.letters) <= Len(v.letters)
  BY <1>3, <1>4
<1>9. Sound(v, R, n)
  BY <1>4, <1>5, <1>7, <1>8 DEF Sound, Viewed
<1> QED
  BY <1>4, <1>6, <1>9

(***************************************************************************)
(* General lines read at a letter, and openers laid down                   *)
(***************************************************************************)

\* A line's claim said at a letter is read as the line.
LEMMA SaidIs ==
  ASSUME NEW c \in Saids, c[1] = "line"
  PROVE  c = <<"line", c[2]>> /\ c[2] \in Nat /\ \A m \in Nat : <<"at", c[2], m>> \in Saids /\ Plain(<<"at", c[2], m>>) = c
<1>1. c \in {"line"} \X Nat
  BY DEF Saids
<1>2. c = <<"line", c[2]>> /\ c[2] \in Nat
  BY <1>1
<1>3. \A m \in Nat : <<"at", c[2], m>> \in Saids
  BY <1>2 DEF Saids
<1>4. \A m \in Nat : Plain(<<"at", c[2], m>>) = <<"line", c[2]>>
  BY DEF Plain
<1> QED
  BY <1>2, <1>3, <1>4

\* The lines read at a letter, and what is known of them.
LEMMA ReadAtLettersSays ==
  ASSUME NEW w \in Stances, NEW R, NEW n, Sound(w, R, n), ReadAtLetters(w) # w
  PROVE  \E F \in KnownSet, M \in Lines :
           /\ ReadAtLetters(w) = [w EXCEPT !.facts = Over(F, @), !.lines = Over(M, @)]
           /\ AllAt(F, w.scope)
           /\ DOMAIN M = General(w)
           /\ \A l \in General(w) : /\ M[l].claim \in DOMAIN F /\ M[l].under = w.scope
                                    /\ Plain(M[l].claim) = w.lines[l].claim /\ w.lines[l].claim[1] = "line"
<1> DEFINE x == w.letters[1]
           required == LiftedTo(x.under, x.at, w.scope)
           Both(claim) == <<"at", claim[2], x.letter>>
           Together(claim) == IF w.facts[claim] = w.scope THEN required ELSE Misfit
           said == {w.lines[l].claim : l \in General(w)}
           F == [c \in {Both(claim) : claim \in said} |-> Together(<<"line", c[2]>>)]
           M == [l \in General(w) |-> [w.lines[l] EXCEPT !.claim = Both(w.lines[l].claim), !.under = Together(w.lines[l].claim)]]
<1>0. /\ Len(w.letters) = 1 /\ required # Misfit
      /\ ReadAtLetters(w) = [w EXCEPT !.facts = Over(F, @), !.lines = Over(M, @)]
  BY DEF ReadAtLetters
<1>1. /\ w.scope \in Scopes /\ w.facts \in KnownSet /\ w.lines \in Lines
      /\ x \in LetterSet /\ x.letter \in Nat /\ x.under = x.at /\ IsPrefix(x.at, w.scope)
  <2>1. x \in LetterSet
    BY <1>0, ElementOfSeq, StanceIs
  <2>2. x.under = x.at /\ IsPrefix(x.at, w.scope)
    BY <1>0 DEF Sound, Viewed, Lettered
  <2> QED
    BY <2>1, <2>2, StanceIs DEF LetterSet
<1>2. required = w.scope
  BY <1>1 DEF LiftedTo
<1>4. \A l \in General(w) : /\ l \in DOMAIN w.lines /\ w.lines[l] \in LineSet /\ w.lines[l].claim \in Saids
                            /\ w.lines[l].claim[1] = "line" /\ w.lines[l].claim \in DOMAIN w.facts
  <2>1. ASSUME NEW l \in General(w)
        PROVE /\ l \in DOMAIN w.lines /\ w.lines[l] \in LineSet /\ w.lines[l].claim[1] = "line"
              /\ w.lines[l].claim \in DOMAIN w.facts
    <3>1. l \in DOMAIN w.lines /\ w.lines[l].claim[1] = "line" /\ w.lines[l].claim \in DOMAIN w.facts
      BY DEF General
    <3>2. w.lines[l] \in LineSet
      BY <1>1, <3>1, MapIs DEF Lines
    <3> QED
      BY <3>1, <3>2
  <2> QED
    BY <2>1 DEF LineSet
<1>5. AllAt(w.facts, w.scope)
  BY DEF Sound, Viewed
<1>6. \A l \in General(w) : Together(w.lines[l].claim) = w.scope
  BY <1>2, <1>4, <1>5 DEF AllAt
<1> HIDE DEF x, required
<1>7. ASSUME NEW c \in {Both(claim) : claim \in said}
      PROVE  c \in Saids /\ F[c] = w.scope
  <2>1. PICK l \in General(w) : c = Both(w.lines[l].claim)
    OBVIOUS
  <2>2. w.lines[l].claim = <<"line", w.lines[l].claim[2]>> /\ c \in Saids
    BY <1>1, <1>4, <2>1, SaidIs
  <2>3. c[2] = w.lines[l].claim[2]
    BY <2>1
  <2>4. F[c] = Together(<<"line", c[2]>>)
    OBVIOUS
  <2> QED
    BY <1>6, <2>2, <2>3, <2>4
<1>8. F \in KnownSet /\ AllAt(F, w.scope)
  <2>1. DOMAIN F = {Both(claim) : claim \in said} /\ F = [c \in DOMAIN F |-> F[c]]
    OBVIOUS
  <2> HIDE DEF F
  <2>2. DOMAIN F \subseteq Saids /\ \A c \in DOMAIN F : F[c] = w.scope
    BY <1>7, <2>1
  <2> QED
    BY <1>1, <2>1, <2>2, MapsAre DEF KnownSet, AllAt
<1>9. ASSUME NEW l \in General(w)
      PROVE  /\ M[l].claim = Both(w.lines[l].claim) /\ M[l].under = w.scope /\ M[l] \in LineSet
             /\ Both(w.lines[l].claim) \in DOMAIN F /\ Plain(Both(w.lines[l].claim)) = w.lines[l].claim
  <2>1. M[l] = [w.lines[l] EXCEPT !.claim = Both(w.lines[l].claim), !.under = w.scope]
    BY <1>4, <1>6 DEF LineSet
  <2>2. Both(w.lines[l].claim) \in Saids /\ Plain(Both(w.lines[l].claim)) = w.lines[l].claim
    BY <1>1, <1>4, SaidIs
  <2>3. Both(w.lines[l].claim) \in DOMAIN F
    BY <1>4
  <2> HIDE DEF M, Both, F
  <2> QED
    BY <1>1, <1>4, <2>1, <2>2, <2>3 DEF LineSet
<1>10. M \in Lines /\ DOMAIN M = General(w)
  <2>1. M = [l \in DOMAIN M |-> M[l]] /\ DOMAIN M = General(w)
    OBVIOUS
  <2>2. General(w) \subseteq Labels
    BY <1>1, <1>4, MapIs DEF Lines
  <2> HIDE DEF M
  <2>3. \A l \in General(w) : M[l] \in LineSet
    BY <1>9
  <2> QED
    BY <2>1, <2>2, <2>3, MapsAre DEF Lines
<1> HIDE DEF F, M, Both, Together, said
<1>11. \A l \in General(w) : /\ M[l].claim \in DOMAIN F /\ M[l].under = w.scope
                             /\ Plain(M[l].claim) = w.lines[l].claim /\ w.lines[l].claim[1] = "line"
  BY <1>4, <1>9
<1> QED
  BY <1>0, <1>8, <1>10, <1>11

\* Reading the general lines at the one letter leaves all that was known
\* known.
LEMMA ReadAtLettersIs ==
  ASSUME NEW w \in Stances, NEW R, NEW n \in Int, Sound(w, R, n), NEW v, v = ReadAtLetters(w)
  PROVE  /\ v \in Stances /\ Sound(v, R, n) /\ Onward(w, v)
         /\ v.frames = w.frames /\ v.scope = w.scope /\ v.letters = w.letters /\ v.closers = w.closers
         /\ v.names = w.names /\ v.opened = w.opened /\ v.b = w.b
         /\ DOMAIN w.facts \subseteq DOMAIN v.facts
<1>0. Onward(w, w)
  <2>1. IsPrefix(w.scope, w.scope)
    BY StanceIs, PrefixIs
  <2> QED
    BY <2>1, StanceIs DEF Onward, Deeper
<1>1. CASE v = w
  BY <1>0, <1>1
<1>2. CASE v # w
  <2>0. ReadAtLetters(w) # w
    BY <1>2, SMTT(30)
  <2>1. PICK F \in KnownSet, M \in Lines :
           /\ ReadAtLetters(w) = [w EXCEPT !.facts = Over(F, @), !.lines = Over(M, @)]
           /\ AllAt(F, w.scope)
           /\ DOMAIN M = General(w)
           /\ \A l \in General(w) : /\ M[l].claim \in DOMAIN F /\ M[l].under = w.scope
                                    /\ Plain(M[l].claim) = w.lines[l].claim /\ w.lines[l].claim[1] = "line"
    BY <2>0, ReadAtLettersSays
  <2>2. w.facts \in KnownSet /\ w.lines \in Lines
    BY StanceIs
  <2>3. PICK f : f = Over(F, w.facts)
    OBVIOUS
  <2>4. PICK m : m = Over(M, w.lines)
    OBVIOUS
  <2>5. f \in KnownSet /\ m \in Lines
    BY <2>2, <2>3, <2>4, OverIn DEF KnownSet, Lines
  <2>6. /\ DOMAIN f = DOMAIN w.facts \cup DOMAIN F
        /\ \A z \in DOMAIN F : f[z] = F[z]
        /\ \A z \in DOMAIN w.facts : z \notin DOMAIN F => f[z] = w.facts[z]
    BY <2>3 DEF Over
  <2>7. /\ DOMAIN m = DOMAIN w.lines \cup DOMAIN M
        /\ \A z \in DOMAIN M : m[z] = M[z]
        /\ \A z \in DOMAIN w.lines : z \notin DOMAIN M => m[z] = w.lines[z]
    BY <2>4 DEF Over
  <2>8. v = [w EXCEPT !.facts = f, !.lines = m]
    BY <2>1, <2>3, <2>4
  <2>9. /\ v \in Stances /\ v.facts = f /\ v.lines = m
        /\ v.frames = w.frames /\ v.scope = w.scope /\ v.letters = w.letters /\ v.closers = w.closers
        /\ v.names = w.names /\ v.opened = w.opened /\ v.b = w.b
    BY <2>5, <2>8 DEF Stances
  <2>10. AllAt(f, w.scope)
    <3>1. AllAt(w.facts, w.scope)
      BY DEF Sound, Viewed
    <3> QED
      BY <2>1, <2>6, <3>1 DEF AllAt
  <2>11. Inscribed(w.frames, w.scope, f, m, R, n)
    <3> SUFFICES ASSUME NEW label \in DOMAIN R
                 PROVE  /\ Numbered(label, n) /\ label \in DOMAIN m
                        /\ InscribedLine(w.frames, w.scope, f, m[label], R[label])
      BY DEF Inscribed
    <3>1. /\ Numbered(label, n) /\ label \in DOMAIN w.lines
          /\ InscribedLine(w.frames, w.scope, w.facts, w.lines[label], R[label])
      BY DEF Sound, Viewed, Inscribed
    <3>2. CASE label \notin DOMAIN M
      <4>1. m[label] = w.lines[label] /\ label \in DOMAIN m
        BY <2>7, <3>1, <3>2
      <4> QED
        BY <2>6, <3>1, <4>1 DEF InscribedLine
    <3>3. CASE label \in DOMAIN M
      <4>1. m[label] = M[label] /\ label \in DOMAIN m /\ m[label].claim \in DOMAIN f /\ m[label].under = w.scope
        BY <2>1, <2>6, <2>7, <3>3
      <4>2. Plain(m[label].claim) = R[label]
        <5>1. Plain(m[label].claim) = w.lines[label].claim /\ w.lines[label].claim[1] = "line"
          BY <2>1, <3>3, <4>1
        <5>2. Plain(w.lines[label].claim) = w.lines[label].claim
          BY <5>1 DEF Plain
        <5> QED
          BY <3>1, <5>1, <5>2 DEF InscribedLine
      <4>3. \A i \in 1 .. Len(w.scope) : w.frames[i].scope # w.scope
        BY FramesNarrower DEF Sound
      <4>4. Len(w.scope) <= Len(w.scope)
        BY StanceIs
      <4> QED
        BY <3>1, <4>1, <4>2, <4>3, <4>4 DEF InscribedLine
    <3> QED
      BY <3>2, <3>3
  <2>12. Onward(w, v)
    BY <1>0, <2>9 DEF Onward
  <2>13. Sound(v, R, n)
    BY <2>9, <2>10, <2>11 DEF Sound, Viewed
  <2>14. DOMAIN w.facts \subseteq DOMAIN v.facts
    BY <2>6, <2>9
  <2> QED
    BY <2>9, <2>12, <2>13, <2>14
<1> QED
  BY <1>1, <1>2

\* What a line is made of.
LEMMA LineIs ==
  ASSUME NEW claim \in Saids, NEW under \in Scopes, NEW about \in Nat
  PROVE  /\ Line(claim, under, about) \in LineSet /\ Line(claim, under, about).claim = claim
         /\ Line(claim, under, about).under = under /\ Line(claim, under, about).about = about
  BY DEF Line, LineSet

\* An opener laid down stands under what it assumes.
LEMMA LayIs ==
  ASSUME NEW w \in Stances, NEW R, NEW R1, NEW n \in Int, NEW n1 \in Int, n <= n1, Sound(w, R, n),
         NEW added \in Saids, added[1] # "at", added[1] = "let" => added[2] \in Nat,
         NEW label \in Labels, Numbered(label, n1),
         DOMAIN R1 = DOMAIN R \cup {label}, R1[label] = added, \A l \in DOMAIN R : l # label => R1[l] = R[l],
         NEW v, v = Lay(w, added, label)
  PROVE  /\ v \in Stances /\ Sound(v, R1, n1) /\ Onward(w, v)
         /\ v.scope = Append(w.scope, added) /\ v.closers = w.closers
         /\ v.opened = Append(w.opened, added) /\ v.b = w.b
<1>1. PICK w1 : w1 = IF added[1] = "let" THEN [w EXCEPT !.names = @ \cup {added[2]}] ELSE w
  OBVIOUS
<1>2. /\ w1 \in Stances /\ w1.frames = w.frames /\ w1.scope = w.scope /\ w1.facts = w.facts /\ w1.lines = w.lines
      /\ w1.letters = w.letters /\ w1.closers = w.closers /\ w1.opened = w.opened /\ w1.b = w.b
  BY <1>1 DEF Stances
<1>3. Sound(w1, R, n)
  BY <1>2, SoundAlike
<1>4. PICK wider : wider = Widen(w1, added)
  OBVIOUS
<1>5. Sound(wider, R, n) /\ Wider(w1, added, wider) /\ Onward(w1, wider)
  BY <1>2, <1>3, <1>4, WidenIs
<1>6. /\ wider \in Stances /\ wider.scope = Append(w.scope, added) /\ added \in DOMAIN wider.facts
      /\ wider.facts[added] = wider.scope /\ wider.closers = w.closers /\ wider.opened = w.opened /\ wider.b = w.b
      /\ wider.scope \in Scopes
  BY <1>2, <1>5, StanceIs DEF Wider
<1>7. Onward(w, wider)
  BY <1>2, <1>5 DEF Onward
<1>8. PICK said : said = IF added[1] = "let"
                         THEN ReadAtLetters([wider EXCEPT !.letters = Append(@, [letter |-> added[2], at |-> wider.scope, under |-> wider.facts[added]])])
                         ELSE wider
  OBVIOUS
<1>9. /\ said \in Stances /\ Sound(said, R, n) /\ Onward(w, said)
      /\ said.scope = wider.scope /\ said.closers = w.closers /\ said.opened = w.opened /\ said.b = w.b
      /\ added \in DOMAIN said.facts
  <2>1. CASE added[1] # "let"
    BY <1>5, <1>6, <1>7, <1>8, <2>1
  <2>2. CASE added[1] = "let"
    <3>1. PICK letter \in Nat : letter = added[2]
      BY <2>2
    <3>2. PICK u : u = [wider EXCEPT !.letters = Append(@, [letter |-> letter, at |-> wider.scope, under |-> wider.scope])]
      OBVIOUS
    <3>3. Sound(u, R, n) /\ Onward(wider, u) /\ u \in Stances
      BY <1>5, <1>6, <3>2, LetterIs, ZenonT(60)
    <3>4. said = ReadAtLetters(u)
      BY <1>6, <1>8, <2>2, <3>1, <3>2
    <3>5. /\ said \in Stances /\ Sound(said, R, n) /\ Onward(u, said)
          /\ said.scope = u.scope /\ said.closers = u.closers /\ said.opened = u.opened /\ said.b = u.b
          /\ DOMAIN u.facts \subseteq DOMAIN said.facts
      BY <3>3, <3>4, ReadAtLettersIs
    <3>6. Onward(w, said)
      BY <1>6, <1>7, <3>3, <3>5, OnwardThrough
    <3>7. u.scope = wider.scope /\ u.closers = wider.closers /\ u.opened = wider.opened /\ u.b = wider.b /\ u.facts = wider.facts
      BY <1>6, <3>2 DEF Stances
    <3>8. added \in DOMAIN said.facts
      BY <1>6, <3>5, <3>7
    <3> QED
      BY <1>6, <3>5, <3>6, <3>7, <3>8
  <2> QED
    BY <2>1, <2>2
<1>10. PICK ls : ls = With(said.lines, label, Line(added, wider.scope, 0))
  OBVIOUS
<1>11. PICK op : op = Append(said.opened, added)
  OBVIOUS
<1>12. v = [said EXCEPT !.lines = ls, !.opened = op]
  <2>1. v = [said EXCEPT !.lines = With(@, label, Line(added, wider.facts[added], 0)), !.opened = Append(@, added)]
    BY <1>1, <1>4, <1>8 DEF Lay
  <2> QED
    BY <1>6, <1>10, <1>11, <2>1
<1>13. said.lines \in Lines /\ said.opened \in Scopes /\ said.facts \in KnownSet
  BY <1>9 DEF Stances
<1>14. /\ Line(added, wider.scope, 0) \in LineSet /\ Line(added, wider.scope, 0).claim = added
       /\ Line(added, wider.scope, 0).under = wider.scope
  <2>1. PICK s \in Scopes : s = wider.scope
    BY <1>6
  <2>2. /\ Line(added, s, 0) \in LineSet /\ Line(added, s, 0).claim = added /\ Line(added, s, 0).under = s
    BY LineIs
  <2> QED
    BY <2>1, <2>2
<1>15. /\ ls \in Lines /\ DOMAIN ls = DOMAIN said.lines \cup {label}
       /\ ls[label] = Line(added, wider.scope, 0)
       /\ \A l \in DOMAIN said.lines : l # label => ls[l] = said.lines[l]
  <2>1. ls \in Lines
    BY <1>10, <1>13, <1>14, WithIn DEF Lines
  <2>2. PICK e : e = Line(added, wider.scope, 0)
    OBVIOUS
  <2>3. ls = With(said.lines, label, e)
    BY <1>10, <2>2
  <2>4. /\ DOMAIN ls = DOMAIN said.lines \cup {label} /\ ls[label] = e
        /\ \A l \in DOMAIN said.lines : l # label => ls[l] = said.lines[l]
    BY <2>3 DEF With
  <2> QED
    BY <2>1, <2>2, <2>4
<1>16. op \in Scopes
  BY <1>11, <1>13, AppendIs
<1>17. /\ v \in Stances /\ v.lines = ls /\ v.opened = op
       /\ v.frames = said.frames /\ v.scope = said.scope /\ v.facts = said.facts /\ v.letters = said.letters
       /\ v.closers = said.closers /\ v.b = said.b
  BY <1>9, <1>12, <1>15, <1>16 DEF Stances
<1>18. Onward(w, v)
  BY <1>9, <1>17 DEF Onward
<1>19. \A l \in DOMAIN R : l # label => R1[l] = R[l] /\ l \in DOMAIN v.lines /\ v.lines[l] = said.lines[l]
  <2>1. \A l \in DOMAIN R : l \in DOMAIN said.lines
    BY <1>9 DEF Sound, Viewed, Inscribed
  <2> QED
    BY <1>15, <1>17, <2>1
<1>20. AllAt(v.facts, v.scope) /\ DOMAIN said.facts \subseteq DOMAIN v.facts
  BY <1>9, <1>17 DEF Sound, Viewed
<1>21. label \in DOMAIN v.lines /\ v.lines[label].claim \in DOMAIN v.facts /\ v.lines[label].under = v.scope
  BY <1>9, <1>14, <1>15, <1>17
<1>22. R1[label] = Plain(v.lines[label].claim)
  BY <1>14, <1>15, <1>17 DEF Plain
<1>23. Sound(v, R1, n1)
  BY <1>9, <1>17, <1>19, <1>20, <1>21, <1>22, WriteIs
<1>24. v.scope = Append(w.scope, added) /\ v.closers = w.closers /\ v.opened = Append(w.opened, added) /\ v.b = w.b
  BY <1>6, <1>9, <1>11, <1>17
<1> QED
  BY <1>17, <1>18, <1>23, <1>24

(***************************************************************************)
(* Blocks in blocks                                                        *)
(***************************************************************************)

\* Closers lead on the same while those that do are the same.
LEMMA ClosingSame ==
  ASSUME NEW cls, NEW cls1, NEW from, NEW low \in Nat, NEW number, NEW v, v.closers \in Nat, v.closers <= Len(cls1),
         \A i \in 1 .. v.closers : cls1[i] = cls[i], Closing(cls, from, low, number, v)
  PROVE  Closing(cls1, from, low, number, v)
<1>1. PICK high \in Nat : high = v.closers
  OBVIOUS
<1>2. \A i \in low .. high : Reach(cls1, from, low, i) = Reach(cls, from, low, i)
  BY <1>1 DEF Reach
<1>3. Leads(cls, from, v.scope, low, high) /\ Later(cls, low, high, number) /\ high <= Len(cls1)
  BY <1>1 DEF Closing
<1>4. low <= high /\ low \in low .. high /\ high \in low .. high
  BY <1>3 DEF Leads
<1>5. \A i \in low + 1 .. high : i \in 1 .. high /\ i - 1 \in low .. high
  BY <1>1
<1>6. \A i \in low + 1 .. high : cls1[i] = cls[i]
  BY <1>1, <1>5
<1>7. Leads(cls1, from, v.scope, low, high)
  BY <1>2, <1>3, <1>4, <1>5, <1>6 DEF Leads
<1>8. Later(cls1, low, high, number)
  BY <1>3, <1>6 DEF Later
<1> QED
  BY <1>1, <1>7, <1>8 DEF Closing

\* A block as it stands in the ones around it.
Same(b, c) ==
  /\ c.by = b.by /\ c.number = b.number /\ c.part = b.part /\ c.against = b.against
  /\ c.outer = b.outer /\ c.outside = b.outside /\ c.lines = b.lines
  /\ c.lettersAt = b.lettersAt /\ c.openedAt = b.openedAt

\* What is kept of where a block was opened.
LEMMA BlockIs ==
  ASSUME NEW b \in BlockSet
  PROVE  /\ b.number \in Nat /\ b.lettersAt \in Nat /\ b.openedAt \in Nat /\ b.frame \in Nat
         /\ b.outer \in Scopes /\ b.outside \in KnownSet /\ b.lines \in Lines /\ b.opened \in Scopes
         /\ b.about \in Nat /\ b.named \in SUBSET Nat
  BY DEF BlockSet

\* Each of the open blocks is a block.
LEMMA BlocksAre ==
  ASSUME NEW bs \in Seq(BlockSet)
  PROVE  Len(bs) \in Nat /\ DOMAIN bs = 1 .. Len(bs) /\ \A d \in 1 .. Len(bs) : bs[d] \in BlockSet
  BY LenProperties, ElementOfSeq

\* A step in the innermost block, or in none.
StepsOn(w, v, bs, bs1, rd, rd1, n, n1, k) ==
  /\ bs \in Seq(BlockSet) /\ bs1 \in Seq(BlockSet) /\ rd \in Seq(Readings) /\ rd1 \in Seq(Readings)
  /\ n \in Nat /\ n1 \in Nat /\ k \in Nat
  /\ Stacked(w, bs, rd, n)
  /\ k = Len(bs) /\ Len(bs1) = k /\ Len(rd1) = k + 1
  /\ \A d \in 1 .. k : rd1[d] = rd[d]
  /\ \A d \in 1 .. k - 1 : bs1[d] = bs[d]
  /\ k > 0 => /\ Same(bs[k], bs1[k]) /\ Shaped(bs1[k], ReadingAt(rd, k))
              /\ Goes(bs1[k], ReadingAt(rd, k), ViewNow(v, n1))
              /\ Beneath(bs1[k], ViewNow(v, n1))
  /\ Closing(v.closers, From(bs1, k), Low(bs1, k), Since(bs1, k), ViewNow(v, n1))
  /\ \A d \in 1 .. k : Around(v, bs[d], ReadingAt(rd, d))
  /\ \A d \in 1 .. k - 1 : Beneath(bs[d], ViewNow(v, n1))
  /\ Low(bs1, k) <= Len(v.closers)
  /\ \A i \in 1 .. Low(bs1, k) : v.closers[i] = w.closers[i]
  /\ Len(v.closers) \in Nat

\* After a step in the innermost block, every block still stands where it
\* was opened.
LEMMA StackStep ==
  ASSUME NEW w, NEW v, NEW bs, NEW bs1, NEW rd, NEW rd1, NEW n, NEW n1, NEW k,
         StepsOn(w, v, bs, bs1, rd, rd1, n, n1, k)
  PROVE  Stacked(v, bs1, rd1, n1)
<1> SUFFICES ASSUME bs \in Seq(BlockSet), bs1 \in Seq(BlockSet), rd \in Seq(Readings), rd1 \in Seq(Readings),
         n \in Nat, n1 \in Nat, k \in Nat, Stacked(w, bs, rd, n),
         k = Len(bs), Len(bs1) = k, Len(rd1) = k + 1,
         \A d \in 1 .. k : rd1[d] = rd[d], \A d \in 1 .. k - 1 : bs1[d] = bs[d],
         k > 0 => /\ Same(bs[k], bs1[k]) /\ Shaped(bs1[k], ReadingAt(rd, k))
                  /\ Goes(bs1[k], ReadingAt(rd, k), ViewNow(v, n1))
                  /\ Beneath(bs1[k], ViewNow(v, n1)),
         Closing(v.closers, From(bs1, k), Low(bs1, k), Since(bs1, k), ViewNow(v, n1)),
         \A d \in 1 .. k : Around(v, bs[d], ReadingAt(rd, d)),
         \A d \in 1 .. k - 1 : Beneath(bs[d], ViewNow(v, n1)),
         Low(bs1, k) <= Len(v.closers), \A i \in 1 .. Low(bs1, k) : v.closers[i] = w.closers[i],
         Len(v.closers) \in Nat
             PROVE Stacked(v, bs1, rd1, n1)
  BY DEF StepsOn
<1>1. /\ \A d \in 1 .. k : bs[d] \in BlockSet /\ bs1[d] \in BlockSet
      /\ DOMAIN bs = 1 .. k /\ DOMAIN bs1 = 1 .. k
  BY BlocksAre
<1>2. \A d \in 1 .. k : Same(bs[d], bs1[d])
  <2>1. \A d \in 1 .. k - 1 : Same(bs[d], bs1[d])
    BY DEF Same
  <2>2. k > 0 => Same(bs[k], bs1[k])
    OBVIOUS
  <2> QED
    BY <2>1, <2>2
<1>3. \A d \in 1 .. k : ViewOf(bs1[d]) = ViewOf(bs[d])
  BY <1>2 DEF Same, ViewOf
<1>4. \A d \in 1 .. k : ViewAt(v, bs1, n1, d) = ViewOf(bs[d]) /\ ViewAt(w, bs, n, d) = ViewOf(bs[d])
  BY <1>1, <1>3 DEF ViewAt
<1>5. ViewAt(v, bs1, n1, k + 1) = ViewNow(v, n1)
  BY <1>1 DEF ViewAt
<1>6. \A d \in 1 .. k : ReadingAt(rd1, d) = ReadingAt(rd, d)
  <2>1. ASSUME NEW d \in 1 .. k PROVE ReadingAt(rd1, d) = ReadingAt(rd, d)
    <3>1. d \in Nat /\ d <= Len(rd) /\ d <= Len(rd1) /\ \A i \in 1 .. d : rd1[i] = rd[i]
      BY DEF Stacked
    <3> QED
      BY <3>1, ReadingAtSame
  <2> QED
    BY <2>1
<1>7. ASSUME NEW d \in 0 .. k
      PROVE  Closing(v.closers, From(bs1, d), Low(bs1, d), Since(bs1, d), ViewAt(v, bs1, n1, d + 1))
  <2>1. CASE d = k
    BY <1>5, <2>1
  <2>2. CASE d < k
    <3>1. d + 1 \in 1 .. k /\ (d > 0 => d \in 1 .. k - 1)
      BY <2>2
    <3>2. PICK view : view = ViewOf(bs[d + 1])
      OBVIOUS
    <3>3. view = ViewAt(w, bs, n, d + 1) /\ view = ViewAt(v, bs1, n1, d + 1)
      BY <1>4, <3>1, <3>2
    <3>4. Closing(w.closers, From(bs, d), Low(bs, d), Since(bs, d), view)
      BY <3>3 DEF Stacked
    <3>5. From(bs1, d) = From(bs, d) /\ Low(bs1, d) = Low(bs, d) /\ Since(bs1, d) = Since(bs, d)
      BY <3>1 DEF From, Low, Since
    <3>6. view.closers = bs[d + 1].openedAt /\ view.closers \in Nat
      BY <1>1, <3>1, <3>2, BlockIs DEF ViewOf
    <3>7. Low(bs1, k) = bs[k].openedAt /\ k \in 1 .. k
      BY <1>2, <2>2 DEF Low, Same
    <3>8. view.closers <= Low(bs1, k)
      <4>1. CASE d + 1 = k
        BY <1>1, <3>6, <3>7, <4>1
      <4>2. CASE d + 1 < k
        <5>1. Beneath(bs[d + 1], ViewAt(w, bs, n, k))
          <6>1. d + 1 \in 1 .. Len(bs) /\ k \in (d + 1) + 1 .. Len(bs) + 1
            BY <3>1, <4>2
          <6> QED
            BY <6>1 DEF Stacked
        <5>2. Beneath(bs[d + 1], ViewOf(bs[k]))
          BY <1>4, <3>7, <5>1
        <5> QED
          BY <3>6, <3>7, <5>2 DEF Beneath, ViewOf
      <4> QED
        BY <3>1, <4>1, <4>2
    <3>9. Low(bs1, k) \in Nat
      BY <1>1, <3>7, BlockIs
    <3>10. view.closers <= Len(v.closers) /\ \A i \in 1 .. view.closers : v.closers[i] = w.closers[i]
      BY <3>6, <3>8, <3>9, SMTT(30)
    <3>11. Low(bs, d) \in Nat
      BY <1>1, <3>1, BlockIs DEF Low
    <3>12. Closing(v.closers, From(bs, d), Low(bs, d), Since(bs, d), view)
      BY <3>4, <3>6, <3>10, <3>11, ClosingSame
    <3> QED
      BY <3>3, <3>5, <3>12
  <2> QED
    BY <2>1, <2>2
<1>8. ASSUME NEW d \in 1 .. k
      PROVE  /\ Around(v, bs1[d], ReadingAt(rd1, d))
             /\ Shaped(bs1[d], ReadingAt(rd1, d))
             /\ Placed(bs1, d)
             /\ Goes(bs1[d], ReadingAt(rd1, d), ViewAt(v, bs1, n1, d + 1))
             /\ \A e \in d + 1 .. k + 1 : Beneath(bs1[d], ViewAt(v, bs1, n1, e))
  <2>1. /\ Shaped(bs[d], ReadingAt(rd, d)) /\ Placed(bs, d)
        /\ Goes(bs[d], ReadingAt(rd, d), ViewAt(w, bs, n, d + 1))
        /\ \A e \in d + 1 .. k + 1 : Beneath(bs[d], ViewAt(w, bs, n, e))
    BY DEF Stacked
  <2>2. Around(v, bs1[d], ReadingAt(rd1, d))
    <3>1. Around(v, bs[d], ReadingAt(rd, d))
      OBVIOUS
    <3> QED
      BY <1>2, <1>6, <3>1 DEF Around, Same
  <2>3. Shaped(bs1[d], ReadingAt(rd1, d))
    <3>1. CASE d = k
      BY <1>6, <3>1
    <3>2. CASE d # k
      <4>1. bs1[d] = bs[d]
        BY <3>2
      <4> QED
        BY <1>6, <2>1, <4>1
    <3> QED
      BY <3>1, <3>2
  <2>4. Placed(bs1, d)
    <3>1. d > 1 => bs1[d - 1] = bs[d - 1]
      OBVIOUS
    <3>2. d < k => bs1[d] = bs[d]
      OBVIOUS
    <3>3. bs1[d].part = bs[d].part /\ bs1[d].against = bs[d].against
      BY <1>2 DEF Same
    <3> QED
      BY <2>1, <3>1, <3>2, <3>3 DEF Placed
  <2>5. Goes(bs1[d], ReadingAt(rd1, d), ViewAt(v, bs1, n1, d + 1))
    <3>1. CASE d = k
      BY <1>5, <1>6, <3>1
    <3>2. CASE d # k
      <4>1. bs1[d] = bs[d] /\ d + 1 \in 1 .. k
        BY <3>2
      <4> QED
        BY <1>4, <1>6, <2>1, <4>1
    <3> QED
      BY <3>1, <3>2
  <2>6. ASSUME NEW e \in d + 1 .. k + 1 PROVE Beneath(bs1[d], ViewAt(v, bs1, n1, e))
    <3>1. CASE e = k + 1 /\ d = k
      BY <1>5, <3>1
    <3>2. CASE e = k + 1 /\ d # k
      <4>1. bs1[d] = bs[d] /\ d \in 1 .. k - 1
        BY <3>2
      <4>2. Beneath(bs[d], ViewNow(v, n1))
        BY <4>1
      <4> QED
        BY <1>5, <3>2, <4>1, <4>2
    <3>3. CASE e # k + 1
      <4>0. e <= k /\ d + 1 <= e /\ 1 <= d /\ d \in Int /\ e \in Int
        BY <3>3
      <4>1. bs1[d] = bs[d] /\ e \in 1 .. k
        <5>1. d \in 1 .. k - 1 /\ e \in 1 .. k
          BY <4>0
        <5> QED
          BY <5>1
      <4>2. ViewAt(v, bs1, n1, e) = ViewAt(w, bs, n, e)
        BY <1>4, <4>1
      <4>3. Beneath(bs[d], ViewAt(w, bs, n, e))
        BY <2>1, <2>6
      <4> QED
        BY <4>1, <4>2, <4>3
    <3> QED
      BY <3>1, <3>2, <3>3
  <2> QED
    BY <2>2, <2>3, <2>4, <2>5, <2>6
<1> QED
  BY <1>7, <1>8 DEF Stacked

\* Closers that lead to a scope, and on from it, lead all the way.
LEMMA LeadsThrough ==
  ASSUME NEW cls, NEW from, NEW mid, NEW to, NEW low \in Nat, NEW h \in Nat, NEW high \in Nat,
         Leads(cls, from, mid, low, h), Leads(cls, mid, to, h, high)
  PROVE  Leads(cls, from, to, low, high)
<1>1. low <= h /\ h <= high /\ high <= Len(cls) /\ mid = Reach(cls, from, low, h)
  BY DEF Leads
<1>2. \A i \in h .. high : Reach(cls, mid, h, i) = Reach(cls, from, low, i)
  BY <1>1 DEF Reach
<1>3. to = Reach(cls, from, low, high)
  BY <1>1, <1>2 DEF Leads
<1>4. ASSUME NEW i \in low + 1 .. high PROVE cls[i].scope = Reach(cls, from, low, i - 1)
  <2>1. CASE i <= h
    BY <2>1 DEF Leads
  <2>2. CASE i > h
    <3>1. i \in h + 1 .. high /\ i - 1 \in h .. high
      BY <2>2
    <3> QED
      BY <1>2, <3>1 DEF Leads
  <2> QED
    BY <2>1, <2>2
<1>5. low <= high
  BY <1>1
<1> QED
  BY <1>1, <1>3, <1>4, <1>5 DEF Leads

\* No closers lead from a scope to itself.
LEMMA LeadsNowhere ==
  ASSUME NEW cls, NEW at, NEW h \in Nat, h <= Len(cls)
  PROVE  Leads(cls, at, at, h, h)
  BY DEF Leads, Reach

\* A step goes on from where the page stands, in the block it stands in.
GoesOn(w, v, bs, bs1, rd, rd1, n, n1, k) ==
  /\ w \in Stances /\ v \in Stances /\ bs \in Seq(BlockSet) /\ bs1 \in Seq(BlockSet)
  /\ rd \in Seq(Readings) /\ rd1 \in Seq(Readings) /\ n \in Nat /\ n1 \in Nat /\ n <= n1
  /\ Stacked(w, bs, rd, n) /\ Framed(w.frames, w.scope) /\ Onward(w, v)
  /\ k \in Nat /\ k = Len(bs) /\ Len(bs1) = k /\ Len(rd1) = k + 1
  /\ (\A d \in 1 .. k : rd1[d] = rd[d]) /\ \A d \in 1 .. k - 1 : bs1[d] = bs[d]
  /\ k > 0 => /\ Same(bs[k], bs1[k]) /\ Shaped(bs1[k], ReadingAt(rd, k))
              /\ bs1[k].entered = bs[k].entered /\ bs1[k].opened = bs[k].opened
              /\ Parted(bs[k]) => bs[k].entered # NoPart
              /\ \A l \in DOMAIN ReadingAt(rd, k) : l \in DOMAIN w.lines =>
                   l \in DOMAIN v.lines /\ v.lines[l] = w.lines[l]
  /\ Len(v.letters) = Len(w.letters)
  /\ Len(w.closers) <= Len(v.closers) /\ \A i \in 1 .. Len(w.closers) : v.closers[i] = w.closers[i]
  /\ Leads(v.closers, w.scope, v.scope, Len(w.closers), Len(v.closers))
  /\ Later(v.closers, Len(w.closers), Len(v.closers), n)

\* A step that goes on keeps the blocks where they were opened.
LEMMA StackOnward ==
  ASSUME NEW w, NEW v, NEW bs, NEW bs1, NEW rd, NEW rd1, NEW n, NEW n1, NEW k,
         GoesOn(w, v, bs, bs1, rd, rd1, n, n1, k)
  PROVE  Stacked(v, bs1, rd1, n1)
<1> USE DEF GoesOn
<1>1. /\ \A d \in 1 .. k : bs[d] \in BlockSet /\ bs1[d] \in BlockSet
      /\ DOMAIN bs = 1 .. k
  BY BlocksAre
<1>2. /\ Len(w.closers) \in Nat /\ Len(v.closers) \in Nat /\ Len(w.letters) \in Nat
      /\ w.scope \in Scopes /\ v.scope \in Scopes
  BY StanceIs
<1>3. ViewAt(w, bs, n, k + 1) = ViewNow(w, n)
  BY <1>1 DEF ViewAt
<1>4. \A d \in 1 .. k : Beneath(bs[d], ViewNow(w, n))
  <2>1. ASSUME NEW d \in 1 .. k PROVE Beneath(bs[d], ViewNow(w, n))
    <3>1. k + 1 \in d + 1 .. k + 1
      OBVIOUS
    <3>2. Beneath(bs[d], ViewAt(w, bs, n, k + 1))
      BY <3>1 DEF Stacked
    <3> QED
      BY <1>3, <3>2
  <2> QED
    BY <2>1
<1>5. ASSUME NEW d \in 1 .. k PROVE Beneath(bs[d], ViewNow(v, n1))
  <2>1. Beneath(bs[d], ViewNow(w, n)) /\ bs[d] \in BlockSet
    BY <1>1, <1>4
  <2>2. PICK b \in BlockSet : b = bs[d]
    BY <2>1
  <2>3. b.number \in Nat /\ b.openedAt \in Nat /\ b.outer \in Scopes
    BY BlockIs
  <2>4. b.number <= n /\ b.lettersAt <= Len(w.letters) /\ b.openedAt <= Len(w.closers) /\ IsPrefix(b.outer, w.scope)
    BY <2>1, <2>2 DEF Beneath, ViewNow
  <2>5. IsPrefix(b.outer, v.scope)
    BY <1>2, <2>3, <2>4, PrefixThrough DEF Onward
  <2>6. b.number <= n1 /\ b.openedAt <= Len(v.closers) /\ b.lettersAt <= Len(v.letters)
    BY <1>2, <2>3, <2>4, SMTT(30)
  <2> QED
    BY <2>2, <2>5, <2>6 DEF Beneath, ViewNow
<1>6. ASSUME NEW d \in 1 .. k PROVE Around(v, bs[d], ReadingAt(rd, d))
  <2>1. Around(w, bs[d], ReadingAt(rd, d)) /\ Shaped(bs[d], ReadingAt(rd, d))
    BY DEF Stacked
  <2>2. PICK b \in BlockSet : b = bs[d]
    BY <1>1
  <2>3. b.number \in Nat /\ b.number > 0 /\ b.outer \in Scopes /\ b.lettersAt \in Nat
    BY <2>1, <2>2, BlockIs DEF Shaped
  <2>4. PICK m \in Nat : m = b.number - 1
    BY <2>3
  <2>5. Viewed(w, b.outer, b.outside, b.lines, b.lettersAt, ReadingAt(rd, d), m)
    BY <2>1, <2>2, <2>4 DEF Around
  <2>6. Viewed(v, b.outer, b.outside, b.lines, b.lettersAt, ReadingAt(rd, d), m)
    <3>1. PICK at \in Scopes, k1 \in Nat : at = b.outer /\ k1 = b.lettersAt
      BY <2>3
    <3>2. m \in Int /\ m <= m
      OBVIOUS
    <3>3. Viewed(w, at, b.outside, b.lines, k1, ReadingAt(rd, d), m)
      BY <2>5, <3>1
    <3>4. Viewed(v, at, b.outside, b.lines, k1, ReadingAt(rd, d), m)
      BY <3>2, <3>3, ViewedOnward
    <3> QED
      BY <3>1, <3>4
  <2> QED
    BY <2>2, <2>4, <2>6 DEF Around
<1>7. k > 0 => Low(bs1, k) = Low(bs, k) /\ Since(bs1, k) = Since(bs, k) /\ From(bs1, k) = From(bs, k)
  BY DEF Same, Low, Since, From, Base, OpensOf, Parted, CaseOf
<1>8. Low(bs1, k) = Low(bs, k) /\ Since(bs1, k) = Since(bs, k) /\ From(bs1, k) = From(bs, k)
  <2>1. k = 0 => Low(bs1, k) = Low(bs, k) /\ Since(bs1, k) = Since(bs, k) /\ From(bs1, k) = From(bs, k)
    BY DEF Low, Since, From
  <2> QED
    BY <1>7, <2>1
<1>9. Low(bs, k) \in Nat /\ Since(bs, k) \in Nat /\ Low(bs, k) <= Len(w.closers) /\ Since(bs, k) <= n
  <2>1. CASE k = 0
    BY <1>2, <2>1 DEF Low, Since
  <2>2. CASE k > 0
    <3>1. PICK b \in BlockSet : b = bs[k]
      BY <1>1, <2>2
    <3>2. Beneath(b, ViewNow(w, n))
      BY <1>4, <2>2, <3>1
    <3>3. b.number <= n /\ b.openedAt <= Len(w.closers)
      BY <3>2 DEF Beneath, ViewNow
    <3> QED
      BY <2>2, <3>1, <3>3, BlockIs DEF Low, Since
  <2> QED
    BY <2>1, <2>2
<1>10. Closing(v.closers, From(bs, k), Low(bs, k), Since(bs, k), ViewNow(v, n1))
  <2>1. Closing(w.closers, From(bs, k), Low(bs, k), Since(bs, k), ViewNow(w, n))
    <3>1. k \in 0 .. Len(bs)
      OBVIOUS
    <3> QED
      BY <1>3, <3>1 DEF Stacked
  <2>2. PICK view : view = ViewNow(w, n)
    OBVIOUS
  <2>3. view.closers = Len(w.closers) /\ view.scope = w.scope
    BY <2>2 DEF ViewNow
  <2>4. Closing(v.closers, From(bs, k), Low(bs, k), Since(bs, k), view)
    BY <1>2, <1>9, <2>1, <2>2, <2>3, ClosingSame, SMTT(30)
  <2>5. /\ Leads(v.closers, From(bs, k), w.scope, Low(bs, k), Len(w.closers))
        /\ Later(v.closers, Low(bs, k), Len(w.closers), Since(bs, k))
    BY <2>3, <2>4 DEF Closing
  <2>6. Leads(v.closers, From(bs, k), v.scope, Low(bs, k), Len(v.closers))
    BY <1>2, <1>9, <2>5, LeadsThrough
  <2>7. Later(v.closers, Low(bs, k), Len(v.closers), Since(bs, k))
    <3>1. ASSUME NEW i \in Low(bs, k) + 1 .. Len(v.closers) PROVE v.closers[i].name > Since(bs, k)
      <4>1. CASE i <= Len(w.closers)
        BY <1>2, <1>9, <2>5, <4>1 DEF Later
      <4>2. CASE i > Len(w.closers)
        <5>1. v.closers[i].name > n
          BY <1>2, <1>9, <4>2 DEF Later
        <5>2. v.closers[i].name \in Nat
          <6>1. v.closers \in Seq(CloserSet) /\ i \in 1 .. Len(v.closers)
            BY <1>2, <4>2, StanceIs
          <6>2. v.closers[i] \in CloserSet
            BY <6>1, ElementOfSeq
          <6> QED
            BY <6>2 DEF CloserSet
        <5> QED
          BY <1>9, <5>1, <5>2
      <4> QED
        BY <1>2, <1>9, <4>1, <4>2
    <3> QED
      BY <3>1 DEF Later
  <2> QED
    BY <2>6, <2>7 DEF Closing, ViewNow
<1>11. ASSUME k > 0 PROVE Goes(bs1[k], ReadingAt(rd, k), ViewNow(v, n1))
  <2>1. Goes(bs[k], ReadingAt(rd, k), ViewNow(w, n))
    <3>1. k \in 1 .. Len(bs)
      BY <1>11
    <3> QED
      BY <1>3, <3>1 DEF Stacked
  <2>2. Whole(bs[k], w.lines, Len(w.letters), ReadingAt(rd, k))
    BY <2>1 DEF Goes, ViewNow
  <2>3. bs1[k].by = bs[k].by /\ bs1[k].entered = bs[k].entered /\ bs1[k].lines = bs[k].lines /\ bs1[k].lettersAt = bs[k].lettersAt
    BY <1>11 DEF Same
  <2>4. MayEnter(bs1[k]) = MayEnter(bs[k])
    BY <2>3 DEF MayEnter
  <2>5. Whole(bs1[k], v.lines, Len(v.letters), ReadingAt(rd, k))
    <3> SUFFICES ASSUME MayEnter(bs1[k])
                 PROVE  /\ \A label \in DOMAIN ReadingAt(rd, k) : label \in DOMAIN v.lines /\ v.lines[label] = bs1[k].lines[label]
                        /\ Len(v.letters) = bs1[k].lettersAt
      BY DEF Whole
    <3>1. MayEnter(bs[k])
      BY <2>4
    <3>2. /\ \A label \in DOMAIN ReadingAt(rd, k) : label \in DOMAIN w.lines /\ w.lines[label] = bs[k].lines[label]
          /\ Len(w.letters) = bs[k].lettersAt
      BY <2>2, <3>1 DEF Whole
    <3>3. \A l \in DOMAIN ReadingAt(rd, k) : l \in DOMAIN w.lines => l \in DOMAIN v.lines /\ v.lines[l] = w.lines[l]
      BY <1>11
    <3> QED
      BY <2>3, <3>2, <3>3
  <2>6. Parted(bs1[k]) => bs1[k].entered # NoPart
    BY <1>11, <2>3 DEF Parted
  <2> QED
    BY <2>5, <2>6 DEF Goes, ViewNow
<1>12. \A d \in 1 .. k - 1 : Beneath(bs[d], ViewNow(v, n1))
  BY <1>5
<1>13. k > 0 => Beneath(bs1[k], ViewNow(v, n1))
  <2>1. k > 0 => Beneath(bs[k], ViewNow(v, n1))
    BY <1>5
  <2> QED
    BY <2>1 DEF Beneath, Same
<1>14. Low(bs1, k) <= Len(v.closers) /\ \A i \in 1 .. Low(bs1, k) : v.closers[i] = w.closers[i]
  BY <1>2, <1>8, <1>9, SMTT(30)
<1>15. Closing(v.closers, From(bs1, k), Low(bs1, k), Since(bs1, k), ViewNow(v, n1))
  BY <1>8, <1>10
<1>16. k > 0 => /\ Same(bs[k], bs1[k]) /\ Shaped(bs1[k], ReadingAt(rd, k))
                /\ Goes(bs1[k], ReadingAt(rd, k), ViewNow(v, n1))
                /\ Beneath(bs1[k], ViewNow(v, n1))
  BY <1>11, <1>13
<1>17. \A d \in 1 .. k : Around(v, bs[d], ReadingAt(rd, d))
  BY <1>6
<1>18. StepsOn(w, v, bs, bs1, rd, rd1, n, n1, k)
  BY <1>2, <1>12, <1>14, <1>15, <1>16, <1>17 DEF StepsOn
<1> QED
  BY <1>18, StackStep

\* A block is around what goes on inside it.
LEMMA BeneathOnward ==
  ASSUME NEW w \in Stances, NEW v \in Stances, NEW b \in BlockSet, NEW n \in Nat, NEW n1 \in Nat, n <= n1,
         Beneath(b, ViewNow(w, n)), Onward(w, v), Len(w.closers) <= Len(v.closers)
  PROVE  Beneath(b, ViewNow(v, n1))
<1>1. /\ Len(w.closers) \in Nat /\ Len(v.closers) \in Nat /\ Len(w.letters) \in Nat /\ Len(v.letters) \in Nat
      /\ w.scope \in Scopes /\ v.scope \in Scopes
      /\ b.number \in Nat /\ b.openedAt \in Nat /\ b.outer \in Scopes /\ b.lettersAt \in Nat
  BY StanceIs, BlockIs
<1>2. b.number <= n /\ b.lettersAt <= Len(w.letters) /\ b.openedAt <= Len(w.closers) /\ IsPrefix(b.outer, w.scope)
  BY DEF Beneath, ViewNow
<1>3. IsPrefix(b.outer, v.scope)
  BY <1>1, <1>2, PrefixThrough DEF Onward
<1>4. b.number <= n1 /\ b.openedAt <= Len(v.closers) /\ b.lettersAt <= Len(v.letters)
  BY <1>1, <1>2, SMTT(30) DEF Onward
<1> QED
  BY <1>3, <1>4 DEF Beneath, ViewNow

\* What was known around a block is known wherever the frames and letters
\* around it are the same.
LEMMA AroundAs ==
  ASSUME NEW w \in Stances, NEW v \in Stances, NEW b \in BlockSet, NEW R, Around(w, b, R),
         IsPrefix(b.outer, v.scope), \A i \in 1 .. Len(b.outer) : v.frames[i] = w.frames[i],
         b.lettersAt <= Len(v.letters), \A i \in 1 .. b.lettersAt : v.letters[i] = w.letters[i]
  PROVE  Around(v, b, R)
<1>1. PICK at \in Scopes, k \in Nat, n \in Int : at = b.outer /\ k = b.lettersAt /\ n = b.number - 1
  BY BlockIs
<1>2. Viewed(w, at, b.outside, b.lines, k, R, n) /\ n <= n
  BY <1>1 DEF Around
<1>3. /\ IsPrefix(at, v.scope) /\ (\A i \in 1 .. Len(at) : v.frames[i] = w.frames[i])
      /\ k <= Len(v.letters) /\ \A i \in 1 .. k : v.letters[i] = w.letters[i]
  BY <1>1
<1>4. Viewed(v, at, b.outside, b.lines, k, R, n)
  BY <1>2, <1>3, ViewedAs
<1> QED
  BY <1>1, <1>4 DEF Around

\* What was known around a block is known as the page goes on inside it.
LEMMA AroundOnward ==
  ASSUME NEW w \in Stances, NEW v \in Stances, NEW b \in BlockSet, NEW R, Around(w, b, R),
         Framed(w.frames, w.scope), Onward(w, v)
  PROVE  Around(v, b, R)
<1>1. b.outer \in Scopes /\ IsPrefix(b.outer, w.scope) /\ b.lettersAt <= Len(w.letters) /\ b.lettersAt \in Nat
  BY BlockIs DEF Around, Viewed
<1>2. /\ Len(w.letters) \in Nat /\ Len(v.letters) \in Nat /\ Len(b.outer) \in Nat /\ Len(w.scope) \in Nat
      /\ w.scope \in Scopes /\ v.scope \in Scopes
  BY <1>1, StanceIs DEF Scopes
<1>3. IsPrefix(b.outer, v.scope)
  BY <1>1, <1>2, PrefixThrough DEF Onward
<1>4. Len(b.outer) <= Len(w.scope)
  BY <1>1, <1>2, PrefixIs
<1>5. \A i \in 1 .. Len(b.outer) : v.frames[i] = w.frames[i]
  BY <1>2, <1>4 DEF Framed, Onward, Deeper
<1>6. b.lettersAt <= Len(v.letters) /\ \A i \in 1 .. b.lettersAt : v.letters[i] = w.letters[i]
  BY <1>1, <1>2 DEF Onward
<1> QED
  BY <1>3, <1>5, <1>6, AroundAs

\* A block opened.
Opens(w, v, bs, rd, n, b) ==
  /\ w \in Stances /\ v \in Stances /\ bs \in Seq(BlockSet) /\ rd \in Seq(Readings) /\ n \in Nat /\ b \in BlockSet
  /\ Sound(w, Reading(rd), n) /\ Stacked(w, bs, rd, n) /\ Onward(w, v)
  /\ b.outer = w.scope /\ b.outside = w.facts /\ b.lines = w.lines /\ b.lettersAt = Len(w.letters)
  /\ b.openedAt = Len(w.closers) /\ b.number = n + 1
  /\ b.part = IF Len(bs) > 0 /\ Parted(bs[Len(bs)]) THEN bs[Len(bs)].entered ELSE NoPart
  /\ b.against => Len(bs) > 0 /\ bs[Len(bs)].by = "contradiction"
  /\ Len(bs) > 0 /\ Parted(bs[Len(bs)]) => bs[Len(bs)].entered # NoPart
  /\ v.closers = w.closers /\ v.scope = Base(b)
  /\ Shaped(b, Reading(rd))
  /\ MayEnter(b) => v.lines = w.lines /\ Len(v.letters) = Len(w.letters)

\* A block opened stands in the blocks around it.
LEMMA StackOpened ==
  ASSUME NEW w, NEW v, NEW bs, NEW rd, NEW n, NEW b, Opens(w, v, bs, rd, n, b), NEW m \in Readings
  PROVE  Stacked(v, Append(bs, b), Append(rd, m), n + 1)
<1> DEFINE k == Len(bs)
           bs1 == Append(bs, b)
           rd1 == Append(rd, m)
<1>1. /\ bs1 \in Seq(BlockSet) /\ Len(bs1) = k + 1 /\ k \in Nat /\ DOMAIN bs1 = 1 .. k + 1 /\ DOMAIN bs = 1 .. k
      /\ (\A i \in 1 .. k : bs1[i] = bs[i]) /\ bs1[k + 1] = b
      /\ \A i \in 1 .. k : bs[i] \in BlockSet
  <2>1. bs \in Seq(BlockSet) /\ b \in BlockSet
    BY DEF Opens
  <2> QED
    BY <2>1, AppendsIs, BlocksAre
<1>2. /\ rd1 \in Seq(Readings) /\ Len(rd1) = k + 2 /\ Len(rd) = k + 1 /\ rd \in Seq(Readings)
      /\ \A i \in 1 .. k + 1 : rd1[i] = rd[i]
  <2>1. rd \in Seq(Readings) /\ Len(rd) = k + 1
    BY DEF Opens, Stacked
  <2> QED
    BY <1>1, <2>1, AppendsIs
<1> HIDE DEF bs1, rd1, k
<1>3. Stacked(w, bs, rd, n) /\ Len(bs) = k
  BY DEF Opens, k
<1>4. /\ w \in Stances /\ v \in Stances /\ n \in Nat /\ n + 1 \in Nat /\ n <= n + 1 /\ b \in BlockSet
      /\ Sound(w, Reading(rd), n) /\ Onward(w, v) /\ v.closers = w.closers
  BY DEF Opens
<1>5. \A d \in 1 .. k + 1 : ReadingAt(rd1, d) = ReadingAt(rd, d)
  <2>1. ASSUME NEW d \in 1 .. k + 1 PROVE ReadingAt(rd1, d) = ReadingAt(rd, d)
    <3>1. d \in Nat /\ d <= Len(rd) /\ d <= Len(rd1) /\ \A i \in 1 .. d : rd1[i] = rd[i]
      BY <1>1, <1>2
    <3> QED
      BY <1>2, <3>1, ReadingAtSame
  <2> QED
    BY <2>1
<1>6. ReadingAt(rd, k + 1) = Reading(rd)
  BY <1>2, SubSeqFull DEF ReadingAt
<1>7. ViewOf(b) = ViewNow(w, n)
  BY DEF Opens, ViewOf, ViewNow
<1>8. \A e \in 1 .. k + 1 : ViewAt(v, bs1, n + 1, e) = ViewAt(w, bs, n, e)
  <2>1. ASSUME NEW e \in 1 .. k PROVE ViewAt(v, bs1, n + 1, e) = ViewAt(w, bs, n, e)
    <3>1. e \in 1 .. k + 1
      BY <1>1
    <3> QED
      BY <1>1, <3>1 DEF ViewAt
  <2>2. ViewAt(v, bs1, n + 1, k + 1) = ViewAt(w, bs, n, k + 1)
    <3>1. k + 1 \in 1 .. k + 1 /\ k + 1 \notin 1 .. k
      BY <1>1
    <3> QED
      BY <1>1, <1>7, <3>1 DEF ViewAt
  <2> QED
    BY <1>1, <2>1, <2>2
<1>9. ViewAt(v, bs1, n + 1, k + 2) = ViewNow(v, n + 1)
  <2>1. k + 2 \notin 1 .. k + 1
    BY <1>1
  <2> QED
    BY <1>1, <2>1 DEF ViewAt
<1>10. Len(w.closers) \in Nat /\ Len(v.closers) \in Nat /\ w.scope \in Scopes /\ Len(w.letters) \in Nat
  BY <1>4, StanceIs
<1>11. ASSUME NEW d \in 0 .. k + 1
       PROVE  Closing(v.closers, From(bs1, d), Low(bs1, d), Since(bs1, d), ViewAt(v, bs1, n + 1, d + 1))
  <2>1. CASE d = k + 1
    <3>1. From(bs1, d) = v.scope /\ Low(bs1, d) = Len(v.closers)
      BY <1>1, <1>4, <2>1 DEF From, Low, Opens
    <3>2. ViewAt(v, bs1, n + 1, d + 1) = ViewNow(v, n + 1)
      BY <1>1, <1>9, <2>1
    <3>3. Leads(v.closers, v.scope, v.scope, Len(v.closers), Len(v.closers))
      <4>1. Len(v.closers) <= Len(v.closers)
        BY <1>10
      <4> QED
        BY <1>10, <4>1, LeadsNowhere
    <3>4. Later(v.closers, Len(v.closers), Len(v.closers), Since(bs1, d))
      BY <1>10 DEF Later
    <3> QED
      BY <3>1, <3>2, <3>3, <3>4 DEF Closing, ViewNow
  <2>2. CASE d <= k
    <3>1. Closing(w.closers, From(bs, d), Low(bs, d), Since(bs, d), ViewAt(w, bs, n, d + 1))
      BY <1>1, <1>3, <2>2 DEF Stacked
    <3>2. d > 0 => d \in 1 .. k
      BY <2>2
    <3>3. From(bs1, d) = From(bs, d) /\ Low(bs1, d) = Low(bs, d) /\ Since(bs1, d) = Since(bs, d)
      BY <1>1, <3>2 DEF From, Low, Since
    <3>4. d + 1 \in 1 .. k + 1
      BY <1>1, <2>2
    <3> QED
      BY <1>4, <1>8, <3>1, <3>3, <3>4
  <2> QED
    BY <1>1, <2>1, <2>2
<1>12. ASSUME NEW d \in 1 .. k + 1
       PROVE  /\ Around(v, bs1[d], ReadingAt(rd1, d))
              /\ Shaped(bs1[d], ReadingAt(rd1, d))
              /\ Placed(bs1, d)
              /\ Goes(bs1[d], ReadingAt(rd1, d), ViewAt(v, bs1, n + 1, d + 1))
              /\ \A e \in d + 1 .. k + 2 : Beneath(bs1[d], ViewAt(v, bs1, n + 1, e))
  <2>0. ReadingAt(rd1, d) = ReadingAt(rd, d)
    BY <1>5
  <2>1. CASE d = k + 1
    <3>1. bs1[d] = b /\ ReadingAt(rd1, d) = Reading(rd)
      BY <1>1, <1>6, <2>0, <2>1
    <3>2. PICK R : R = Reading(rd)
      OBVIOUS
    <3>3. Around(w, b, R)
      <4>1. Viewed(w, w.scope, w.facts, w.lines, Len(w.letters), R, n)
        BY <1>4, <3>2 DEF Sound
      <4>2. b.number - 1 = n
        BY <1>4 DEF Opens
      <4> QED
        BY <4>1, <4>2 DEF Around, Opens
    <3>4. Around(v, b, R)
      <4>1. Framed(w.frames, w.scope)
        BY <1>4 DEF Sound
      <4> QED
        BY <1>4, <3>3, <4>1, AroundOnward
    <3>5. Shaped(b, R)
      BY <3>2 DEF Opens
    <3>6. Placed(bs1, d)
      <4>1. d > 1 => bs1[d - 1] = bs[Len(bs)] /\ Len(bs) > 0
        BY <1>1, <1>3, <2>1
      <4>2. d = 1 => Len(bs) = 0
        BY <1>1, <1>3, <2>1
      <4>3. ~(d < Len(bs1))
        BY <1>1, <2>1
      <4> QED
        BY <3>1, <4>1, <4>2, <4>3 DEF Placed, Opens
    <3>7. Goes(b, R, ViewNow(v, n + 1))
      <4>1. \A label \in DOMAIN R : label \in DOMAIN w.lines
        BY <1>4, <3>2 DEF Sound, Viewed, Inscribed
      <4>2. Whole(b, v.lines, Len(v.letters), R)
        BY <4>1 DEF Whole, Opens
      <4>3. b.openedAt = Len(v.closers)
        BY <1>4 DEF Opens
      <4> QED
        BY <4>2, <4>3 DEF Goes, ViewNow
    <3>8. Beneath(b, ViewNow(v, n + 1))
      <4>1. b.outer = w.scope /\ b.lettersAt = Len(w.letters) /\ b.openedAt = Len(w.closers) /\ b.number = n + 1
        BY DEF Opens
      <4> QED
        BY <1>4, <1>10, <4>1 DEF Beneath, ViewNow, Onward
    <3>9. d + 1 = k + 2 /\ \A e \in d + 1 .. k + 2 : e = k + 2
      BY <1>1, <2>1
    <3>10. Goes(bs1[d], ReadingAt(rd1, d), ViewAt(v, bs1, n + 1, d + 1))
      BY <1>9, <3>1, <3>2, <3>7, <3>9
    <3>11. \A e \in d + 1 .. k + 2 : Beneath(bs1[d], ViewAt(v, bs1, n + 1, e))
      BY <1>9, <3>1, <3>8, <3>9
    <3> QED
      BY <3>1, <3>2, <3>4, <3>5, <3>6, <3>10, <3>11
  <2>2. CASE d <= k
    <3>1. d \in 1 .. k /\ bs1[d] = bs[d] /\ bs[d] \in BlockSet
      BY <1>1, <2>2
    <3>2. /\ Around(w, bs[d], ReadingAt(rd, d)) /\ Shaped(bs[d], ReadingAt(rd, d)) /\ Placed(bs, d)
          /\ Goes(bs[d], ReadingAt(rd, d), ViewAt(w, bs, n, d + 1))
          /\ \A e \in d + 1 .. k + 1 : Beneath(bs[d], ViewAt(w, bs, n, e))
      BY <1>3, <3>1 DEF Stacked
    <3>3. Around(v, bs[d], ReadingAt(rd, d))
      <4>1. Framed(w.frames, w.scope)
        BY <1>4 DEF Sound
      <4> QED
        BY <1>4, <3>1, <3>2, <4>1, AroundOnward
    <3>4. Placed(bs1, d)
      <4>1. d > 1 => bs1[d - 1] = bs[d - 1]
        BY <1>1, <3>1
      <4>2. CASE d < k
        BY <1>1, <1>3, <3>1, <3>2, <4>1, <4>2 DEF Placed
      <4>3. CASE d = k
        <5>1. Parted(bs[d]) => bs[d].entered # NoPart
          BY <1>3, <3>1, <4>3 DEF Opens
        <5> QED
          BY <3>1, <3>2, <4>1, <5>1 DEF Placed
      <4> QED
        BY <1>1, <3>1, <4>2, <4>3
    <3>5. Goes(bs1[d], ReadingAt(rd1, d), ViewAt(v, bs1, n + 1, d + 1))
      <4>1. d + 1 \in 1 .. k + 1
        BY <1>1, <3>1
      <4> QED
        BY <1>8, <2>0, <3>1, <3>2, <4>1
    <3>6. ASSUME NEW e \in d + 1 .. k + 2 PROVE Beneath(bs1[d], ViewAt(v, bs1, n + 1, e))
      <4>1. CASE e = k + 2
        <5>1. k + 1 \in d + 1 .. k + 1
          BY <1>1, <3>1
        <5>2. ViewAt(w, bs, n, k + 1) = ViewNow(w, n)
          <6>1. k + 1 \notin 1 .. k
            BY <1>1
          <6> QED
            BY <1>1, <6>1 DEF ViewAt
        <5>3. Beneath(bs[d], ViewNow(w, n))
          BY <3>2, <5>1, <5>2
        <5>4. Len(w.closers) <= Len(v.closers)
          BY <1>4, <1>10
        <5>5. PICK n1 \in Nat : n1 = n + 1 /\ n <= n1
          BY <1>4
        <5>6. Beneath(bs[d], ViewNow(v, n1))
          BY <1>4, <3>1, <5>3, <5>4, <5>5, BeneathOnward
        <5> QED
          BY <1>9, <3>1, <4>1, <5>5, <5>6
      <4>2. CASE e # k + 2
        <5>1. e \in d + 1 .. k + 1 /\ e \in 1 .. k + 1
          BY <1>1, <3>1, <4>2
        <5> QED
          BY <1>8, <3>1, <3>2, <5>1
      <4> QED
        BY <4>1, <4>2
    <3> QED
      BY <2>0, <3>1, <3>2, <3>3, <3>4, <3>5, <3>6
  <2> QED
    BY <1>1, <2>1, <2>2
<1>13. Stacked(v, bs1, rd1, n + 1)
  <2>1. Len(rd1) = Len(bs1) + 1 /\ Len(bs1) = k + 1 /\ (k + 1) + 1 = k + 2
    BY <1>1, <1>2
  <2> QED
    BY <1>11, <1>12, <2>1 DEF Stacked
<1> QED
  BY <1>13 DEF bs1, rd1

\* The elaborator back where a block was opened.
BackAt(w, u, b) ==
  /\ u \in Stances
  /\ u.scope = b.outer /\ u.facts = b.outside
  /\ u.frames = SubSeq(w.frames, 1, b.frame)
  /\ u.letters = SubSeq(w.letters, 1, b.lettersAt)

\* What is known there is as it was when the block was opened, of the lines
\* that are as they were.
LEMMA SoundBack ==
  ASSUME NEW w \in Stances, NEW u, NEW b \in BlockSet, BackAt(w, u, b), NEW R, Around(w, b, R),
         Framed(w.frames, w.scope), b.frame = Len(b.outer) + 1,
         \A l \in DOMAIN R : l \in DOMAIN b.lines => l \in DOMAIN u.lines /\ u.lines[l] = b.lines[l]
  PROVE  /\ Sound(u, R, b.number - 1) /\ Len(u.letters) = b.lettersAt
         /\ \A i \in 1 .. Len(b.outer) : u.frames[i] = w.frames[i]
         /\ \A i \in 1 .. b.lettersAt : u.letters[i] = w.letters[i]
<1>1. /\ w.frames \in Seq(FrameSet) /\ w.letters \in Seq(LetterSet) /\ Len(w.frames) \in Nat /\ Len(w.letters) \in Nat
      /\ Len(w.scope) \in Nat /\ w.scope \in Scopes /\ Len(w.frames) = Len(w.scope) + 1
      /\ b.outer \in Scopes /\ Len(b.outer) \in Nat /\ b.lettersAt \in Nat
  <2>1. b.outer \in Scopes /\ b.lettersAt \in Nat
    BY BlockIs
  <2> QED
    BY <2>1, StanceIs DEF Framed, Scopes
<1>2. /\ IsPrefix(b.outer, w.scope) /\ AllAt(b.outside, b.outer)
      /\ b.lettersAt <= Len(w.letters) /\ Lettered(w.letters, b.lettersAt, b.outer)
      /\ Inscribed(w.frames, b.outer, b.outside, b.lines, R, b.number - 1)
  BY DEF Around, Viewed
<1>3. Len(b.outer) <= Len(w.scope) /\ \A i \in 1 .. Len(b.outer) : b.outer[i] = w.scope[i]
  BY <1>1, <1>2, PrefixIs
<1>4. PICK f : f = b.frame /\ f = Len(b.outer) + 1
  OBVIOUS
<1>5. f \in 0 .. Len(w.frames)
  BY <1>1, <1>3, <1>4
<1>6. /\ u.frames \in Seq(FrameSet) /\ Len(u.frames) = f
      /\ \A i \in 1 .. f : u.frames[i] = w.frames[i]
  BY <1>1, <1>4, <1>5, FirstsAre DEF BackAt
<1>7. /\ u.letters \in Seq(LetterSet) /\ Len(u.letters) = b.lettersAt
      /\ \A i \in 1 .. b.lettersAt : u.letters[i] = w.letters[i]
  <2>1. PICK k \in 0 .. Len(w.letters) : k = b.lettersAt
    BY <1>1, <1>2
  <2> QED
    BY <1>1, <2>1, FirstsAre DEF BackAt
<1>8. \A j \in 0 .. Len(b.outer) : SubSeq(w.scope, 1, j) = SubSeq(b.outer, 1, j)
  <2>1. ASSUME NEW j \in 0 .. Len(b.outer) PROVE SubSeq(w.scope, 1, j) = SubSeq(b.outer, 1, j)
    <3>1. j \in Nat /\ j <= Len(b.outer) /\ j <= Len(w.scope) /\ \A i \in 1 .. j : w.scope[i] = b.outer[i]
      BY <1>1, <1>3
    <3>2. w.scope \in Seq(Saids) /\ b.outer \in Seq(Saids)
      BY <1>1 DEF Scopes
    <3> QED
      BY <3>1, <3>2, SameFirsts
  <2> QED
    BY <2>1
<1>9. ASSUME NEW i \in 1 .. f PROVE FrameIs(u.frames[i], b.outer, i)
  <2>1. i \in 1 .. Len(w.frames) /\ i - 1 \in 0 .. Len(b.outer) /\ (i > 1 => i - 1 \in 1 .. Len(b.outer))
    BY <1>1, <1>3, <1>4
  <2>2. FrameIs(w.frames[i], w.scope, i) /\ u.frames[i] = w.frames[i]
    BY <1>6, <2>1 DEF Framed
  <2> QED
    BY <1>3, <1>8, <2>1, <2>2 DEF FrameIs
<1>10. Framed(u.frames, b.outer)
  BY <1>4, <1>6, <1>9 DEF Framed
<1>11. \A i \in 1 .. Len(b.outer) : u.frames[i] = w.frames[i]
  BY <1>1, <1>4, <1>6
<1>12. Lettered(u.letters, Len(u.letters), b.outer)
  BY <1>2, <1>7 DEF Lettered
<1>13. Inscribed(u.frames, b.outer, b.outside, u.lines, R, b.number - 1)
  <2> SUFFICES ASSUME NEW label \in DOMAIN R
               PROVE  /\ Numbered(label, b.number - 1) /\ label \in DOMAIN u.lines
                      /\ InscribedLine(u.frames, b.outer, b.outside, u.lines[label], R[label])
    BY DEF Inscribed
  <2>1. /\ Numbered(label, b.number - 1) /\ label \in DOMAIN b.lines
        /\ InscribedLine(w.frames, b.outer, b.outside, b.lines[label], R[label])
    BY <1>2 DEF Inscribed
  <2>2. label \in DOMAIN u.lines /\ u.lines[label] = b.lines[label]
    BY <2>1
  <2> QED
    BY <1>11, <2>1, <2>2 DEF InscribedLine
<1>14. IsPrefix(b.outer, b.outer) /\ Len(u.letters) <= Len(u.letters)
  <2>1. IsPrefix(b.outer, b.outer)
    BY <1>1, PrefixIs
  <2> QED
    BY <1>1, <1>7, <2>1
<1>15. Sound(u, R, b.number - 1)
  BY <1>2, <1>10, <1>12, <1>13, <1>14 DEF Sound, Viewed, BackAt
<1> QED
  BY <1>7, <1>11, <1>15

\* The blocks around a block are around its own place.
LEMMA AroundBack ==
  ASSUME NEW w \in Stances, NEW u \in Stances, NEW b \in BlockSet, NEW c \in BlockSet, NEW R, Around(w, c, R),
         Beneath(c, ViewOf(b)), IsPrefix(b.outer, u.scope),
         \A i \in 1 .. Len(b.outer) : u.frames[i] = w.frames[i],
         b.lettersAt <= Len(u.letters), \A i \in 1 .. b.lettersAt : u.letters[i] = w.letters[i]
  PROVE  Around(u, c, R)
<1>1. /\ b.outer \in Scopes /\ c.outer \in Scopes /\ u.scope \in Scopes /\ b.lettersAt \in Nat /\ c.lettersAt \in Nat
      /\ Len(u.letters) \in Nat
  BY BlockIs, StanceIs
<1>2. IsPrefix(c.outer, b.outer) /\ c.lettersAt <= b.lettersAt
  BY DEF Beneath, ViewOf
<1>3. IsPrefix(c.outer, u.scope)
  BY <1>1, <1>2, PrefixThrough
<1>4. Len(c.outer) <= Len(b.outer) /\ Len(c.outer) \in Nat /\ Len(b.outer) \in Nat
  <2>1. Len(c.outer) <= Len(b.outer)
    BY <1>1, <1>2, PrefixIs
  <2> QED
    BY <1>1, <2>1 DEF Scopes
<1>5. \A i \in 1 .. Len(c.outer) : u.frames[i] = w.frames[i]
  BY <1>4
<1>6. c.lettersAt <= Len(u.letters) /\ \A i \in 1 .. c.lettersAt : u.letters[i] = w.letters[i]
  BY <1>1, <1>2
<1> QED
  BY <1>3, <1>5, <1>6, AroundAs

\* The innermost block closed.
ClosedTo(w, u, b) ==
  /\ u.scope = b.outer /\ u.lines = b.lines /\ u.closers = SubSeq(w.closers, 1, b.openedAt)
  /\ Len(u.letters) = b.lettersAt
  /\ \A i \in 1 .. Len(b.outer) : u.frames[i] = w.frames[i]
  /\ \A i \in 1 .. b.lettersAt : u.letters[i] = w.letters[i]

\* The blocks around the innermost stand as they did once it closes.
LEMMA StackClosed ==
  ASSUME NEW w \in Stances, NEW u \in Stances, NEW bs \in Seq(BlockSet), NEW rd \in Seq(Readings), NEW n \in Nat,
         Stacked(w, bs, rd, n), Framed(w.frames, w.scope), NEW k \in Nat, k + 1 = Len(bs),
         NEW b \in BlockSet, b = bs[k + 1], ClosedTo(w, u, b)
  PROVE  Stacked(u, Front(bs), Front(rd), n)
<1>1. /\ Front(bs) \in Seq(BlockSet) /\ Len(Front(bs)) = k /\ DOMAIN Front(bs) = 1 .. k /\ DOMAIN bs = 1 .. k + 1
      /\ (\A i \in 1 .. k : Front(bs)[i] = bs[i]) /\ \A i \in 1 .. k + 1 : bs[i] \in BlockSet
  <2>1. Len(bs) > 0
    OBVIOUS
  <2>5. Len(bs) - 1 = k
    OBVIOUS
  <2>6. /\ Front(bs) \in Seq(BlockSet) /\ Len(Front(bs)) = Len(bs) - 1
        /\ \A i \in 1 .. Len(bs) - 1 : Front(bs)[i] = bs[i]
    BY <2>1, LastIs
  <2>2. Front(bs) \in Seq(BlockSet) /\ Len(Front(bs)) = k /\ \A i \in 1 .. k : Front(bs)[i] = bs[i]
    BY <2>5, <2>6
  <2>3. PICK c : c = Front(bs)
    OBVIOUS
  <2>4. DOMAIN c = 1 .. k
    BY <2>2, <2>3, BlocksAre
  <2> QED
    BY <2>2, <2>3, <2>4, BlocksAre
<1>2. /\ Front(rd) \in Seq(Readings) /\ Len(Front(rd)) = k + 1 /\ Len(rd) = k + 2
      /\ \A i \in 1 .. k + 1 : Front(rd)[i] = rd[i]
  <2>1. Len(rd) = k + 2
    BY DEF Stacked
  <2>2. Len(rd) > 0 /\ Len(rd) - 1 = k + 1
    BY <2>1
  <2> QED
    BY <2>1, <2>2, LastIs
<1>3. PICK bs1 \in Seq(BlockSet), rd1 \in Seq(Readings) : bs1 = Front(bs) /\ rd1 = Front(rd)
  BY <1>1, <1>2
<1>4. /\ Len(bs1) = k /\ DOMAIN bs1 = 1 .. k /\ (\A i \in 1 .. k : bs1[i] = bs[i])
      /\ Len(rd1) = k + 1 /\ \A i \in 1 .. k + 1 : rd1[i] = rd[i]
  BY <1>1, <1>2, <1>3
<1>5. \A d \in 1 .. k : ReadingAt(rd1, d) = ReadingAt(rd, d)
  <2>1. ASSUME NEW d \in 1 .. k PROVE ReadingAt(rd1, d) = ReadingAt(rd, d)
    <3>1. d \in Nat /\ d <= Len(rd) /\ d <= Len(rd1) /\ \A i \in 1 .. d : rd1[i] = rd[i]
      BY <1>2, <1>4
    <3> HIDE DEF ReadingAt
    <3> QED
      BY <1>3, <3>1, ReadingAtSame
  <2> QED
    BY <2>1
<1>6. \A e \in 1 .. k : ViewAt(u, bs1, n, e) = ViewAt(w, bs, n, e)
  <2>1. ASSUME NEW e \in 1 .. k PROVE ViewAt(u, bs1, n, e) = ViewAt(w, bs, n, e)
    <3>1. e \in 1 .. k + 1
      OBVIOUS
    <3> QED
      BY <1>1, <1>4, <3>1 DEF ViewAt
  <2> QED
    BY <2>1
<1>7. ViewAt(u, bs1, n, k + 1) = ViewNow(u, n) /\ ViewAt(w, bs, n, k + 1) = ViewOf(b)
  <2>1. k + 1 \notin 1 .. k /\ k + 1 \in 1 .. k + 1
    OBVIOUS
  <2> QED
    BY <1>1, <1>4, <2>1 DEF ViewAt
<1>8. /\ Around(w, b, ReadingAt(rd, k + 1)) /\ Shaped(b, ReadingAt(rd, k + 1))
      /\ Beneath(b, ViewAt(w, bs, n, k + 2))
  <2>1. k + 1 \in 1 .. Len(bs) /\ k + 2 \in (k + 1) + 1 .. Len(bs) + 1
    OBVIOUS
  <2> QED
    BY <2>1 DEF Stacked
<1>9. ViewAt(w, bs, n, k + 2) = ViewNow(w, n)
  <2>1. k + 2 \notin 1 .. k + 1
    OBVIOUS
  <2> QED
    BY <1>1, <2>1 DEF ViewAt
<1>10. /\ b.number \in Nat /\ b.number <= n /\ b.openedAt \in Nat /\ b.openedAt <= Len(w.closers) /\ b.lettersAt \in Nat
       /\ w.closers \in Seq(CloserSet) /\ Len(w.closers) \in Nat /\ b.outer \in Scopes
       /\ b.frame = Len(b.outer) + 1
  <2>1. Beneath(b, ViewNow(w, n))
    BY <1>8, <1>9
  <2>2. b.number <= n /\ b.openedAt <= Len(w.closers)
    BY <2>1 DEF Beneath, ViewNow
  <2>3. b.frame = Len(b.outer) + 1
    BY <1>8 DEF Shaped
  <2>4. /\ b.number \in Nat /\ b.openedAt \in Nat /\ b.lettersAt \in Nat /\ b.outer \in Scopes
    BY BlockIs
  <2>5. w.closers \in Seq(CloserSet) /\ Len(w.closers) \in Nat
    BY StanceIs
  <2> QED
    BY <2>2, <2>3, <2>4, <2>5
<1>11. /\ Len(u.letters) = b.lettersAt
       /\ \A i \in 1 .. Len(b.outer) : u.frames[i] = w.frames[i]
       /\ \A i \in 1 .. b.lettersAt : u.letters[i] = w.letters[i]
  BY DEF ClosedTo
<1>12. Len(u.closers) = b.openedAt /\ \A i \in 1 .. b.openedAt : u.closers[i] = w.closers[i]
  <2>1. PICK h \in 0 .. Len(w.closers) : h = b.openedAt
    BY <1>10
  <2> QED
    BY <1>10, <2>1, FirstsAre DEF ClosedTo
<1>13. u.scope = b.outer /\ IsPrefix(b.outer, b.outer)
  BY <1>10, PrefixIs DEF ClosedTo
<1>14. ASSUME NEW d \in 0 .. k
       PROVE  Closing(u.closers, From(bs1, d), Low(bs1, d), Since(bs1, d), ViewAt(u, bs1, n, d + 1))
  <2>1. PICK view : view = ViewAt(w, bs, n, d + 1)
    OBVIOUS
  <2>2. d \in 0 .. Len(bs) /\ d + 1 \in 1 .. k + 1
    OBVIOUS
  <2>3. Closing(w.closers, From(bs, d), Low(bs, d), Since(bs, d), view)
    BY <2>1, <2>2 DEF Stacked
  <2>4. d > 0 => bs1[d] = bs[d] /\ bs[d] \in BlockSet
    BY <1>1, <1>4
  <2>5. /\ From(bs1, d) = From(bs, d) /\ Low(bs1, d) = Low(bs, d) /\ Since(bs1, d) = Since(bs, d)
        /\ Low(bs, d) \in Nat
    BY <2>4, BlockIs DEF From, Low, Since
  <2>6. view = ViewOf(bs[d + 1]) /\ bs[d + 1] \in BlockSet
    BY <1>1, <2>1, <2>2 DEF ViewAt
  <2>7. view.closers \in Nat /\ view.closers = bs[d + 1].openedAt
    BY <2>6, BlockIs DEF ViewOf
  <2>8. view.closers <= b.openedAt
    <3>1. CASE d = k
      BY <1>10, <2>7, <3>1
    <3>2. CASE d < k
      <4>1. d + 1 \in 1 .. Len(bs) /\ k + 1 \in (d + 1) + 1 .. Len(bs) + 1
        BY <3>2
      <4>2. Beneath(bs[d + 1], ViewAt(w, bs, n, k + 1))
        BY <4>1 DEF Stacked
      <4> QED
        BY <1>7, <2>7, <4>2 DEF Beneath, ViewOf
    <3> QED
      BY <3>1, <3>2
  <2>9. view.closers <= Len(u.closers) /\ \A i \in 1 .. view.closers : u.closers[i] = w.closers[i]
    <3>1. PICK h \in Nat : h = view.closers
      BY <2>7
    <3>2. h <= b.openedAt /\ b.openedAt \in Nat
      BY <1>10, <2>8, <3>1
    <3>3. h <= Len(u.closers) /\ \A i \in 1 .. h : u.closers[i] = w.closers[i]
      BY <1>12, <3>2
    <3> QED
      BY <3>1, <3>3
  <2>10. Closing(u.closers, From(bs, d), Low(bs, d), Since(bs, d), view)
    BY <2>3, <2>5, <2>7, <2>9, ClosingSame
  <2>11. CASE d < k
    <3>1. d + 1 \in 1 .. k
      BY <2>11
    <3>2. ViewAt(u, bs1, n, d + 1) = view
      BY <1>6, <2>1, <3>1
    <3> QED
      BY <2>5, <2>10, <3>2
  <2>12. CASE d = k
    <3>1. ViewAt(u, bs1, n, d + 1) = ViewNow(u, n) /\ view = ViewOf(b)
      BY <1>7, <2>1, <2>12
    <3>2. ViewNow(u, n).scope = view.scope /\ ViewNow(u, n).closers = view.closers
      BY <1>12, <1>13, <3>1 DEF ViewNow, ViewOf
    <3> QED
      BY <2>5, <2>10, <3>1, <3>2 DEF Closing
  <2> QED
    BY <2>11, <2>12
<1>15. ASSUME NEW d \in 1 .. k
       PROVE  /\ Around(u, bs1[d], ReadingAt(rd1, d))
              /\ Shaped(bs1[d], ReadingAt(rd1, d))
              /\ Placed(bs1, d)
              /\ Goes(bs1[d], ReadingAt(rd1, d), ViewAt(u, bs1, n, d + 1))
              /\ \A e \in d + 1 .. k + 1 : Beneath(bs1[d], ViewAt(u, bs1, n, e))
  <2>1. ReadingAt(rd1, d) = ReadingAt(rd, d) /\ bs1[d] = bs[d] /\ bs[d] \in BlockSet
    BY <1>1, <1>4, <1>5
  <2>2. d \in 1 .. Len(bs) /\ k + 1 \in d + 1 .. Len(bs) + 1
    OBVIOUS
  <2>3. /\ Around(w, bs[d], ReadingAt(rd, d)) /\ Shaped(bs[d], ReadingAt(rd, d)) /\ Placed(bs, d)
        /\ Goes(bs[d], ReadingAt(rd, d), ViewAt(w, bs, n, d + 1))
        /\ \A e \in d + 1 .. Len(bs) + 1 : Beneath(bs[d], ViewAt(w, bs, n, e))
    BY <2>2 DEF Stacked
  <2>4. Beneath(bs[d], ViewOf(b))
    BY <1>7, <2>2, <2>3
  <2>5. Around(u, bs[d], ReadingAt(rd, d))
    <3>1. PICK c, R : c \in BlockSet /\ c = bs[d] /\ R = ReadingAt(rd, d)
      BY <2>1
    <3>2. Around(w, c, R) /\ Beneath(c, ViewOf(b))
      BY <2>3, <2>4, <3>1
    <3>3. b.lettersAt <= Len(u.letters)
      BY <1>10, <1>11
    <3>4. Around(u, c, R)
      BY <1>11, <1>13, <3>1, <3>2, <3>3, AroundBack
    <3> QED
      BY <3>1, <3>4
  <2>6. Placed(bs1, d)
    <3>1. d > 1 => bs1[d - 1] = bs[d - 1]
      BY <1>4
    <3>2. d < Len(bs1) => d < Len(bs)
      BY <1>4
    <3> QED
      BY <2>1, <2>3, <3>1, <3>2 DEF Placed
  <2>7. Goes(bs1[d], ReadingAt(rd1, d), ViewAt(u, bs1, n, d + 1))
    <3>1. CASE d < k
      <4>1. d + 1 \in 1 .. k
        BY <3>1
      <4> QED
        BY <1>6, <2>1, <2>3, <4>1
    <3>2. CASE d = k
      <4>1. Goes(bs[d], ReadingAt(rd, d), ViewOf(b)) /\ ViewAt(u, bs1, n, d + 1) = ViewNow(u, n)
        BY <1>7, <2>3, <3>2
      <4>2. /\ ViewNow(u, n).lines = ViewOf(b).lines /\ ViewNow(u, n).letters = ViewOf(b).letters
            /\ ViewNow(u, n).closers = ViewOf(b).closers
        BY <1>11, <1>12 DEF ViewNow, ViewOf, ClosedTo
      <4> QED
        BY <2>1, <4>1, <4>2 DEF Goes
    <3> QED
      BY <3>1, <3>2
  <2>8. ASSUME NEW e \in d + 1 .. k + 1 PROVE Beneath(bs1[d], ViewAt(u, bs1, n, e))
    <3>1. CASE e <= k
      <4>1. e \in 1 .. k /\ e \in d + 1 .. Len(bs) + 1
        BY <2>8, <3>1
      <4> QED
        BY <1>6, <2>1, <2>3, <4>1
    <3>2. CASE e = k + 1
      <4>1. ViewAt(u, bs1, n, e) = ViewNow(u, n)
        BY <1>7, <3>2
      <4>2. bs[d].number <= n
        <5>1. bs[d].number <= b.number - 1 /\ bs[d].number \in Nat
          BY <2>1, <2>4, BlockIs DEF Beneath, ViewOf
        <5> QED
          BY <1>10, <5>1
      <4>3. Beneath(bs[d], ViewNow(u, n))
        BY <1>11, <1>12, <1>13, <2>4, <4>2 DEF Beneath, ViewOf, ViewNow
      <4> QED
        BY <2>1, <4>1, <4>3
    <3> QED
      BY <2>8, <3>1, <3>2
  <2> QED
    BY <2>1, <2>3, <2>5, <2>6, <2>7, <2>8
<1>16. Stacked(u, bs1, rd1, n)
  BY <1>4, <1>14, <1>15 DEF Stacked
<1> QED
  BY <1>3, <1>16

(***************************************************************************)
(* What is raised, discharged                                              *)
(***************************************************************************)

\* Closers that lead from one scope to another, discharged of a claim that
\* names none of what they named, bring a proof back from the one to the other.
LEMMA DischargeIs ==
  ASSUME NEW cls \in Seq(CloserSet), NEW low \in Nat, NEW from, NEW to, NEW about,
         Leads(cls, from, to, low, Len(cls)), \A i \in low + 1 .. Len(cls) : cls[i].name # about
  PROVE  Discharged(After(cls, low), to, about) = from
<1> DEFINE inside == After(cls, low)
           m == Len(inside)
           h == Len(cls)
           Body(f, k) == IF k = 0 THEN to ELSE Close(inside[Len(inside) + 1 - k], f[k - 1], about)
           Under == CHOOSE f : f = [k \in 0 .. Len(inside) |-> Body(f, k)]
           Stand(k) == Reach(cls, from, low, h - k)
           g == [k \in 0 .. m |-> Stand(k)]
<1>1. h \in Nat /\ low <= h /\ to = Reach(cls, from, low, h)
  BY LenProperties DEF Leads
<1>2. Discharged(inside, to, about) = Under[Len(inside)]
  BY DEF Discharged
<1>3. m = h - low /\ m \in Nat /\ \A j \in 1 .. m : inside[j] = cls[low + j]
  <2>1. low + 1 \in 1 .. h + 1 /\ h \in low .. h
    BY <1>1
  <2>2. inside = SubSeq(cls, low + 1, h)
    BY DEF After
  <2>3. Len(SubSeq(cls, low + 1, h)) = IF low + 1 <= h THEN h - (low + 1) + 1 ELSE 0
    BY <1>1, SubSeqProperties
  <2>4. \A j \in 1 .. h - low : SubSeq(cls, low + 1, h)[j] = cls[low + j]
    <3>1. ASSUME NEW j \in 1 .. h - low PROVE SubSeq(cls, low + 1, h)[j] = cls[low + j]
      <4>1. low + 1 <= h /\ j \in 1 .. (h - (low + 1) + 1) /\ (low + 1) + j - 1 = low + j
        BY <1>1
      <4> QED
        BY <1>1, <4>1, SubSeqProperties
    <3> QED
      BY <3>1
  <2>5. m = h - low
    BY <1>1, <2>2, <2>3
  <2> QED
    BY <1>1, <2>2, <2>4, <2>5
<1> HIDE DEF inside
<1>4. ASSUME NEW k \in 1 .. m PROVE Close(inside[m + 1 - k], Stand(k - 1), about) = Stand(k)
  <2>0. PICK m1 \in Nat : m1 = m /\ m1 = h - low /\ k \in 1 .. m1
    BY <1>3
  <2>1. PICK i \in low + 1 .. h : i = h - (k - 1) /\ i - 1 = h - k /\ low + (m + 1 - k) = i
    <3>1. h - (k - 1) \in low + 1 .. h /\ (h - (k - 1)) - 1 = h - k /\ low + (m1 + 1 - k) = h - (k - 1)
      BY <1>1, <2>0
    <3> QED
      BY <2>0, <3>1
  <2>2. m + 1 - k \in 1 .. m
    BY <1>3
  <2>3. inside[m + 1 - k] = cls[i]
    BY <1>3, <2>1, <2>2
  <2>4. Stand(k - 1) = cls[i].scope \o cls[i].added
    <3>1. i # low /\ Stand(k - 1) = Reach(cls, from, low, i)
      BY <1>1, <2>1
    <3> HIDE DEF Stand
    <3> QED
      BY <3>1 DEF Reach
  <2>5. cls[i].scope = Stand(k) /\ cls[i].name # about
    BY <2>1 DEF Leads
  <2> HIDE DEF Stand
  <2> QED
    BY <2>3, <2>4, <2>5 DEF Close
<1>5. Stand(0) = to /\ Stand(m) = from
  BY <1>1, <1>3 DEF Reach
<1>6. g = [k \in 0 .. m |-> Body(g, k)]
  <2>1. ASSUME NEW k \in 0 .. m PROVE g[k] = Body(g, k)
    <3>1. CASE k = 0
      BY <1>5, <3>1
    <3>2. CASE k # 0
      <4>1. k \in 1 .. m /\ k - 1 \in 0 .. m
        BY <1>3, <3>2
      <4>2. g[k - 1] = Stand(k - 1) /\ g[k] = Stand(k)
        BY <4>1
      <4> HIDE DEF g, Stand
      <4> QED
        BY <1>4, <3>2, <4>1, <4>2
    <3> QED
      BY <3>1, <3>2
  <2> HIDE DEF Body, Stand
  <2> QED
    BY <2>1
<1>7. Under = [k \in 0 .. m |-> Body(Under, k)]
  <2> HIDE DEF Body, g, m
  <2>1. \E f : f = [k \in 0 .. Len(inside) |-> Body(f, k)]
    BY <1>6 DEF m
  <2> QED
    BY <2>1 DEF m
<1>8. \A k \in 0 .. m : Under[k] = Body(Under, k)
  BY <1>7
<1> HIDE DEF Under
<1> DEFINE T == {k \in Nat : k <= m => Under[k] = Stand(k)}
<1>9. 0 \in T
  <2>1. 0 \in 0 .. m
    BY <1>3
  <2>2. Under[0] = to
    BY <1>8, <2>1
  <2> QED
    BY <1>5, <2>2
<1>10. ASSUME NEW k \in Nat, k \in T PROVE k + 1 \in T
  <2> SUFFICES ASSUME k + 1 <= m PROVE Under[k + 1] = Stand(k + 1)
    OBVIOUS
  <2>1. k + 1 \in 0 .. m /\ k + 1 \in 1 .. m /\ k + 1 # 0 /\ (k + 1) - 1 = k /\ k <= m
    BY <1>3
  <2>2. PICK k1 : k1 = k + 1
    OBVIOUS
  <2>3. Under[k1] = Close(inside[m + 1 - k1], Under[k1 - 1], about)
    BY <1>8, <2>1, <2>2
  <2>4. Under[k1 - 1] = Stand(k1 - 1)
    BY <1>10, <2>1, <2>2
  <2> HIDE DEF Stand
  <2> QED
    BY <1>4, <2>1, <2>2, <2>3, <2>4
<1> HIDE DEF T
<1>11. \A k \in Nat : k \in T
  BY <1>9, <1>10, SetInduction
<1>12. Under[m] = Stand(m)
  BY <1>3, <1>11 DEF T
<1> QED
  BY <1>2, <1>5, <1>12 DEF inside

\* With nothing raised there is nothing to discharge.
LEMMA DischargeNothing ==
  ASSUME NEW proof, NEW about
  PROVE  Discharged(<<>>, proof, about) = proof
<1> DEFINE Body(f, k) == IF k = 0 THEN proof ELSE Close(<<>>[Len(<<>>) + 1 - k], f[k - 1], about)
           Under == CHOOSE f : f = [k \in 0 .. Len(<<>>) |-> Body(f, k)]
           g == [k \in 0 .. 0 |-> proof]
<1>1. Len(<<>>) = 0
  BY EmptySeq
<1>2. Discharged(<<>>, proof, about) = Under[Len(<<>>)]
  BY DEF Discharged
<1>3. g = [k \in 0 .. 0 |-> Body(g, k)]
  <2>1. \A k \in 0 .. 0 : k = 0
    OBVIOUS
  <2>2. \A k \in 0 .. 0 : g[k] = Body(g, k)
    BY <2>1
  <2> HIDE DEF Body
  <2> QED
    BY <2>2
<1>4. Under = [k \in 0 .. 0 |-> Body(Under, k)]
  <2> HIDE DEF Body, g
  <2>1. \E f : f = [k \in 0 .. Len(<<>>) |-> Body(f, k)]
    BY <1>1, <1>3
  <2> QED
    BY <1>1, <2>1
<1> HIDE DEF Under
<1>5. 0 \in 0 .. 0 /\ Under[0] = Body(Under, 0)
  BY <1>4
<1>6. Under[0] = proof
  BY <1>5
<1> QED
  BY <1>1, <1>2, <1>6

(***************************************************************************)
(* Parts of a block                                                        *)
(***************************************************************************)

\* A block with its parts, and where it is in them, as they are elsewhere.
SameBut(b, c) ==
  /\ Same(b, c)
  /\ c.about = b.about /\ c.frame = b.frame /\ c.named = b.named /\ c.opened = b.opened
  /\ c.labels = b.labels /\ c.claimed = b.claimed /\ c.cited = b.cited /\ c.splits = b.splits

\* A block with other parts, and elsewhere in them.
LEMMA BlockOf ==
  ASSUME NEW b \in BlockSet, NEW ps \in Maps(Parts, EndSet), NEW e \in {NoPart} \cup Parts, NEW at \in {NoPart} \cup Nat,
         NEW c, c = [b EXCEPT !.parts = ps, !.entered = e, !.caseAt = at]
  PROVE  c \in BlockSet /\ SameBut(b, c) /\ c.parts = ps /\ c.entered = e /\ c.caseAt = at
  BY DEF BlockSet, SameBut, Same

\* A block with other parts.
LEMMA BlockWith ==
  ASSUME NEW b \in BlockSet, NEW ps \in Maps(Parts, EndSet), NEW c, c = [b EXCEPT !.parts = ps]
  PROVE  c \in BlockSet /\ SameBut(b, c) /\ c.parts = ps /\ c.entered = b.entered /\ c.caseAt = b.caseAt
  BY DEF BlockSet, SameBut, Same

\* What a block keeps of its parts.
LEMMA PartsOfBlock ==
  ASSUME NEW b \in BlockSet
  PROVE  /\ b.parts \in Maps(Parts, EndSet) /\ DOMAIN b.parts \subseteq Parts
         /\ \A p \in DOMAIN b.parts : b.parts[p] \in EndSet
         /\ b.entered \in {NoPart} \cup Parts /\ b.caseAt \in {NoPart} \cup Nat
         /\ b.labels \in Maps(Parts, Labels) /\ b.claimed \in SUBSET Parts
<1>1. b.parts \in Maps(Parts, EndSet)
  BY DEF BlockSet
<1>2. DOMAIN b.parts \subseteq Parts /\ \A p \in DOMAIN b.parts : b.parts[p] \in EndSet
  BY <1>1, MapIs
<1> QED
  BY <1>1, <1>2 DEF BlockSet

\* What a part assumes may be assumed.
LEMMA OpensAre ==
  ASSUME NEW b \in BlockSet, NEW p \in Parts
  PROVE  /\ OpensOf(b, p) \in Scopes /\ CaseOf(b, p) \in Saids
         /\ <<"let", b.number>> \in Saids /\ <<"assume", b.number>> \in Saids
<1>1. b.number \in Nat /\ b.opened \in Scopes /\ p \in Nat
  BY BlockIs DEF Parts
<1>2. CaseOf(b, p) \in Saids /\ <<"let", b.number>> \in Saids /\ <<"assume", b.number>> \in Saids
  BY <1>1 DEF CaseOf, Saids
<1>3. /\ <<CaseOf(b, p)>> \in Seq(Saids) /\ <<>> \in Seq(Saids)
      /\ << <<"let", b.number>>, <<"assume", b.number>> >> \in Seq(Saids)
  <2>1. PICK x \in Saids, y \in Saids, z \in Saids : x = CaseOf(b, p) /\ y = <<"let", b.number>> /\ z = <<"assume", b.number>>
    BY <1>2
  <2>2. <<x>> \in Seq(Saids) /\ <<>> \in Seq(Saids) /\ <<y, z>> \in Seq(Saids)
    OBVIOUS
  <2> QED
    BY <2>1, <2>2
<1> QED
  BY <1>1, <1>2, <1>3 DEF OpensOf, Scopes

\* The elaborator with a block's parts ended.
Settled(u, w, b, R) ==
  /\ u \in Stances /\ u.b \in BlockSet /\ SameBut(b, u.b)
  /\ Framed(u.frames, u.scope) /\ IsPrefix(b.outer, u.scope)
  /\ \A i \in 1 .. Len(b.outer) : u.frames[i] = w.frames[i]
  /\ u.letters = w.letters
  /\ \A l \in DOMAIN R : l \in DOMAIN w.lines => l \in DOMAIN u.lines /\ u.lines[l] = w.lines[l]
  /\ u.closers = SubSeq(w.closers, 1, b.openedAt)
  /\ u.b.caseAt \in {NoPart, b.openedAt}
  /\ \A p \in DOMAIN u.b.parts : u.b.parts[p].under = b.outer \o OpensOf(b, p)

\* A part's end, with what was raised inside it spent.
LEMMA EndCaseOf ==
  ASSUME NEW u \in Stances, NEW b \in BlockSet, u.b = b, b.caseAt # NoPart, b.caseAt <= Len(u.closers),
         b.entered # NoPart, b.entered \in DOMAIN b.parts,
         NEW shown \in Scopes, Discharged(After(u.closers, b.caseAt), b.parts[b.entered].under, b.parts[b.entered].about) = shown,
         NEW v, v = EndCase(u)
  PROVE  /\ v \in Stances /\ v.b \in BlockSet /\ SameBut(b, v.b)
         /\ v.frames = u.frames /\ v.scope = u.scope /\ v.letters = u.letters /\ v.lines = u.lines
         /\ v.closers = SubSeq(u.closers, 1, b.caseAt)
         /\ v.b.caseAt = b.caseAt /\ v.b.entered = b.entered
         /\ DOMAIN v.b.parts = DOMAIN b.parts /\ v.b.parts[b.entered].under = shown
         /\ \A p \in DOMAIN b.parts : p # b.entered => v.b.parts[p] = b.parts[p]
<1> DEFINE e == b.entered
           end == b.parts[e]
           end1 == [end EXCEPT !.under = shown]
           ps == [b.parts EXCEPT ![e] = end1]
           cls == SubSeq(u.closers, 1, b.caseAt)
<1>1. /\ b.parts \in Maps(Parts, EndSet) /\ end \in EndSet /\ e \in {NoPart} \cup Parts
      /\ b.caseAt \in {NoPart} \cup Nat /\ DOMAIN b.parts \subseteq Parts
      /\ \A p \in DOMAIN b.parts : b.parts[p] \in EndSet
  BY PartsOfBlock
<1>2. end1 \in EndSet /\ end1.under = shown
  BY <1>1 DEF EndSet
<1>3. v = [u EXCEPT !.closers = cls, !.b.parts = ps]
  BY DEF EndCase
<1> HIDE DEF end1
<1>4. DOMAIN ps = DOMAIN b.parts /\ ps[e] = end1 /\ \A p \in DOMAIN b.parts : p # e => ps[p] = b.parts[p]
  OBVIOUS
<1>5. ps \in Maps(Parts, EndSet)
  <2>1. ps = [p \in DOMAIN ps |-> ps[p]]
    OBVIOUS
  <2>2. \A p \in DOMAIN ps : ps[p] \in EndSet
    <3> HIDE DEF ps
    <3> QED
      BY <1>1, <1>2, <1>4
  <2>3. DOMAIN ps \subseteq Parts
    BY <1>1, <1>4
  <2> HIDE DEF ps
  <2> QED
    BY <2>1, <2>2, <2>3, MapsAre
<1> HIDE DEF ps
<1>6. PICK c : c = [b EXCEPT !.parts = ps]
  OBVIOUS
<1>7. c \in BlockSet /\ SameBut(b, c) /\ c.parts = ps /\ c.entered = e /\ c.caseAt = b.caseAt
  BY <1>5, <1>6, BlockWith
<1>9. cls \in Seq(CloserSet)
  <2>1. u.closers \in Seq(CloserSet) /\ Len(u.closers) \in Nat
    BY StanceIs
  <2>2. PICK h \in 0 .. Len(u.closers) : h = b.caseAt
    BY <1>1, <2>1
  <2> QED
    BY <2>1, <2>2, FirstsAre
<1> HIDE DEF cls
<1>10. v = [u EXCEPT !.closers = cls, !.b = c]
  BY <1>3, <1>6
<1>11. /\ v \in Stances /\ v.b = c /\ v.closers = cls
       /\ v.frames = u.frames /\ v.scope = u.scope /\ v.letters = u.letters /\ v.lines = u.lines
  BY <1>7, <1>9, <1>10 DEF Stances
<1> QED
  BY <1>2, <1>4, <1>7, <1>11 DEF cls

\* The part the page stood in, if any, ends as the block's lemma takes it.
PartEnded(w, b) ==
  b.entered # NoPart =>
    /\ b.entered \in DOMAIN b.parts /\ b.parts[b.entered].under = w.scope
    /\ \A i \in b.openedAt + 1 .. Len(w.closers) : w.closers[i].name # b.parts[b.entered].about

\* What a block of parts was opened with, seen from inside it.
Inside(w, b, R, n) ==
  /\ w \in Stances /\ b \in BlockSet /\ w.b = b /\ Parted(b)
  /\ Framed(w.frames, w.scope) /\ Around(w, b, R) /\ Shaped(b, R)
  /\ Closing(w.closers, Base(b), b.openedAt, b.number, ViewNow(w, n))
  /\ Goes(b, R, ViewNow(w, n))

\* A part ended is as the block's lemma takes it, and leaves what was raised
\* inside it spent.
LEMMA EndCaseIs ==
  ASSUME NEW w, NEW b, NEW R, NEW n, Inside(w, b, R, n), PartEnded(w, b), NEW v, v = EndCase(w)
  PROVE  Settled(v, w, b, R) /\ DOMAIN v.b.parts = DOMAIN b.parts /\ v.b.entered = b.entered
<1>1. /\ w \in Stances /\ b \in BlockSet /\ w.b = b /\ Parted(b)
      /\ Framed(w.frames, w.scope) /\ Shaped(b, R) /\ IsPrefix(b.outer, w.scope)
  BY DEF Inside, Around, Viewed
<1>2. /\ Leads(w.closers, Base(b), w.scope, b.openedAt, Len(w.closers))
      /\ b.openedAt <= Len(w.closers) /\ b.openedAt \in Nat /\ Len(w.closers) \in Nat /\ w.closers \in Seq(CloserSet)
  <2>1. Leads(w.closers, Base(b), w.scope, b.openedAt, Len(w.closers))
    BY DEF Inside, Closing, ViewNow
  <2> QED
    BY <1>1, <2>1, BlockIs, StanceIs DEF Leads
<1>3. SameBut(b, b)
  BY DEF SameBut, Same
<1>4. CASE b.entered = NoPart
  <2>1. b.caseAt = NoPart /\ DOMAIN b.parts = {}
    <3>1. DOMAIN b.parts \subseteq Parts /\ (\A p \in DOMAIN b.parts : p <= NoPart) /\ b.caseAt = NoPart
      BY <1>1, <1>4, PartsOfBlock DEF Shaped
    <3>2. \A p \in Parts : ~(p <= NoPart)
      BY DEF Parts, NoPart
    <3> QED
      BY <3>1, <3>2
  <2>2. v = w
    BY <1>1, <2>1 DEF EndCase
  <2>3. b.openedAt = Len(w.closers)
    BY <1>1, <1>4 DEF Inside, Goes, ViewNow
  <2>4. SubSeq(w.closers, 1, b.openedAt) = w.closers
    BY <1>2, <2>3, SubSeqFull
  <2>5. v.b.caseAt \in {NoPart, b.openedAt}
    BY <1>1, <2>1, <2>2
  <2> QED
    BY <1>1, <1>3, <2>1, <2>2, <2>4, <2>5 DEF Settled
<1>5. CASE b.entered # NoPart
  <2>1. b.caseAt = b.openedAt /\ b.entered \in Parts
    BY <1>1, <1>5, PartsOfBlock DEF Shaped
  <2>2. b.caseAt # NoPart
    BY <1>2, <2>1 DEF NoPart
  <2>3. PICK end : end = b.parts[b.entered]
    OBVIOUS
  <2>4. /\ b.entered \in DOMAIN b.parts /\ end.under = w.scope
        /\ \A i \in b.openedAt + 1 .. Len(w.closers) : w.closers[i].name # end.about
    BY <1>5, <2>3 DEF PartEnded
  <2>5. PICK shown : shown = b.outer \o OpensOf(b, b.entered)
    OBVIOUS
  <2>6. Base(b) = shown
    BY <1>5, <2>5 DEF Base
  <2>7. shown \in Scopes
    <3>1. PICK s \in Scopes, t \in Scopes : s = b.outer /\ t = OpensOf(b, b.entered)
      BY <1>1, <2>1, BlockIs, OpensAre
    <3> QED
      BY <2>5, <3>1, PrefixOfConcat
  <2>8. Discharged(After(w.closers, b.openedAt), w.scope, end.about) = shown
    BY <1>2, <2>4, <2>6, DischargeIs
  <2>9. /\ v \in Stances /\ v.b \in BlockSet /\ SameBut(b, v.b)
        /\ v.frames = w.frames /\ v.scope = w.scope /\ v.letters = w.letters /\ v.lines = w.lines
        /\ v.closers = SubSeq(w.closers, 1, b.caseAt)
        /\ v.b.caseAt = b.caseAt /\ v.b.entered = b.entered
        /\ DOMAIN v.b.parts = DOMAIN b.parts /\ v.b.parts[b.entered].under = shown
        /\ \A p \in DOMAIN b.parts : p # b.entered => v.b.parts[p] = b.parts[p]
    <3>1. b.caseAt <= Len(w.closers)
      BY <1>2, <2>1
    <3>2. Discharged(After(w.closers, b.caseAt), b.parts[b.entered].under, b.parts[b.entered].about) = shown
      BY <2>1, <2>3, <2>4, <2>8
    <3> QED
      BY <1>1, <1>5, <2>2, <2>4, <2>7, <3>1, <3>2, EndCaseOf
  <2>10. \A p \in DOMAIN v.b.parts : v.b.parts[p].under = b.outer \o OpensOf(b, p)
    <3>1. \A p \in DOMAIN b.parts \ {b.entered} : b.parts[p].under = b.outer \o OpensOf(b, p)
      BY <1>1 DEF Shaped
    <3> QED
      BY <2>5, <2>9, <3>1
  <2> QED
    BY <1>1, <2>1, <2>9, <2>10 DEF Settled
<1> QED
  BY <1>4, <1>5

\* Ended again, its parts stay as they are.
LEMMA EndCaseAgain ==
  ASSUME NEW u, NEW w, NEW b \in BlockSet, NEW R, Settled(u, w, b, R), b.openedAt <= Len(w.closers), w \in Stances,
         NEW v, v = EndCase(u)
  PROVE  Settled(v, w, b, R) /\ DOMAIN v.b.parts = DOMAIN u.b.parts /\ v.b.entered = u.b.entered
<1>1. /\ u \in Stances /\ u.b \in BlockSet /\ SameBut(b, u.b)
      /\ u.closers = SubSeq(w.closers, 1, b.openedAt) /\ u.b.caseAt \in {NoPart, b.openedAt}
      /\ \A p \in DOMAIN u.b.parts : u.b.parts[p].under = b.outer \o OpensOf(b, p)
  BY DEF Settled
<1>2. /\ b.openedAt \in Nat /\ w.closers \in Seq(CloserSet) /\ Len(w.closers) \in Nat
      /\ u.closers \in Seq(CloserSet) /\ Len(u.closers) = b.openedAt
  <2>1. b.openedAt \in Nat /\ w.closers \in Seq(CloserSet) /\ Len(w.closers) \in Nat
    BY BlockIs, StanceIs
  <2>2. PICK h \in 0 .. Len(w.closers) : h = b.openedAt
    BY <2>1
  <2> QED
    BY <1>1, <2>1, <2>2, FirstsAre
<1>3. CASE u.b.caseAt = NoPart
  <2>1. v = u
    BY <1>3 DEF EndCase
  <2> QED
    BY <2>1
<1>4. CASE u.b.caseAt # NoPart
  <2>1. PICK c \in BlockSet : c = u.b
    BY <1>1
  <2>2. c.caseAt = b.openedAt /\ c.caseAt # NoPart /\ c.caseAt <= Len(u.closers)
    BY <1>1, <1>2, <1>4, <2>1 DEF NoPart
  <2>3. SubSeq(u.closers, 1, c.caseAt) = u.closers
    BY <1>2, <2>2, SubSeqFull
  <2>4. After(u.closers, c.caseAt) = <<>>
    <3>1. SubSeq(u.closers, b.openedAt + 1, b.openedAt) = <<>>
      <4>1. b.openedAt + 1 > b.openedAt
        BY <1>2
      <4> QED
        BY <1>2, <4>1, SubSeqEmpty
    <3> QED
      BY <1>2, <2>2, <3>1 DEF After
  <2>5. CASE c.entered # NoPart /\ c.entered \in DOMAIN c.parts
    <3>1. PICK shown \in Scopes : shown = c.parts[c.entered].under
      <4>1. c.parts[c.entered] \in EndSet
        BY <2>5, PartsOfBlock
      <4> QED
        BY <4>1 DEF EndSet
    <3>2. Discharged(After(u.closers, c.caseAt), c.parts[c.entered].under, c.parts[c.entered].about) = shown
      BY <2>4, <3>1, DischargeNothing
    <3>3. /\ v \in Stances /\ v.b \in BlockSet /\ SameBut(c, v.b)
          /\ v.frames = u.frames /\ v.scope = u.scope /\ v.letters = u.letters /\ v.lines = u.lines
          /\ v.closers = SubSeq(u.closers, 1, c.caseAt)
          /\ v.b.caseAt = c.caseAt /\ v.b.entered = c.entered
          /\ DOMAIN v.b.parts = DOMAIN c.parts /\ v.b.parts[c.entered].under = shown
          /\ \A p \in DOMAIN c.parts : p # c.entered => v.b.parts[p] = c.parts[p]
      <4>1. /\ u \in Stances /\ u.b = c /\ c.caseAt # NoPart /\ c.caseAt <= Len(u.closers)
            /\ c.entered # NoPart /\ c.entered \in DOMAIN c.parts /\ v = EndCase(u)
        BY <1>1, <2>1, <2>2, <2>5
      <4> QED
        BY <3>2, <4>1, EndCaseOf
    <3>4. \A p \in DOMAIN v.b.parts : v.b.parts[p].under = c.parts[p].under
      BY <3>1, <3>3
    <3>5. \A p \in DOMAIN v.b.parts : v.b.parts[p].under = b.outer \o OpensOf(b, p)
      BY <1>1, <2>1, <3>3, <3>4
    <3>6. SameBut(b, v.b)
      BY <1>1, <2>1, <3>3 DEF SameBut, Same
    <3>7. v.closers = u.closers /\ v.b.caseAt \in {NoPart, b.openedAt}
      BY <1>1, <2>1, <2>3, <3>3
    <3> QED
      BY <2>1, <3>3, <3>5, <3>6, <3>7 DEF Settled
  <2>6. CASE ~(c.entered # NoPart /\ c.entered \in DOMAIN c.parts)
    <3>1. v = [u EXCEPT !.closers = u.closers, !.b.parts = u.b.parts]
      BY <1>4, <2>1, <2>3, <2>6 DEF EndCase
    <3>2. [u.b EXCEPT !.parts = u.b.parts] = u.b
      BY <1>1 DEF BlockSet
    <3>3. v = [u EXCEPT !.closers = u.closers, !.b = u.b]
      BY <3>1, <3>2
    <3>4. v = u
      BY <1>1, <3>3 DEF Stances
    <3> QED
      BY <3>4
  <2> QED
    BY <2>5, <2>6
<1> QED
  BY <1>3, <1>4

\* A line is written under the scope it is written in.
Writes(w, v, R, R1, n, n1, label) ==
  /\ w \in Stances /\ v \in Stances /\ n \in Int /\ n1 \in Int /\ n <= n1 /\ Sound(w, R, n)
  /\ v.frames = w.frames /\ v.scope = w.scope /\ v.letters = w.letters
  /\ AllAt(v.facts, v.scope) /\ DOMAIN w.facts \subseteq DOMAIN v.facts
  /\ Numbered(label, n1) /\ DOMAIN R1 = DOMAIN R \cup {label}
  /\ \A l \in DOMAIN R : l # label => R1[l] = R[l] /\ l \in DOMAIN v.lines /\ v.lines[l] = w.lines[l]
  /\ label \in DOMAIN v.lines /\ v.lines[label].claim \in DOMAIN v.facts
  /\ R1[label] = Plain(v.lines[label].claim) /\ v.lines[label].under = v.scope

\* A line so written leaves what is known sound.
LEMMA WritesIs ==
  ASSUME NEW w, NEW v, NEW R, NEW R1, NEW n, NEW n1, NEW label, Writes(w, v, R, R1, n, n1, label)
  PROVE  Sound(v, R1, n1)
<1>1. PICK m \in Int, m1 \in Int : m = n /\ m1 = n1 /\ m <= m1
  BY DEF Writes
<1>2. PICK w1 \in Stances, v1 \in Stances : w1 = w /\ v1 = v
  BY DEF Writes
<1>3. Sound(w1, R, m) /\ v1.frames = w1.frames /\ v1.scope = w1.scope /\ v1.letters = w1.letters
  BY <1>1, <1>2 DEF Writes
<1>4. AllAt(v1.facts, v1.scope) /\ DOMAIN w1.facts \subseteq DOMAIN v1.facts
  BY <1>1, <1>2 DEF Writes
<1>5. Numbered(label, m1) /\ DOMAIN R1 = DOMAIN R \cup {label}
  BY <1>1, <1>2 DEF Writes
<1>6. \A l \in DOMAIN R : l # label => R1[l] = R[l] /\ l \in DOMAIN v1.lines /\ v1.lines[l] = w1.lines[l]
  BY <1>1, <1>2 DEF Writes
<1>7. /\ label \in DOMAIN v1.lines /\ v1.lines[label].claim \in DOMAIN v1.facts
      /\ R1[label] = Plain(v1.lines[label].claim) /\ v1.lines[label].under = v1.scope
  BY <1>1, <1>2 DEF Writes
<1>8. Sound(v1, R1, m1)
  BY <1>1, <1>3, <1>4, <1>5, <1>6, <1>7, WriteIs
<1> QED
  BY <1>1, <1>2, <1>8

\* A label of a new number is no label given before.
LEMMA LabelFresh ==
  ASSUME NEW n \in Nat, NEW t \in {"step", "K", "L"}, NEW l, Numbered(l, n - 1)
  PROVE  l # <<t, n>>
<1>1. CASE l = Hypothesis
  <2>1. l[1] = "J" /\ <<t, n>>[1] = t
    BY <1>1 DEF Hypothesis
  <2> QED
    BY <2>1
<1>2. ASSUME NEW s \in {"step", "K", "L"}, NEW m \in 1 .. n - 1, l = <<s, m>> PROVE l # <<t, n>>
  <2>1. l[2] = m /\ <<t, n>>[2] = n /\ m < n
    BY <1>2
  <2> QED
    BY <2>1
<1> QED
  BY <1>1, <1>2 DEF Numbered

\* Gone back to where the block was opened, with what a part before it left.
LEMMA BackIs ==
  ASSUME NEW w, NEW b, NEW R, NEW n, Inside(w, b, R, n), MayEnter(b), NEW u, Settled(u, w, b, R),
         NEW back, BackAt(u, back, b), back.lines = u.lines
  PROVE  /\ Sound(back, R, b.number - 1) /\ back.letters = w.letters
         /\ Len(back.frames) = Len(b.outer) + 1
         /\ \A i \in 1 .. Len(b.outer) : back.frames[i] = w.frames[i]
         /\ \A l \in DOMAIN R : l \in DOMAIN w.lines /\ w.lines[l] = b.lines[l]
         /\ Len(w.letters) = b.lettersAt
<1>1. /\ w \in Stances /\ b \in BlockSet /\ Around(w, b, R) /\ b.frame = Len(b.outer) + 1
      /\ b.lettersAt <= Len(w.letters) /\ b.lettersAt \in Nat /\ Len(w.letters) \in Nat
  <2>1. w \in Stances /\ b \in BlockSet /\ Around(w, b, R) /\ b.frame = Len(b.outer) + 1
    BY DEF Inside, Shaped
  <2>2. b.lettersAt <= Len(w.letters)
    BY <2>1 DEF Around, Viewed
  <2> QED
    BY <2>1, <2>2, BlockIs, StanceIs
<1>2. /\ \A l \in DOMAIN R : l \in DOMAIN w.lines /\ w.lines[l] = b.lines[l]
      /\ Len(w.letters) = b.lettersAt
  BY DEF Inside, Goes, Whole, ViewNow
<1>3. /\ u \in Stances /\ Framed(u.frames, u.scope) /\ IsPrefix(b.outer, u.scope) /\ u.letters = w.letters
      /\ (\A i \in 1 .. Len(b.outer) : u.frames[i] = w.frames[i])
      /\ \A l \in DOMAIN R : l \in DOMAIN w.lines => l \in DOMAIN u.lines /\ u.lines[l] = w.lines[l]
  BY DEF Settled
<1>4. Around(u, b, R)
  <2>1. b.lettersAt <= Len(u.letters) /\ \A i \in 1 .. b.lettersAt : u.letters[i] = w.letters[i]
    BY <1>1, <1>3
  <2> QED
    BY <1>1, <1>3, <2>1, AroundAs
<1>5. \A l \in DOMAIN R : l \in DOMAIN b.lines => l \in DOMAIN back.lines /\ back.lines[l] = b.lines[l]
  BY <1>2, <1>3
<1>6. /\ Sound(back, R, b.number - 1) /\ Len(back.letters) = b.lettersAt
      /\ \A i \in 1 .. Len(b.outer) : back.frames[i] = u.frames[i]
  BY <1>1, <1>3, <1>4, <1>5, SoundBack
<1>7. back.letters = w.letters
  <2>1. back.letters = SubSeq(w.letters, 1, Len(w.letters)) /\ w.letters \in Seq(LetterSet)
    BY <1>1, <1>2, <1>3, StanceIs DEF BackAt
  <2> QED
    BY <2>1, SubSeqFull
<1>8. Len(back.frames) = Len(b.outer) + 1
  BY <1>6 DEF Sound, Framed, BackAt
<1> QED
  BY <1>2, <1>3, <1>6, <1>7, <1>8

\* A part of a `cases` block is entered.
EntersCase(w, b, R, n, u, p, v, n1, R1) ==
  /\ Inside(w, b, R, n) /\ b.by = "cases" /\ Settled(u, w, b, R)
  /\ p \in Parts /\ v = EnterCase(u, p) /\ n1 \in Nat /\ b.number <= n1
  /\ DOMAIN R1 = DOMAIN R \cup {<<"K", b.number>>} /\ R1[<<"K", b.number>>] = CaseOf(b, p)
  /\ \A l \in DOMAIN R : l # <<"K", b.number>> => R1[l] = R[l]

\* A part's own assumption, on the scope the block was opened at.
EnteredCase(w, b, R, u, p, v, n1, R1) ==
  /\ v \in Stances /\ v.scope = Append(b.outer, CaseOf(b, p)) /\ Sound(v, R1, n1)
  /\ CaseOf(b, p) \in DOMAIN v.facts
  /\ v.b = [u.b EXCEPT !.entered = p] /\ v.letters = w.letters /\ v.closers = u.closers
  /\ \A i \in 1 .. Len(b.outer) : v.frames[i] = w.frames[i]
  /\ \A l \in DOMAIN R : l \in DOMAIN v.lines /\ v.lines[l] = b.lines[l]

\* Entering a part of a `cases` block puts the part's assumption on the
\* block's own scope.
LEMMA EnterCaseIs ==
  ASSUME NEW w, NEW b, NEW R, NEW n, NEW u, NEW p, NEW v, NEW n1, NEW R1, EntersCase(w, b, R, n, u, p, v, n1, R1)
  PROVE  EnteredCase(w, b, R, u, p, v, n1, R1)
<1> USE DEF EntersCase
<1>1. w \in Stances /\ b \in BlockSet /\ b.number \in Nat /\ b.number > 0 /\ b.outer \in Scopes /\ Shaped(b, R)
      /\ b.named \in SUBSET Nat /\ b.outside \in KnownSet
  BY BlockIs DEF Inside, Shaped
<1>2. /\ u \in Stances /\ u.b \in BlockSet /\ SameBut(b, u.b) /\ u.letters = w.letters
  BY DEF Settled
<1>3. /\ u.b.frame = b.frame /\ u.b.named = b.named /\ u.b.outer = b.outer /\ u.b.outside = b.outside
      /\ u.b.labels = b.labels /\ CaseOf(u.b, p) = CaseOf(b, p)
  BY <1>2 DEF SameBut, Same, CaseOf
<1>4. MayEnter(b)
  BY DEF MayEnter
<1>5. PICK back : back = [u EXCEPT !.frames = SubSeq(@, 1, b.frame), !.names = b.named,
                                   !.scope = b.outer, !.facts = b.outside]
  OBVIOUS
<1>6. Len(w.letters) = b.lettersAt
  BY <1>4 DEF Inside, Goes, Whole, ViewNow
<1>7. SubSeq(u.frames, 1, b.frame) \in Seq(FrameSet)
  <2>1. u.frames \in Seq(FrameSet) /\ Len(u.frames) \in Nat /\ b.frame = Len(b.outer) + 1
    BY <1>1, <1>2, StanceIs DEF Shaped
  <2>2. Len(b.outer) <= Len(u.scope) /\ Len(u.frames) = Len(u.scope) + 1 /\ Len(b.outer) \in Nat /\ Len(u.scope) \in Nat
    <3>1. IsPrefix(b.outer, u.scope) /\ Framed(u.frames, u.scope)
      BY DEF Settled
    <3>2. Len(b.outer) <= Len(u.scope)
      BY <1>1, <1>2, <3>1, StanceIs, PrefixIs
    <3> QED
      BY <1>1, <1>2, <3>1, <3>2, StanceIs DEF Framed, Scopes
  <2>3. PICK f \in 0 .. Len(u.frames) : f = b.frame
    BY <2>1, <2>2
  <2> QED
    BY <2>1, <2>3, FirstsAre
<1>8. /\ back \in Stances /\ back.scope = b.outer /\ back.facts = b.outside /\ back.frames = SubSeq(u.frames, 1, b.frame)
      /\ back.letters = u.letters /\ back.lines = u.lines /\ back.closers = u.closers /\ back.b = u.b
  BY <1>1, <1>2, <1>5, <1>7 DEF Stances
<1>9. BackAt(u, back, b)
  <2>1. SubSeq(u.letters, 1, b.lettersAt) = u.letters
    <3>1. u.letters \in Seq(LetterSet) /\ Len(u.letters) = b.lettersAt
      BY <1>2, <1>6, StanceIs
    <3> QED
      BY <3>1, SubSeqFull
  <2> QED
    BY <1>8, <2>1 DEF BackAt
<1>10. /\ Sound(back, R, b.number - 1) /\ back.letters = w.letters /\ Len(back.frames) = Len(b.outer) + 1
       /\ (\A i \in 1 .. Len(b.outer) : back.frames[i] = w.frames[i])
       /\ \A l \in DOMAIN R : l \in DOMAIN w.lines /\ w.lines[l] = b.lines[l]
  <2>1. back.lines = u.lines
    BY <1>8
  <2> QED
    BY <1>4, <1>9, <2>1, BackIs
<1>11. PICK case \in Saids : case = CaseOf(b, p)
  BY <1>1, OpensAre
<1>12. PICK inner : inner = Widen(back, case)
  OBVIOUS
<1>13. Sound(inner, R, b.number - 1) /\ Wider(back, case, inner) /\ Onward(back, inner)
  BY <1>8, <1>10, <1>12, WidenIs
<1>14. /\ inner \in Stances /\ inner.scope = Append(b.outer, case) /\ case \in DOMAIN inner.facts
       /\ inner.facts[case] = inner.scope
       /\ inner.lines = u.lines /\ inner.letters = w.letters /\ inner.closers = u.closers /\ inner.b = u.b
  BY <1>8, <1>10, <1>13 DEF Wider
<1>15. \A i \in 1 .. Len(b.outer) : inner.frames[i] = w.frames[i]
  <2>1. Len(b.outer) \in Nat
    BY <1>1 DEF Scopes
  <2>2. \A i \in 1 .. Len(b.outer) : inner.frames[i] = back.frames[i]
    BY <1>10, <1>13, <2>1 DEF Onward, Deeper
  <2> QED
    BY <1>10, <2>2
<1>16. PICK label \in Labels : label = <<"K", b.number>> /\ label = u.b.labels[p]
  <2>1. b.labels[p] = <<"K", b.number>>
    BY <1>1 DEF Shaped, Parts
  <2>2. <<"K", b.number>> \in Labels
    BY <1>1 DEF Labels
  <2> QED
    BY <1>3, <2>1, <2>2
<1>17. PICK line : line = Line(case, inner.scope, 0)
  OBVIOUS
<1>18. line \in LineSet /\ line.claim = case /\ line.under = inner.scope
  <2>1. PICK s \in Scopes : s = inner.scope
    BY <1>14, StanceIs
  <2>2. Line(case, s, 0) \in LineSet /\ Line(case, s, 0).claim = case /\ Line(case, s, 0).under = s
    BY LineIs
  <2> QED
    BY <1>17, <2>1, <2>2
<1>19. PICK ls : ls = With(inner.lines, label, line)
  OBVIOUS
<1>20. /\ ls \in Lines /\ DOMAIN ls = DOMAIN u.lines \cup {label} /\ ls[label] = line
       /\ \A l \in DOMAIN u.lines : l # label => ls[l] = u.lines[l]
  <2>1. u.lines \in Maps(Labels, LineSet) /\ ls = With(u.lines, label, line)
    BY <1>2, <1>14, <1>19, StanceIs DEF Lines
  <2>2. ls \in Maps(Labels, LineSet)
    BY <1>18, <2>1, WithIn
  <2>3. /\ DOMAIN ls = DOMAIN u.lines \cup {label} /\ ls[label] = line
        /\ \A l \in DOMAIN u.lines : l # label => ls[l] = u.lines[l]
    BY <2>1 DEF With
  <2> QED
    BY <2>2, <2>3 DEF Lines
<1>21. PICK c : c = [u.b EXCEPT !.entered = p]
  OBVIOUS
<1>22. c \in BlockSet
  BY <1>2, <1>21 DEF BlockSet
<1>23. v = [inner EXCEPT !.b = c, !.lines = ls]
  <2>1. v = [inner EXCEPT !.b.entered = p, !.lines = With(@, u.b.labels[p], Line(case, inner.facts[case], 0))]
    BY <1>3, <1>5, <1>11, <1>12 DEF EnterCase
  <2>2. With(inner.lines, u.b.labels[p], Line(case, inner.facts[case], 0)) = ls
    BY <1>14, <1>16, <1>17, <1>19
  <2> QED
    BY <1>14, <1>21, <2>1, <2>2
<1>24. /\ v \in Stances /\ v.b = c /\ v.lines = ls /\ v.frames = inner.frames /\ v.scope = inner.scope
       /\ v.letters = inner.letters /\ v.facts = inner.facts /\ v.closers = inner.closers
  BY <1>14, <1>20, <1>22, <1>23, ZenonT(60) DEF Stances
<1>25. \A l \in DOMAIN R : l # label
  <2>1. \A l \in DOMAIN R : Numbered(l, b.number - 1)
    BY <1>10 DEF Sound, Viewed, Inscribed
  <2> QED
    BY <1>1, <1>16, <2>1, LabelFresh
<1>26. \A l \in DOMAIN R : l \in DOMAIN u.lines /\ u.lines[l] = b.lines[l]
  BY <1>10 DEF Settled
<1>27. \A l \in DOMAIN R : l \in DOMAIN v.lines /\ v.lines[l] = b.lines[l]
  BY <1>20, <1>24, <1>25, <1>26
<1>28. Sound(v, R1, n1)
  <2>1. PICK m \in Int : m = b.number - 1 /\ m <= n1
    BY <1>1
  <2>2. Sound(inner, R, m)
    BY <1>13, <2>1
  <2>3. Numbered(label, n1)
    BY <1>1, <1>16 DEF Numbered
  <2>4. \A l \in DOMAIN R : l # label => R1[l] = R[l] /\ l \in DOMAIN v.lines /\ v.lines[l] = inner.lines[l]
    BY <1>14, <1>16, <1>20, <1>24, <1>26
  <2>5. AllAt(v.facts, v.scope) /\ DOMAIN inner.facts \subseteq DOMAIN v.facts
    BY <1>13, <1>24 DEF Sound, Viewed
  <2>6. label \in DOMAIN v.lines /\ v.lines[label].claim \in DOMAIN v.facts /\ v.lines[label].under = v.scope
    BY <1>14, <1>18, <1>20, <1>24
  <2>7. R1[label] = Plain(v.lines[label].claim) /\ DOMAIN R1 = DOMAIN R \cup {label}
    <3>1. Plain(case) = case
      BY <1>11 DEF Plain, CaseOf
    <3> QED
      BY <1>11, <1>16, <1>18, <1>20, <1>24, <3>1
  <2>8. inner \in Stances /\ v \in Stances /\ v.frames = inner.frames /\ v.scope = inner.scope /\ v.letters = inner.letters
    BY <1>14, <1>24
  <2>9. m <= n1 /\ m \in Int /\ n1 \in Int
    BY <2>1
  <2>10. Writes(inner, v, R, R1, m, n1, label)
    BY <2>2, <2>3, <2>4, <2>5, <2>6, <2>7, <2>8, <2>9 DEF Writes
  <2> QED
    BY <2>10, WritesIs
<1> QED
  BY <1>11, <1>14, <1>15, <1>21, <1>24, <1>27, <1>28 DEF EnteredCase

\* What the checker reads once more labels are given.
Grown(R, m, R1) ==
  /\ DOMAIN R1 = DOMAIN R \cup DOMAIN m
  /\ \A l \in DOMAIN m : R1[l] = m[l]
  /\ \A l \in DOMAIN R : l \notin DOMAIN m => R1[l] = R[l]

\* A part entered: its scope is the block's with what the part assumes.
EntersAt(w, u, b, R, R1, n1, p, v) ==
  /\ v \in Stances /\ v.scope = b.outer \o OpensOf(b, p) /\ Sound(v, R1, n1)
  /\ v.b = [u.b EXCEPT !.entered = p] /\ v.closers = u.closers
  /\ Len(w.letters) = b.lettersAt /\ b.lettersAt <= Len(v.letters)
  /\ \A i \in 1 .. b.lettersAt : v.letters[i] = w.letters[i]
  /\ \A i \in 1 .. Len(b.outer) : v.frames[i] = w.frames[i]
  /\ b.by = "cases" \/ p = 0 =>
       /\ \A l \in DOMAIN R : l \in DOMAIN v.lines /\ v.lines[l] = b.lines[l]
       /\ Len(v.letters) = b.lettersAt

\* One more value leaves the others.
LEMMA WithOther ==
  ASSUME NEW f, NEW x, NEW y, NEW g, g = With(f, x, y), NEW z \in DOMAIN f, z # x
  PROVE  g[z] = f[z]
  BY DEF With

\* An opener is laid down.
Lays(w, v, R, R1, n, n1, added, label) ==
  /\ w \in Stances /\ n \in Int /\ n1 \in Int /\ n <= n1 /\ Sound(w, R, n)
  /\ added \in Saids /\ added[1] # "at" /\ (added[1] = "let" => added[2] \in Nat)
  /\ label \in Labels /\ Numbered(label, n1)
  /\ DOMAIN R1 = DOMAIN R \cup {label} /\ R1[label] = added
  /\ \A l \in DOMAIN R : l # label => R1[l] = R[l]
  /\ v = Lay(w, added, label)

\* An opener laid down leaves what is known sound, under what it assumes.
LEMMA LaysIs ==
  ASSUME NEW w, NEW v, NEW R, NEW R1, NEW n, NEW n1, NEW added, NEW label, Lays(w, v, R, R1, n, n1, added, label)
  PROVE  /\ v \in Stances /\ Sound(v, R1, n1) /\ Onward(w, v)
         /\ v.scope = Append(w.scope, added) /\ v.closers = w.closers
         /\ v.opened = Append(w.opened, added) /\ v.b = w.b
<1>1. PICK k \in Int, k1 \in Int : k = n /\ k1 = n1 /\ k <= k1
  BY DEF Lays
<1>2. PICK w1 \in Stances : w1 = w
  BY DEF Lays
<1>3. PICK a \in Saids : a = added /\ a[1] # "at" /\ (a[1] = "let" => a[2] \in Nat)
  BY DEF Lays
<1>4. PICK l1 \in Labels : l1 = label /\ Numbered(l1, k1)
  BY <1>1 DEF Lays
<1>5. DOMAIN R1 = DOMAIN R \cup {l1} /\ R1[l1] = a /\ \A l \in DOMAIN R : l # l1 => R1[l] = R[l]
  BY <1>3, <1>4 DEF Lays
<1>6. Sound(w1, R, k) /\ v = Lay(w1, a, l1)
  BY <1>1, <1>2, <1>3, <1>4 DEF Lays
<1>7. /\ v \in Stances /\ Sound(v, R1, k1) /\ Onward(w1, v)
      /\ v.scope = Append(w1.scope, a) /\ v.closers = w1.closers
      /\ v.opened = Append(w1.opened, a) /\ v.b = w1.b
  BY <1>1, <1>3, <1>4, <1>5, <1>6, LayIs, SMTT(30)
<1> QED
  BY <1>1, <1>2, <1>3, <1>7

\* What is known stays known as more ids are used.
LEMMA SoundLater ==
  ASSUME NEW w \in Stances, NEW R, NEW n \in Int, NEW n1 \in Int, n <= n1, Sound(w, R, n)
  PROVE  Sound(w, R, n1)
<1>1. \A l : Numbered(l, n) => Numbered(l, n1)
  BY DEF Numbered
<1> QED
  BY <1>1 DEF Sound, Viewed, Inscribed

\* Assuming two things one after the other.
LEMMA AppendTwo ==
  ASSUME NEW s \in Scopes, NEW a \in Saids, NEW c \in Saids
  PROVE  Append(s, a) = s \o <<a>> /\ Append(Append(s, a), c) = s \o <<a, c>>
  BY DEF Scopes

\* Assuming nothing.
LEMMA NothingMore ==
  ASSUME NEW s \in Scopes
  PROVE  s \o <<>> = s
  BY DEF Scopes

\* Entering a part of an `induction` block puts what the part assumes on the
\* block's own scope.
LEMMA EnterInductionIs ==
  ASSUME NEW w, NEW b, NEW R \in Readings, NEW n, Inside(w, b, R, n), b.by = "induction", MayEnter(b),
         NEW u, Settled(u, w, b, R),
         NEW p \in Parts, NEW v, v = EnterInduction(u, p), NEW n1 \in Nat, b.number <= n1,
         NEW R1, NEW m, m = PartLabels(b, p), Grown(R, m, R1)
  PROVE  EntersAt(w, u, b, R, R1, n1, p, v)
<1>1. w \in Stances /\ b \in BlockSet /\ b.number \in Nat /\ b.number > 0 /\ b.outer \in Scopes /\ Shaped(b, R)
      /\ b.named \in SUBSET Nat /\ b.outside \in KnownSet /\ b.lettersAt \in Nat
  BY BlockIs DEF Inside, Shaped
<1>2. /\ u \in Stances /\ u.b \in BlockSet /\ SameBut(b, u.b) /\ u.letters = w.letters
  BY DEF Settled
<1>3. /\ u.b.frame = b.frame /\ u.b.named = b.named /\ u.b.outer = b.outer /\ u.b.outside = b.outside
      /\ u.b.labels = b.labels /\ u.b.number = b.number /\ u.b.lettersAt = b.lettersAt
  BY <1>2 DEF SameBut, Same
<1>5. PICK c : c = [u.b EXCEPT !.entered = p]
  OBVIOUS
<1>6. c \in BlockSet
  BY <1>2, <1>5 DEF BlockSet
<1>7. PICK back : back = [u EXCEPT !.frames = SubSeq(@, 1, b.frame), !.names = b.named,
                                   !.letters = SubSeq(@, 1, b.lettersAt),
                                   !.scope = b.outer, !.facts = b.outside, !.b = c]
  OBVIOUS
<1>8. Len(w.letters) = b.lettersAt
  BY DEF Inside, Goes, Whole, ViewNow
<1>9. SubSeq(u.frames, 1, b.frame) \in Seq(FrameSet)
  <2>1. u.frames \in Seq(FrameSet) /\ Len(u.frames) \in Nat /\ b.frame = Len(b.outer) + 1
    BY <1>1, <1>2, StanceIs DEF Shaped
  <2>2. Len(b.outer) <= Len(u.scope) /\ Len(u.frames) = Len(u.scope) + 1 /\ Len(b.outer) \in Nat /\ Len(u.scope) \in Nat
    <3>1. IsPrefix(b.outer, u.scope) /\ Framed(u.frames, u.scope)
      BY DEF Settled
    <3>2. Len(b.outer) <= Len(u.scope)
      BY <1>1, <1>2, <3>1, StanceIs, PrefixIs
    <3> QED
      BY <1>1, <1>2, <3>1, <3>2, StanceIs DEF Framed, Scopes
  <2>3. PICK f \in 0 .. Len(u.frames) : f = b.frame
    BY <2>1, <2>2
  <2> QED
    BY <2>1, <2>3, FirstsAre
<1>10. SubSeq(u.letters, 1, b.lettersAt) = u.letters /\ u.letters \in Seq(LetterSet)
  <2>1. u.letters \in Seq(LetterSet) /\ Len(u.letters) = b.lettersAt
    BY <1>2, <1>8, StanceIs
  <2> QED
    BY <2>1, SubSeqFull
<1>11. /\ back \in Stances /\ back.scope = b.outer /\ back.facts = b.outside /\ back.frames = SubSeq(u.frames, 1, b.frame)
       /\ back.letters = u.letters /\ back.lines = u.lines /\ back.closers = u.closers /\ back.b = c
  BY <1>1, <1>2, <1>6, <1>7, <1>9, <1>10 DEF Stances
<1>12. BackAt(u, back, b)
  BY <1>10, <1>11 DEF BackAt
<1>13. /\ Sound(back, R, b.number - 1) /\ back.letters = w.letters /\ Len(back.frames) = Len(b.outer) + 1
       /\ (\A i \in 1 .. Len(b.outer) : back.frames[i] = w.frames[i])
       /\ \A l \in DOMAIN R : l \in DOMAIN w.lines /\ w.lines[l] = b.lines[l]
  <2>1. back.lines = u.lines
    BY <1>11
  <2> QED
    BY <1>12, <2>1, BackIs
<1>14. PICK k \in Int : k = b.number - 1 /\ k <= n1
  BY <1>1
<1>15. CASE p = 0
  <2>1. v = back
    <3>1. v = [u EXCEPT !.frames = SubSeq(@, 1, b.frame), !.names = b.named,
                        !.letters = SubSeq(@, 1, b.lettersAt),
                        !.scope = b.outer, !.facts = b.outside, !.b.entered = p]
      BY <1>3, <1>15 DEF EnterInduction
    <3> QED
      BY <1>2, <1>5, <1>7, <3>1
  <2>2. OpensOf(b, p) = <<>> /\ m = <<>>
    BY <1>15 DEF OpensOf, PartLabels
  <2>3. b.outer \o OpensOf(b, p) = b.outer
    BY <1>1, <2>2, NothingMore
  <2>4. DOMAIN m = {}
    BY <2>2, NoneIs
  <2>5. DOMAIN R1 = DOMAIN R /\ \A l \in DOMAIN R : R1[l] = R[l]
    BY <2>4 DEF Grown
  <2>6. Sound(back, R1, n1)
    <3>1. Sound(back, R, n1)
      BY <1>11, <1>13, <1>14, SoundLater
    <3> QED
      BY <2>5, <3>1 DEF Sound, Viewed, Inscribed
  <2>7. \A l \in DOMAIN R : l \in DOMAIN back.lines /\ back.lines[l] = b.lines[l]
    BY <1>11, <1>13 DEF Settled
  <2> QED
    <3>1. v \in Stances /\ v.scope = b.outer \o OpensOf(b, p) /\ Sound(v, R1, n1) /\ v.b = [u.b EXCEPT !.entered = p]
      BY <1>5, <1>11, <2>1, <2>3, <2>6
    <3>2. v.closers = u.closers /\ v.letters = w.letters
      BY <1>11, <1>13, <2>1
    <3>3. Len(w.letters) = b.lettersAt /\ b.lettersAt <= Len(v.letters)
      BY <1>1, <1>8, <3>2
    <3>4. \A i \in 1 .. Len(b.outer) : v.frames[i] = w.frames[i]
      BY <1>13, <2>1
    <3>5. \A l \in DOMAIN R : l \in DOMAIN v.lines /\ v.lines[l] = b.lines[l]
      BY <2>1, <2>7
    <3> QED
      BY <3>1, <3>2, <3>3, <3>4, <3>5 DEF EntersAt
<1>16. CASE p = 1
  <2> DEFINE K == <<"K", b.number>>
             L == <<"L", b.number>>
  <2>1. PICK let \in Saids : let = <<"let", b.number>>
    BY <1>1, OpensAre
  <2>2. PICK assume \in Saids : assume = <<"assume", b.number>>
    BY <1>1, OpensAre
  <2>3. PICK la \in Labels : la = K
    BY <1>1 DEF Labels
  <2>4. PICK lb \in Labels : lb = L /\ lb = u.b.labels[1]
    <3>1. L \in Labels
      BY <1>1 DEF Labels
    <3>2. u.b.labels[1] = L
      BY <1>1, <1>3 DEF Shaped
    <3> QED
      BY <3>1, <3>2
  <2>5. la # lb
    BY <2>3, <2>4
  <2>6. PICK mid : mid = Lay(back, let, la)
    OBVIOUS
  <2>7. v = Lay(mid, assume, lb)
    <3>1. v = Lay(Lay([u EXCEPT !.frames = SubSeq(@, 1, b.frame), !.names = b.named,
                        !.letters = SubSeq(@, 1, b.lettersAt),
                        !.scope = b.outer, !.facts = b.outside, !.b.entered = p], let, la), assume, lb)
      BY <1>3, <1>16, <2>1, <2>2, <2>3, <2>4 DEF EnterInduction
    <3>2. back = [u EXCEPT !.frames = SubSeq(@, 1, b.frame), !.names = b.named,
                        !.letters = SubSeq(@, 1, b.lettersAt),
                        !.scope = b.outer, !.facts = b.outside, !.b.entered = p]
      BY <1>2, <1>5, <1>7
    <3> QED
      BY <2>6, <3>1, <3>2
  <2>8. PICK R2 : R2 = With(R, la, let)
    OBVIOUS
  <2>9. DOMAIN R2 = DOMAIN R \cup {la} /\ R2[la] = let /\ \A l \in DOMAIN R : l # la => R2[l] = R[l]
    BY <2>8 DEF With
  <2>10. let[1] # "at" /\ let[1] = "let" /\ let[2] \in Nat /\ Numbered(la, n1)
    BY <1>1, <2>1, <2>3 DEF Numbered
  <2>11. /\ mid \in Stances /\ Sound(mid, R2, n1) /\ Onward(back, mid)
         /\ mid.scope = Append(back.scope, let) /\ mid.closers = back.closers /\ mid.b = back.b
    <3>1. k \in Int /\ n1 \in Int /\ k <= n1 /\ Sound(back, R, k)
      BY <1>13, <1>14
    <3>2. back \in Stances
      BY <1>11
    <3>3. Lays(back, mid, R, R2, k, n1, let, la)
      BY <2>6, <2>9, <2>10, <3>1, <3>2 DEF Lays
    <3> QED
      BY <3>3, LaysIs
  <2>12. assume[1] # "at" /\ assume[1] # "let" /\ Numbered(lb, n1)
    BY <1>1, <2>2, <2>4 DEF Numbered
  <2>13. m = With(Only(lb, assume), la, let)
    BY <1>1, <1>3, <1>16, <2>1, <2>2, <2>3, <2>4 DEF PartLabels
  <2>14. DOMAIN m = {la, lb} /\ m[la] = let /\ m[lb] = assume
    <3>1. PICK o : o = Only(lb, assume)
      OBVIOUS
    <3>2. DOMAIN o = {lb} /\ o[lb] = assume
      BY <3>1, OnlyIs
    <3>3. m = With(o, la, let)
      BY <2>13, <3>1
    <3>4. DOMAIN m = {lb} \cup {la} /\ m[la] = let
      BY <3>2, <3>3 DEF With
    <3>5. lb \in DOMAIN o /\ lb # la
      BY <2>5, <3>2
    <3>6. m[lb] = o[lb]
      BY <3>3, <3>5, WithOther
    <3> QED
      BY <3>2, <3>4, <3>6
  <2>15. DOMAIN R1 = DOMAIN R2 \cup {lb} /\ R1[lb] = assume /\ \A l \in DOMAIN R2 : l # lb => R1[l] = R2[l]
    BY <2>5, <2>9, <2>14 DEF Grown
  <2>16. /\ v \in Stances /\ Sound(v, R1, n1) /\ Onward(mid, v)
         /\ v.scope = Append(mid.scope, assume) /\ v.closers = mid.closers /\ v.b = mid.b
    BY <2>7, <2>11, <2>12, <2>15, LayIs, SMTT(30)
  <2>17. Onward(back, v)
    BY <1>11, <2>11, <2>16, OnwardThrough
  <2>18. v.scope = b.outer \o OpensOf(b, p)
    <3>1. OpensOf(b, p) = <<let, assume>>
      BY <1>16, <2>1, <2>2 DEF OpensOf
    <3> QED
      BY <1>1, <1>11, <2>11, <2>16, <3>1, AppendTwo
  <2>19. /\ b.lettersAt <= Len(v.letters)
         /\ \A i \in 1 .. b.lettersAt : v.letters[i] = w.letters[i]
    BY <1>8, <1>13, <2>17 DEF Onward
  <2>20. \A i \in 1 .. Len(b.outer) : v.frames[i] = w.frames[i]
    <3>1. Len(b.outer) \in Nat
      BY <1>1 DEF Scopes
    <3> QED
      BY <1>13, <2>17, <3>1 DEF Onward, Deeper
  <2>21. v.b = [u.b EXCEPT !.entered = p] /\ v.closers = u.closers
    BY <1>5, <1>11, <2>11, <2>16
  <2>22. ~(b.by = "cases" \/ p = 0)
    BY <1>16
  <2> QED
    BY <1>8, <2>16, <2>18, <2>19, <2>20, <2>21, <2>22 DEF EntersAt
<1> QED
  BY <1>15, <1>16 DEF Parts

\* Entering a part puts what it assumes on the block's own scope.
LEMMA EnterIs ==
  ASSUME NEW w, NEW b, NEW R \in Readings, NEW n, Inside(w, b, R, n), MayEnter(b),
         NEW u, Settled(u, w, b, R),
         NEW p \in Parts, NEW v, v = Enter(u, p), NEW n1 \in Nat, b.number <= n1,
         NEW R1, NEW m, m = PartLabels(b, p), Grown(R, m, R1)
  PROVE  EntersAt(w, u, b, R, R1, n1, p, v)
<1>1. u.b.by = b.by
  BY DEF Settled, SameBut, Same
<1>2. CASE b.by = "induction"
  <2>1. v = EnterInduction(u, p)
    BY <1>1, <1>2 DEF Enter
  <2> QED
    BY <1>2, <2>1, EnterInductionIs
<1>3. CASE b.by = "cases"
  <2>1. v = EnterCase(u, p)
    BY <1>1, <1>3 DEF Enter
  <2>2. b \in BlockSet /\ b.outer \in Scopes /\ Shaped(b, R) /\ w \in Stances /\ b.lettersAt \in Nat
    BY BlockIs DEF Inside
  <2>3. m = Only(<<"K", b.number>>, CaseOf(b, p))
    <3>1. b.labels[p] = <<"K", b.number>>
      BY <1>3, <2>2 DEF Shaped, Parts
    <3> QED
      BY <1>3, <3>1 DEF PartLabels
  <2>4. DOMAIN m = {<<"K", b.number>>} /\ m[<<"K", b.number>>] = CaseOf(b, p)
    BY <2>3, OnlyIs
  <2>5. DOMAIN R1 = DOMAIN R \cup {<<"K", b.number>>} /\ R1[<<"K", b.number>>] = CaseOf(b, p)
        /\ \A l \in DOMAIN R : l # <<"K", b.number>> => R1[l] = R[l]
    BY <2>4 DEF Grown
  <2>8. /\ v \in Stances /\ v.scope = Append(b.outer, CaseOf(b, p)) /\ Sound(v, R1, n1)
        /\ CaseOf(b, p) \in DOMAIN v.facts
        /\ v.b = [u.b EXCEPT !.entered = p] /\ v.letters = w.letters /\ v.closers = u.closers
        /\ (\A i \in 1 .. Len(b.outer) : v.frames[i] = w.frames[i])
        /\ \A l \in DOMAIN R : l \in DOMAIN v.lines /\ v.lines[l] = b.lines[l]
    <3>1. EntersCase(w, b, R, n, u, p, v, n1, R1)
      BY <1>3, <2>1, <2>5 DEF EntersCase
    <3>2. EnteredCase(w, b, R, u, p, v, n1, R1)
      BY <3>1, EnterCaseIs
    <3> QED
      BY <3>2 DEF EnteredCase
  <2>9. v.scope = b.outer \o OpensOf(b, p)
    <3>1. PICK case \in Saids : case = CaseOf(b, p)
      BY <2>2, OpensAre
    <3>2. OpensOf(b, p) = <<case>>
      BY <1>3, <3>1 DEF OpensOf
    <3> QED
      BY <2>2, <2>8, <3>1, <3>2, AppendTwo
  <2>10. Len(w.letters) = b.lettersAt
    BY DEF Inside, Goes, Whole, ViewNow
  <2>11. b.lettersAt <= Len(v.letters)
    BY <2>2, <2>8, <2>10
  <2> QED
    BY <2>8, <2>9, <2>10, <2>11 DEF EntersAt
<1> QED
  BY <1>2, <1>3 DEF MayEnter

\* The elaborator with the parts there are, the last of them perhaps not
\* ended yet.
Ready(u, w, b, R) ==
  /\ u \in Stances /\ u.b \in BlockSet /\ SameBut(b, u.b)
  /\ Settled(EndCase(u), w, b, R) /\ DOMAIN EndCase(u).b.parts = DOMAIN u.b.parts

\* A block whose part ends well may be settled from where the page stands.
LEMMA ReadyNow ==
  ASSUME NEW w, NEW b, NEW R, NEW n, Inside(w, b, R, n), PartEnded(w, b)
  PROVE  Ready(w, w, b, R)
<1>1. w \in Stances /\ b \in BlockSet /\ w.b = b /\ SameBut(b, b)
  BY DEF Inside, SameBut, Same
<1>2. PICK v : v = EndCase(w)
  OBVIOUS
<1>3. Settled(v, w, b, R) /\ DOMAIN v.b.parts = DOMAIN b.parts
  BY <1>2, EndCaseIs
<1> QED
  BY <1>1, <1>2, <1>3 DEF Ready

\* A case that is the claim ends as the block's lemma takes it, with no
\* steps.
LEMMA SettlePartIs ==
  ASSUME NEW w, NEW b, NEW R, NEW n, Inside(w, b, R, n), R \in Readings,
         NEW u, Ready(u, w, b, R), NEW p \in Parts, NEW before \in Nat, NEW v, v = SettlePart(u, p, before)
  PROVE  /\ Ready(v, w, b, R)
         /\ DOMAIN v.b.parts = DOMAIN u.b.parts \cup {q \in {p} : q \in b.claimed /\ q < before}
<1>1. /\ u \in Stances /\ u.b \in BlockSet /\ SameBut(b, u.b) /\ u.b.claimed = b.claimed /\ u.b.about = b.about
      /\ u.b.number = b.number
  BY DEF Ready, SameBut, Same
<1>2. p \in Nat /\ p \in Int /\ before \in Int
  BY DEF Parts
<1>3. CASE p \notin b.claimed \/ p \in DOMAIN u.b.parts \/ p >= before
  <2>1. v = u
    BY <1>1, <1>3 DEF SettlePart
  <2>2. DOMAIN u.b.parts = DOMAIN u.b.parts \cup {q \in {p} : q \in b.claimed /\ q < before}
    BY <1>2, <1>3
  <2> QED
    BY <2>1, <2>2
<1>4. CASE p \in b.claimed /\ p \notin DOMAIN u.b.parts /\ ~(p >= before)
  <2>1. b.by = "cases" /\ b \in BlockSet /\ Shaped(b, R) /\ b.outer \in Scopes /\ w \in Stances /\ b.openedAt \in Nat
        /\ b.number \in Nat /\ b.number > 0 /\ b.about \in Nat
    <3>1. b \in BlockSet /\ Shaped(b, R) /\ w \in Stances /\ Parted(b)
      BY DEF Inside
    <3>2. b.by = "cases"
      BY <1>4, <3>1 DEF Shaped, Parted
    <3> QED
      BY <3>1, <3>2, BlockIs DEF Shaped
  <2>2. PICK x : x = EndCase(u)
    OBVIOUS
  <2>3. Settled(x, w, b, R) /\ DOMAIN x.b.parts = DOMAIN u.b.parts
    BY <2>2 DEF Ready
  <2>4. /\ x \in Stances /\ x.b \in BlockSet /\ SameBut(b, x.b) /\ x.closers = SubSeq(w.closers, 1, b.openedAt)
        /\ \A q \in DOMAIN x.b.parts : x.b.parts[q].under = b.outer \o OpensOf(b, q)
    BY <2>3 DEF Settled
  <2>5. PICK in : in = EnterCase(x, p)
    OBVIOUS
  <2>6. PICK R1 : R1 = With(R, <<"K", b.number>>, CaseOf(b, p))
    OBVIOUS
  <2>7. DOMAIN R1 = DOMAIN R \cup {<<"K", b.number>>} /\ R1[<<"K", b.number>>] = CaseOf(b, p)
        /\ \A l \in DOMAIN R : l # <<"K", b.number>> => R1[l] = R[l]
    BY <2>6 DEF With
  <2>8. b.number <= b.number
    BY <2>1
  <2>9. /\ in \in Stances /\ in.scope = Append(b.outer, CaseOf(b, p)) /\ Sound(in, R1, b.number)
        /\ CaseOf(b, p) \in DOMAIN in.facts
        /\ in.b = [x.b EXCEPT !.entered = p] /\ in.letters = w.letters /\ in.closers = x.closers
        /\ (\A i \in 1 .. Len(b.outer) : in.frames[i] = w.frames[i])
        /\ \A l \in DOMAIN R : l \in DOMAIN in.lines /\ in.lines[l] = b.lines[l]
    <3>1. EntersCase(w, b, R, n, x, p, in, b.number, R1)
      BY <2>1, <2>3, <2>5, <2>7, <2>8 DEF EntersCase
    <3>2. EnteredCase(w, b, R, x, p, in, b.number, R1)
      BY <3>1, EnterCaseIs
    <3> QED
      BY <3>2 DEF EnteredCase
  <2>10. Framed(in.frames, in.scope) /\ in.facts[CaseOf(b, p)] = in.scope
    BY <2>9 DEF Sound, Viewed, AllAt
  <2>11. Len(in.closers) = b.openedAt
    <3>1. b.openedAt <= Len(w.closers) /\ w.closers \in Seq(CloserSet) /\ Len(w.closers) \in Nat
      BY <2>1, StanceIs DEF Inside, Closing, Leads, ViewNow
    <3>2. PICK k \in 0 .. Len(w.closers) : k = b.openedAt
      BY <2>1, <3>1
    <3>3. PICK s : s = SubSeq(w.closers, 1, k)
      OBVIOUS
    <3>4. Len(s) = k
      BY <3>1, <3>3, FirstsAre
    <3>5. in.closers = s
      BY <2>4, <2>9, <3>2, <3>3
    <3> QED
      BY <3>2, <3>4, <3>5
  <2>12. PICK end : end = [under |-> in.scope, about |-> b.about]
    OBVIOUS
  <2>13. end \in EndSet
    BY <2>1, <2>9, <2>12, StanceIs DEF EndSet
  <2>14. PICK ps : ps = With(x.b.parts, p, end)
    OBVIOUS
  <2>15. ps \in Maps(Parts, EndSet) /\ DOMAIN ps = DOMAIN u.b.parts \cup {p} /\ ps[p] = end
         /\ \A q \in DOMAIN x.b.parts : q # p => ps[q] = x.b.parts[q]
    <3>1. x.b.parts \in Maps(Parts, EndSet)
      BY <2>4, PartsOfBlock
    <3>2. ps \in Maps(Parts, EndSet)
      BY <2>13, <2>14, <3>1, WithIn
    <3>3. DOMAIN ps = DOMAIN x.b.parts \cup {p} /\ ps[p] = end
          /\ \A q \in DOMAIN x.b.parts : q # p => ps[q] = x.b.parts[q]
      BY <2>14 DEF With
    <3> QED
      BY <2>3, <3>2, <3>3
  <2>16. PICK c : c = [x.b EXCEPT !.parts = ps, !.entered = p, !.caseAt = b.openedAt]
    OBVIOUS
  <2>17. c \in BlockSet /\ SameBut(x.b, c) /\ c.parts = ps /\ c.caseAt = b.openedAt
    <3>1. PICK y \in BlockSet, e \in {NoPart} \cup Parts, at \in {NoPart} \cup Nat : y = x.b /\ e = p /\ at = b.openedAt
      BY <2>1, <2>4
    <3>2. c = [y EXCEPT !.parts = ps, !.entered = e, !.caseAt = at]
      BY <2>16, <3>1
    <3>3. c \in BlockSet /\ SameBut(y, c) /\ c.parts = ps /\ c.caseAt = at
      <4>1. ps \in Maps(Parts, EndSet)
        BY <2>15
      <4> QED
        BY <3>2, <4>1 DEF BlockSet, SameBut, Same
    <3> QED
      BY <3>1, <3>3
  <2>18. SameBut(b, c)
    BY <2>4, <2>17 DEF SameBut, Same
  <2>19. v = [in EXCEPT !.b = c]
    <3>1. in.b.parts = x.b.parts /\ in.b = [x.b EXCEPT !.entered = p]
      BY <2>4, <2>9 DEF BlockSet
    <3>2. CaseOf(u.b, p) = CaseOf(b, p)
      BY <1>1 DEF CaseOf
    <3>3. v = [in EXCEPT !.b.caseAt = Len(in.closers),
                         !.b.parts = With(@, p, [under |-> in.facts[CaseOf(u.b, p)], about |-> u.b.about])]
      BY <1>1, <1>4, <2>2, <2>5 DEF SettlePart
    <3>4. v = [in EXCEPT !.b = [in.b EXCEPT !.caseAt = b.openedAt, !.parts = ps]]
      BY <1>1, <2>9, <2>10, <2>11, <2>12, <2>14, <3>1, <3>2, <3>3, ZenonT(60)
    <3>5. [in.b EXCEPT !.caseAt = b.openedAt, !.parts = ps] = c
      BY <2>4, <2>16, <3>1 DEF BlockSet
    <3> QED
      BY <3>4, <3>5
  <2>20. /\ v \in Stances /\ v.b = c /\ v.frames = in.frames /\ v.scope = in.scope /\ v.lines = in.lines
         /\ v.letters = in.letters /\ v.closers = in.closers
    BY <2>9, <2>17, <2>19 DEF Stances
  <2>21. in.scope = b.outer \o OpensOf(b, p) /\ IsPrefix(b.outer, in.scope)
    <3>1. PICK case \in Saids : case = CaseOf(b, p)
      BY <2>1, OpensAre
    <3>2. OpensOf(b, p) = <<case>>
      BY <2>1, <3>1 DEF OpensOf
    <3>3. in.scope = b.outer \o OpensOf(b, p)
      BY <2>1, <2>9, <3>1, <3>2, AppendTwo
    <3>4. IsPrefix(b.outer, Append(b.outer, case))
      <4>1. PICK t : t = Append(b.outer, case)
        OBVIOUS
      <4>2. /\ t \in Scopes /\ Len(t) = Len(b.outer) + 1 /\ Len(b.outer) \in Nat
            /\ \A i \in 1 .. Len(b.outer) : t[i] = b.outer[i]
        BY <2>1, <4>1, AppendIs
      <4>3. PICK o \in Scopes : o = b.outer
        BY <2>1
      <4>4. Len(o) <= Len(t) /\ \A i \in 1 .. Len(o) : o[i] = t[i]
        BY <4>2, <4>3
      <4>5. IsPrefix(o, t)
        BY <4>2, <4>4, PrefixIs
      <4> QED
        BY <4>1, <4>3, <4>5
    <3> QED
      BY <2>9, <3>1, <3>3, <3>4
  <2>22. \A q \in DOMAIN c.parts : c.parts[q].under = b.outer \o OpensOf(b, q)
    <3>1. end.under = in.scope
      BY <2>12
    <3> QED
      BY <2>3, <2>4, <2>15, <2>17, <2>21, <3>1
  <2>23. \A l \in DOMAIN R : l \in DOMAIN w.lines => l \in DOMAIN v.lines /\ v.lines[l] = w.lines[l]
    <3>1. \A l \in DOMAIN R : l \in DOMAIN w.lines /\ w.lines[l] = b.lines[l]
      BY <2>1 DEF Inside, Goes, Whole, ViewNow, MayEnter
    <3> QED
      BY <2>9, <2>20, <3>1
  <2>24. Settled(v, w, b, R)
    <3>1. v.b \in BlockSet /\ SameBut(b, v.b) /\ v.b.caseAt \in {NoPart, b.openedAt}
      BY <2>17, <2>18, <2>20
    <3>2. \A q \in DOMAIN v.b.parts : v.b.parts[q].under = b.outer \o OpensOf(b, q)
      BY <2>20, <2>22
    <3>3. Framed(v.frames, v.scope) /\ IsPrefix(b.outer, v.scope) /\ v.letters = w.letters
      BY <2>9, <2>10, <2>20, <2>21
    <3>4. v.closers = SubSeq(w.closers, 1, b.openedAt) /\ \A i \in 1 .. Len(b.outer) : v.frames[i] = w.frames[i]
      BY <2>4, <2>9, <2>20
    <3> QED
      BY <2>20, <2>23, <3>1, <3>2, <3>3, <3>4 DEF Settled
  <2>25. PICK y : y = EndCase(v)
    OBVIOUS
  <2>26. Settled(y, w, b, R) /\ DOMAIN y.b.parts = DOMAIN v.b.parts
    <3>1. b.openedAt <= Len(w.closers)
      BY DEF Inside, Closing, Leads, ViewNow
    <3> QED
      BY <2>1, <2>24, <2>25, <3>1, EndCaseAgain
  <2>27. DOMAIN v.b.parts = DOMAIN u.b.parts \cup {q \in {p} : q \in b.claimed /\ q < before}
    <3>1. {q \in {p} : q \in b.claimed /\ q < before} = {p}
      BY <1>2, <1>4
    <3> QED
      BY <2>15, <2>17, <2>20, <3>1
  <2>28. Ready(v, w, b, R)
    BY <2>17, <2>18, <2>20, <2>25, <2>26 DEF Ready
  <2> QED
    BY <2>27, <2>28
<1> QED
  BY <1>3, <1>4

\* So do all the cases that are the claim, up to the part the page goes on
\* to.
LEMMA SettleClaimedIs ==
  ASSUME NEW w, NEW b, NEW R, NEW n, Inside(w, b, R, n), R \in Readings, PartEnded(w, b),
         NEW before \in Nat, NEW v, v = SettleClaimed(w, before)
  PROVE  /\ Ready(v, w, b, R)
         /\ DOMAIN v.b.parts = DOMAIN b.parts \cup {p \in b.claimed : p < before}
<1>1. Ready(w, w, b, R) /\ w.b = b /\ b.claimed \in SUBSET Parts
  BY ReadyNow, PartsOfBlock DEF Inside
<1>2. PICK x : x = SettlePart(w, 0, before)
  OBVIOUS
<1>3. v = SettlePart(x, 1, before) /\ 0 \in Parts /\ 1 \in Parts
  BY <1>2 DEF SettleClaimed, Parts
<1>4. Ready(x, w, b, R) /\ DOMAIN x.b.parts = DOMAIN b.parts \cup {q \in {0} : q \in b.claimed /\ q < before}
  BY <1>1, <1>2, <1>3, SettlePartIs
<1>5. Ready(v, w, b, R) /\ DOMAIN v.b.parts = DOMAIN x.b.parts \cup {q \in {1} : q \in b.claimed /\ q < before}
  BY <1>3, <1>4, SettlePartIs
<1> QED
  BY <1>1, <1>4, <1>5 DEF Parts

(***************************************************************************)
(* The state, and the block the page stands in                             *)
(***************************************************************************)

\* Nothing else tells whether the blocks stand where they were opened.
LEMMA StackedAlike ==
  ASSUME NEW w, NEW v, NEW bs, NEW rd, NEW n, Stacked(w, bs, rd, n),
         v.frames = w.frames, v.scope = w.scope, v.letters = w.letters, v.lines = w.lines, v.closers = w.closers
  PROVE  Stacked(v, bs, rd, n)
<1>1. \A R, b : Around(w, b, R) => Around(v, b, R)
  BY DEF Around, Viewed
<1>2. ViewNow(v, n) = ViewNow(w, n)
  BY DEF ViewNow
<1>3. \A d : ViewAt(v, bs, n, d) = ViewAt(w, bs, n, d)
  BY <1>2 DEF ViewAt
<1> QED
  BY <1>1, <1>3 DEF Stacked

\* The state stands as the elaborator was handed on.
LEMMA BecomeIs ==
  ASSUME NEW w \in Stances, Become(w), NEW bs \in Seq(BlockSet), blocks' = bs, NEW rd \in Seq(Readings), read' = rd,
         NEW n \in Nat, used' = n, Sound(w, Reading(rd), n), Stacked(w, bs, rd, n)
  PROVE  (Now \in Stances)' /\ Sound(Now, Reading(read), used)' /\ Stacked(Now, blocks, read, used)'
<1>1. PICK v : v = [frames |-> frames', scope |-> scope', facts |-> facts', lines |-> lines',
        names |-> names', letters |-> letters', closers |-> closers', opened |-> <<>>,
        b |-> IF blocks' = <<>> THEN <<>> ELSE Last(blocks')]
  OBVIOUS
<1>2. /\ v.frames = w.frames /\ v.scope = w.scope /\ v.facts = w.facts /\ v.lines = w.lines
      /\ v.letters = w.letters /\ v.closers = w.closers
  BY <1>1 DEF Become
<1>3. v \in Stances
  <2>1. <<>> \in Scopes
    BY DEF Scopes
  <2>2. PICK c \in BlockSet \cup {<<>>} : c = IF bs = <<>> THEN <<>> ELSE Last(bs)
    <3>1. CASE bs = <<>>
      BY <3>1
    <3>2. CASE bs # <<>>
      <4>1. Len(bs) > 0
        BY <3>2, BlocksAre, EmptySeq, LenProperties
      <4>2. Last(bs) \in BlockSet
        BY <4>1, LastIs
      <4> QED
        BY <3>2, <4>2
    <3> QED
      BY <3>1, <3>2
  <2>3. v = [frames |-> w.frames, scope |-> w.scope, facts |-> w.facts, lines |-> w.lines,
             names |-> w.names, letters |-> w.letters, closers |-> w.closers, opened |-> <<>>, b |-> c]
    BY <1>1, <2>2 DEF Become
  <2> QED
    BY <2>1, <2>3 DEF Stances
<1>4. Sound(v, Reading(rd), n)
  BY <1>2, SoundAlike
<1>5. Stacked(v, bs, rd, n)
  BY <1>2, StackedAlike
<1>6. (Now \in Stances)'
  BY <1>1, <1>3 DEF Now, Top
<1>7. Sound(Now, Reading(read), used)'
  BY <1>1, <1>4 DEF Now, Top
<1>8. Stacked(Now, blocks, read, used)'
  BY <1>1, <1>5 DEF Now, Top
<1> QED
  BY <1>6, <1>7, <1>8

\* How the elaborator stands, and the block it stands in.
LEMMA NowIs ==
  ASSUME FTyped
  PROVE  /\ Now \in Stances /\ Now.frames = frames /\ Now.scope = scope /\ Now.facts = facts /\ Now.lines = lines
         /\ Now.letters = letters /\ Now.closers = closers /\ Now.names = names /\ Now.opened = <<>>
         /\ frames \in Seq(FrameSet) /\ scope \in Scopes /\ facts \in KnownSet /\ lines \in Lines
         /\ letters \in Seq(LetterSet) /\ closers \in Seq(CloserSet) /\ names \in SUBSET Nat
         /\ Len(blocks) \in Nat /\ Len(closers) \in Nat /\ Len(letters) \in Nat
         /\ blocks # <<>> => Len(blocks) > 0 /\ Now.b = Top /\ Top = blocks[Len(blocks)] /\ Top \in BlockSet
         /\ blocks = <<>> => Len(blocks) = 0
<1>1. Now \in Stances /\ blocks \in Seq(BlockSet)
  BY DEF FTyped
<1>2. /\ Now.frames = frames /\ Now.scope = scope /\ Now.facts = facts /\ Now.lines = lines
      /\ Now.letters = letters /\ Now.closers = closers /\ Now.names = names /\ Now.opened = <<>>
      /\ (blocks # <<>> => Now.b = Top)
  BY DEF Now
<1>3. /\ frames \in Seq(FrameSet) /\ scope \in Scopes /\ facts \in KnownSet /\ lines \in Lines
      /\ letters \in Seq(LetterSet) /\ closers \in Seq(CloserSet) /\ names \in SUBSET Nat
  BY <1>1, <1>2 DEF Stances
<1>4. blocks # <<>> => Len(blocks) > 0 /\ Top = blocks[Len(blocks)] /\ Top \in BlockSet
  <2> SUFFICES ASSUME blocks # <<>> PROVE Len(blocks) > 0 /\ Top = blocks[Len(blocks)] /\ Top \in BlockSet
    OBVIOUS
  <2>1. Len(blocks) > 0
    BY <1>1, BlocksAre, EmptySeq, LenProperties
  <2>2. Last(blocks) = blocks[Len(blocks)] /\ Last(blocks) \in BlockSet
    BY <1>1, <2>1, LastIs
  <2> QED
    BY <2>1, <2>2 DEF Top
<1>5. Len(blocks) \in Nat /\ Len(closers) \in Nat /\ Len(letters) \in Nat
  BY <1>1, <1>3, LenProperties
<1>6. blocks = <<>> => Len(blocks) = 0
  BY EmptySeq
<1> QED
  BY <1>1, <1>2, <1>3, <1>4, <1>5, <1>6

\* The block the page stands in, and what it is in.
InTop(k, R, b) ==
  /\ k \in Nat /\ k = Len(blocks) /\ k > 0 /\ Len(read) = k + 1 /\ R = ReadingAt(read, k) /\ R \in Readings
  /\ b \in BlockSet /\ b = Top /\ b = blocks[k]
  /\ Around(Now, b, R) /\ Shaped(b, R) /\ Placed(blocks, k) /\ Goes(b, R, ViewNow(Now, used))
  /\ Beneath(b, ViewNow(Now, used))
  /\ Closing(closers, Base(b), b.openedAt, b.number, ViewNow(Now, used))

\* What the invariant says of the block the page stands in.
LEMMA TopIs ==
  ASSUME IFrames, blocks # <<>>, NEW k, k = Len(blocks), NEW R, R = ReadingAt(read, k), NEW b, b = Top
  PROVE  InTop(k, R, b)
<1>1. /\ FTyped /\ Now \in Stances /\ blocks \in Seq(BlockSet) /\ read \in Seq(Readings)
      /\ Stacked(Now, blocks, read, used)
  BY DEF IFrames, FTyped, FramesInv
<1>2. k \in Nat /\ k > 0 /\ b = blocks[k] /\ b \in BlockSet /\ Now.closers = closers
  BY <1>1, NowIs
<1>3. Len(read) = k + 1
  BY <1>1 DEF Stacked
<1>4. R \in Readings
  BY <1>1, <1>2, <1>3, ReadingAtSame
<1>5. k \in 1 .. Len(blocks) /\ k \in 0 .. Len(blocks) /\ k + 1 \in k + 1 .. Len(blocks) + 1 /\ k + 1 \notin DOMAIN blocks
  BY <1>1, <1>2, BlocksAre
<1>6. ViewAt(Now, blocks, used, k + 1) = ViewNow(Now, used)
  BY <1>5 DEF ViewAt
<1>7. /\ Around(Now, b, R) /\ Shaped(b, R) /\ Placed(blocks, k)
      /\ Goes(b, R, ViewNow(Now, used)) /\ Beneath(b, ViewNow(Now, used))
  BY <1>1, <1>2, <1>5, <1>6 DEF Stacked
<1>8. Closing(closers, Base(b), b.openedAt, b.number, ViewNow(Now, used))
  <2>1. Closing(Now.closers, From(blocks, k), Low(blocks, k), Since(blocks, k), ViewAt(Now, blocks, used, k + 1))
    BY <1>1, <1>5 DEF Stacked
  <2>2. From(blocks, k) = Base(b) /\ Low(blocks, k) = b.openedAt /\ Since(blocks, k) = b.number
    BY <1>2 DEF From, Low, Since
  <2> QED
    BY <1>2, <1>6, <2>1, <2>2
<1> QED
  BY <1>2, <1>3, <1>4, <1>7, <1>8 DEF InTop

\* The blocks with the last one's part ended so far.
KeptSo(bs, bs1, rd) ==
  /\ bs \in Seq(BlockSet) /\ bs1 \in Seq(BlockSet) /\ Len(bs1) = Len(bs)
  /\ \A d \in 1 .. Len(bs) - 1 : bs1[d] = bs[d]
  /\ Len(bs) > 0 =>
       /\ SameBut(bs[Len(bs)], bs1[Len(bs)]) /\ Shaped(bs1[Len(bs)], ReadingAt(rd, Len(bs)))
       /\ bs1[Len(bs)].entered = bs[Len(bs)].entered
       /\ Parted(bs[Len(bs)]) => bs[Len(bs)].entered # NoPart

\* With a block of parts, its part's end is the step's.
EndsSo(bs, bs1, rd, end) ==
  /\ KeptSo(bs, bs1, rd)
  /\ Len(bs) > 0 /\ Parted(bs[Len(bs)]) =>
       /\ bs1[Len(bs)].entered \in DOMAIN bs1[Len(bs)].parts
       /\ bs1[Len(bs)].parts[bs1[Len(bs)].entered] = end

\* A block is as it is.
LEMMA SameButSelf ==
  ASSUME NEW b
  PROVE  SameBut(b, b)
  BY DEF SameBut, Same

\* A part's end written into its block.
PartWith(b, e, end, c) == c = [b EXCEPT !.parts = With(@, e, end)]

\* A part's end written into its block leaves it a block as it was.
LEMMA PartWithIs ==
  ASSUME NEW b \in BlockSet, NEW R, Shaped(b, R), Parted(b), NEW e \in Parts, b.entered = e, NEW end \in EndSet,
         NEW c, PartWith(b, e, end, c)
  PROVE  /\ c \in BlockSet /\ SameBut(b, c) /\ c.entered = e /\ Shaped(c, R)
         /\ e \in DOMAIN c.parts /\ c.parts[e] = end
<1>1. b.parts \in Maps(Parts, EndSet) /\ DOMAIN b.parts \subseteq Parts
  BY PartsOfBlock
<1>2. e \in Parts /\ e = b.entered
  OBVIOUS
<1>3. Shaped(b, R) /\ Parted(b)
  OBVIOUS
<1>4. PICK ps : ps = With(b.parts, e, end)
  OBVIOUS
<1>5. DOMAIN ps = DOMAIN b.parts \cup {e} /\ ps[e] = end /\ \A q \in DOMAIN b.parts : q # e => ps[q] = b.parts[q]
  BY <1>4 DEF With
<1>6. ps \in Maps(Parts, EndSet) /\ c = [b EXCEPT !.parts = ps]
  BY <1>1, <1>4, WithIn DEF PartWith
<1>7. c \in BlockSet /\ SameBut(b, c) /\ c.parts = ps /\ c.entered = b.entered /\ c.caseAt = b.caseAt
  BY <1>6 DEF BlockSet, SameBut, Same
<1>8. Shaped(c, R)
  <2>1. \A p \in Parts : OpensOf(c, p) = OpensOf(b, p)
    BY <1>7 DEF SameBut, Same, OpensOf, CaseOf
  <2>2. \A p \in DOMAIN c.parts \ {c.entered} : c.parts[p].under = c.outer \o OpensOf(c, p)
    <3>1. \A p \in DOMAIN b.parts \ {b.entered} : b.parts[p].under = b.outer \o OpensOf(b, p)
      BY <1>3 DEF Shaped
    <3>2. c.outer = b.outer
      BY <1>7 DEF SameBut, Same
    <3>3. \A p \in DOMAIN c.parts \ {c.entered} : p \in DOMAIN b.parts \ {b.entered} /\ c.parts[p] = b.parts[p] /\ p \in Parts
      BY <1>1, <1>2, <1>5, <1>7
    <3> QED
      BY <2>1, <3>1, <3>2, <3>3
  <2>3. \A p \in DOMAIN c.parts : p <= c.entered
    <3>1. \A p \in DOMAIN b.parts : p <= b.entered
      BY <1>3 DEF Shaped
    <3>2. e <= e
      BY DEF Parts
    <3> QED
      BY <1>2, <1>5, <1>7, <3>1, <3>2
  <2>4. c.entered = 1 => 0 \in DOMAIN c.parts \cup c.claimed
    BY <1>3, <1>5, <1>7 DEF Shaped, SameBut
  <2>5. DOMAIN c.parts \subseteq Parts
    BY <1>1, <1>5, <1>7
  <2>6. Parted(c)
    BY <1>3, <1>7 DEF SameBut, Same, Parted
  <2>7. /\ c.by \in Bys /\ c.number > 0 /\ c.about \in 0 .. c.number - 1 /\ c.frame = Len(c.outer) + 1
        /\ c.claimed \in {{}, {0}, {1}} /\ c.entered \in {NoPart} \cup Parts
        /\ c.caseAt = IF c.entered = NoPart THEN NoPart ELSE c.openedAt
    BY <1>3, <1>7 DEF SameBut, Same, Shaped
  <2>8. /\ c.by = "induction" => c.claimed = {} /\ c.labels[1] = <<"L", c.number>>
        /\ c.by = "cases" =>
             /\ c.labels[0] = <<"K", c.number>> /\ c.labels[1] = <<"K", c.number>>
             /\ c.cited \in DOMAIN R /\ c.splits = R[c.cited]
        /\ c.by # "cases" => c.about = 0
    BY <1>3, <1>7 DEF SameBut, Same, Shaped
  <2> QED
    BY <2>2, <2>3, <2>4, <2>5, <2>6, <2>7, <2>8 DEF Shaped
<1> QED
  BY <1>2, <1>5, <1>7, <1>8

\* The last block, with the part it is in ended so far.
EndsAt(bs, bs1, end) ==
  bs1 = IF bs # <<>> /\ Parted(Last(bs))
        THEN Append(Front(bs), [Last(bs) EXCEPT !.parts = With(@, Last(bs).entered, end)]) ELSE bs

\* A part's end written into the last block leaves the blocks as they were.
LEMMA EndsAtIs ==
  ASSUME NEW bs \in Seq(BlockSet), NEW rd, NEW end \in EndSet, NEW bs1, EndsAt(bs, bs1, end),
         NEW k, k = Len(bs),
         k > 0 => Shaped(bs[k], ReadingAt(rd, k)) /\ (Parted(bs[k]) => bs[k].entered # NoPart)
  PROVE  EndsSo(bs, bs1, rd, end)
<1>1. CASE bs = <<>>
  <2>1. bs1 = bs /\ Len(bs) = 0
    BY <1>1 DEF EndsAt
  <2> QED
    BY <2>1 DEF EndsSo, KeptSo
<1>2. CASE bs # <<>>
  <2>1. k \in Nat /\ k > 0
    BY <1>2, EmptySeq
  <2>2. PICK b \in BlockSet : b = bs[k]
    BY <2>1
  <2>3. b = Last(bs) /\ Shaped(b, ReadingAt(rd, k)) /\ (Parted(b) => b.entered # NoPart)
    BY <2>1, <2>2, LastIs
  <2>4. CASE ~Parted(b)
    <3>1. bs1 = bs
      BY <2>3, <2>4 DEF EndsAt
    <3>2. SameBut(b, b)
      BY SameButSelf
    <3> QED
      BY <2>2, <2>3, <2>4, <3>1, <3>2 DEF EndsSo, KeptSo
  <2>5. CASE Parted(b)
    <3>1. PICK e \in Parts : e = b.entered
      BY <2>3, <2>5, PartsOfBlock
    <3>2. PICK c : c = [b EXCEPT !.parts = With(@, e, end)]
      OBVIOUS
    <3>3. PartWith(b, e, end, c)
      BY <3>2 DEF PartWith
    <3>4. /\ c \in BlockSet /\ SameBut(b, c) /\ c.entered = e /\ Shaped(c, ReadingAt(rd, k))
          /\ e \in DOMAIN c.parts /\ c.parts[e] = end
      BY <2>3, <2>5, <3>1, <3>3, PartWithIs
    <3>5. bs1 = Append(Front(bs), c)
      BY <1>2, <2>3, <2>5, <3>1, <3>2 DEF EndsAt
    <3>6. bs1 \in Seq(BlockSet) /\ Len(bs1) = k /\ bs1[k] = c /\ \A i \in 1 .. k - 1 : bs1[i] = bs[i]
      BY <2>1, <3>4, <3>5, LastBecomes
    <3> QED
      BY <2>2, <2>3, <3>1, <3>4, <3>6 DEF EndsSo, KeptSo
  <2> QED
    BY <2>4, <2>5
<1> QED
  BY <1>1, <1>2

\* A step ends the part it stands in, so far, and nothing else of the
\* blocks.
LEMMA PartEndsIs ==
  ASSUME IFrames, StepsHere, NEW end \in EndSet, PartEnds(end), NEW bs1, bs1 = blocks'
  PROVE  EndsSo(blocks, bs1, read, end)
<1>1. FTyped /\ blocks \in Seq(BlockSet)
  BY DEF IFrames, FTyped
<1>2. EndsAt(blocks, bs1, end)
  BY DEF PartEnds, EndsAt, Top
<1>3. PICK k : k = Len(blocks)
  OBVIOUS
<1>4. k > 0 => Shaped(blocks[k], ReadingAt(read, k)) /\ (Parted(blocks[k]) => blocks[k].entered # NoPart)
  <2>1. SUFFICES ASSUME k > 0
                 PROVE  Shaped(blocks[k], ReadingAt(read, k)) /\ (Parted(blocks[k]) => blocks[k].entered # NoPart)
    OBVIOUS
  <2>2. blocks # <<>>
    BY <1>3, <2>1
  <2>3. InTop(k, ReadingAt(read, k), Top)
    BY <1>3, <2>2, TopIs
  <2> QED
    BY <2>2, <2>3 DEF InTop, StepsHere
<1> QED
  BY <1>1, <1>2, <1>3, <1>4, EndsAtIs

\* A step, or a let standing above one, in the block the page stands in.
Steps(v, bs1, rd1, n1, label) ==
  /\ v \in Stances /\ Onward(Now, v) /\ Len(v.letters) = Len(letters)
  /\ KeptSo(blocks, bs1, read)
  /\ rd1 \in Seq(Readings) /\ Len(rd1) = Len(read) /\ \A d \in 1 .. Len(read) - 1 : rd1[d] = read[d]
  /\ n1 = used + 1 /\ \A l : Numbered(l, used) => l # label
  /\ \A l \in DOMAIN lines : l # label => l \in DOMAIN v.lines /\ v.lines[l] = lines[l]
  /\ Len(closers) <= Len(v.closers) /\ \A i \in 1 .. Len(closers) : v.closers[i] = closers[i]
  /\ Leads(v.closers, scope, v.scope, Len(closers), Len(v.closers))
  /\ Later(v.closers, Len(closers), Len(v.closers), used)

\* A step leaves every block where it was opened.
LEMMA StepStacks ==
  ASSUME IFrames, NEW v, NEW bs1, NEW rd1, NEW n1, NEW label, Steps(v, bs1, rd1, n1, label)
  PROVE  Stacked(v, bs1, rd1, n1)
<1>1. /\ FTyped /\ Now \in Stances /\ blocks \in Seq(BlockSet) /\ read \in Seq(Readings) /\ used \in Nat
      /\ Stacked(Now, blocks, read, used) /\ Framed(Now.frames, Now.scope)
  BY DEF IFrames, FTyped, FramesInv, Sound
<1>2. /\ Now.scope = scope /\ Now.lines = lines /\ Now.closers = closers /\ Now.letters = letters
      /\ Len(blocks) \in Nat
  BY <1>1, NowIs
<1>3. PICK w \in Stances : w = Now
  BY <1>1
<1>4. PICK bs \in Seq(BlockSet), rd \in Seq(Readings), n \in Nat, k \in Nat : bs = blocks /\ rd = read /\ n = used /\ k = Len(bs)
  BY <1>1, <1>2
<1>5. Len(rd) = k + 1
  BY <1>1, <1>4 DEF Stacked
<1>6. v \in Stances /\ bs1 \in Seq(BlockSet) /\ rd1 \in Seq(Readings) /\ n1 \in Nat /\ n <= n1
  BY <1>4 DEF Steps, KeptSo
<1>7. Stacked(w, bs, rd, n) /\ Framed(w.frames, w.scope) /\ Onward(w, v)
  BY <1>1, <1>3, <1>4 DEF Steps
<1>8. Len(bs1) = k /\ Len(rd1) = k + 1 /\ \A d \in 1 .. k : rd1[d] = rd[d]
  BY <1>4, <1>5 DEF Steps, KeptSo
<1>9. \A d \in 1 .. k - 1 : bs1[d] = bs[d]
  BY <1>4 DEF Steps, KeptSo
<1>10. ASSUME k > 0
       PROVE  /\ Same(bs[k], bs1[k]) /\ Shaped(bs1[k], ReadingAt(rd, k))
              /\ bs1[k].entered = bs[k].entered /\ bs1[k].opened = bs[k].opened
              /\ Parted(bs[k]) => bs[k].entered # NoPart
              /\ \A l \in DOMAIN ReadingAt(rd, k) : l \in DOMAIN w.lines =>
                   l \in DOMAIN v.lines /\ v.lines[l] = w.lines[l]
  <2>1. /\ SameBut(bs[k], bs1[k]) /\ Shaped(bs1[k], ReadingAt(rd, k)) /\ bs1[k].entered = bs[k].entered
        /\ Parted(bs[k]) => bs[k].entered # NoPart
    BY <1>4, <1>10 DEF Steps, KeptSo
  <2>2. Same(bs[k], bs1[k]) /\ bs1[k].opened = bs[k].opened
    BY <2>1 DEF SameBut
  <2>3. blocks # <<>>
    BY <1>1, <1>4, <1>10, NowIs
  <2>4. PICK R, b : R = ReadingAt(read, k) /\ b = Top
    OBVIOUS
  <2>5. InTop(k, R, b)
    BY <1>4, <2>3, <2>4, TopIs
  <2>6. b \in BlockSet /\ Around(Now, b, R) /\ Beneath(b, ViewNow(Now, used))
    BY <2>5 DEF InTop
  <2>7. b.number - 1 <= used /\ b.number \in Nat
    <3>1. b.number <= used
      BY <2>6 DEF Beneath, ViewNow
    <3>2. b.number \in Nat
      BY <2>6, BlockIs
    <3> QED
      BY <1>1, <3>1, <3>2
  <2>8. \A l \in DOMAIN R : Numbered(l, b.number - 1)
    BY <2>6 DEF Around, Viewed, Inscribed
  <2>9. \A l \in DOMAIN R : Numbered(l, used)
    <3>1. PICK m \in Int : m = b.number - 1 /\ m <= n
      BY <1>4, <2>7
    <3>2. \A l : Numbered(l, m) => Numbered(l, n)
      BY <3>1 DEF Numbered
    <3> QED
      BY <1>4, <2>8, <3>1, <3>2
  <2>10. \A l \in DOMAIN R : l # label
    BY <2>9 DEF Steps
  <2>11. \A l \in DOMAIN R : l \in DOMAIN w.lines => l \in DOMAIN v.lines /\ v.lines[l] = w.lines[l]
    BY <1>2, <1>3, <2>10 DEF Steps
  <2>12. R = ReadingAt(rd, k)
    BY <1>4, <2>4
  <2> QED
    BY <2>1, <2>2, <2>11, <2>12
<1>11. /\ Len(v.letters) = Len(w.letters)
       /\ Len(w.closers) <= Len(v.closers) /\ \A i \in 1 .. Len(w.closers) : v.closers[i] = w.closers[i]
  BY <1>2, <1>3 DEF Steps
<1>12. /\ Leads(v.closers, w.scope, v.scope, Len(w.closers), Len(v.closers))
       /\ Later(v.closers, Len(w.closers), Len(v.closers), n)
  BY <1>2, <1>3, <1>4 DEF Steps
<1>13. GoesOn(w, v, bs, bs1, rd, rd1, n, n1, k)
  BY <1>4, <1>6, <1>7, <1>8, <1>9, <1>10, <1>11, <1>12 DEF GoesOn
<1> QED
  BY <1>13, StackOnward

\* In the same scope, with the same frames and letters, one goes on from another.
LEMMA OnwardSelf ==
  ASSUME NEW w \in Stances, NEW v, v.scope = w.scope, v.frames = w.frames, v.letters = w.letters
  PROVE  Onward(w, v)
<1>1. IsPrefix(w.scope, w.scope) /\ Len(w.frames) \in Nat /\ Len(w.letters) \in Nat
  BY StanceIs, PrefixIs
<1> QED
  BY <1>1 DEF Onward, Deeper

\* The label of the next line is none given before.
LEMMA FreshLabel ==
  ASSUME NEW n \in Nat, NEW t \in {"step", "K", "L"}, NEW n1, n1 = n + 1
  PROVE  /\ <<t, n1>> \in Labels /\ Numbered(<<t, n1>>, n1)
         /\ \A l : Numbered(l, n) => l # <<t, n1>>
<1>1. n1 \in Nat /\ n1 - 1 = n /\ n1 \in 1 .. n1
  OBVIOUS
<1>2. <<t, n1>> \in Labels
  BY <1>1 DEF Labels
<1>3. Numbered(<<t, n1>>, n1)
  BY <1>1 DEF Numbered
<1>4. ASSUME NEW l, Numbered(l, n) PROVE l # <<t, n1>>
  <2>1. Numbered(l, n1 - 1)
    BY <1>1, <1>4
  <2> QED
    BY <1>1, <2>1, LabelFresh
<1> QED
  BY <1>2, <1>3, <1>4

\* A line kept: what is known with it, and its label.
Kept(w, claim, label, about, v) ==
  /\ v \in Stances /\ v.frames = w.frames /\ v.scope = w.scope /\ v.letters = w.letters
  /\ v.closers = w.closers /\ v.names = w.names
  /\ DOMAIN v.facts = DOMAIN w.facts \cup {claim} /\ AllAt(v.facts, v.scope)
  /\ DOMAIN v.lines = DOMAIN w.lines \cup {label}
  /\ v.lines[label] = Line(claim, w.scope, about)
  /\ v.lines[label].claim = claim /\ v.lines[label].under = w.scope /\ v.lines[label].about = about
  /\ \A l \in DOMAIN w.lines : l # label => v.lines[l] = w.lines[l]

\* A step's line written, and its claim known where it stands.
LEMMA KeptIs ==
  ASSUME NEW w \in Stances, AllAt(w.facts, w.scope), NEW claim \in Saids, NEW label \in Labels, NEW about \in Nat,
         NEW v, v = [w EXCEPT !.facts = With(@, claim, w.scope), !.lines = With(@, label, Line(claim, w.scope, about))]
  PROVE  Kept(w, claim, label, about, v)
<1>1. w.facts \in Maps(Saids, Scopes) /\ w.lines \in Maps(Labels, LineSet) /\ w.scope \in Scopes
  BY StanceIs DEF KnownSet, Lines
<1>2. PICK at \in Scopes : at = w.scope
  BY <1>1
<1>3. PICK line : line = Line(claim, at, about)
  OBVIOUS
<1>4. line \in LineSet /\ line.claim = claim /\ line.under = at /\ line.about = about
  BY <1>3, LineIs
<1>5. PICK fs : fs = With(w.facts, claim, at)
  OBVIOUS
<1>6. fs \in Maps(Saids, Scopes)
  BY <1>1, <1>5, WithIn
<1>7. DOMAIN fs = DOMAIN w.facts \cup {claim} /\ \A c \in DOMAIN fs : fs[c] = at
  BY <1>2, <1>5 DEF With, AllAt
<1>8. PICK ls : ls = With(w.lines, label, line)
  OBVIOUS
<1>9. ls \in Maps(Labels, LineSet)
  BY <1>1, <1>4, <1>8, WithIn
<1>10. DOMAIN ls = DOMAIN w.lines \cup {label} /\ ls[label] = line /\ \A l \in DOMAIN w.lines : l # label => ls[l] = w.lines[l]
  BY <1>8 DEF With
<1>11. v = [w EXCEPT !.facts = fs, !.lines = ls]
  BY <1>2, <1>3, <1>5, <1>8
<1>12. /\ v \in Stances /\ v.facts = fs /\ v.lines = ls /\ v.frames = w.frames /\ v.scope = w.scope
       /\ v.letters = w.letters /\ v.closers = w.closers /\ v.names = w.names
  BY <1>6, <1>9, <1>11 DEF Stances, KnownSet, Lines
<1> QED
  BY <1>2, <1>3, <1>4, <1>7, <1>10, <1>12 DEF Kept, AllAt

\* A line kept is read, and sound.
LEMMA KeptSound ==
  ASSUME NEW w \in Stances, NEW rd \in Seq(Readings), Len(rd) > 0, NEW n \in Nat, Sound(w, Reading(rd), n),
         NEW claim \in Saids, Plain(claim) = claim, NEW label \in Labels, NEW n1 \in Nat, n <= n1, Numbered(label, n1),
         NEW about, NEW v, Kept(w, claim, label, about, v),
         NEW rd1, rd1 = Noted(rd, label, claim)
  PROVE  Sound(v, Reading(rd1), n1)
<1>1. PICK R, R1 : R = Reading(rd) /\ R1 = Reading(rd1)
  OBVIOUS
<1>2. DOMAIN R1 = DOMAIN R \cup {label} /\ R1[label] = claim /\ \A l \in DOMAIN R : l # label => R1[l] = R[l]
  BY <1>1, ReadingNoted, ZenonT(60)
<1>3. Sound(w, R, n)
  BY <1>1
<1>4. \A l \in DOMAIN R : l \in DOMAIN w.lines
  BY <1>3 DEF Sound, Viewed, Inscribed
<1>5. /\ v \in Stances /\ v.frames = w.frames /\ v.scope = w.scope /\ v.letters = w.letters
      /\ AllAt(v.facts, v.scope) /\ DOMAIN w.facts \subseteq DOMAIN v.facts
  BY DEF Kept
<1>6. \A l \in DOMAIN R : l # label => R1[l] = R[l] /\ l \in DOMAIN v.lines /\ v.lines[l] = w.lines[l]
  BY <1>2, <1>4 DEF Kept
<1>7. /\ label \in DOMAIN v.lines /\ v.lines[label].claim \in DOMAIN v.facts
      /\ R1[label] = Plain(v.lines[label].claim) /\ v.lines[label].under = v.scope
  BY <1>2 DEF Kept
<1>8. n \in Int /\ n1 \in Int
  OBVIOUS
<1>9. Writes(w, v, R, R1, n, n1, label)
  BY <1>2, <1>3, <1>5, <1>6, <1>7, <1>8 DEF Writes
<1> QED
  BY <1>1, <1>9, WritesIs

(***************************************************************************)
(* The steps that open nothing                                             *)
(***************************************************************************)

\* The invariant holds of the state once its parts do of what the elaborator
\* was handed on.
LEMMA Assemble ==
  ASSUME NEW w \in Stances, Become(w), NEW bs \in Seq(BlockSet), blocks' = bs, NEW rd \in Seq(Readings), read' = rd,
         NEW n \in Nat, used' = n, n <= MaxIds, Sound(w, Reading(rd), n), Stacked(w, bs, rd, n),
         last' \in Labels, Done', Reached', ~refused', (made \in {Nothing, <<>>})', NamesGiven'
  PROVE  IFrames'
<1>1. (Now \in Stances)' /\ Sound(Now, Reading(read), used)' /\ Stacked(Now, blocks, read, used)'
  BY BecomeIs
<1>2. FTyped'
  BY <1>1 DEF FTyped
<1>3. (used \in 0 .. MaxIds)'
  BY FramesAssumption
<1>4. FramesInv'
  BY <1>1, <1>3 DEF FramesInv
<1> QED
  BY <1>2, <1>4 DEF IFrames

\* What a claim may name is a name already given.
LEMMA AboutsAre ==
  ASSUME IFrames, NEW about \in Abouts
  PROVE  about \in 0 .. used
<1>1. closers \in Seq(CloserSet) /\ Len(closers) \in Nat /\ used \in Nat /\ NamesGiven
  BY NowIs DEF IFrames, FTyped
<1>2. CASE about = 0
  BY <1>1, <1>2
<1>3. CASE Len(closers) > 0 /\ about = Last(closers).name
  <2>1. Last(closers) = closers[Len(closers)] /\ Last(closers) \in CloserSet
    BY <1>1, <1>3, LastIs
  <2>2. Last(closers).name \in Nat
    BY <2>1 DEF CloserSet
  <2>3. Last(closers).name <= used
    BY <1>1, <1>3, <2>1 DEF NamesGiven
  <2> QED
    BY <1>1, <1>3, <2>2, <2>3
<1> QED
  BY <1>2, <1>3 DEF Abouts

\* What the invariant says of the elaborator between two steps.
LEMMA InvIs ==
  ASSUME IFrames
  PROVE  /\ Now \in Stances /\ Now.scope = scope /\ Now.facts = facts /\ Now.lines = lines /\ Now.frames = frames
         /\ Now.letters = letters /\ Now.closers = closers /\ Now.names = names /\ Now.opened = <<>>
         /\ blocks \in Seq(BlockSet) /\ read \in Seq(Readings) /\ used \in Nat /\ used <= MaxIds /\ MaxIds \in Nat
         /\ Sound(Now, Reading(read), used) /\ Stacked(Now, blocks, read, used)
         /\ Framed(frames, scope) /\ AllAt(facts, scope) /\ scope \in Scopes
         /\ closers \in Seq(CloserSet) /\ Len(closers) \in Nat /\ Len(read) > 0
<1>1. /\ Now \in Stances /\ Now.scope = scope /\ Now.facts = facts /\ Now.lines = lines /\ Now.frames = frames
      /\ Now.letters = letters /\ Now.closers = closers /\ Now.names = names /\ Now.opened = <<>>
      /\ scope \in Scopes /\ closers \in Seq(CloserSet) /\ Len(closers) \in Nat /\ Len(blocks) \in Nat
  BY NowIs DEF IFrames, FTyped
<1>2. blocks \in Seq(BlockSet) /\ read \in Seq(Readings) /\ used \in Nat /\ used <= MaxIds /\ MaxIds \in Nat
  BY FramesAssumption DEF IFrames, FTyped, FramesInv
<1>3. Sound(Now, Reading(read), used) /\ Stacked(Now, blocks, read, used)
  BY DEF IFrames, FramesInv
<1>4. Framed(frames, scope) /\ AllAt(facts, scope)
  BY <1>1, <1>3 DEF Sound, Viewed
<1>5. Len(read) > 0
  BY <1>1, <1>3 DEF Stacked
<1> QED
  BY <1>1, <1>2, <1>3, <1>4, <1>5

\* The last block, once a step ended its part so far.
LEMMA EndsSoTop ==
  ASSUME NEW bs, NEW bs1, NEW rd, NEW end, EndsSo(bs, bs1, rd, end), bs1 # <<>>
  PROVE  /\ Len(bs) > 0 /\ bs # <<>> /\ SameBut(Last(bs), Last(bs1)) /\ Last(bs1).entered = Last(bs).entered
         /\ Last(bs1) \in BlockSet
         /\ Parted(Last(bs)) => Last(bs1).entered \in DOMAIN Last(bs1).parts /\ Last(bs1).parts[Last(bs1).entered] = end
<1>1. bs \in Seq(BlockSet) /\ bs1 \in Seq(BlockSet) /\ Len(bs1) = Len(bs)
  BY DEF EndsSo, KeptSo
<1>2. Len(bs1) > 0 /\ Len(bs) > 0 /\ bs # <<>>
  BY <1>1, EmptySeq, LenProperties
<1>3. Last(bs) = bs[Len(bs)] /\ Last(bs1) = bs1[Len(bs)] /\ Last(bs1) \in BlockSet
  BY <1>1, <1>2, LastIs
<1> QED
  BY <1>2, <1>3 DEF EndsSo, KeptSo

\* What stands once a step ends the part it stands in so far.
LEMMA StepDone ==
  ASSUME NEW end, NEW bs1, bs1 = blocks', EndsSo(blocks, bs1, read, end), NEW label, last' = label,
         label \in DOMAIN lines', lines'[label].under = scope', lines'[label].about \in 0 .. used',
         end.under = scope', end.about = lines'[label].about \/ (ended' = "reached" /\ end.about = Top.about)
  PROVE  Done'
<1>1. ASSUME bs1 # <<>>, Parted(Last(bs1))
      PROVE  /\ Last(bs1).entered \in DOMAIN Last(bs1).parts
             /\ Last(bs1).parts[Last(bs1).entered] = end /\ Last(bs1).about = Top.about
  <2>1. SameBut(Last(blocks), Last(bs1))
        /\ (Parted(Last(blocks)) => Last(bs1).entered \in DOMAIN Last(bs1).parts /\ Last(bs1).parts[Last(bs1).entered] = end)
    BY <1>1, EndsSoTop
  <2>2. Parted(Last(blocks)) /\ Last(bs1).about = Last(blocks).about
    BY <1>1, <2>1 DEF SameBut, Same, Parted
  <2> QED
    BY <2>1, <2>2 DEF Top
<1>2. last' \in DOMAIN lines' /\ lines'[last'].under = scope' /\ lines'[last'].about \in 0 .. used'
  OBVIOUS
<1>3. blocks' # <<>> /\ Parted(Last(blocks')) =>
         /\ Last(blocks').entered \in DOMAIN Last(blocks').parts
         /\ Last(blocks').parts[Last(blocks').entered].under = scope'
         /\ \/ Last(blocks').parts[Last(blocks').entered].about = lines'[last'].about
            \/ ended' = "reached" /\ Last(blocks').parts[Last(blocks').entered].about = Last(blocks').about
  BY <1>1
<1> QED
  BY <1>2, <1>3 DEF Done, Top

\* A step proved where it stands.
KeepsLine(n, claim, about, shown) ==
  /\ n = used + 1 /\ claim = <<"line", n>>
  /\ Keep(<<"step", n>>, Line(claim, scope, about), [Now EXCEPT !.facts = With(@, claim, scope)])
  /\ PartEnds([under |-> scope, about |-> shown])
  /\ last' = <<"step", n>> /\ used' = n
  /\ read' = Noted(read, <<"step", n>>, claim)

\* A step so proved leaves the elaborator sound and the blocks where they
\* were.
LEMMA KeepsLineIs ==
  ASSUME IFrames, StepsHere, NEW n, NEW claim, NEW about \in 0 .. used, NEW shown \in Nat, KeepsLine(n, claim, about, shown),
         NEW end, end = [under |-> scope, about |-> shown], NEW bs1, bs1 = blocks'
  PROVE  /\ scope' = scope /\ closers' = closers /\ n \in Nat /\ n = used + 1 /\ n <= MaxIds
         /\ last' \in Labels /\ last' \in DOMAIN lines' /\ lines'[last'].under = scope /\ lines'[last'].about = about
         /\ EndsSo(blocks, bs1, read, end)
         /\ \E v \in Stances, rd1 \in Seq(Readings) :
              Become(v) /\ read' = rd1 /\ Sound(v, Reading(rd1), n) /\ Stacked(v, bs1, rd1, n)
<1>1. /\ n = used + 1 /\ claim = <<"line", n>>
      /\ Keep(<<"step", n>>, Line(claim, scope, about), [Now EXCEPT !.facts = With(@, claim, scope)])
      /\ PartEnds([under |-> scope, about |-> shown])
      /\ last' = <<"step", n>> /\ used' = n
      /\ read' = Noted(read, <<"step", n>>, claim)
  BY DEF KeepsLine
<1>2. closers' = closers
  BY <1>1 DEF Keep, Become, Now
<1>3. /\ Now \in Stances /\ Now.scope = scope /\ Now.facts = facts /\ Now.lines = lines
      /\ Now.letters = letters /\ Now.closers = closers
      /\ blocks \in Seq(BlockSet) /\ read \in Seq(Readings) /\ used \in Nat /\ used <= MaxIds /\ MaxIds \in Nat
      /\ Sound(Now, Reading(read), used)
      /\ AllAt(facts, scope) /\ scope \in Scopes /\ Len(closers) \in Nat /\ Len(read) > 0
  BY InvIs
<1>4. PICK m \in Nat : m = used
  BY <1>3
<1>5. n \in Nat /\ n = m + 1 /\ m <= n /\ n <= MaxIds /\ claim \in Saids /\ Plain(claim) = claim
  <2>1. n \in Nat /\ n = m + 1 /\ m <= n
    BY <1>1, <1>4
  <2>2. n <= MaxIds
    BY <1>1, <1>3 DEF StepsHere
  <2>3. claim \in Saids
    BY <1>1, <2>1 DEF Saids
  <2>4. Plain(claim) = claim
    BY <1>1 DEF Plain
  <2> QED
    BY <2>1, <2>2, <2>3, <2>4
<1>6. PICK label \in Labels : label = <<"step", n>> /\ Numbered(label, n) /\ \A l : Numbered(l, m) => l # label
  <2>1. PICK l1 : l1 = <<"step", n>>
    OBVIOUS
  <2>2. l1 \in Labels /\ Numbered(l1, n) /\ \A l : Numbered(l, m) => l # l1
    BY <1>5, <2>1, FreshLabel
  <2> QED
    BY <2>1, <2>2
<1>7. about \in Nat
  BY <1>3
<1>8. PICK w \in Stances : w = Now
  BY <1>3
<1>9. PICK v : v = [w EXCEPT !.facts = With(@, claim, w.scope), !.lines = With(@, label, Line(claim, w.scope, about))]
  OBVIOUS
<1>10. Become(v)
  <2>1. v = [[Now EXCEPT !.facts = With(@, claim, scope)] EXCEPT !.lines = With(@, label, Line(claim, scope, about))]
    BY <1>3, <1>8, <1>9 DEF Stances
  <2> QED
    BY <1>1, <1>6, <2>1 DEF Keep
<1>11. Kept(w, claim, label, about, v)
  <2>1. AllAt(w.facts, w.scope)
    BY <1>3, <1>8
  <2> QED
    BY <1>5, <1>7, <1>9, <2>1, KeptIs
<1>12. PICK rd, rd1 : rd \in Seq(Readings) /\ rd = read /\ rd1 = Noted(rd, label, claim) /\ read' = rd1 /\ Len(rd) > 0
  BY <1>1, <1>3, <1>6
<1>13. rd1 \in Seq(Readings) /\ Len(rd1) = Len(rd) /\ \A d \in 1 .. Len(rd) - 1 : rd1[d] = rd[d]
  BY <1>5, <1>12, ReadingNoted, ZenonT(60)
<1>14. Sound(v, Reading(rd1), n)
  <2>1. Sound(w, Reading(rd), m)
    BY <1>3, <1>4, <1>8, <1>12
  <2> QED
    BY <1>5, <1>6, <1>11, <1>12, <2>1, KeptSound
<1>15. end \in EndSet
  BY <1>3 DEF EndSet
<1>17. EndsSo(blocks, bs1, read, end)
  BY <1>1, <1>15, PartEndsIs
<1>18. Steps(v, bs1, rd1, n, label)
  <2>1. v \in Stances /\ v.scope = w.scope /\ v.frames = w.frames /\ v.letters = w.letters /\ v.closers = w.closers
    BY <1>11 DEF Kept
  <2>2. Onward(w, v)
    BY <2>1, OnwardSelf
  <2>3. \A l \in DOMAIN lines : l # label => l \in DOMAIN v.lines /\ v.lines[l] = lines[l]
    BY <1>3, <1>8, <1>11 DEF Kept
  <2>4. Leads(closers, scope, scope, Len(closers), Len(closers))
    BY <1>3, LeadsNowhere
  <2>5. v.closers = closers /\ v.scope = scope /\ Len(v.letters) = Len(letters)
    BY <1>3, <1>8, <2>1
  <2>6. Later(closers, Len(closers), Len(closers), used)
    BY <1>3 DEF Later
  <2>7. KeptSo(blocks, bs1, read)
    BY <1>17 DEF EndsSo
  <2>8. Onward(Now, v)
    BY <1>8, <2>2
  <2>9. n = used + 1 /\ \A l : Numbered(l, used) => l # label
    BY <1>4, <1>5, <1>6
  <2>10. rd1 \in Seq(Readings) /\ Len(rd1) = Len(read) /\ \A d \in 1 .. Len(read) - 1 : rd1[d] = read[d]
    BY <1>12, <1>13
  <2> QED
    BY <1>3, <2>1, <2>3, <2>4, <2>5, <2>6, <2>7, <2>8, <2>9, <2>10 DEF Steps
<1>19. Stacked(v, bs1, rd1, n) /\ bs1 \in Seq(BlockSet)
  BY <1>17, <1>18, StepStacks DEF EndsSo, KeptSo
<1>20. scope' = scope /\ lines'[label] = Line(claim, scope, about) /\ label \in DOMAIN lines'
       /\ lines'[label].under = scope /\ lines'[label].about = about
  BY <1>3, <1>8, <1>10, <1>11 DEF Become, Kept
<1>21. last' = label /\ lines'[last'] = lines'[label]
  BY <1>1, <1>6
<1> QED
  BY <1>1, <1>2, <1>5, <1>10, <1>11, <1>12, <1>13, <1>14, <1>17, <1>19, <1>20, <1>21 DEF Kept

\* A step so proved keeps the invariant.
LEMMA KeepsLineHolds ==
  ASSUME IFrames, StepsHere, NEW n, NEW claim, NEW about \in 0 .. used, NEW shown \in Nat, KeepsLine(n, claim, about, shown),
         shown = about \/ (ended' = "reached" /\ shown = Top.about), Reached', UNCHANGED <<made, refused>>
  PROVE  IFrames'
<1>1. PICK end, bs1 : end = [under |-> scope, about |-> shown] /\ bs1 = blocks'
  OBVIOUS
<1>2. /\ scope' = scope /\ closers' = closers /\ n \in Nat /\ n = used + 1 /\ n <= MaxIds
      /\ last' \in Labels /\ last' \in DOMAIN lines' /\ lines'[last'].under = scope /\ lines'[last'].about = about
      /\ EndsSo(blocks, bs1, read, end)
      /\ \E v \in Stances, rd1 \in Seq(Readings) :
           Become(v) /\ read' = rd1 /\ Sound(v, Reading(rd1), n) /\ Stacked(v, bs1, rd1, n)
  BY <1>1, KeepsLineIs
<1>3. used' = n /\ used \in Nat
  BY InvIs DEF KeepsLine
<1>4. Done'
  <2>1. PICK label : label = last'
    OBVIOUS
  <2>2. label \in DOMAIN lines' /\ lines'[label].under = scope' /\ lines'[label].about = about
    BY <1>2, <2>1
  <2>3. lines'[label].about \in 0 .. used'
    BY <1>2, <1>3, <2>2
  <2>4. end.under = scope' /\ end.about = shown
    BY <1>1, <1>2
  <2>5. end.about = lines'[label].about \/ (ended' = "reached" /\ end.about = Top.about)
    BY <2>2, <2>4
  <2>6. EndsSo(blocks, bs1, read, end)
    BY <1>2
  <2> QED
    BY <1>1, <2>1, <2>2, <2>3, <2>4, <2>5, <2>6, StepDone
<1>5. ~refused' /\ (made \in {Nothing, <<>>})'
  BY DEF StepsHere
<1>6. NamesGiven'
  <2>1. NamesGiven
    BY DEF IFrames
  <2>2. closers \in Seq(CloserSet)
    BY InvIs
  <2>3. \A i \in 1 .. Len(closers) : closers[i].name \in Nat
    <3>1. \A i \in 1 .. Len(closers) : closers[i] \in CloserSet
      BY <2>2, ElementOfSeq
    <3> QED
      BY <3>1 DEF CloserSet
  <2> QED
    BY <1>2, <1>3, <2>1, <2>3 DEF NamesGiven
<1>7. PICK v \in Stances, rd1 \in Seq(Readings) :
        Become(v) /\ read' = rd1 /\ Sound(v, Reading(rd1), n) /\ Stacked(v, bs1, rd1, n)
  BY <1>2
<1>8. bs1 \in Seq(BlockSet)
  BY <1>2 DEF EndsSo, KeptSo
<1> QED
  BY <1>1, <1>2, <1>3, <1>4, <1>5, <1>6, <1>7, <1>8, Assemble

\* A step that opens nothing keeps the invariant.
LEMMA TakeStepHolds ==
  ASSUME IFrames, TakeStep
  PROVE  IFrames'
<1>1. PICK about \in Abouts : KeepsLine(used + 1, <<"line", used + 1>>, about, about)
  BY DEF TakeStep, KeepsLine
<1>2. about \in 0 .. used /\ about \in Nat
  BY <1>1, AboutsAre, InvIs
<1>3. StepsHere /\ UNCHANGED <<ended, made, refused>> /\ ended' = "no"
  BY DEF TakeStep, StepsHere
<1>4. Reached'
  BY <1>3 DEF Reached
<1>5. PICK n, claim : n = used + 1 /\ claim = <<"line", n>>
  OBVIOUS
<1> QED
  BY <1>1, <1>2, <1>3, <1>4, <1>5, KeepsLineHolds

\* A line in force, with its proof said where it is cited.
LEMMA CitedIs ==
  ASSUME IFrames, NEW label \in Citable
  PROVE  /\ label \in DOMAIN Reading(read) /\ Numbered(label, used) /\ label \in DOMAIN lines
         /\ lines[label].claim \in DOMAIN facts /\ Plain(lines[label].claim) = Reading(read)[label]
         /\ Checked(label) = Reading(read)[label] /\ Carried(label) = scope
<1>1. /\ Now.scope = scope /\ Now.facts = facts /\ Now.lines = lines /\ AllAt(facts, scope)
      /\ Sound(Now, Reading(read), used) /\ read \in Seq(Readings)
  BY InvIs
<1>2. PICK R : R = Reading(read)
  OBVIOUS
<1>3. label \in DOMAIN R
  BY <1>2 DEF Citable, Reading
<1>4. /\ Numbered(label, used) /\ label \in DOMAIN lines
      /\ lines[label].claim \in DOMAIN facts /\ Plain(lines[label].claim) = R[label]
  BY <1>1, <1>2, <1>3 DEF Sound, Viewed, Inscribed, InscribedLine
<1>5. Carried(label) = scope
  BY <1>1, <1>4 DEF Carried, CarriedIn, AllAt
<1>6. Checked(label) = R[label]
  BY <1>2, <1>3 DEF Checked, Reading
<1> QED
  BY <1>2, <1>3, <1>4, <1>5, <1>6

\* A step that ends its block by contradicting a line keeps the invariant:
\* the line cited stands where the step does.
LEMMA TakeContradictingHolds ==
  ASSUME IFrames, TakeContradicting
  PROVE  IFrames'
<1>1. PICK other, n, claim :
        /\ other \in Citable
        /\ n = used + 1 /\ claim = <<"line", n>>
        /\ Keep(<<"step", n>>, Line(claim, IF Top.by = "proof" THEN (IF Carried(other) = scope THEN scope ELSE Misfit) ELSE scope, 0),
                [Now EXCEPT !.facts = With(@, claim, scope)])
        /\ PartEnds([under |-> IF Carried(other) = scope THEN scope ELSE Misfit, about |-> Top.about])
        /\ contradicted' = IF Top.by = "contradiction" THEN Carried(other) ELSE contradicted
        /\ last' = <<"step", n>> /\ used' = n
        /\ read' = Noted(read, <<"step", n>>, claim)
  BY DEF TakeContradicting
<1>2. StepsHere /\ blocks # <<>> /\ Top.by # "induction" /\ fresh' = FALSE /\ ended' = "reached" /\ UNCHANGED <<made, refused>>
  BY DEF TakeContradicting
<1>3. Carried(other) = scope
  BY <1>1, CitedIs
<1>4. Top \in BlockSet /\ Top.about \in Nat
  <2>1. Top \in BlockSet
    BY <1>2, NowIs DEF IFrames
  <2> QED
    BY <2>1, BlockIs
<1>5. PICK shown \in Nat : shown = Top.about
  BY <1>4
<1>6. KeepsLine(n, claim, 0, shown)
  BY <1>1, <1>3, <1>5 DEF KeepsLine
<1>7. 0 \in 0 .. used
  BY InvIs
<1>8. PICK end, bs1 : end = [under |-> scope, about |-> shown] /\ bs1 = blocks'
  OBVIOUS
<1>9. /\ scope' = scope /\ lines'[last'].about = 0 /\ EndsSo(blocks, bs1, read, end)
  BY <1>2, <1>6, <1>7, <1>8, KeepsLineIs
<1>10. bs1 # <<>>
  <2>1. Len(bs1) = Len(blocks) /\ bs1 \in Seq(BlockSet) /\ blocks \in Seq(BlockSet)
    BY <1>9 DEF EndsSo, KeptSo
  <2>2. Len(blocks) > 0
    BY <1>2, NowIs DEF IFrames
  <2> QED
    BY <2>1, <2>2, EmptySeq
<1>11. /\ SameBut(Last(blocks), Last(bs1))
       /\ Parted(Last(blocks)) => Last(bs1).entered \in DOMAIN Last(bs1).parts /\ Last(bs1).parts[Last(bs1).entered] = end
  BY <1>9, <1>10, EndsSoTop
<1>12. Last(bs1).by = Top.by /\ Last(bs1).about = Top.about
  BY <1>11 DEF SameBut, Same, Top
<1>13. Last(bs1).by = "cases" => Last(bs1).parts[Last(bs1).entered].about = Last(bs1).about
  BY <1>5, <1>8, <1>11, <1>12 DEF Parted, Top
<1>14. Last(bs1).by = "contradiction" => contradicted' = scope
  BY <1>1, <1>3, <1>12
<1>15. Reached'
  BY <1>2, <1>8, <1>9, <1>10, <1>12, <1>13, <1>14 DEF Reached, Top
<1> QED
  BY <1>2, <1>5, <1>6, <1>7, <1>15, KeepsLineHolds

\* What the obtains and lets raise: their assumptions, to be discharged.
Raises(v, inner, added, claim, label, n) ==
  /\ inner \in Stances /\ Sound(inner, Reading(read), used) /\ Onward(Now, inner)
  /\ inner.lines = lines /\ inner.closers = closers /\ inner.letters = letters
  /\ added \in Scopes /\ inner.scope = scope \o added
  /\ claim \in Saids /\ claim \in DOMAIN inner.facts /\ Plain(claim) = claim
  /\ n = used + 1 /\ label \in Labels /\ Numbered(label, n) /\ \A l : Numbered(l, used) => l # label
  /\ \E ns \in SUBSET Nat :
       v = [inner EXCEPT !.closers = Append(@, [scope |-> scope, added |-> added, name |-> n]),
                         !.lines = With(@, label, Line(claim, inner.scope, n)), !.names = ns]

\* A name obtained or a let leaves the elaborator sound, and its closer
\* leads to where it stands.
LEMMA RaisesIs ==
  ASSUME IFrames, NEW v, NEW inner, NEW added, NEW claim, NEW label, NEW n, Raises(v, inner, added, claim, label, n),
         NEW bs1, KeptSo(blocks, bs1, read), NEW rd1, rd1 = Noted(read, label, claim)
  PROVE  /\ v \in Stances /\ rd1 \in Seq(Readings) /\ Sound(v, Reading(rd1), n) /\ Stacked(v, bs1, rd1, n) /\ n \in Nat
         /\ v.scope = inner.scope /\ label \in DOMAIN v.lines /\ v.lines[label] = Line(claim, inner.scope, n)
         /\ v.lines[label].under = inner.scope /\ v.lines[label].about = n
         /\ \A i \in 1 .. Len(v.closers) : v.closers[i].name <= n
<1>1. /\ Now \in Stances /\ Now.scope = scope /\ Now.lines = lines /\ Now.letters = letters /\ Now.closers = closers
      /\ read \in Seq(Readings) /\ used \in Nat /\ scope \in Scopes
      /\ closers \in Seq(CloserSet) /\ Len(closers) \in Nat /\ Len(read) > 0
  BY InvIs
<1>2. PICK k \in Nat : k = Len(closers)
  BY <1>1
<1>3. /\ inner \in Stances /\ Sound(inner, Reading(read), used) /\ Onward(Now, inner)
      /\ inner.lines = lines /\ inner.closers = closers /\ inner.letters = letters
      /\ added \in Scopes /\ inner.scope = scope \o added
      /\ claim \in Saids /\ claim \in DOMAIN inner.facts /\ Plain(claim) = claim
      /\ n = used + 1 /\ label \in Labels /\ Numbered(label, n) /\ \A l : Numbered(l, used) => l # label
  BY DEF Raises
<1>4. n \in Nat /\ used <= n
  BY <1>1, <1>3
<1>5. PICK ns \in SUBSET Nat :
       v = [inner EXCEPT !.closers = Append(@, [scope |-> scope, added |-> added, name |-> n]),
                         !.lines = With(@, label, Line(claim, inner.scope, n)), !.names = ns]
  BY DEF Raises
<1>6. PICK closer \in CloserSet : closer = [scope |-> scope, added |-> added, name |-> n]
  BY <1>1, <1>3, <1>4 DEF CloserSet
<1>7. closer.scope = scope /\ closer.added = added /\ closer.name = n
  BY <1>6
<1>8. PICK cls : cls = Append(closers, closer)
  OBVIOUS
<1>9. cls \in Seq(CloserSet) /\ Len(cls) = k + 1 /\ cls[k + 1] = closer /\ \A i \in 1 .. k : cls[i] = closers[i]
  BY <1>1, <1>2, <1>8, AppendsIs
<1>10. PICK at \in Scopes : at = inner.scope
  BY <1>3, StanceIs
<1>11. PICK line : line = Line(claim, at, n)
  OBVIOUS
<1>12. line \in LineSet /\ line.claim = claim /\ line.under = at /\ line.about = n
  BY <1>3, <1>4, <1>11, LineIs
<1>13. PICK ls : ls = With(lines, label, line)
  OBVIOUS
<1>14. ls \in Lines
  <2>1. lines \in Maps(Labels, LineSet) /\ label \in Labels
    BY <1>1, <1>3, StanceIs DEF Lines
  <2>2. ls \in Maps(Labels, LineSet)
    BY <1>12, <1>13, <2>1, WithIn
  <2> QED
    BY <2>2 DEF Lines
<1>15. DOMAIN ls = DOMAIN lines \cup {label} /\ ls[label] = line /\ \A l \in DOMAIN lines : l # label => ls[l] = lines[l]
  BY <1>13 DEF With
<1>16. v = [inner EXCEPT !.closers = cls, !.lines = ls, !.names = ns]
  BY <1>3, <1>5, <1>6, <1>8, <1>10, <1>11, <1>13
<1>17. /\ v \in Stances /\ v.closers = cls /\ v.lines = ls /\ v.frames = inner.frames /\ v.scope = inner.scope
       /\ v.letters = inner.letters /\ v.facts = inner.facts
  BY <1>3, <1>9, <1>14, <1>16 DEF Stances
<1>18. rd1 \in Seq(Readings) /\ Len(rd1) = Len(read) /\ \A d \in 1 .. Len(read) - 1 : rd1[d] = read[d]
  BY <1>1, <1>3, ReadingNoted, ZenonT(60)
<1>19. Sound(v, Reading(rd1), n)
  <2>1. PICK R, R1 : R = Reading(read) /\ R1 = Reading(rd1)
    OBVIOUS
  <2>2. DOMAIN R1 = DOMAIN R \cup {label} /\ R1[label] = claim /\ \A l \in DOMAIN R : l # label => R1[l] = R[l]
    BY <1>1, <1>3, <2>1, ReadingNoted, ZenonT(60)
  <2>3. Sound(inner, R, used)
    BY <1>3, <2>1
  <2>4. \A l \in DOMAIN R : l \in DOMAIN lines
    BY <1>3, <2>3 DEF Sound, Viewed, Inscribed
  <2>5. AllAt(v.facts, v.scope) /\ DOMAIN inner.facts \subseteq DOMAIN v.facts
    BY <1>17, <2>3 DEF Sound, Viewed
  <2>6. \A l \in DOMAIN R : l # label => R1[l] = R[l] /\ l \in DOMAIN v.lines /\ v.lines[l] = inner.lines[l]
    BY <1>3, <1>15, <1>17, <2>2, <2>4
  <2>7. /\ label \in DOMAIN v.lines /\ v.lines[label].claim \in DOMAIN v.facts
        /\ R1[label] = Plain(v.lines[label].claim) /\ v.lines[label].under = v.scope
    BY <1>3, <1>10, <1>12, <1>15, <1>17, <2>2
  <2>8. used \in Int /\ n \in Int
    BY <1>1, <1>4
  <2>9. Writes(inner, v, R, R1, used, n, label)
    BY <1>3, <1>4, <1>17, <2>2, <2>3, <2>5, <2>6, <2>7, <2>8 DEF Writes
  <2> QED
    BY <2>1, <2>9, WritesIs
<1>20. Onward(Now, v)
  <2>1. Onward(inner, v)
    BY <1>3, <1>17, OnwardSelf
  <2>2. PICK w \in Stances : w = Now
    BY <1>1
  <2> QED
    BY <1>3, <1>17, <2>1, <2>2, OnwardThrough
<1>21. Leads(v.closers, scope, v.scope, Len(closers), Len(v.closers))
  <2>1. k < k + 1 /\ k + 1 # k /\ \A i \in k + 1 .. k + 1 : i = k + 1 /\ i - 1 = k
    OBVIOUS
  <2>2. Reach(cls, scope, k, k + 1) = scope \o added /\ Reach(cls, scope, k, k) = scope
    BY <1>7, <1>9, <2>1 DEF Reach
  <2>3. Leads(cls, scope, inner.scope, k, k + 1)
    BY <1>3, <1>7, <1>9, <2>1, <2>2 DEF Leads
  <2> QED
    BY <1>2, <1>9, <1>17, <2>3
<1>22. Later(v.closers, Len(closers), Len(v.closers), used)
  <2>1. \A i \in k + 1 .. k + 1 : cls[i] = closer
    BY <1>9
  <2> QED
    BY <1>1, <1>2, <1>3, <1>7, <1>9, <1>17, <2>1 DEF Later
<1>23. Steps(v, bs1, rd1, n, label)
  <2>1. Len(v.letters) = Len(letters) /\ Len(closers) <= Len(v.closers) /\ \A i \in 1 .. Len(closers) : v.closers[i] = closers[i]
    BY <1>2, <1>3, <1>9, <1>17
  <2>2. \A l \in DOMAIN lines : l # label => l \in DOMAIN v.lines /\ v.lines[l] = lines[l]
    BY <1>15, <1>17
  <2> QED
    BY <1>3, <1>17, <1>18, <1>20, <1>21, <1>22, <2>1, <2>2 DEF Steps
<1>24. Stacked(v, bs1, rd1, n)
  BY <1>23, StepStacks
<1>25. \A i \in 1 .. Len(v.closers) : v.closers[i].name <= n
  <2>1. NamesGiven
    BY DEF IFrames
  <2>2. \A i \in 1 .. k : closers[i] \in CloserSet
    BY <1>1, <1>2, ElementOfSeq
  <2>3. \A i \in 1 .. k : closers[i].name \in Nat /\ closers[i].name <= used
    BY <1>2, <2>1, <2>2 DEF NamesGiven, CloserSet
  <2>4. \A i \in 1 .. k + 1 : cls[i].name <= n
    BY <1>1, <1>3, <1>4, <1>7, <1>9, <2>3
  <2> QED
    BY <1>9, <1>17, <2>4
<1> QED
  BY <1>4, <1>10, <1>11, <1>12, <1>15, <1>17, <1>18, <1>19, <1>24, <1>25

\* What an obtain or a let assumes is read as it is.
LEMMA SaidsOf ==
  ASSUME NEW n \in Nat, NEW t \in {"body", "member", "define"}, NEW c, c = <<t, n>>
  PROVE  c \in Saids /\ Plain(c) = c
<1>1. c \in Saids
  BY DEF Saids
<1>2. c[1] = t
  OBVIOUS
<1> QED
  BY <1>1, <1>2 DEF Plain

\* A let above a step leaves the blocks as they are.
LEMMA KeptSelf ==
  ASSUME IFrames, StepsHere
  PROVE  KeptSo(blocks, blocks, read)
<1>1. blocks \in Seq(BlockSet) /\ FTyped
  BY InvIs DEF IFrames
<1>2. ASSUME Len(blocks) > 0
      PROVE  /\ SameBut(blocks[Len(blocks)], blocks[Len(blocks)]) /\ Shaped(blocks[Len(blocks)], ReadingAt(read, Len(blocks)))
             /\ Parted(blocks[Len(blocks)]) => blocks[Len(blocks)].entered # NoPart
  <2>1. blocks # <<>>
    BY <1>1, <1>2, NowIs
  <2>2. PICK k, R, b : k = Len(blocks) /\ R = ReadingAt(read, k) /\ b = Top
    OBVIOUS
  <2>3. InTop(k, R, b)
    BY <2>1, <2>2, TopIs
  <2>4. b = blocks[k] /\ Shaped(b, R) /\ SameBut(b, b)
    BY <2>3, SameButSelf DEF InTop
  <2>5. Parted(b) => b.entered # NoPart
    BY <2>1, <2>2 DEF StepsHere
  <2> QED
    BY <2>2, <2>4, <2>5
<1> QED
  BY <1>1, <1>2 DEF KeptSo

\* A name obtained keeps the invariant.
LEMMA ObtainHolds ==
  ASSUME IFrames, Obtain
  PROVE  IFrames'
<1>1. PICK n, body, member, named, mid, inner, label :
        /\ n = used + 1 /\ body = <<"body", n>> /\ member = <<"member", n>> /\ label = <<"step", n>>
        /\ named = [Now EXCEPT !.names = @ \cup {n}]
        /\ mid = Widen(named, member) /\ inner = Widen(mid, body)
  OBVIOUS
<1>2. PICK added, closer : added = <<member, body>> /\ closer = [scope |-> scope, added |-> added, name |-> n]
  OBVIOUS
<1>3. /\ Keep(label, Line(body, inner.facts[body], n), [inner EXCEPT !.closers = Append(@, closer)])
      /\ PartEnds([under |-> inner.facts[body], about |-> n])
      /\ last' = label /\ used' = n
      /\ read' = Noted(read, label, body)
  BY <1>1, <1>2 DEF Obtain
<1>4. StepsHere /\ UNCHANGED <<ended, made, refused>>
  BY DEF Obtain
<1>5. /\ Now \in Stances /\ Now.scope = scope /\ Now.lines = lines /\ Now.letters = letters /\ Now.closers = closers
      /\ Now.frames = frames /\ Now.facts = facts
      /\ blocks \in Seq(BlockSet) /\ read \in Seq(Readings) /\ used \in Nat /\ scope \in Scopes
      /\ used <= MaxIds /\ MaxIds \in Nat /\ Sound(Now, Reading(read), used)
  BY InvIs
<1>6. n \in Nat /\ n <= MaxIds /\ Now.names \in SUBSET Nat
  BY <1>1, <1>4, <1>5 DEF StepsHere, Stances
<1>7. body \in Saids /\ Plain(body) = body /\ member \in Saids
  BY <1>1, <1>6, SaidsOf
<1>36. PICK R : R = Reading(read)
  OBVIOUS
<1>8. PICK m \in Nat : R = Reading(read) /\ m = used
  BY <1>5, <1>36
<1>9. PICK w \in Stances : w = Now
  BY <1>5
<1>10. /\ named \in Stances /\ named.scope = w.scope /\ named.frames = w.frames /\ named.facts = w.facts
       /\ named.lines = w.lines /\ named.letters = w.letters /\ named.closers = w.closers
  <2>1. PICK ns \in SUBSET Nat : ns = Now.names \cup {n}
    BY <1>6
  <2>2. named = [w EXCEPT !.names = ns]
    BY <1>1, <1>9, <2>1
  <2> QED
    BY <2>2 DEF Stances
<1>11. Sound(w, R, m)
  BY <1>5, <1>8, <1>9
<1>12. Sound(named, R, m)
  BY <1>10, <1>11, SoundAlike
<1>13. Onward(w, named)
  BY <1>10, OnwardSelf
<1>14. Sound(mid, R, m) /\ Wider(named, member, mid) /\ Onward(named, mid)
  BY <1>1, <1>7, <1>10, <1>12, WidenIs
<1>15. mid \in Stances
  BY <1>14 DEF Wider
<1>16. Sound(inner, R, m) /\ Wider(mid, body, inner) /\ Onward(mid, inner)
  BY <1>1, <1>7, <1>14, <1>15, WidenIs
<1>17. inner \in Stances
  BY <1>16 DEF Wider
<1>18. Onward(w, inner)
  <2>1. Onward(w, mid)
    BY <1>10, <1>13, <1>14, <1>15, OnwardThrough
  <2> QED
    BY <1>15, <1>16, <1>17, <2>1, OnwardThrough
<1>19. added \in Scopes /\ inner.scope = scope \o added
  <2>1. inner.scope = Append(Append(scope, member), body)
    BY <1>5, <1>9, <1>10, <1>14, <1>16 DEF Wider
  <2>2. Append(Append(scope, member), body) = scope \o <<member, body>>
    BY <1>5, <1>7, AppendTwo
  <2>3. PICK x \in Saids, y \in Saids : x = member /\ y = body
    BY <1>7
  <2>4. <<x, y>> \in Seq(Saids)
    OBVIOUS
  <2> QED
    BY <1>2, <2>1, <2>2, <2>3, <2>4 DEF Scopes
<1>20. /\ inner.lines = lines /\ inner.closers = closers /\ inner.letters = letters
       /\ body \in DOMAIN inner.facts /\ inner.facts[body] = inner.scope /\ inner.names \in SUBSET Nat
  BY <1>5, <1>9, <1>10, <1>14, <1>16, <1>17 DEF Wider, Stances
<1>21. label \in Labels /\ Numbered(label, n) /\ \A l : Numbered(l, m) => l # label
  BY <1>1, <1>8, FreshLabel
<1>22. PICK v : v = [inner EXCEPT !.closers = Append(@, [scope |-> scope, added |-> added, name |-> n]),
                         !.lines = With(@, label, Line(body, inner.scope, n)), !.names = inner.names]
  OBVIOUS
<1>23. Become(v)
  <2>1. PICK ls, cls : ls = With(inner.lines, label, Line(body, inner.scope, n)) /\ cls = Append(inner.closers, closer)
    OBVIOUS
  <2>2. v = [inner EXCEPT !.closers = cls, !.lines = ls, !.names = inner.names]
    BY <1>2, <1>22, <2>1
  <2>3. Become([[inner EXCEPT !.closers = cls] EXCEPT !.lines = ls])
    BY <1>3, <1>17, <1>20, <2>1 DEF Keep, Stances
  <2> QED
    BY <1>17, <2>2, <2>3 DEF Become, Stances
<1>24. Raises(v, inner, added, body, label, n)
  <2>1. Sound(inner, Reading(read), used) /\ Onward(Now, inner)
    BY <1>8, <1>9, <1>16, <1>18
  <2>2. n = used + 1 /\ \A l : Numbered(l, used) => l # label
    BY <1>1, <1>8, <1>21
  <2> QED
    BY <1>7, <1>17, <1>19, <1>20, <1>21, <1>22, <2>1, <2>2 DEF Raises
<1>25. PICK end \in EndSet : end = [under |-> inner.facts[body], about |-> n] /\ end.under = inner.scope /\ end.about = n
  <2>1. PICK at \in Scopes : at = inner.scope
    BY <1>17, StanceIs
  <2>2. PICK e : e = [under |-> at, about |-> n]
    OBVIOUS
  <2>3. e \in EndSet /\ e.under = at /\ e.about = n
    BY <1>6, <2>2 DEF EndSet
  <2> QED
    BY <1>20, <2>1, <2>2, <2>3
<1>26. PICK bs1, rd1 : bs1 = blocks' /\ rd1 = Noted(read, label, body)
  OBVIOUS
<1>27. EndsSo(blocks, bs1, read, end)
  BY <1>3, <1>4, <1>25, <1>26, PartEndsIs
<1>28. KeptSo(blocks, bs1, read) /\ bs1 \in Seq(BlockSet)
  BY <1>27 DEF EndsSo, KeptSo
<1>29. /\ v \in Stances /\ rd1 \in Seq(Readings) /\ Sound(v, Reading(rd1), n) /\ Stacked(v, bs1, rd1, n)
       /\ v.scope = inner.scope /\ label \in DOMAIN v.lines
       /\ v.lines[label].under = inner.scope /\ v.lines[label].about = n
       /\ \A i \in 1 .. Len(v.closers) : v.closers[i].name <= n
  BY <1>24, <1>26, <1>28, RaisesIs
<1>30. scope' = v.scope /\ lines' = v.lines /\ closers' = v.closers
  BY <1>23 DEF Become
<1>31. Done'
  <2>1. label \in DOMAIN lines' /\ lines'[label].under = scope' /\ lines'[label].about = n
    BY <1>29, <1>30
  <2>2. n \in 0 .. used'
    BY <1>3, <1>6
  <2>3. end.under = scope' /\ end.about = lines'[label].about /\ lines'[label].about \in 0 .. used'
    BY <1>25, <1>29, <1>30, <2>1, <2>2
  <2>4. last' = label
    BY <1>3
  <2> QED
    BY <1>26, <1>27, <2>1, <2>3, <2>4, StepDone
<1>32. Reached'
  BY <1>4 DEF Reached, StepsHere
<1>33. ~refused' /\ (made \in {Nothing, <<>>})' /\ last' \in Labels
  BY <1>3, <1>4, <1>21 DEF StepsHere
<1>34. NamesGiven'
  BY <1>3, <1>29, <1>30 DEF NamesGiven
<1>35. used' = n /\ read' = rd1
  BY <1>3, <1>26
<1> QED
  BY <1>6, <1>23, <1>26, <1>28, <1>29, <1>31, <1>32, <1>33, <1>34, <1>35, Assemble

\* A let keeps the invariant.
LEMMA DefineHolds ==
  ASSUME IFrames, Define
  PROVE  IFrames'
<1>1. PICK n, said, inner, label :
        /\ n = used + 1 /\ said = <<"define", n>> /\ label = <<"K", n>> /\ inner = Widen(Now, said)
  OBVIOUS
<1>2. PICK added, closer : added = <<said>> /\ closer = [scope |-> scope, added |-> added, name |-> n]
  OBVIOUS
<1>3. /\ Keep(label, Line(said, inner.facts[said], n), [inner EXCEPT !.closers = Append(@, closer), !.names = @ \cup {n}])
      /\ used' = n /\ read' = Noted(read, label, said)
  BY <1>1, <1>2 DEF Define
<1>4. StepsHere /\ used + 1 < MaxIds /\ fresh' = TRUE /\ UNCHANGED <<blocks, last, ended, made, refused>>
  BY DEF Define
<1>5. /\ Now \in Stances /\ Now.scope = scope /\ Now.lines = lines /\ Now.letters = letters /\ Now.closers = closers
      /\ Now.frames = frames /\ Now.facts = facts
      /\ blocks \in Seq(BlockSet) /\ read \in Seq(Readings) /\ used \in Nat /\ scope \in Scopes
      /\ used <= MaxIds /\ MaxIds \in Nat /\ Sound(Now, Reading(read), used)
  BY InvIs
<1>6. n \in Nat /\ n <= MaxIds
  BY <1>1, <1>4, <1>5
<1>7. said \in Saids /\ Plain(said) = said
  BY <1>1, <1>6, SaidsOf
<1>36. PICK R : R = Reading(read)
  OBVIOUS
<1>8. PICK m \in Nat : R = Reading(read) /\ m = used
  BY <1>5, <1>36
<1>9. PICK w \in Stances : w = Now
  BY <1>5
<1>11. Sound(w, R, m)
  BY <1>5, <1>8, <1>9
<1>16. Sound(inner, R, m) /\ Wider(w, said, inner) /\ Onward(w, inner)
  BY <1>1, <1>7, <1>9, <1>11, WidenIs
<1>17. inner \in Stances
  BY <1>16 DEF Wider
<1>19. added \in Scopes /\ inner.scope = scope \o added
  <2>1. inner.scope = Append(scope, said)
    BY <1>5, <1>9, <1>16 DEF Wider
  <2>2. Append(scope, said) = scope \o <<said>>
    BY <1>5, <1>7, AppendTwo
  <2>3. PICK x \in Saids : x = said
    BY <1>7
  <2>4. <<x>> \in Seq(Saids)
    OBVIOUS
  <2> QED
    BY <1>2, <2>1, <2>2, <2>3, <2>4 DEF Scopes
<1>20. /\ inner.lines = lines /\ inner.closers = closers /\ inner.letters = letters
       /\ said \in DOMAIN inner.facts /\ inner.facts[said] = inner.scope /\ inner.names \in SUBSET Nat
  BY <1>5, <1>9, <1>16, <1>17 DEF Wider, Stances
<1>21. label \in Labels /\ Numbered(label, n) /\ \A l : Numbered(l, m) => l # label
  BY <1>1, <1>8, FreshLabel
<1>22. PICK ns, v : ns \in SUBSET Nat /\ ns = inner.names \cup {n} /\
                  v = [inner EXCEPT !.closers = Append(@, [scope |-> scope, added |-> added, name |-> n]),
                         !.lines = With(@, label, Line(said, inner.scope, n)), !.names = ns]
  BY <1>6, <1>20
<1>23. Become(v)
  <2>1. PICK ls, cls : ls = With(inner.lines, label, Line(said, inner.scope, n)) /\ cls = Append(inner.closers, closer)
    OBVIOUS
  <2>2. v = [inner EXCEPT !.closers = cls, !.lines = ls, !.names = ns]
    BY <1>2, <1>22, <2>1
  <2>3. Become([[inner EXCEPT !.closers = cls, !.names = ns] EXCEPT !.lines = ls])
    BY <1>3, <1>17, <1>20, <1>22, <2>1 DEF Keep, Stances
  <2> QED
    BY <1>17, <2>2, <2>3 DEF Become, Stances
<1>24. Raises(v, inner, added, said, label, n)
  <2>1. Sound(inner, Reading(read), used) /\ Onward(Now, inner)
    BY <1>8, <1>9, <1>16
  <2>2. n = used + 1 /\ \A l : Numbered(l, used) => l # label
    BY <1>1, <1>8, <1>21
  <2> QED
    BY <1>7, <1>17, <1>19, <1>20, <1>21, <1>22, <2>1, <2>2 DEF Raises
<1>26. PICK rd1 : rd1 = Noted(read, label, said)
  OBVIOUS
<1>28. KeptSo(blocks, blocks, read)
  BY <1>4, KeptSelf
<1>27. PICK bs1 \in Seq(BlockSet) : bs1 = blocks /\ bs1 = blocks' /\ KeptSo(blocks, bs1, read)
  BY <1>4, <1>5, <1>28
<1>29. /\ v \in Stances /\ rd1 \in Seq(Readings) /\ Sound(v, Reading(rd1), n) /\ Stacked(v, bs1, rd1, n)
       /\ \A i \in 1 .. Len(v.closers) : v.closers[i].name <= n
  BY <1>24, <1>26, <1>27, RaisesIs
<1>30. closers' = v.closers
  BY <1>23 DEF Become
<1>31. Done' /\ Reached'
  BY <1>4 DEF Done, Reached, StepsHere
<1>33. ~refused' /\ (made \in {Nothing, <<>>})' /\ last' \in Labels
  BY <1>4 DEF StepsHere, IFrames, FTyped
<1>34. NamesGiven'
  BY <1>3, <1>29, <1>30 DEF NamesGiven
<1>35. used' = n /\ read' = rd1
  BY <1>3, <1>26
<1> QED
  BY <1>6, <1>23, <1>27, <1>29, <1>31, <1>33, <1>34, <1>35, Assemble

(***************************************************************************)
(* The blocks opened                                                       *)
(***************************************************************************)

\* A block newly opened where the page stands.
NewAt(b, by, n, about, against) ==
  /\ b \in BlockSet /\ b.by = by /\ b.number = n /\ b.about = about /\ b.against = against
  /\ b.part = IF blocks # <<>> /\ Parted(Top) THEN Top.entered ELSE NoPart
  /\ b.outer = scope /\ b.outside = facts /\ b.frame = Len(frames) /\ b.lettersAt = Len(letters)
  /\ b.lines = lines /\ b.openedAt = Len(closers)
  /\ b.entered = NoPart /\ b.caseAt = NoPart /\ DOMAIN b.parts = {}

\* A block as it is before it is said what it opens with.
NewlyMade(b, by, n, about, against) == b = NewBlock(by, n, about, against)

\* A block newly opened keeps where it was opened.
LEMMA NewBlockIs ==
  ASSUME IFrames, NEW by \in {"proof", "contradiction", "cases", "induction"}, NEW n \in Nat, NEW about \in Nat,
         NEW against \in BOOLEAN, NEW b, NewlyMade(b, by, n, about, against)
  PROVE  NewAt(b, by, n, about, against) /\ b.claimed = {} /\ b.opened = <<>>
<1>1. /\ scope \in Scopes /\ facts \in KnownSet /\ lines \in Lines /\ names \in SUBSET Nat
      /\ Len(frames) \in Nat /\ Len(letters) \in Nat /\ Len(closers) \in Nat
  <2>1. /\ scope \in Scopes /\ facts \in KnownSet /\ lines \in Lines /\ names \in SUBSET Nat
        /\ frames \in Seq(FrameSet) /\ letters \in Seq(LetterSet) /\ closers \in Seq(CloserSet)
    BY NowIs DEF IFrames
  <2> QED
    BY <2>1, LenProperties
<1>2. PICK part \in {NoPart} \cup Parts : part = IF blocks # <<>> /\ Parted(Top) THEN Top.entered ELSE NoPart
  <2>1. blocks # <<>> => Top.entered \in {NoPart} \cup Parts
    <3>1. blocks # <<>> => Top \in BlockSet
      BY NowIs DEF IFrames
    <3> QED
      BY <3>1, PartsOfBlock
  <2>2. CASE blocks # <<>> /\ Parted(Top)
    BY <2>1, <2>2
  <2>3. CASE ~(blocks # <<>> /\ Parted(Top))
    BY <2>3
  <2> QED
    BY <2>2, <2>3
<1>3. PICK none : none = <<>>
  OBVIOUS
<1>4. none \in Maps(Parts, Labels) /\ none \in Maps(Parts, EndSet) /\ DOMAIN none = {} /\ none \in Scopes
  <2>1. <<>> \in Maps(Parts, Labels)
    BY NoneIs
  <2>2. <<>> \in Maps(Parts, EndSet) /\ DOMAIN <<>> = {}
    BY NoneIs
  <2>3. <<>> \in Scopes
    BY DEF Scopes
  <2> QED
    BY <1>3, <2>1, <2>2, <2>3
<1>5. b = [by |-> by, number |-> n, about |-> about, against |-> against, part |-> part,
           outer |-> scope, outside |-> facts, frame |-> Len(frames), named |-> names,
           lettersAt |-> Len(letters), lines |-> lines, openedAt |-> Len(closers),
           opened |-> none, labels |-> none, claimed |-> {}, cited |-> Nothing, splits |-> Nothing,
           entered |-> NoPart, caseAt |-> NoPart, parts |-> none]
  BY <1>2, <1>3 DEF NewlyMade, NewBlock
<1>6. b \in BlockSet
  BY <1>1, <1>4, <1>5 DEF BlockSet
<1> QED
  BY <1>2, <1>3, <1>4, <1>5, <1>6 DEF NewAt

\* A block opened, and where its first step stands.
LEMMA OpenedHolds ==
  ASSUME ~OwnersEnd, IFrames, OpensHere, NEW by \in Bys, NEW n, n = used + 1, NEW about \in 0 .. used, NEW against \in Againsts,
         NEW b, NewAt(b, by, n, about, against), Shaped(b, Reading(read)),
         NEW v \in Stances, NEW m \in Readings, Opened(b, v, m), Onward(Now, v), v.closers = closers, v.scope = Base(b),
         MayEnter(b) => v.lines = lines /\ Len(v.letters) = Len(letters),
         Sound(v, Reading(Append(read, m)), n)
  PROVE  IFrames'
<1>1. /\ Now \in Stances /\ Now.scope = scope /\ Now.lines = lines /\ Now.letters = letters /\ Now.closers = closers
      /\ Now.frames = frames /\ Now.facts = facts
      /\ blocks \in Seq(BlockSet) /\ read \in Seq(Readings) /\ used \in Nat /\ scope \in Scopes
      /\ used <= MaxIds /\ MaxIds \in Nat /\ Sound(Now, Reading(read), used) /\ Stacked(Now, blocks, read, used)
  BY InvIs
<1>2. StepsHere /\ used + 1 < MaxIds
  BY DEF OpensHere
<1>3. n \in Nat /\ n <= MaxIds
  BY <1>1, <1>2
<1>4. /\ Become(v) /\ blocks' = Append(blocks, b) /\ read' = Append(read, m) /\ used' = n
      /\ fresh' = TRUE /\ UNCHANGED <<last, ended, made, refused>>
  BY DEF Opened
<1>5. PICK bs1, rd1 : bs1 = Append(blocks, b) /\ rd1 = Append(read, m)
  OBVIOUS
<1>6. bs1 \in Seq(BlockSet) /\ rd1 \in Seq(Readings)
  <2>1. b \in BlockSet
    BY DEF NewAt
  <2> QED
    BY <1>1, <1>5, <2>1, AppendsIs
<1>7. blocks # <<>> => Len(blocks) > 0 /\ Top = blocks[Len(blocks)]
  BY NowIs DEF IFrames
<1>8. Len(blocks) > 0 => blocks # <<>>
  BY EmptySeq
<1>9. b.part = IF Len(blocks) > 0 /\ Parted(blocks[Len(blocks)]) THEN blocks[Len(blocks)].entered ELSE NoPart
  BY <1>7, <1>8 DEF NewAt
<1>10. b.against => Len(blocks) > 0 /\ blocks[Len(blocks)].by = "contradiction"
  BY <1>7, <1>8 DEF NewAt, Againsts
<1>11. Len(blocks) > 0 /\ Parted(blocks[Len(blocks)]) => blocks[Len(blocks)].entered # NoPart
  BY <1>2, <1>7, <1>8 DEF StepsHere
<1>12. Opens(Now, v, blocks, read, used, b)
  <2>1. /\ b \in BlockSet /\ b.outer = Now.scope /\ b.outside = Now.facts /\ b.lines = Now.lines
        /\ b.lettersAt = Len(Now.letters) /\ b.openedAt = Len(Now.closers) /\ b.number = used + 1
    BY <1>1 DEF NewAt
  <2>2. MayEnter(b) => v.lines = Now.lines /\ Len(v.letters) = Len(Now.letters)
    BY <1>1
  <2> QED
    BY <1>1, <1>9, <1>10, <1>11, <2>1, <2>2 DEF Opens
<1>13. PICK w, bs, rd, k : w = Now /\ bs = blocks /\ rd = read /\ k = used
  OBVIOUS
<1>14. Stacked(v, Append(bs, b), Append(rd, m), k + 1)
  <2>1. Opens(w, v, bs, rd, k, b)
    BY <1>12, <1>13
  <2> QED
    BY <2>1, StackOpened
<1>15. Stacked(v, bs1, rd1, n)
  BY <1>5, <1>13, <1>14
<1>16. Done' /\ Reached'
  BY <1>2, <1>4 DEF Done, Reached, StepsHere
<1>17. ~refused' /\ (made \in {Nothing, <<>>})' /\ last' \in Labels
  BY <1>2, <1>4 DEF StepsHere, IFrames, FTyped
<1>18. NamesGiven'
  <2>1. NamesGiven /\ closers' = closers /\ used' = used + 1
    BY <1>4 DEF IFrames, Become
  <2>2. closers \in Seq(CloserSet)
    BY InvIs
  <2>3. \A i \in 1 .. Len(closers) : closers[i] \in CloserSet
    BY <2>2, ElementOfSeq
  <2>4. \A i \in 1 .. Len(closers) : closers[i].name \in Nat
    BY <2>3 DEF CloserSet
  <2> QED
    BY <1>1, <2>1, <2>4 DEF NamesGiven
<1>19. Sound(v, Reading(rd1), n)
  BY <1>5
<1>20. blocks' = bs1 /\ read' = rd1 /\ used' = n
  BY <1>4, <1>5
<1> QED
  BY <1>3, <1>4, <1>6, <1>15, <1>16, <1>17, <1>18, <1>19, <1>20, Assemble

\* A block of no parts is as one is.
LEMMA ShapedPlain ==
  ASSUME IFrames, NEW by \in {"contradiction", "proof"}, by \in Bys, NEW n, n = used + 1, NEW against,
         NEW b, NewAt(b, by, n, 0, against), b.claimed = {}, NEW R
  PROVE  Shaped(b, R) /\ ~MayEnter(b) /\ Base(b) = b.outer \o b.opened
<1>1. Framed(frames, scope) /\ used \in Nat
  BY InvIs
<1>2. b.frame = Len(b.outer) + 1
  BY <1>1 DEF NewAt, Framed
<1>3. ~Parted(b) /\ ~MayEnter(b)
  BY DEF NewAt, Parted, MayEnter
<1>4. Base(b) = b.outer \o b.opened
  BY <1>3 DEF Base, OpensOf, Parted
<1>5. Shaped(b, R)
  <2>1. n > 0 /\ 0 \in 0 .. n - 1
    BY <1>1
  <2>2. NoPart # 1
    BY DEF NoPart
  <2> QED
    BY <1>2, <1>3, <2>1, <2>2 DEF Shaped, NewAt, Parted
<1> QED
  BY <1>3, <1>4, <1>5

\* One more assumption past others.
LEMMA AppendOver ==
  ASSUME NEW s \in Scopes, NEW o \in Scopes, NEW a \in Saids
  PROVE  Append(s \o o, a) = s \o Append(o, a)
  BY DEF Scopes

\* A block newly opened, with what it opens with.
NewlyOpens(c, by, n, about, against, opened) == c = [NewBlock(by, n, about, against) EXCEPT !.opened = opened]

\* A block newly opened with its openers.
LEMMA NewWith ==
  ASSUME IFrames, NEW by \in {"proof", "contradiction", "cases", "induction"}, NEW n \in Nat, NEW about \in Nat,
         NEW against \in BOOLEAN, NEW opened \in Scopes, NEW c, NewlyOpens(c, by, n, about, against, opened)
  PROVE  NewAt(c, by, n, about, against) /\ c.claimed = {} /\ c.opened = opened
<1>0. PICK x : x = NewBlock(by, n, about, against) OBVIOUS
<1>1. NewAt(x, by, n, about, against) /\ x.claimed = {}
  <2>1. NewlyMade(x, by, n, about, against)
    BY <1>0 DEF NewlyMade
  <2> QED
    BY <2>1, NewBlockIs
<1>2. c = [x EXCEPT !.opened = opened] BY <1>0 DEF NewlyOpens
<1>3. x \in BlockSet BY <1>1 DEF NewAt
<1>4. c \in BlockSet /\ c.opened = opened /\ c.claimed = x.claimed BY <1>2, <1>3 DEF BlockSet
<1>5. /\ c.by = x.by /\ c.number = x.number /\ c.about = x.about /\ c.against = x.against /\ c.part = x.part
      /\ c.outer = x.outer /\ c.outside = x.outside /\ c.frame = x.frame /\ c.lettersAt = x.lettersAt
      /\ c.lines = x.lines /\ c.openedAt = x.openedAt /\ c.entered = x.entered /\ c.caseAt = x.caseAt /\ c.parts = x.parts
  BY <1>2, <1>3 DEF BlockSet
<1> QED BY <1>1, <1>4, <1>5 DEF NewAt

\* The label of an opener.
LEMMA OpenerLabel ==
  ASSUME NEW n \in Nat, n > 0, NEW parted \in BOOLEAN, NEW label \in LabelsFor(n, parted)
  PROVE  label \in Labels /\ Numbered(label, n)
<1>1. label = <<"K", n>> \/ label = Hypothesis BY DEF LabelsFor
<1>2. CASE label = <<"K", n>>
  <2>1. n \in 1 .. n OBVIOUS
  <2> QED BY <1>2, <2>1 DEF Labels, Numbered
<1>3. CASE label = Hypothesis BY <1>3 DEF Labels, Numbered
<1> QED BY <1>1, <1>2, <1>3

\* One more label is read, over any other use of it.
OneMore(R, label, added, R1) ==
  /\ DOMAIN R1 = DOMAIN R \cup {label} /\ R1[label] = added
  /\ \A l \in DOMAIN R : l # label => R1[l] = R[l]

\* What the checker reads once a block's opener is labelled.
ReadsOne(label, added, m, R1) == m = Only(label, added) /\ R1 = Reading(Append(read, m))

\* A block's opener is read over any other use of its label.
LEMMA OneOver ==
  ASSUME IFrames, NEW label \in Labels, NEW added \in Saids, NEW m, NEW R1, ReadsOne(label, added, m, R1)
  PROVE  m \in Readings /\ Append(read, m) \in Seq(Readings) /\ OneMore(Reading(read), label, added, R1)
<1>0. m = Only(label, added) /\ R1 = Reading(Append(read, m)) BY DEF ReadsOne
<1>1. m \in Readings /\ DOMAIN m = {label} /\ m[label] = added BY <1>0, OnlyIn, OnlyIs DEF Readings
<1>2. read \in Seq(Readings) BY InvIs
<1>3. DOMAIN R1 = DOMAIN Reading(read) \cup {label} /\ Append(read, m) \in Seq(Readings) BY <1>0, <1>1, <1>2, ReadingOver
<1>4. R1[label] = added BY <1>0, <1>1, <1>2, ReadingOver
<1>5. \A l \in DOMAIN Reading(read) : l # label => R1[l] = Reading(read)[l] BY <1>0, <1>1, <1>2, ReadingOver
<1> QED BY <1>1, <1>3, <1>4, <1>5 DEF OneMore

\* A contradiction block opened keeps the invariant.
LEMMA OpenContradictionHolds ==
  ASSUME ~OwnersEnd, IFrames, OpenContradiction
  PROVE  IFrames'
<1>1. PICK against \in Againsts, label \in LabelsFor(used + 1, FALSE) :
        LET n == used + 1
            supposed == <<"suppose", n>>
            w == Lay(Now, supposed, label)
        IN Opened([NewBlock("contradiction", n, 0, against) EXCEPT !.opened = w.opened], w, Only(label, supposed))
  BY DEF OpenContradiction
<1>2. OpensHere /\ "contradiction" \in Bys BY DEF OpenContradiction
<1>3. PICK n : n = used + 1 OBVIOUS
<1>4. used \in Nat /\ n \in Nat /\ n > 0 BY <1>3, InvIs
<1>5. PICK supposed : supposed = <<"suppose", n>> OBVIOUS
<1>6. supposed \in Saids /\ supposed[1] = "suppose" BY <1>4, <1>5 DEF Saids
<1>7. PICK v : v = Lay(Now, supposed, label) OBVIOUS
<1>8. PICK m : m = Only(label, supposed) OBVIOUS
<1>9. PICK b : b = [NewBlock("contradiction", n, 0, against) EXCEPT !.opened = v.opened] OBVIOUS
<1>10. Opened(b, v, m) BY <1>1, <1>3, <1>5, <1>7, <1>8, <1>9
<1>11. label \in Labels /\ Numbered(label, n) BY <1>3, <1>4, OpenerLabel
<1>12. PICK R1 : R1 = Reading(Append(read, m)) OBVIOUS
<1>13. m \in Readings /\ Append(read, m) \in Seq(Readings) /\ OneMore(Reading(read), label, supposed, R1)
  <2>1. ReadsOne(label, supposed, m, R1) BY <1>8, <1>12 DEF ReadsOne
  <2> QED BY <1>6, <1>11, <2>1, OneOver
<1>14. Now \in Stances /\ Sound(Now, Reading(read), used) /\ Now.closers = closers /\ Now.scope = scope
       /\ Now.opened = <<>> /\ scope \in Scopes
  BY InvIs
<1>15. Lays(Now, v, Reading(read), R1, used, n, supposed, label)
  BY <1>3, <1>4, <1>6, <1>7, <1>11, <1>13, <1>14 DEF Lays, OneMore
<1>16. /\ v \in Stances /\ Sound(v, R1, n) /\ Onward(Now, v)
       /\ v.scope = Append(Now.scope, supposed) /\ v.closers = Now.closers
       /\ v.opened = Append(Now.opened, supposed)
  BY <1>15, LaysIs
<1>17. v.opened = <<supposed>> /\ v.opened \in Scopes BY <1>6, <1>14, <1>16 DEF Scopes
<1>18. v.scope = scope \o v.opened BY <1>6, <1>14, <1>16, <1>17, AppendTwo
<1>19. against \in BOOLEAN BY DEF Againsts
<1>20. NewAt(b, "contradiction", n, 0, against) /\ b.claimed = {} /\ b.opened = v.opened
  <2>1. NewlyOpens(b, "contradiction", n, 0, against, v.opened) BY <1>9 DEF NewlyOpens
  <2> QED BY <1>4, <1>17, <1>19, <2>1, NewWith
<1>21. Shaped(b, Reading(read)) /\ ~MayEnter(b) /\ Base(b) = b.outer \o b.opened
  BY <1>2, <1>3, <1>20, ShapedPlain
<1>22. b.outer = scope BY <1>20 DEF NewAt
<1>23. v.scope = Base(b) BY <1>18, <1>20, <1>21, <1>22
<1>24. 0 \in 0 .. used BY <1>4
<1> QED BY <1>2, <1>3, <1>10, <1>12, <1>13, <1>14, <1>16, <1>20, <1>21, <1>23, <1>24, OpenedHolds

\* The openers of a block laid down, and read.
LaidOn(w, v, m, n) ==
  /\ m \in Readings /\ v \in Stances /\ Sound(v, Reading(Append(read, m)), n) /\ Onward(w, v)
  /\ v.closers = w.closers /\ v.opened \in Scopes /\ v.scope = w.scope \o v.opened

\* Two things assumed, one after the other.
LEMMA PairIs ==
  ASSUME NEW a \in Saids, NEW c \in Saids
  PROVE  Append(<<a>>, c) = <<a, c>>
<1>1. <<a>> \in Seq(Saids) /\ Len(<<a>>) = 1 /\ <<a>>[1] = a
  OBVIOUS
<1>2. <<a, c>> \in Seq(Saids) /\ Len(<<a, c>>) = 2 /\ <<a, c>>[1] = a /\ <<a, c>>[2] = c
  OBVIOUS
<1>3. Append(<<a>>, c) \in Seq(Saids) /\ Len(Append(<<a>>, c)) = 2 /\ Append(<<a>>, c)[1] = a /\ Append(<<a>>, c)[2] = c
  BY <1>1
<1>4. \A i \in 1 .. 2 : i = 1 \/ i = 2
  OBVIOUS
<1>5. \A i \in 1 .. 2 : Append(<<a>>, c)[i] = <<a, c>>[i]
  BY <1>2, <1>3, <1>4
<1> QED
  BY <1>2, <1>3, <1>5, SeqEqual

\* A block of no parts, once its openers are laid down, keeps the invariant.
LEMMA PlainOpens ==
  ASSUME ~OwnersEnd, IFrames, OpensHere, NEW by \in {"contradiction", "proof"}, by \in Bys, NEW n, n = used + 1,
         NEW against \in Againsts, NEW v, NEW m, LaidOn(Now, v, m, n),
         NEW b, NewlyOpens(b, by, n, 0, against, v.opened), Opened(b, v, m)
  PROVE  IFrames'
<1>4. used \in Nat /\ n \in Nat /\ n > 0 BY InvIs
<1>14. Now.closers = closers /\ Now.scope = scope BY InvIs
<1>16. /\ m \in Readings /\ v \in Stances /\ Sound(v, Reading(Append(read, m)), n) /\ Onward(Now, v)
       /\ v.closers = closers /\ v.opened \in Scopes /\ v.scope = scope \o v.opened
  BY <1>14 DEF LaidOn
<1>19. against \in BOOLEAN BY DEF Againsts
<1>20. NewAt(b, by, n, 0, against) /\ b.claimed = {} /\ b.opened = v.opened
  BY <1>4, <1>16, <1>19, NewWith
<1>21. Shaped(b, Reading(read)) /\ ~MayEnter(b) /\ Base(b) = b.outer \o b.opened
  BY <1>20, ShapedPlain
<1>22. b.outer = scope BY <1>20 DEF NewAt
<1>23. v.scope = Base(b) BY <1>16, <1>20, <1>21, <1>22
<1>24. 0 \in 0 .. used BY <1>4
<1> QED BY <1>16, <1>20, <1>21, <1>23, <1>24, OpenedHolds

\* One opener laid down where the page stands.
LaysOne(n, t, added, label, v, m) ==
  /\ n = used + 1 /\ t \in {"suppose", "let", "assume"} /\ added = <<t, n>>
  /\ label \in Labels /\ Numbered(label, n) /\ v = Lay(Now, added, label) /\ m = Only(label, added)

\* One opener laid down is sound, and read as the checker reads it.
LEMMA OneLaid ==
  ASSUME IFrames, NEW n, NEW t, NEW added, NEW label, NEW v, NEW m, LaysOne(n, t, added, label, v, m)
  PROVE  LaidOn(Now, v, m, n) /\ OneMore(Reading(read), label, added, Reading(Append(read, m)))
         /\ v.opened = <<added>> /\ v.scope = Append(scope, added) /\ added \in Saids
<1>4. used \in Nat /\ n \in Nat /\ n > 0 /\ n = used + 1
  <2>1. used \in Nat BY InvIs
  <2>2. n = used + 1 BY DEF LaysOne
  <2> QED BY <2>1, <2>2
<1>5. t \in {"suppose", "let", "assume"} /\ added = <<t, n>> BY DEF LaysOne
<1>6. added \in Saids /\ added[1] = t /\ added[2] = n BY <1>4, <1>5 DEF Saids
<1>7. label \in Labels /\ Numbered(label, n) /\ v = Lay(Now, added, label) /\ m = Only(label, added) BY DEF LaysOne
<1>12. PICK R1 : R1 = Reading(Append(read, m)) OBVIOUS
<1>13. m \in Readings /\ Append(read, m) \in Seq(Readings) /\ OneMore(Reading(read), label, added, R1)
  <2>1. ReadsOne(label, added, m, R1) BY <1>7, <1>12 DEF ReadsOne
  <2> QED BY <1>6, <1>7, <2>1, OneOver
<1>14. Now \in Stances /\ Sound(Now, Reading(read), used) /\ Now.closers = closers /\ Now.scope = scope
       /\ Now.opened = <<>> /\ scope \in Scopes
  BY InvIs
<1>15. Lays(Now, v, Reading(read), R1, used, n, added, label)
  BY <1>4, <1>5, <1>6, <1>7, <1>13, <1>14 DEF Lays, OneMore
<1>16. /\ v \in Stances /\ Sound(v, R1, n) /\ Onward(Now, v)
       /\ v.scope = Append(Now.scope, added) /\ v.closers = Now.closers
       /\ v.opened = Append(Now.opened, added)
  BY <1>15, LaysIs
<1>17. v.opened = <<added>> /\ v.opened \in Scopes BY <1>6, <1>14, <1>16 DEF Scopes
<1>18. v.scope = Now.scope \o v.opened BY <1>6, <1>14, <1>16, <1>17, AppendTwo
<1> QED BY <1>6, <1>12, <1>13, <1>14, <1>16, <1>17, <1>18 DEF LaidOn

\* A supposition laid over a let.
LaysTwo(n, first, added, own, label, w, v, m) ==
  /\ n = used + 1 /\ first = <<"let", n>> /\ added = <<"assume", n>>
  /\ own = <<"L", n>> /\ label \in LabelsFor(n, FALSE)
  /\ w = Lay(Now, first, own) /\ v = Lay(w, added, label)
  /\ DOMAIN m = {own, label} /\ m[own] = first /\ m[label] = added /\ m \in Readings

\* Two openers laid down are.
LEMMA TwoLaid ==
  ASSUME IFrames, NEW n, NEW first, NEW added, NEW own, NEW label, NEW w, NEW v, NEW m,
         LaysTwo(n, first, added, own, label, w, v, m)
  PROVE  LaidOn(Now, v, m, n)
<1>0. n = used + 1 /\ first = <<"let", n>> /\ added = <<"assume", n>> /\ own = <<"L", n>> /\ label \in LabelsFor(n, FALSE)
  BY DEF LaysTwo
<1>a. w = Lay(Now, first, own) /\ v = Lay(w, added, label) BY DEF LaysTwo
<1>b. DOMAIN m = {own, label} /\ m[own] = first /\ m[label] = added /\ m \in Readings BY DEF LaysTwo
<1>1. used \in Nat /\ n \in Nat /\ n > 0 BY <1>0, InvIs
<1>2. own \in Labels /\ Numbered(own, n)
  <2>1. n \in 1 .. n BY <1>1
  <2> QED BY <1>0, <1>1, <2>1 DEF Labels, Numbered
<1>3. label \in Labels /\ Numbered(label, n) BY <1>0, <1>1, OpenerLabel
<1>4. label # own BY <1>0 DEF LabelsFor, Hypothesis
<1>5. PICK m1 : m1 = Only(own, first) OBVIOUS
<1>6. PICK R1 : R1 = Reading(Append(read, m1)) OBVIOUS
<1>7. LaidOn(Now, w, m1, n) /\ OneMore(Reading(read), own, first, R1) /\ w.opened = <<first>>
      /\ w.scope = Append(scope, first) /\ first \in Saids
  <2>1. LaysOne(n, "let", first, own, w, m1) BY <1>0, <1>a, <1>2, <1>5 DEF LaysOne
  <2> QED BY <1>6, <2>1, OneLaid
<1>8. PICK R2 : R2 = Reading(Append(read, m)) OBVIOUS
<1>9. read \in Seq(Readings) /\ Now \in Stances /\ Now.scope = scope /\ scope \in Scopes BY InvIs
<1>10. /\ DOMAIN R2 = DOMAIN Reading(read) \cup {own, label} /\ R2[own] = first /\ R2[label] = added
       /\ \A l \in DOMAIN Reading(read) : l \notin {own, label} => R2[l] = Reading(read)[l]
  <2>1. DOMAIN R2 = DOMAIN Reading(read) \cup {own, label} BY <1>b, <1>8, <1>9, ReadingOver
  <2>2. R2[own] = first /\ R2[label] = added BY <1>b, <1>8, <1>9, ReadingOver, ZenonT(60)
  <2>3. \A l \in DOMAIN Reading(read) : l \notin {own, label} => R2[l] = Reading(read)[l] BY <1>b, <1>8, <1>9, ReadingOver
  <2> QED BY <2>1, <2>2, <2>3
<1>11. OneMore(R1, label, added, R2) BY <1>4, <1>7, <1>10 DEF OneMore
<1>12. added \in Saids /\ added[1] = "assume" BY <1>0, <1>1 DEF Saids
<1>13. w \in Stances /\ Sound(w, R1, n) /\ Onward(Now, w) /\ w.closers = Now.closers BY <1>6, <1>7 DEF LaidOn
<1>14. Lays(w, v, R1, R2, n, n, added, label) BY <1>a, <1>1, <1>3, <1>11, <1>12, <1>13 DEF Lays, OneMore
<1>15. /\ v \in Stances /\ Sound(v, R2, n) /\ Onward(w, v)
       /\ v.scope = Append(w.scope, added) /\ v.closers = w.closers
       /\ v.opened = Append(w.opened, added)
  BY <1>14, LaysIs
<1>16. Onward(Now, v) BY <1>9, <1>13, <1>15, OnwardThrough
<1>17. v.opened = <<first, added>> /\ v.opened \in Scopes
  <2>1. <<first>> \in Seq(Saids) /\ Append(<<first>>, added) = <<first, added>> BY <1>7, <1>12, PairIs
  <2>2. v.opened = Append(<<first>>, added) BY <1>7, <1>15
  <2>3. <<first, added>> \in Seq(Saids) BY <1>7, <1>12
  <2> QED BY <2>1, <2>2, <2>3 DEF Scopes
<1>18. v.scope = Now.scope \o v.opened BY <1>7, <1>9, <1>12, <1>15, <1>17, AppendTwo
<1> QED BY <1>b, <1>8, <1>13, <1>15, <1>16, <1>17, <1>18 DEF LaidOn

\* A proof block opened keeps the invariant, with a let, an assumption or
\* both.
LEMMA OpenProofHolds ==
  ASSUME ~OwnersEnd, IFrames, OpenProof
  PROVE  IFrames'
<1>1. PICK against \in Againsts, kinds \in {{"let"}, {"assume"}, {"let", "assume"}}, label \in LabelsFor(used + 1, FALSE) :
       LET n == used + 1
           own == <<"L", n>>
           let == IF "let" \in kinds THEN Lay(Now, <<"let", n>>, own) ELSE Now
           w == IF "assume" \in kinds THEN Lay(let, <<"assume", n>>, label) ELSE let
           said == [l \in {own : k \in kinds \cap {"let"}} |-> <<"let", n>>]
           supposed == [l \in {label : k \in kinds \cap {"assume"}} |-> <<"assume", n>>]
       IN Opened([NewBlock("proof", n, 0, against) EXCEPT !.opened = w.opened], w, Over(said, supposed))
  BY DEF OpenProof
<1>2. OpensHere /\ "proof" \in Bys BY DEF OpenProof
<1>3. PICK n : n = used + 1 OBVIOUS
<1>4. used \in Nat /\ n \in Nat /\ n > 0 BY <1>3, InvIs
<1>5. PICK own, first, added : own = <<"L", n>> /\ first = <<"let", n>> /\ added = <<"assume", n>> OBVIOUS
<1>6. PICK said, supposed : /\ said = [l \in {own : k \in kinds \cap {"let"}} |-> first]
                            /\ supposed = [l \in {label : k \in kinds \cap {"assume"}} |-> added]
  OBVIOUS
<1>7. PICK w : w = IF "let" \in kinds THEN Lay(Now, first, own) ELSE Now OBVIOUS
<1>8. PICK v : v = IF "assume" \in kinds THEN Lay(w, added, label) ELSE w OBVIOUS
<1>9. PICK m : m = Over(said, supposed) OBVIOUS
<1>10. PICK b : NewlyOpens(b, "proof", n, 0, against, v.opened) BY DEF NewlyOpens
<1>11. Opened(b, v, m) BY <1>1, <1>3, <1>5, <1>6, <1>7, <1>8, <1>9, <1>10 DEF NewlyOpens
<1>12. label \in Labels /\ Numbered(label, n) /\ label \in LabelsFor(n, FALSE) BY <1>3, <1>4, OpenerLabel
<1>13. own \in Labels /\ Numbered(own, n)
  <2>1. n \in 1 .. n BY <1>4
  <2> QED BY <1>4, <1>5, <2>1 DEF Labels, Numbered
<1>14. label # own BY <1>5 DEF LabelsFor, Hypothesis
<1>15. first \in Saids /\ added \in Saids BY <1>4, <1>5 DEF Saids
<1>16. LaidOn(Now, v, m, n)
  <2>1. CASE kinds = {"let"}
    <3>1. m = Only(own, first) BY <1>6, <1>9, <2>1 DEF Over, Only
    <3>2. v = Lay(Now, first, own) BY <1>7, <1>8, <2>1
    <3>3. LaysOne(n, "let", first, own, v, m) BY <1>3, <1>5, <1>13, <3>1, <3>2 DEF LaysOne
    <3> QED BY <3>3, OneLaid
  <2>2. CASE kinds = {"assume"}
    <3>1. m = Only(label, added) BY <1>6, <1>9, <2>2 DEF Over, Only
    <3>2. v = Lay(Now, added, label) BY <1>7, <1>8, <2>2
    <3>3. LaysOne(n, "assume", added, label, v, m) BY <1>3, <1>5, <1>12, <3>1, <3>2 DEF LaysOne
    <3> QED BY <3>3, OneLaid
  <2>3. CASE kinds = {"let", "assume"}
    <3>1. said = Only(own, first) /\ supposed = Only(label, added) BY <1>6, <2>3 DEF Only
    <3>2. m \in Readings
      <4>1. said \in Readings /\ supposed \in Readings BY <1>12, <1>13, <1>15, <3>1, OnlyIn DEF Readings
      <4> QED BY <1>9, <4>1, OverIn DEF Readings
    <3>3. DOMAIN said = {own} /\ said[own] = first /\ DOMAIN supposed = {label} /\ supposed[label] = added BY <3>1, OnlyIs
    <3>4. DOMAIN m = {own, label}
      <4>1. DOMAIN m = DOMAIN supposed \cup DOMAIN said BY <1>9, OverIs
      <4> QED BY <3>3, <4>1
    <3>5. m[own] = first
      <4>1. \A z \in DOMAIN said : m[z] = said[z] BY <1>9, OverIs, ZenonT(60)
      <4> QED BY <3>3, <4>1
    <3>6. m[label] = added
      <4>1. \A z \in DOMAIN supposed : z \notin DOMAIN said => m[z] = supposed[z] BY <1>9, OverIs
      <4> QED BY <1>14, <3>3, <4>1
    <3>7. w = Lay(Now, first, own) /\ v = Lay(w, added, label) BY <1>7, <1>8, <2>3
    <3>8. LaysTwo(n, first, added, own, label, w, v, m)
      BY <1>3, <1>5, <1>12, <3>2, <3>4, <3>5, <3>6, <3>7 DEF LaysTwo
    <3> QED BY <3>8, TwoLaid
  <2> QED BY <2>1, <2>2, <2>3
<1> QED BY <1>2, <1>3, <1>10, <1>11, <1>16, PlainOpens

\* A block of no openers gives no label.
LEMMA NoneRead ==
  ASSUME IFrames, NEW m, m = <<>>, NEW R1, R1 = Reading(Append(read, m))
  PROVE  m \in Readings /\ R1 = Reading(read)
<1>1. m \in Readings /\ DOMAIN m = {}
  BY NoneIs DEF Readings
<1>2. read \in Seq(Readings) /\ Reading(read) \in Readings
  BY InvIs, ReadingIs
<1>3. R1 \in Readings
  <2>1. Append(read, m) \in Seq(Readings)
    BY <1>1, <1>2, ReadingOver
  <2> QED
    BY <2>1, ReadingIs
<1>4. DOMAIN R1 = DOMAIN Reading(read)
  <2>1. DOMAIN R1 = DOMAIN Reading(read) \cup DOMAIN m
    BY <1>1, <1>2, ReadingOver
  <2> QED
    BY <1>1, <2>1
<1>5. \A l \in DOMAIN Reading(read) : R1[l] = Reading(read)[l]
  <2>1. \A l \in DOMAIN Reading(read) : l \notin DOMAIN m => R1[l] = Reading(read)[l]
    BY <1>1, <1>2, ReadingOver, ZenonT(60)
  <2> QED
    BY <1>1, <2>1
<1>6. PICK R : R = Reading(read)
  OBVIOUS
<1>7. R1 = [x \in DOMAIN R1 |-> R1[x]] /\ R = [x \in DOMAIN R |-> R[x]]
  <2>1. R1 = [x \in DOMAIN R1 |-> R1[x]]
    BY <1>3, MapsAre DEF Readings
  <2>2. R = [x \in DOMAIN R |-> R[x]]
    BY <1>2, <1>6, MapsAre DEF Readings
  <2> QED
    BY <2>1, <2>2
<1> QED
  BY <1>1, <1>4, <1>5, <1>6, <1>7

\* A block of parts opened, and no part of it entered.
PartedNew(b, by, n, about, against, claimed, cited, splits, labels) ==
  b = [NewBlock(by, n, about, against) EXCEPT !.claimed = claimed, !.cited = cited, !.splits = splits, !.labels = labels]

\* What such a block keeps.
LEMMA PartedNewIs ==
  ASSUME IFrames, NEW by \in {"cases", "induction"}, NEW n \in Nat, NEW about \in Nat, NEW against \in BOOLEAN,
         NEW claimed \in SUBSET Parts, NEW cited \in Labels \cup {Nothing}, NEW splits \in Saids \cup {Nothing},
         NEW labels \in Maps(Parts, Labels), NEW b, PartedNew(b, by, n, about, against, claimed, cited, splits, labels)
  PROVE  /\ NewAt(b, by, n, about, against) /\ b.claimed = claimed /\ b.cited = cited /\ b.splits = splits
         /\ b.labels = labels
<1>0. PICK x : x = NewBlock(by, n, about, against)
  OBVIOUS
<1>1. NewAt(x, by, n, about, against)
  <2>1. by \in {"proof", "contradiction", "cases", "induction"}
    OBVIOUS
  <2>2. NewlyMade(x, by, n, about, against)
    BY <1>0 DEF NewlyMade
  <2> QED
    BY <2>1, <2>2, NewBlockIs
<1>2. b = [x EXCEPT !.claimed = claimed, !.cited = cited, !.splits = splits, !.labels = labels]
  BY <1>0 DEF PartedNew
<1>3. x \in BlockSet
  BY <1>1 DEF NewAt
<1>4. b \in BlockSet /\ b.claimed = claimed /\ b.cited = cited /\ b.splits = splits /\ b.labels = labels
  BY <1>2, <1>3 DEF BlockSet
<1>5. /\ b.by = x.by /\ b.number = x.number /\ b.about = x.about /\ b.against = x.against /\ b.part = x.part
      /\ b.outer = x.outer /\ b.outside = x.outside /\ b.frame = x.frame /\ b.lettersAt = x.lettersAt
      /\ b.lines = x.lines /\ b.openedAt = x.openedAt /\ b.entered = x.entered /\ b.caseAt = x.caseAt /\ b.parts = x.parts
  BY <1>2, <1>3 DEF BlockSet
<1> QED
  BY <1>1, <1>4, <1>5 DEF NewAt

\* Nothing is widened as a block of parts opens.
LEMMA PartedOpens ==
  ASSUME ~OwnersEnd, IFrames, OpensHere, NEW by \in {"cases", "induction"}, by \in Bys, NEW n, n = used + 1,
         NEW about \in 0 .. used, NEW against \in Againsts,
         NEW b, NewAt(b, by, n, about, against), Shaped(b, Reading(read)), NEW m, m = <<>>, Opened(b, Now, m)
  PROVE  IFrames'
<1>1. /\ used \in Nat /\ n \in Nat /\ Now \in Stances /\ Sound(Now, Reading(read), used)
      /\ Now.closers = closers /\ Now.scope = scope /\ Now.lines = lines /\ Now.letters = letters
  BY InvIs
<1>2. PICK R1 : R1 = Reading(Append(read, m))
  OBVIOUS
<1>3. m \in Readings /\ R1 = Reading(read)
  BY <1>2, NoneRead
<1>4. Sound(Now, R1, n)
  <2>1. n \in Int /\ used \in Int /\ used <= n
    BY <1>1
  <2>2. Sound(Now, Reading(read), n)
    BY <1>1, <2>1, SoundLater
  <2> QED
    BY <1>3, <2>2
<1>5. Onward(Now, Now)
  BY <1>1, OnwardSelf
<1>6. Base(b) = scope
  <2>1. b.by = by /\ b.entered = NoPart /\ b.outer = scope
    BY DEF NewAt
  <2> QED
    BY <2>1 DEF Base, Parted
<1> QED
  BY <1>1, <1>2, <1>3, <1>4, <1>5, <1>6, OpenedHolds

\* A block of parts not yet entered, whatever is around it.
LEMMA ShapedParted ==
  ASSUME IFrames, NEW by \in {"cases", "induction"}, by \in Bys, NEW n, n = used + 1, NEW about \in 0 .. used, NEW against,
         NEW b, NewAt(b, by, n, about, against), NEW R, b.claimed \in {{}, {0}, {1}},
         by = "induction" => b.claimed = {} /\ b.labels[1] = <<"L", n>> /\ about = 0,
         by = "cases" => /\ b.labels[0] = <<"K", n>> /\ b.labels[1] = <<"K", n>>
                         /\ b.cited \in DOMAIN R /\ b.splits = R[b.cited]
  PROVE  Shaped(b, R)
<1>1. /\ b.by = by /\ b.number = n /\ b.about = about /\ b.outer = scope /\ b.frame = Len(frames)
      /\ b.entered = NoPart /\ b.caseAt = NoPart /\ DOMAIN b.parts = {}
  BY DEF NewAt
<1>2. n > 0 /\ about \in 0 .. n - 1
  <2>1. used \in Nat
    BY InvIs
  <2> QED
    BY <2>1
<1>3. b.frame = Len(b.outer) + 1
  BY <1>1, InvIs DEF Framed
<1>4. Parted(b)
  BY <1>1 DEF Parted
<1>5. b.entered # 1
  BY <1>1 DEF NoPart
<1> QED
  BY <1>1, <1>2, <1>3, <1>4, <1>5 DEF Shaped

\* An `induction` block opened keeps the invariant.
LEMMA OpenInductionHolds ==
  ASSUME ~OwnersEnd, IFrames, OpenInduction
  PROVE  IFrames'
<1>1. PICK against \in Againsts :
        LET n == used + 1 IN
        Opened([NewBlock("induction", n, 0, against) EXCEPT !.labels = Only(1, <<"L", n>>)], Now, <<>>)
  BY DEF OpenInduction
<1>2. OpensHere /\ "induction" \in Bys
  BY DEF OpenInduction
<1>3. PICK n : n = used + 1
  OBVIOUS
<1>4. used \in Nat /\ n \in Nat /\ 0 \in 0 .. used
  BY <1>3, InvIs
<1>5. PICK labels : labels = Only(1, <<"L", n>>)
  OBVIOUS
<1>6. labels \in Maps(Parts, Labels) /\ labels[1] = <<"L", n>>
  <2>1. <<"L", n>> \in Labels /\ 1 \in Parts
    BY <1>4 DEF Labels, Parts
  <2> QED
    BY <1>5, <2>1, OnlyIn, OnlyIs
<1>7. PICK b : b = [NewBlock("induction", n, 0, against) EXCEPT !.labels = labels]
  OBVIOUS
<1>8. PICK m : m = <<>>
  OBVIOUS
<1>9. Opened(b, Now, m)
  BY <1>1, <1>3, <1>5, <1>7, <1>8
<1>10. against \in BOOLEAN
  BY DEF Againsts
<1>11. PICK x : x = NewBlock("induction", n, 0, against)
  OBVIOUS
<1>12. NewAt(x, "induction", n, 0, against) /\ x.claimed = {}
  <2>1. NewlyMade(x, "induction", n, 0, against)
    BY <1>11 DEF NewlyMade
  <2>2. 0 \in Nat /\ "induction" \in {"proof", "contradiction", "cases", "induction"}
    OBVIOUS
  <2> QED
    BY <1>4, <1>10, <2>1, <2>2, NewBlockIs
<1>13. b = [x EXCEPT !.labels = labels] /\ x \in BlockSet
  BY <1>7, <1>11, <1>12 DEF NewAt
<1>14. b \in BlockSet /\ b.labels = labels /\ b.claimed = {}
  BY <1>6, <1>12, <1>13 DEF BlockSet
<1>15. /\ b.by = x.by /\ b.number = x.number /\ b.about = x.about /\ b.against = x.against /\ b.part = x.part
       /\ b.outer = x.outer /\ b.outside = x.outside /\ b.frame = x.frame /\ b.lettersAt = x.lettersAt
       /\ b.lines = x.lines /\ b.openedAt = x.openedAt /\ b.entered = x.entered /\ b.caseAt = x.caseAt /\ b.parts = x.parts
  BY <1>13 DEF BlockSet
<1>16. NewAt(b, "induction", n, 0, against)
  BY <1>12, <1>14, <1>15 DEF NewAt
<1>17. Shaped(b, Reading(read))
  BY <1>2, <1>3, <1>4, <1>6, <1>14, <1>16, ShapedParted
<1> QED
  BY <1>2, <1>3, <1>4, <1>8, <1>9, <1>16, <1>17, PartedOpens

\* A `cases` block opened keeps the invariant: its parts' label is none in
\* use around it, so the line it cites is read the same when it closes.
LEMMA OpenCasesHolds ==
  ASSUME ~OwnersEnd, ~Shadowing, IFrames, OpenCases
  PROVE  IFrames'
<1>1. PICK against \in Againsts, about \in Abouts, cited \in Citable, claimed \in {{}, {0}, {1}},
           shared \in LabelsFor(used + 1, TRUE) :
        LET n == used + 1 IN
        Opened([NewBlock("cases", n, about, against) EXCEPT
                  !.claimed = claimed, !.cited = cited, !.splits = Checked(cited),
                  !.labels = With(Only(0, shared), 1, <<"K", n>>)], Now, <<>>)
  BY DEF OpenCases
<1>2. OpensHere /\ "cases" \in Bys
  BY DEF OpenCases
<1>3. PICK n : n = used + 1
  OBVIOUS
<1>4. used \in Nat /\ n \in Nat /\ about \in 0 .. used /\ about \in Nat
  BY <1>3, AboutsAre, InvIs
<1>5. PICK own, first, labels, splits, m :
        own = <<"K", n>> /\ first = Only(0, shared) /\ labels = With(first, 1, own) /\ splits = Checked(cited) /\ m = <<>>
  OBVIOUS
<1>6. shared = own
  BY <1>3, <1>5 DEF LabelsFor
<1>7. labels \in Maps(Parts, Labels) /\ labels[0] = own /\ labels[1] = own
  <2>1. own \in Labels /\ 0 \in Parts /\ 1 \in Parts
    BY <1>4, <1>5 DEF Labels, Parts
  <2>2. first \in Maps(Parts, Labels) /\ DOMAIN first = {0} /\ first[0] = own
    BY <1>5, <1>6, <2>1, OnlyIn, OnlyIs
  <2>3. labels \in Maps(Parts, Labels)
    BY <1>5, <2>1, <2>2, WithIn
  <2>4. labels[1] = own
    BY <1>5 DEF With
  <2>5. labels[0] = first[0]
    BY <1>5, <2>2, WithOther
  <2> QED
    BY <2>2, <2>3, <2>4, <2>5
<1>8. cited \in DOMAIN Reading(read) /\ splits = Reading(read)[cited]
  BY <1>5, CitedIs
<1>9. cited \in Labels /\ splits \in Saids
  <2>1. Reading(read) \in Readings
    BY InvIs, ReadingIs
  <2>2. PICK R \in Maps(Labels, Saids) : R = Reading(read)
    BY <2>1 DEF Readings
  <2> QED
    BY <1>8, <2>2, MapIs
<1>10. claimed \in SUBSET Parts
  BY DEF Parts
<1>11. PICK b : PartedNew(b, "cases", n, about, against, claimed, cited, splits, labels)
  BY DEF PartedNew
<1>12. Opened(b, Now, m)
  BY <1>1, <1>3, <1>5, <1>11 DEF PartedNew
<1>13. against \in BOOLEAN
  BY DEF Againsts
<1>14. /\ NewAt(b, "cases", n, about, against) /\ b.claimed = claimed /\ b.cited = cited /\ b.splits = splits
       /\ b.labels = labels
  BY <1>4, <1>7, <1>9, <1>10, <1>11, <1>13, PartedNewIs
<1>15. Shaped(b, Reading(read))
  BY <1>2, <1>3, <1>4, <1>5, <1>7, <1>8, <1>14, ShapedParted
<1> QED
  BY <1>2, <1>3, <1>4, <1>5, <1>12, <1>14, <1>15, PartedOpens

(***************************************************************************)
(* A part entered                                                          *)
(***************************************************************************)

\* What the innermost block has raised is named after it.
LEMMA NamedLater ==
  ASSUME NEW k, NEW R, NEW b, InTop(k, R, b), FTyped, NEW i \in b.openedAt + 1 .. Len(closers)
  PROVE  closers[i].name > b.number
<1>1. Closing(closers, Base(b), b.openedAt, b.number, ViewNow(Now, used))
  BY DEF InTop
<1>2. Now.closers = closers
  BY NowIs
<1>3. ViewNow(Now, used).closers = Len(closers)
  BY <1>2 DEF ViewNow
<1> QED
  BY <1>1, <1>3 DEF Closing, Later

\* What the innermost block has raised is among what its end is to name none of.
LEMMA RaisedIn ==
  ASSUME FTyped, NEW low \in Nat, NEW i \in low + 1 .. Len(closers)
  PROVE  closers[i].name \in {c.name : c \in ToSet(After(closers, low))}
<1>1. closers \in Seq(CloserSet) /\ Len(closers) \in Nat
  BY NowIs
<1>2. PICK s : s = After(closers, low)
  OBVIOUS
<1>3. /\ i \in Nat /\ low + 1 \in 1 .. Len(closers) /\ Len(closers) \in 1 .. Len(closers)
      /\ i - low \in 1 .. Len(closers) - low /\ (i - low) + low = i
  BY <1>1
<1>4. s = SubSeq(closers, low + 1, Len(closers))
  BY <1>2 DEF After
<1>5. Len(s) = Len(closers) - low /\ \A j \in 1 .. Len(closers) - low : s[j] = closers[j + low]
  BY <1>1, <1>3, <1>4
<1>6. s[i - low] = closers[i]
  BY <1>3, <1>5
<1>7. s \in Seq(CloserSet)
  BY <1>1, <1>3, <1>4
<1>8. DOMAIN s = 1 .. Len(closers) - low
  BY <1>5, <1>7
<1>9. closers[i] \in ToSet(s)
  BY <1>3, <1>6, <1>8 DEF ToSet
<1> QED
  BY <1>2, <1>9

\* The part the page stood in ends as the block's lemma takes it.
LEMMA EndsWell ==
  ASSUME IFrames, NEW k, NEW R, NEW b, InTop(k, R, b), blocks # <<>>, Parted(b),
         b.entered = NoPart \/ (~fresh /\ EndsAsOwed(b))
  PROVE  PartEnded(Now, b)
<1>1. FTyped /\ Done /\ Reached /\ Now.closers = closers /\ Now.scope = scope
  BY InvIs DEF IFrames, FramesInv
<1>2. b = Top /\ b \in BlockSet /\ Shaped(b, R)
  BY DEF InTop
<1>3. SUFFICES ASSUME b.entered # NoPart
               PROVE  /\ b.entered \in DOMAIN b.parts /\ b.parts[b.entered].under = scope
                      /\ \A i \in b.openedAt + 1 .. Len(closers) : closers[i].name # b.parts[b.entered].about
  BY <1>1 DEF PartEnded
<1>4. ~fresh /\ EndsAsOwed(b)
  BY <1>3
<1>5. /\ last \in DOMAIN lines
      /\ b.entered \in DOMAIN b.parts /\ b.parts[b.entered].under = scope
      /\ \/ b.parts[b.entered].about = lines[last].about
         \/ ended = "reached" /\ b.parts[b.entered].about = b.about
  BY <1>1, <1>2, <1>4 DEF Done
<1>6. SUFFICES ASSUME NEW i \in b.openedAt + 1 .. Len(closers)
               PROVE  closers[i].name # b.parts[b.entered].about
  BY <1>5
<1>7. closers[i].name > b.number
  BY <1>1, NamedLater
<1>8. b.number \in Nat /\ b.about \in Nat /\ b.about < b.number /\ b.openedAt \in Nat
  BY <1>2, BlockIs DEF Shaped
<1>9. closers[i].name \in Nat
  <2>1. closers \in Seq(CloserSet) /\ i \in 1 .. Len(closers)
    BY <1>1, <1>8, NowIs
  <2>2. closers[i] \in CloserSet
    BY <2>1
  <2> QED
    BY <2>2 DEF CloserSet
<1>10. CASE b.parts[b.entered].about = b.about
  BY <1>7, <1>8, <1>9, <1>10
<1>11. CASE b.parts[b.entered].about # b.about
  <2>1. b.parts[b.entered].about = lines[last].about
    BY <1>5, <1>11
  <2>2. b.by = "cases" => ended # "reached"
    BY <1>1, <1>2, <1>11 DEF Reached
  <2>3. b.by = "induction" => ended # "reached"
    BY <1>1, <1>2 DEF Reached
  <2>4. ended = "no"
    BY <1>1, <2>2, <2>3 DEF Reached, Parted
  <2>5. b.by # "cases"
    BY <1>4, <1>11, <2>1, <2>4 DEF EndsAsOwed
  <2>6. lines[last].about \notin {c.name : c \in ToSet(After(closers, b.openedAt))}
    BY <1>4, <2>4, <2>5 DEF EndsAsOwed
  <2>7. closers[i].name \in {c.name : c \in ToSet(After(closers, b.openedAt))}
    BY <1>1, <1>8, RaisedIn
  <2> QED
    BY <2>1, <2>6, <2>7
<1> QED
  BY <1>10, <1>11

\* The innermost block, seen from inside it.
LEMMA InsideTop ==
  ASSUME IFrames, NEW k, NEW R, NEW b, InTop(k, R, b), blocks # <<>>, Parted(b)
  PROVE  Inside(Now, b, R, used)
<1>1. FTyped
  BY DEF IFrames
<1>2. Now \in Stances /\ Now.closers = closers /\ Now.scope = scope /\ Now.frames = frames /\ Framed(frames, scope)
  BY InvIs
<1>3. Now.b = Top
  BY <1>1, NowIs
<1> QED
  BY <1>2, <1>3 DEF InTop, Inside

\* The part to enter has no end yet, and the ones before it have, or are the claim.
LEMMA NextIs ==
  ASSUME NEW b \in BlockSet, NEW R, Shaped(b, R), Parted(b), NEW p, p = NextPart(b), p # NoPart,
         b.entered # NoPart => b.entered \in DOMAIN b.parts
  PROVE  /\ p \in Parts /\ p \notin b.claimed /\ p \notin DOMAIN b.parts /\ MayEnter(b)
         /\ \A q \in DOMAIN b.parts : q <= p
         /\ p = 1 => 0 \in DOMAIN b.parts \cup b.claimed
<1>1. PICK left : left = {q \in {0, 1} : q \notin b.claimed /\ q \notin DOMAIN b.parts /\ q # b.entered}
  OBVIOUS
<1>2. p = IF left = {} THEN NoPart ELSE CHOOSE q \in left : \A q1 \in left : q <= q1
  BY <1>1 DEF NextPart
<1>3. left # {}
  BY <1>2
<1>4. \E q \in left : \A q1 \in left : q <= q1
  <2>1. CASE 0 \in left
    BY <1>1, <2>1
  <2>2. CASE 0 \notin left
    BY <1>1, <1>3, <2>2
  <2> QED
    BY <2>1, <2>2
<1>5. p \in left /\ \A q1 \in left : p <= q1
  BY <1>2, <1>3, <1>4
<1>6. p \in {0, 1} /\ p \notin b.claimed /\ p \notin DOMAIN b.parts /\ p # b.entered
  BY <1>1, <1>5
<1>7. b.entered = 1 => 0 \in DOMAIN b.parts \cup b.claimed
  BY DEF Shaped
<1>8. b.entered # 1
  BY <1>6, <1>7
<1>9. MayEnter(b)
  BY <1>8 DEF MayEnter, Parted
<1>10. \A q \in DOMAIN b.parts : q \in {0, 1} /\ q # 1
  <2>1. b.entered \in {NoPart, 0}
    BY <1>8, PartsOfBlock DEF Parts
  <2>2. \A q \in DOMAIN b.parts : q \in {0, 1} /\ q <= b.entered
    BY DEF Shaped, Parts
  <2> QED
    BY <2>1, <2>2 DEF NoPart
<1>11. \A q \in DOMAIN b.parts : q <= p
  BY <1>6, <1>10
<1>12. p = 1 => 0 \in DOMAIN b.parts \cup b.claimed
  <2>1. p = 1 => 0 \notin left
    BY <1>5
  <2>2. b.entered = 0 => 0 \in DOMAIN b.parts
    BY DEF NoPart
  <2> QED
    BY <1>1, <2>1, <2>2
<1> QED
  BY <1>6, <1>9, <1>11, <1>12 DEF Parts

\* A part of the innermost block is entered.
AtPart(k, R, b, p, u, v, c, rd1) ==
  /\ InTop(k, R, b) /\ Parted(b) /\ Settled(u, Now, b, R)
  /\ DOMAIN u.b.parts = DOMAIN b.parts \cup {q \in b.claimed : q < p}
  /\ p \in Parts /\ p \notin b.claimed /\ p \notin DOMAIN b.parts /\ MayEnter(b)
  /\ (\A q \in DOMAIN b.parts : q <= p) /\ (p = 1 => 0 \in DOMAIN b.parts \cup b.claimed)
  /\ EntersAt(Now, u, b, R, Reading(rd1), used, p, v)
  /\ c \in BlockSet /\ SameBut(b, c) /\ c.parts = u.b.parts /\ c.entered = p /\ c.caseAt = b.openedAt
  /\ rd1 \in Seq(Readings) /\ Len(rd1) = k + 1 /\ \A d \in 1 .. k : rd1[d] = read[d]

\* A block with a part entered is a block of parts still.
LEMMA PartShaped ==
  ASSUME NEW k, NEW R, NEW b, NEW p, NEW u, NEW v, NEW c, NEW rd1, AtPart(k, R, b, p, u, v, c, rd1)
  PROVE  Shaped(c, R) /\ Base(c) = b.outer \o OpensOf(b, p) /\ Parted(c)
<1>1. Shaped(b, R) /\ b \in BlockSet /\ Parted(b) /\ c \in BlockSet
  BY DEF AtPart, InTop
<1>2. /\ c.by = b.by /\ c.number = b.number /\ c.about = b.about /\ c.outer = b.outer /\ c.frame = b.frame
      /\ c.openedAt = b.openedAt /\ c.opened = b.opened
      /\ c.labels = b.labels /\ c.claimed = b.claimed /\ c.cited = b.cited /\ c.splits = b.splits
  BY DEF AtPart, SameBut, Same
<1>3. p \in Parts /\ c.entered = p /\ c.caseAt = b.openedAt /\ p # NoPart
  BY DEF AtPart, Parts, NoPart
<1>4. \A q : OpensOf(c, q) = OpensOf(b, q)
  BY <1>2 DEF OpensOf, CaseOf
<1>5. DOMAIN c.parts = DOMAIN b.parts \cup {q \in b.claimed : q < p}
  BY DEF AtPart
<1>6. \A q \in DOMAIN c.parts : c.parts[q].under = c.outer \o OpensOf(c, q)
  <2>1. c.parts = u.b.parts
    BY DEF AtPart
  <2>2. \A q \in DOMAIN u.b.parts : u.b.parts[q].under = b.outer \o OpensOf(b, q)
    BY DEF AtPart, Settled
  <2> QED
    BY <1>2, <1>4, <2>1, <2>2
<1>7. \A q \in DOMAIN c.parts : q <= p
  <2>1. \A q \in DOMAIN b.parts : q <= p
    BY DEF AtPart
  <2>2. \A q \in b.claimed : q < p => q <= p
    BY <1>1, <1>3, PartsOfBlock DEF Parts
  <2> QED
    BY <1>5, <2>1, <2>2
<1>8. p = 1 => 0 \in DOMAIN c.parts \cup c.claimed
  <2>1. p = 1 => 0 \in DOMAIN b.parts \cup b.claimed
    BY DEF AtPart
  <2> QED
    BY <1>2, <1>5, <2>1
<1>9. DOMAIN c.parts \subseteq Parts
  BY <1>1, PartsOfBlock
<1>10. Parted(c)
  BY <1>1, <1>2 DEF Parted
<1>11. Shaped(c, R)
  BY <1>1, <1>2, <1>3, <1>6, <1>7, <1>8, <1>9, <1>10 DEF Shaped
<1>12. Base(c) = b.outer \o OpensOf(b, p)
  BY <1>2, <1>3, <1>4 DEF Base
<1> QED
  BY <1>10, <1>11, <1>12

\* A part entered leaves the blocks around where they were opened.
LEMMA PartStacks ==
  ASSUME IFrames, NEW k, NEW R, NEW b, NEW p, NEW u, NEW v, NEW c, NEW rd1, AtPart(k, R, b, p, u, v, c, rd1),
         NEW bs1, bs1 = Append(Front(blocks), c)
  PROVE  bs1 \in Seq(BlockSet) /\ Stacked(v, bs1, rd1, used)
<1>1. /\ k \in Nat /\ k = Len(blocks) /\ k > 0 /\ Len(read) = k + 1 /\ R = ReadingAt(read, k)
      /\ b \in BlockSet /\ b = blocks[k] /\ Around(Now, b, R) /\ Beneath(b, ViewNow(Now, used)) /\ Parted(b)
  BY DEF AtPart, InTop
<1>2. /\ Now \in Stances /\ Now.closers = closers /\ Now.scope = scope /\ Now.letters = letters /\ Now.frames = frames
      /\ blocks \in Seq(BlockSet) /\ read \in Seq(Readings) /\ used \in Nat
      /\ Stacked(Now, blocks, read, used) /\ Framed(frames, scope) /\ closers \in Seq(CloserSet)
  BY InvIs
<1>3. /\ v \in Stances /\ v.scope = b.outer \o OpensOf(b, p) /\ v.closers = u.closers
      /\ b.lettersAt <= Len(v.letters)
      /\ (\A i \in 1 .. b.lettersAt : v.letters[i] = letters[i])
      /\ (\A i \in 1 .. Len(b.outer) : v.frames[i] = frames[i])
      /\ b.by = "cases" \/ p = 0 =>
           /\ \A l \in DOMAIN R : l \in DOMAIN v.lines /\ v.lines[l] = b.lines[l]
           /\ Len(v.letters) = b.lettersAt
  BY <1>2 DEF AtPart, EntersAt
<1>4. u.closers = SubSeq(closers, 1, b.openedAt)
  BY <1>2 DEF AtPart, Settled
<1>5. b.openedAt \in Nat /\ b.lettersAt \in Nat /\ b.number \in Nat /\ b.outer \in Scopes /\ b.openedAt <= Len(closers)
      /\ b.number <= used
  BY <1>1, <1>2, BlockIs DEF Beneath, ViewNow
<1>6. v.closers \in Seq(CloserSet) /\ Len(v.closers) = b.openedAt /\ \A i \in 1 .. b.openedAt : v.closers[i] = closers[i]
  <2>1. b.openedAt \in 0 .. Len(closers)
    BY <1>2, <1>5
  <2> QED
    BY <1>2, <1>3, <1>4, <2>1, FirstsAre
<1>7. bs1 \in Seq(BlockSet) /\ Len(bs1) = k /\ (\A d \in 1 .. k - 1 : bs1[d] = blocks[d]) /\ bs1[k] = c
  BY <1>1, <1>2, LastBecomes DEF AtPart
<1>8. Shaped(c, R) /\ Base(c) = b.outer \o OpensOf(b, p) /\ Parted(c)
  BY PartShaped
<1>9. c \in BlockSet /\ SameBut(b, c) /\ c.entered = p /\ p \in Parts
  BY DEF AtPart
<1>10. IsPrefix(b.outer, v.scope)
  BY <1>1, <1>3, <1>5, <1>9, OpensAre, PrefixOfConcat
<1>11. Same(b, c)
  BY <1>9 DEF SameBut
<1>12. c.lettersAt = b.lettersAt /\ c.openedAt = b.openedAt /\ c.number = b.number /\ c.outer = b.outer
       /\ c.lines = b.lines /\ c.by = b.by
  BY <1>11 DEF Same
<1>13. Goes(c, R, ViewNow(v, used))
  <2>1. MayEnter(c) => b.by = "cases" \/ p = 0
    BY <1>9, <1>12 DEF MayEnter, Parts
  <2>2. c.entered # NoPart
    BY <1>9 DEF Parts, NoPart
  <2> QED
    BY <1>3, <1>12, <2>1, <2>2 DEF Goes, Whole, ViewNow
<1>14. Beneath(c, ViewNow(v, used))
  BY <1>3, <1>5, <1>6, <1>10, <1>12 DEF Beneath, ViewNow
<1>15. Closing(v.closers, Base(c), b.openedAt, b.number, ViewNow(v, used))
  <2>1. Leads(v.closers, v.scope, v.scope, b.openedAt, b.openedAt)
    BY <1>5, <1>6, LeadsNowhere
  <2>2. Later(v.closers, b.openedAt, b.openedAt, b.number)
    BY <1>5 DEF Later
  <2> QED
    BY <1>3, <1>6, <1>8, <2>1, <2>2 DEF Closing, ViewNow
<1>16. /\ \A d \in 1 .. k : Around(Now, blocks[d], ReadingAt(read, d)) /\ blocks[d] \in BlockSet
       /\ \A d \in 1 .. k - 1 : Beneath(blocks[d], ViewOf(b)) /\ Beneath(blocks[d], ViewNow(Now, used))
  <2>1. \A d \in 1 .. k : Around(Now, blocks[d], ReadingAt(read, d)) /\ blocks[d] \in BlockSet
    BY <1>1, <1>2, BlocksAre DEF Stacked
  <2>2. ASSUME NEW d \in 1 .. k - 1
        PROVE  Beneath(blocks[d], ViewOf(b)) /\ Beneath(blocks[d], ViewNow(Now, used))
    <3>1. \A e \in d + 1 .. Len(blocks) + 1 : Beneath(blocks[d], ViewAt(Now, blocks, used, e))
      <4>1. d \in 1 .. Len(blocks)
        BY <1>1
      <4> QED
        BY <1>2, <4>1, ZenonT(60) DEF Stacked
    <3>2. k \in d + 1 .. Len(blocks) + 1 /\ k + 1 \in d + 1 .. Len(blocks) + 1
      BY <1>1
    <3>3. k \in DOMAIN blocks /\ k + 1 \notin DOMAIN blocks
      BY <1>1, <1>2
    <3>4. ViewAt(Now, blocks, used, k) = ViewOf(b) /\ ViewAt(Now, blocks, used, k + 1) = ViewNow(Now, used)
      BY <1>1, <3>3 DEF ViewAt
    <3> QED
      BY <3>1, <3>2, <3>4
  <2> QED
    BY <2>1, <2>2
<1>17. \A d \in 1 .. k : Around(v, blocks[d], ReadingAt(read, d))
  <2>1. Around(v, b, R)
    BY <1>1, <1>2, <1>3, <1>10, AroundAs, ZenonT(60)
  <2>2. ASSUME NEW d \in 1 .. k - 1
        PROVE  Around(v, blocks[d], ReadingAt(read, d))
    <3>0. d \in 1 .. k
      BY <1>1
    <3>1. blocks[d] \in BlockSet /\ Around(Now, blocks[d], ReadingAt(read, d)) /\ Beneath(blocks[d], ViewOf(b))
      BY <1>16, <3>0
    <3> QED
      BY <1>1, <1>2, <1>3, <1>10, <3>1, AroundBack, ZenonT(60)
  <2> QED
    BY <1>1, <2>1, <2>2
<1>18. \A d \in 1 .. k - 1 : Beneath(blocks[d], ViewNow(v, used))
  <2>1. SUFFICES ASSUME NEW d \in 1 .. k - 1
                 PROVE  Beneath(blocks[d], ViewNow(v, used))
    OBVIOUS
  <2>2. PICK e \in BlockSet : e = blocks[d] /\ Beneath(e, ViewOf(b)) /\ Beneath(e, ViewNow(Now, used))
    <3>0. d \in 1 .. k
      BY <1>1
    <3> QED
      BY <1>16, <3>0
  <2>3. /\ e.number <= used /\ e.lettersAt <= b.lettersAt /\ e.openedAt <= b.openedAt /\ IsPrefix(e.outer, b.outer)
        /\ e.lettersAt \in Nat /\ e.openedAt \in Nat /\ e.outer \in Scopes
    BY <2>2, BlockIs DEF Beneath, ViewOf, ViewNow
  <2>4. IsPrefix(e.outer, v.scope)
    <3>1. v.scope \in Scopes
      BY <1>3, StanceIs
    <3> QED
      BY <1>5, <1>10, <2>3, <3>1, PrefixThrough
  <2>5. e.lettersAt <= Len(v.letters)
    <3>1. Len(v.letters) \in Nat
      BY <1>3, StanceIs
    <3> QED
      BY <1>3, <1>5, <2>3, <3>1
  <2> QED
    BY <1>6, <2>2, <2>3, <2>4, <2>5 DEF Beneath, ViewNow
<1>19. From(bs1, k) = Base(c) /\ Low(bs1, k) = b.openedAt /\ Since(bs1, k) = b.number
  BY <1>1, <1>7, <1>12 DEF From, Low, Since
<1>20. rd1 \in Seq(Readings) /\ Len(rd1) = k + 1 /\ \A d \in 1 .. k : rd1[d] = read[d]
  BY DEF AtPart
<1>21. StepsOn(Now, v, blocks, bs1, read, rd1, used, used, k)
  BY <1>1, <1>2, <1>5, <1>6, <1>7, <1>8, <1>11, <1>13, <1>14, <1>15, <1>17, <1>18, <1>19, <1>20 DEF StepsOn
<1>22. Stacked(v, bs1, rd1, used)
  BY <1>21, StackStep
<1> QED
  BY <1>7, <1>22

\* The labels a part gives.
LEMMA PartLabelsAre ==
  ASSUME NEW b \in BlockSet, NEW R, Shaped(b, R), NEW p \in Parts, Parted(b), NEW m, m = PartLabels(b, p)
  PROVE  m \in Readings
<1>1. b.number \in Nat /\ CaseOf(b, p) \in Saids /\ <<"let", b.number>> \in Saids /\ <<"assume", b.number>> \in Saids
  BY BlockIs, OpensAre
<1>2. <<"K", b.number>> \in Labels /\ <<"L", b.number>> \in Labels
  BY <1>1 DEF Labels
<1>3. CASE b.by = "cases"
  <2>1. b.labels[p] = <<"K", b.number>>
    BY <1>3 DEF Shaped, Parts
  <2>2. m = Only(<<"K", b.number>>, CaseOf(b, p))
    BY <1>3, <2>1 DEF PartLabels
  <2> QED
    BY <1>1, <1>2, <2>2, OnlyIn DEF Readings
<1>4. CASE b.by # "cases" /\ p = 0
  <2>1. m = <<>>
    BY <1>4 DEF PartLabels
  <2> QED
    BY <2>1, NoneIs DEF Readings
<1>5. CASE b.by # "cases" /\ p # 0
  <2>1. b.labels[1] = <<"L", b.number>>
    BY <1>5 DEF Shaped, Parted
  <2>2. PICK first : first = Only(<<"L", b.number>>, <<"assume", b.number>>)
    OBVIOUS
  <2>3. m = With(first, <<"K", b.number>>, <<"let", b.number>>)
    BY <1>5, <2>1, <2>2 DEF PartLabels
  <2>4. first \in Readings
    BY <1>1, <1>2, <2>2, OnlyIn DEF Readings
  <2> QED
    BY <1>1, <1>2, <2>3, <2>4, WithIn DEF Readings
<1> QED
  BY <1>3, <1>4, <1>5

\* What the checker reads once a part's labels take the place of those before.
LEMMA PartRead ==
  ASSUME IFrames, NEW k, NEW R, NEW b, InTop(k, R, b), NEW m \in Readings, NEW rd1, rd1 = Append(Front(read), m)
  PROVE  /\ rd1 \in Seq(Readings) /\ Len(rd1) = k + 1 /\ \A d \in 1 .. k : rd1[d] = read[d]
         /\ Grown(R, m, Reading(rd1))
<1>1. read \in Seq(Readings) /\ Len(read) = k + 1 /\ Len(read) > 0 /\ k \in Nat /\ R = ReadingAt(read, k)
  BY InvIs DEF InTop
<1>2. PICK f : f = Front(read)
  OBVIOUS
<1>3. f \in Seq(Readings) /\ Len(f) = k /\ \A i \in 1 .. k : f[i] = read[i]
  <2>1. /\ Front(read) \in Seq(Readings) /\ Len(Front(read)) = Len(read) - 1
        /\ \A i \in 1 .. Len(read) - 1 : Front(read)[i] = read[i]
    BY <1>1, LastIs
  <2>2. Len(read) - 1 = k
    BY <1>1
  <2> QED
    BY <1>2, <2>1, <2>2
<1>4. rd1 = Append(f, m)
  BY <1>2
<1>5. rd1 \in Seq(Readings) /\ Len(rd1) = k + 1 /\ \A d \in 1 .. k : rd1[d] = read[d]
  BY <1>3, <1>4, AppendsIs
<1>6. R = Reading(f)
  BY <1>1, <1>2 DEF ReadingAt, Front
<1>7. PICK R1 : R1 = Reading(Append(f, m))
  OBVIOUS
<1>8. Grown(R, m, R1)
  <2>1. DOMAIN R1 = DOMAIN Reading(f) \cup DOMAIN m
    BY <1>3, <1>7, ReadingOver
  <2>2. \A l \in DOMAIN m : R1[l] = m[l]
    BY <1>3, <1>7, ReadingOver
  <2>3. \A l \in DOMAIN Reading(f) : l \notin DOMAIN m => R1[l] = Reading(f)[l]
    BY <1>3, <1>7, ReadingOver
  <2> QED
    BY <1>6, <2>1, <2>2, <2>3 DEF Grown
<1> QED
  BY <1>4, <1>5, <1>7, <1>8

\* The block with a part of it entered.
EntersBlock(u, v, p, c) == v.b = [u.b EXCEPT !.entered = p] /\ c = [v.b EXCEPT !.caseAt = Len(v.closers)]

\* What the block keeps once a part of it is entered.
LEMMA EnteredBlock ==
  ASSUME NEW b, NEW u, NEW v, NEW p \in Parts, NEW c, EntersBlock(u, v, p, c), u.b \in BlockSet, SameBut(b, u.b),
         Len(v.closers) \in Nat
  PROVE  c \in BlockSet /\ SameBut(b, c) /\ c.parts = u.b.parts /\ c.entered = p /\ c.caseAt = Len(v.closers)
<1>1. PICK x \in BlockSet : x = u.b
  OBVIOUS
<1>2. PICK at \in Nat : at = Len(v.closers)
  OBVIOUS
<1>3. PICK y : y = [x EXCEPT !.entered = p]
  OBVIOUS
<1>4. c = [y EXCEPT !.caseAt = at]
  BY <1>1, <1>2, <1>3 DEF EntersBlock
<1>5. y \in BlockSet
  BY <1>3 DEF BlockSet, Parts
<1>6. c \in BlockSet /\ c.caseAt = at
  <2>1. PICK to \in {NoPart} \cup Nat : to = at
    OBVIOUS
  <2>2. c = [y EXCEPT !.caseAt = to]
    BY <1>4, <2>1
  <2>3. c \in BlockSet
    BY <1>5, <2>2 DEF BlockSet
  <2>4. c.caseAt = to
    BY <1>5, <2>2 DEF BlockSet
  <2> QED
    BY <2>1, <2>3, <2>4
<1>7. c.entered = p /\ c.parts = x.parts
  BY <1>3, <1>4 DEF BlockSet
<1>8. SameBut(x, c)
  BY <1>3, <1>4 DEF SameBut, Same, BlockSet
<1>9. SameBut(b, c)
  BY <1>1, <1>8 DEF SameBut, Same
<1> QED
  BY <1>1, <1>2, <1>6, <1>7, <1>9

\* Entering a part keeps the invariant.
LEMMA EnterPartHolds ==
  ASSUME IFrames, EnterPart
  PROVE  IFrames'
<1>1. blocks # <<>> /\ Parted(Top) /\ (Top.entered = NoPart \/ (~fresh /\ EndsAsOwed(Top)))
  BY DEF EnterPart
<1>2. PICK k, b, R : k = Len(blocks) /\ b = Top /\ R = ReadingAt(read, k)
  OBVIOUS
<1>3. InTop(k, R, b)
  BY <1>1, <1>2, TopIs
<1>4. b \in BlockSet /\ Shaped(b, R) /\ Parted(b) /\ R \in Readings /\ b.number <= used /\ Len(read) = k + 1
  BY <1>1, <1>2, <1>3 DEF InTop, Beneath, ViewNow
<1>5. Inside(Now, b, R, used)
  BY <1>1, <1>3, <1>4, InsideTop
<1>6. PartEnded(Now, b)
  BY <1>1, <1>2, <1>3, <1>4, EndsWell
<1>7. PICK p : p = NextPart(b)
  OBVIOUS
<1>8. PICK settled : settled = SettleClaimed(Now, p)
  OBVIOUS
<1>9. PICK u, v, m : u = EndCase(settled) /\ v = Enter(u, p) /\ m = PartLabels(b, p)
  OBVIOUS
<1>10. PICK c, rd1, bs1 : c = [v.b EXCEPT !.caseAt = Len(v.closers)] /\ rd1 = Append(Front(read), m)
                          /\ bs1 = Append(Front(blocks), c)
  OBVIOUS
<1>11. /\ p # NoPart /\ Become(v) /\ blocks' = bs1 /\ read' = rd1 /\ refused' = (ended = "unreached")
       /\ fresh' = TRUE /\ ended' = "no" /\ used' = used /\ last' = last /\ made' = made
  BY <1>2, <1>7, <1>8, <1>9, <1>10 DEF EnterPart
<1>12. /\ p \in Parts /\ p \notin b.claimed /\ p \notin DOMAIN b.parts /\ MayEnter(b)
       /\ (\A q \in DOMAIN b.parts : q <= p) /\ (p = 1 => 0 \in DOMAIN b.parts \cup b.claimed)
  <2>1. b.entered # NoPart => b.entered \in DOMAIN b.parts
    BY <1>6 DEF PartEnded
  <2> QED
    BY <1>4, <1>7, <1>11, <2>1, NextIs
<1>13. p \in Nat
  BY <1>12 DEF Parts
<1>14. Ready(settled, Now, b, R) /\ DOMAIN settled.b.parts = DOMAIN b.parts \cup {q \in b.claimed : q < p}
  BY <1>4, <1>5, <1>6, <1>8, <1>13, SettleClaimedIs
<1>15. Settled(u, Now, b, R) /\ DOMAIN u.b.parts = DOMAIN settled.b.parts
  BY <1>9, <1>14 DEF Ready
<1>16. m \in Readings
  BY <1>4, <1>9, <1>12, PartLabelsAre
<1>17. rd1 \in Seq(Readings) /\ Len(rd1) = k + 1 /\ (\A d \in 1 .. k : rd1[d] = read[d]) /\ Grown(R, m, Reading(rd1))
  BY <1>3, <1>10, <1>16, PartRead
<1>18. used \in Nat /\ used <= MaxIds /\ closers \in Seq(CloserSet) /\ Now.closers = closers
  BY InvIs
<1>19. PICK R1 : R1 = Reading(rd1)
  OBVIOUS
<1>20. EntersAt(Now, u, b, R, R1, used, p, v)
  BY <1>4, <1>5, <1>9, <1>12, <1>15, <1>17, <1>18, <1>19, EnterIs
<1>21. v \in Stances /\ Sound(v, R1, used) /\ v.closers = u.closers /\ v.b = [u.b EXCEPT !.entered = p]
  BY <1>20 DEF EntersAt
<1>22. b.openedAt \in Nat /\ b.openedAt <= Len(closers)
  BY <1>3, <1>4, <1>18, BlockIs DEF InTop, Beneath, ViewNow
<1>23. Len(v.closers) = b.openedAt /\ \A i \in 1 .. Len(v.closers) : v.closers[i] = closers[i]
  <2>1. u.closers = SubSeq(closers, 1, b.openedAt)
    BY <1>15, <1>18 DEF Settled
  <2>2. b.openedAt \in 0 .. Len(closers)
    BY <1>18, <1>22
  <2> QED
    BY <1>18, <1>21, <2>1, <2>2, FirstsAre
<1>24. c \in BlockSet /\ SameBut(b, c) /\ c.parts = u.b.parts /\ c.entered = p /\ c.caseAt = b.openedAt
  <2>1. EntersBlock(u, v, p, c)
    BY <1>10, <1>21 DEF EntersBlock
  <2>2. u.b \in BlockSet /\ SameBut(b, u.b)
    BY <1>15 DEF Settled
  <2> QED
    BY <1>12, <1>22, <1>23, <2>1, <2>2, EnteredBlock
<1>25. AtPart(k, R, b, p, u, v, c, rd1)
  BY <1>3, <1>4, <1>12, <1>14, <1>15, <1>17, <1>19, <1>20, <1>24 DEF AtPart
<1>26. bs1 \in Seq(BlockSet) /\ Stacked(v, bs1, rd1, used)
  BY <1>10, <1>25, PartStacks
<1>27. Done' /\ Reached' /\ ~refused' /\ (made \in {Nothing, <<>>})' /\ last' \in Labels
  <2>1. ended \in {"no", "reached"} /\ made \in {Nothing, <<>>} /\ last \in Labels
    BY DEF IFrames, FramesInv, FTyped, Reached
  <2>2. Done' /\ Reached'
    BY <1>11 DEF Done, Reached
  <2>3. ended # "unreached"
    BY <2>1
  <2> QED
    BY <1>11, <2>1, <2>2, <2>3
<1>28. NamesGiven'
  <2>1. \A i \in 1 .. Len(closers) : closers[i].name <= used
    BY DEF IFrames, NamesGiven
  <2>2. closers' = v.closers
    BY <1>11 DEF Become
  <2>3. \A i \in 1 .. Len(v.closers) : v.closers[i].name <= used
    BY <1>18, <1>22, <1>23, <2>1
  <2> QED
    BY <1>11, <2>2, <2>3 DEF NamesGiven
<1> QED
  BY <1>11, <1>17, <1>18, <1>19, <1>21, <1>26, <1>27, <1>28, Assemble

(***************************************************************************)
(* A block closed                                                          *)
(***************************************************************************)

\* The innermost block may end where the page stands.
MayClose(b) == ~fresh /\ (Parted(b) => NextPart(b) = NoPart) /\ EndsAsOwed(b)

\* How the elaborator stands with a block's parts ended, as it closes it.
Shuts(x, b, R) ==
  /\ x \in Stances /\ Framed(x.frames, x.scope) /\ IsPrefix(b.outer, x.scope)
  /\ \A i \in 1 .. Len(b.outer) : x.frames[i] = frames[i]
  /\ x.letters = letters
  /\ b.openedAt <= Len(x.closers) /\ \A i \in 1 .. b.openedAt : x.closers[i] = closers[i]
  /\ Parted(b) =>
       /\ x.b \in BlockSet /\ SameBut(b, x.b)
       /\ \A p \in {0, 1} : p \in DOMAIN x.b.parts /\ x.b.parts[p].under = b.outer \o OpensOf(b, p)
       /\ \A l \in DOMAIN R : l \in DOMAIN lines => l \in DOMAIN x.lines /\ x.lines[l] = lines[l]

\* A block of no parts is as its last step left it.
LEMMA PlainShuts ==
  ASSUME IFrames, NEW k, NEW R, NEW b, InTop(k, R, b), blocks # <<>>, ~Parted(b), NEW x, x = EndCase(SettleClaimed(Now, 2))
  PROVE  Shuts(x, b, R)
<1>1. Shaped(b, R) /\ b \in BlockSet /\ b = Top /\ Beneath(b, ViewNow(Now, used))
  BY DEF InTop
<1>2. b.entered = NoPart /\ b.caseAt = NoPart /\ b.claimed = {}
  BY <1>1 DEF Shaped
<1>3. /\ Now \in Stances /\ Now.closers = closers /\ Now.scope = scope /\ Now.frames = frames /\ Now.letters = letters
      /\ Framed(frames, scope)
  BY InvIs
<1>4. FTyped
  BY DEF IFrames
<1>5. Now.b = b
  BY <1>1, <1>4, NowIs
<1>6. SettlePart(Now, 0, 2) = Now /\ SettlePart(Now, 1, 2) = Now
  BY <1>2, <1>5 DEF SettlePart
<1>7. SettleClaimed(Now, 2) = Now
  BY <1>6 DEF SettleClaimed
<1>8. EndCase(Now) = Now
  BY <1>2, <1>5 DEF EndCase
<1>9. x = Now
  BY <1>7, <1>8
<1>10. b.openedAt <= Len(closers) /\ IsPrefix(b.outer, scope)
  BY <1>1, <1>3 DEF Beneath, ViewNow
<1> QED
  BY <1>3, <1>9, <1>10 DEF Shuts

\* A block of parts has them all ended.
LEMMA PartedShuts ==
  ASSUME IFrames, NEW k, NEW R, NEW b, InTop(k, R, b), blocks # <<>>, Parted(b), MayClose(b),
         NEW x, x = EndCase(SettleClaimed(Now, 2))
  PROVE  Shuts(x, b, R)
<1>1. /\ Shaped(b, R) /\ b \in BlockSet /\ b = Top /\ Beneath(b, ViewNow(Now, used)) /\ R \in Readings
  BY DEF InTop
<1>2. Inside(Now, b, R, used)
  BY InsideTop
<1>3. PartEnded(Now, b)
  BY EndsWell DEF MayClose
<1>4. b.entered \in DOMAIN b.parts
  <2>1. Done
    BY DEF IFrames, FramesInv
  <2> QED
    BY <1>1, <2>1 DEF Done, MayClose
<1>5. PICK s : s = SettleClaimed(Now, 2)
  OBVIOUS
<1>6. PICK two \in Nat : two = 2
  OBVIOUS
<1>7. Ready(s, Now, b, R) /\ DOMAIN s.b.parts = DOMAIN b.parts \cup {q \in b.claimed : q < two}
  BY <1>1, <1>2, <1>3, <1>5, <1>6, SettleClaimedIs
<1>8. Settled(x, Now, b, R) /\ DOMAIN x.b.parts = DOMAIN s.b.parts
  BY <1>5, <1>7 DEF Ready
<1>9. \A p \in {0, 1} : p \in DOMAIN x.b.parts
  <2>1. PICK left : left = {p \in {0, 1} : p \notin b.claimed /\ p \notin DOMAIN b.parts /\ p # b.entered}
    OBVIOUS
  <2>2. left = {}
    <3>1. NoPart = IF left = {} THEN NoPart ELSE CHOOSE p \in left : \A q \in left : p <= q
      BY <2>1 DEF MayClose, NextPart
    <3>2. left # {} => \E p \in left : \A q \in left : p <= q
      <4>1. CASE 0 \in left
        BY <2>1, <4>1
      <4>2. CASE 0 \notin left
        BY <2>1, <4>2
      <4> QED
        BY <4>1, <4>2
    <3>3. left # {} => NoPart \in left
      BY <3>1, <3>2
    <3> QED
      BY <2>1, <3>3 DEF NoPart
  <2>3. \A p \in {0, 1} : p \in b.claimed \/ p \in DOMAIN b.parts
    BY <1>4, <2>1, <2>2
  <2> QED
    BY <1>6, <1>7, <1>8, <2>3
<1>10. /\ Now \in Stances /\ Now.closers = closers /\ Now.scope = scope /\ Now.frames = frames /\ Now.letters = letters
       /\ Now.lines = lines /\ closers \in Seq(CloserSet)
  BY InvIs
<1>11. x.closers = SubSeq(closers, 1, b.openedAt) /\ b.openedAt \in 0 .. Len(closers)
  BY <1>1, <1>8, <1>10, BlockIs DEF Settled, Beneath, ViewNow
<1>12. Len(x.closers) = b.openedAt /\ \A i \in 1 .. b.openedAt : x.closers[i] = closers[i]
  BY <1>10, <1>11, FirstsAre
<1>13. b.openedAt <= Len(x.closers)
  BY <1>11, <1>12
<1> QED
  BY <1>8, <1>9, <1>10, <1>12, <1>13 DEF Shuts, Settled

\* What the obtains and lets of a block raised, discharged of what it ends on.
LEMMA BlockDischarges ==
  ASSUME IFrames, NEW k, NEW R, NEW b, InTop(k, R, b), NEW about,
         \A i \in b.openedAt + 1 .. Len(closers) : closers[i].name # about
  PROVE  Discharged(After(closers, b.openedAt), scope, about) = Base(b)
<1>1. Closing(closers, Base(b), b.openedAt, b.number, ViewNow(Now, used)) /\ b \in BlockSet
  BY DEF InTop
<1>2. Now.closers = closers /\ Now.scope = scope /\ closers \in Seq(CloserSet)
  BY InvIs
<1>3. Leads(closers, Base(b), scope, b.openedAt, Len(closers))
  BY <1>1, <1>2 DEF Closing, ViewNow
<1>4. b.openedAt \in Nat
  BY <1>1, BlockIs
<1> QED
  BY <1>2, <1>3, <1>4, DischargeIs

\* Every block the page may end closes with the lemma of its kind.
LEMMA BlockCloses ==
  ASSUME IFrames, NEW k, NEW R, NEW b, InTop(k, R, b), blocks # <<>>, MayClose(b), NEW x, Shuts(x, b, R)
  PROVE  Closes(b, x)
<1>1. /\ Shaped(b, R) /\ b \in BlockSet /\ b = Top /\ Goes(b, R, ViewNow(Now, used)) /\ Around(Now, b, R)
  BY DEF InTop
<1>2. FTyped /\ Done /\ Reached /\ Now.lines = lines
  BY InvIs DEF IFrames, FramesInv
<1>3. last \in DOMAIN lines /\ lines[last].under = scope /\ ~fresh /\ EndsAsOwed(b)
  BY <1>2 DEF Done, MayClose
<1>4. \A i \in b.openedAt + 1 .. Len(closers) : closers[i].name > b.number /\ closers[i].name \in Nat
  <2>1. SUFFICES ASSUME NEW i \in b.openedAt + 1 .. Len(closers)
                 PROVE  closers[i].name > b.number /\ closers[i].name \in Nat
    OBVIOUS
  <2>2. closers[i].name > b.number
    BY <1>2, NamedLater
  <2>3. closers \in Seq(CloserSet) /\ i \in 1 .. Len(closers)
    BY <1>1, <1>2, BlockIs, NowIs
  <2>4. closers[i] \in CloserSet
    BY <2>3
  <2> QED
    BY <2>2, <2>4 DEF CloserSet
<1>5. b.number \in Nat /\ b.about \in Nat /\ b.about < b.number /\ b.openedAt \in Nat
  BY <1>1, BlockIs DEF Shaped
<1>6. ASSUME NEW about \in Nat, about < b.number
      PROVE  \A i \in b.openedAt + 1 .. Len(closers) : closers[i].name # about
  BY <1>4, <1>5, <1>6
<1>7. CASE b.by = "contradiction"
  <2>1. ended = "reached"
    BY <1>2, <1>3, <1>7 DEF EndsAsOwed, Reached
  <2>2. contradicted = scope
    BY <1>1, <1>2, <1>7, <2>1 DEF Reached
  <2>3. Opposed(b) = scope
    BY <1>3, <2>2 DEF Opposed
  <2>4. Base(b) = b.outer \o b.opened
    BY <1>7 DEF Base, Parted, OpensOf
  <2>5. Discharged(After(closers, b.openedAt), scope, b.about) = Base(b)
    BY <1>5, <1>6, BlockDischarges
  <2> QED
    BY <1>7, <2>3, <2>4, <2>5 DEF Closes, ContradictionCloses
<1>8. CASE b.by = "proof"
  <2>1. Base(b) = b.outer \o b.opened
    BY <1>8 DEF Base, Parted, OpensOf
  <2>2. \A i \in b.openedAt + 1 .. Len(closers) : closers[i].name # lines[last].about
    <3>1. CASE ended # "no"
      <4>1. lines[last].about = 0
        BY <1>1, <1>2, <1>8, <3>1 DEF Reached
      <4> QED
        BY <1>4, <1>5, <4>1
    <3>2. CASE ended = "no"
      <4>1. lines[last].about \notin {c.name : c \in ToSet(After(closers, b.openedAt))}
        BY <1>3, <1>8, <3>2 DEF EndsAsOwed
      <4>2. SUFFICES ASSUME NEW i \in b.openedAt + 1 .. Len(closers)
                     PROVE  closers[i].name # lines[last].about
        OBVIOUS
      <4>3. closers[i].name \in {c.name : c \in ToSet(After(closers, b.openedAt))}
        BY <1>2, <1>5, RaisedIn
      <4> QED
        BY <4>1, <4>3
    <3> QED
      BY <3>1, <3>2
  <2>3. Discharged(After(closers, b.openedAt), scope, lines[last].about) = Base(b)
    BY <2>2, BlockDischarges
  <2> QED
    BY <1>3, <1>8, <2>1, <2>3 DEF Closes, ProofCloses
<1>9. CASE Parted(b)
  <2>1. /\ SameBut(b, x.b)
        /\ \A p \in {0, 1} : p \in DOMAIN x.b.parts /\ x.b.parts[p].under = b.outer \o OpensOf(b, p)
        /\ \A l \in DOMAIN R : l \in DOMAIN lines => l \in DOMAIN x.lines /\ x.lines[l] = lines[l]
    BY <1>9 DEF Shuts
  <2>2. \A p \in {0, 1} : PartShown(x.b, p)
    <3>1. x.b.by = b.by /\ x.b.number = b.number /\ x.b.outer = b.outer
      BY <2>1 DEF SameBut, Same
    <3>2. SUFFICES ASSUME NEW p \in {0, 1}
                   PROVE  PartShown(x.b, p)
      OBVIOUS
    <3>3. OpensOf(b, p) = CASE b.by = "cases" -> <<CaseOf(b, p)>>
                            [] b.by # "cases" /\ p = 0 -> <<>>
                            [] OTHER -> << <<"let", b.number>>, <<"assume", b.number>> >>
      BY <1>9 DEF OpensOf, Parted
    <3>4. CaseOf(x.b, p) = CaseOf(b, p)
      BY <3>1 DEF CaseOf
    <3> QED
      BY <2>1, <3>1, <3>3, <3>4 DEF PartShown
  <2>3. Split(b, x.lines)
    <3>1. SUFFICES ASSUME b.by = "cases"
                   PROVE  /\ Plain(x.lines[b.cited].claim) = b.splits
                          /\ CarriedIn(b.cited, x.lines, b.outside) = b.outer
      BY DEF Split
    <3>2. PICK l : l = b.cited
      OBVIOUS
    <3>3. l \in DOMAIN R /\ b.splits = R[l]
      BY <1>1, <3>1, <3>2 DEF Shaped
    <3>4. l \in DOMAIN lines /\ lines[l] = b.lines[l]
      BY <1>1, <1>2, <3>1, <3>3 DEF Goes, Whole, MayEnter, ViewNow
    <3>5. x.lines[l] = b.lines[l]
      BY <2>1, <3>3, <3>4
    <3>6. b.lines[l].claim \in DOMAIN b.outside /\ Plain(b.lines[l].claim) = R[l] /\ AllAt(b.outside, b.outer)
      BY <1>1, <3>3 DEF Around, Viewed, Inscribed, InscribedLine
    <3>7. CarriedIn(l, x.lines, b.outside) = b.outer
      BY <3>5, <3>6 DEF CarriedIn, AllAt
    <3> QED
      BY <3>2, <3>3, <3>5, <3>6, <3>7
  <2>4. b.by # "contradiction" /\ b.by # "proof"
    BY <1>9 DEF Parted
  <2> QED
    BY <2>2, <2>3, <2>4 DEF Closes
<1>10. b.by = "contradiction" \/ b.by = "proof" \/ Parted(b)
  BY <1>1 DEF BlockSet, Parted
<1> QED
  BY <1>7, <1>8, <1>9, <1>10

\* The blocks around the innermost, and what the checker reads in them.
Outsides(k, R, b, bs, rd) ==
  /\ bs = Front(blocks) /\ rd = Front(read)
  /\ bs \in Seq(BlockSet) /\ rd \in Seq(Readings) /\ Len(bs) = k - 1 /\ Len(rd) = k /\ k \in Nat /\ k > 0
  /\ \A d \in 1 .. k - 1 : bs[d] = blocks[d]
  /\ Reading(rd) = R
  /\ Len(bs) > 0 =>
       /\ bs[Len(bs)] \in BlockSet /\ Shaped(bs[Len(bs)], ReadingAt(rd, Len(bs)))
       /\ Parted(bs[Len(bs)]) => bs[Len(bs)].entered # NoPart
       /\ b.part = IF Parted(bs[Len(bs)]) THEN bs[Len(bs)].entered ELSE NoPart
       /\ \A l \in DOMAIN ReadingAt(rd, Len(bs)) : Numbered(l, b.number - 1)
  /\ Len(bs) = 0 => b.part = NoPart
  /\ b.against => Len(bs) > 0 /\ bs[Len(bs)].by = "contradiction"

\* A label given is given still once more ids are used.
LEMMA NumberedOn ==
  ASSUME NEW l, NEW n \in Int, NEW n1 \in Int, n <= n1, Numbered(l, n)
  PROVE  Numbered(l, n1)
<1>1. \A m \in 1 .. n : m \in 1 .. n1
  OBVIOUS
<1> QED
  BY <1>1 DEF Numbered

\* What the invariant says of the blocks around the innermost.
LEMMA OutsidesAre ==
  ASSUME IFrames, NEW k, NEW R, NEW b, InTop(k, R, b), NEW bs, bs = Front(blocks), NEW rd, rd = Front(read)
  PROVE  Outsides(k, R, b, bs, rd)
<1>1. /\ k \in Nat /\ k = Len(blocks) /\ k > 0 /\ Len(read) = k + 1 /\ R = ReadingAt(read, k)
      /\ b \in BlockSet /\ b = blocks[k] /\ Placed(blocks, k)
  BY DEF InTop
<1>2. blocks \in Seq(BlockSet) /\ read \in Seq(Readings) /\ Stacked(Now, blocks, read, used) /\ used \in Nat
  BY InvIs
<1>3. bs \in Seq(BlockSet) /\ Len(bs) = k - 1 /\ \A d \in 1 .. k - 1 : bs[d] = blocks[d]
  BY <1>1, <1>2, LastIs
<1>4. rd \in Seq(Readings) /\ Len(rd) = k /\ \A d \in 1 .. k : rd[d] = read[d]
  BY <1>1, <1>2, LastIs, SMTT(30)
<1>5. Reading(rd) = R
  BY <1>1 DEF ReadingAt, Front
<1>6. ASSUME k > 1
      PROVE  /\ bs[k - 1] \in BlockSet /\ Shaped(bs[k - 1], ReadingAt(rd, k - 1))
             /\ Parted(bs[k - 1]) => bs[k - 1].entered # NoPart
             /\ \A l \in DOMAIN ReadingAt(rd, k - 1) : Numbered(l, b.number - 1)
  <2>1. PICK d \in 1 .. k - 1 : d = k - 1
    BY <1>1, <1>6
  <2>2. d \in 1 .. Len(blocks) /\ d < Len(blocks) /\ d \in Nat /\ d <= Len(rd) /\ d <= Len(read) /\ k \in d + 1 .. Len(blocks) + 1
    BY <1>1, <1>4, <1>6, <2>1
  <2>3. PICK c : c = blocks[d] /\ c = bs[d] /\ c \in BlockSet
    BY <1>2, <1>3, <2>1, <2>2, BlocksAre
  <2>4. PICK R0 : R0 = ReadingAt(read, d)
    OBVIOUS
  <2>5. ReadingAt(rd, d) = R0
    <3>1. \A i \in 1 .. d : rd[i] = read[i]
      BY <1>1, <1>4, <2>1
    <3> QED
      BY <1>2, <1>4, <2>2, <2>4, <3>1, ReadingAtSame
  <2>6. Shaped(c, R0) /\ Placed(blocks, d) /\ Around(Now, c, R0)
    BY <1>2, <2>2, <2>3, <2>4 DEF Stacked
  <2>7. Parted(c) => c.entered # NoPart
    BY <2>2, <2>3, <2>6 DEF Placed
  <2>8. c.number <= b.number - 1
    <3>1. Beneath(blocks[d], ViewAt(Now, blocks, used, k))
      BY <1>2, <2>2 DEF Stacked
    <3>2. k \in DOMAIN blocks
      BY <1>1, <1>2
    <3>3. ViewAt(Now, blocks, used, k) = ViewOf(b)
      BY <1>1, <3>2 DEF ViewAt
    <3> QED
      BY <2>3, <3>1, <3>3 DEF Beneath, ViewOf
  <2>9. c.number \in Nat /\ b.number \in Nat
    BY <1>1, <2>3, BlockIs
  <2>10. \A l \in DOMAIN R0 : Numbered(l, b.number - 1)
    <3>1. SUFFICES ASSUME NEW l \in DOMAIN R0
                   PROVE  Numbered(l, b.number - 1)
      OBVIOUS
    <3>2. Numbered(l, c.number - 1)
      BY <2>6 DEF Around, Viewed, Inscribed
    <3>3. PICK n, n1 : n = c.number - 1 /\ n1 = b.number - 1
      OBVIOUS
    <3>4. n \in Int /\ n1 \in Int /\ n <= n1
      BY <2>8, <2>9, <3>3
    <3> QED
      BY <3>2, <3>3, <3>4, NumberedOn
  <2> QED
    BY <2>1, <2>3, <2>5, <2>6, <2>7, <2>10
<1>7. k > 1 => b.part = IF Parted(bs[k - 1]) THEN bs[k - 1].entered ELSE NoPart
  <2>1. SUFFICES ASSUME k > 1
                 PROVE  b.part = IF Parted(bs[k - 1]) THEN bs[k - 1].entered ELSE NoPart
    OBVIOUS
  <2>2. k - 1 \in 1 .. k - 1
    BY <1>1, <2>1
  <2>3. bs[k - 1] = blocks[k - 1]
    BY <1>3, <2>2
  <2> QED
    BY <1>1, <2>1, <2>3 DEF Placed
<1>8. k = 1 => b.part = NoPart
  BY <1>1 DEF Placed
<1>9. b.against => k > 1 /\ bs[k - 1].by = "contradiction"
  <2>1. SUFFICES ASSUME b.against
                 PROVE  k > 1 /\ bs[k - 1].by = "contradiction"
    OBVIOUS
  <2>2. k > 1 /\ blocks[k - 1].by = "contradiction"
    BY <1>1, <2>1 DEF Placed
  <2>3. k - 1 \in 1 .. k - 1
    BY <1>1, <2>2
  <2> QED
    BY <1>3, <2>2, <2>3
<1>10. (Len(bs) > 0 <=> k > 1) /\ (Len(bs) = 0 <=> k = 1)
  BY <1>1, <1>3
<1>11. PICK j : j = Len(bs)
  OBVIOUS
<1> QED
  BY <1>1, <1>3, <1>4, <1>5, <1>6, <1>7, <1>8, <1>9, <1>10 DEF Outsides

\* What a block's closing leaves of the blocks around it.
LEMMA HandUpIs ==
  ASSUME NEW k, NEW R, NEW b \in BlockSet, NEW bs, NEW rd, Outsides(k, R, b, bs, rd),
         NEW end, end = [under |-> b.outer, about |-> b.about], NEW bs1, bs1 = HandUp(b, bs)
  PROVE  EndsSo(bs, bs1, rd, end)
<1>1. bs \in Seq(BlockSet)
  BY DEF Outsides
<1>2. end \in EndSet
  BY BlockIs DEF EndSet
<1>3. PICK j : j = Len(bs)
  OBVIOUS
<1>4. j > 0 => Shaped(bs[j], ReadingAt(rd, j)) /\ (Parted(bs[j]) => bs[j].entered # NoPart)
  BY <1>3 DEF Outsides
<1>5. bs # <<>> <=> j > 0
  BY <1>1, <1>3, EmptySeq
<1>6. j > 0 => Last(bs) = bs[j]
  BY <1>1, <1>3, LastIs
<1>7. EndsAt(bs, bs1, end)
  <2>1. CASE bs # <<>> /\ Parted(Last(bs))
    <3>1. b.part = Last(bs).entered /\ b.part # NoPart
      BY <1>3, <1>4, <1>5, <1>6, <2>1 DEF Outsides
    <3> QED
      BY <2>1, <3>1 DEF HandUp, EndsAt
  <2>2. CASE ~(bs # <<>> /\ Parted(Last(bs)))
    <3>1. b.part = NoPart
      <4>1. CASE bs = <<>>
        <5>1. Len(bs) = 0
          BY <4>1
        <5> QED
          BY <5>1 DEF Outsides
      <4>2. CASE bs # <<>>
        BY <1>3, <1>5, <1>6, <2>2, <4>2 DEF Outsides
      <4> QED
        BY <4>1, <4>2
    <3>2. bs1 = bs
      BY <3>1 DEF HandUp
    <3> QED
      BY <2>2, <3>2 DEF EndsAt
  <2> QED
    BY <2>1, <2>2
<1> QED
  BY <1>1, <1>2, <1>3, <1>4, <1>7, EndsAtIs

\* Gone back to where the block was opened, with its parts ended.
GoneBack(x, u, b) ==
  u = [x EXCEPT !.frames = SubSeq(@, 1, b.frame), !.scope = b.outer, !.facts = b.outside, !.lines = b.lines,
                !.names = b.named, !.letters = SubSeq(@, 1, b.lettersAt), !.closers = SubSeq(@, 1, b.openedAt)]

\* Gone back so, the elaborator is where the block was opened.
LEMMA GoneBackIs ==
  ASSUME NEW x \in Stances, NEW b \in BlockSet, NEW u, GoneBack(x, u, b), b.frame <= Len(x.frames),
         b.lettersAt <= Len(x.letters), b.openedAt <= Len(x.closers)
  PROVE  /\ BackAt(x, u, b) /\ u.lines = b.lines /\ u.names = b.named /\ u.closers = SubSeq(x.closers, 1, b.openedAt)
<1>1. /\ b.frame \in Nat /\ b.lettersAt \in Nat /\ b.openedAt \in Nat /\ b.outer \in Scopes /\ b.outside \in KnownSet
      /\ b.lines \in Lines /\ b.named \in SUBSET Nat
  BY BlockIs
<1>2. /\ x.frames \in Seq(FrameSet) /\ x.letters \in Seq(LetterSet) /\ x.closers \in Seq(CloserSet)
      /\ Len(x.frames) \in Nat /\ Len(x.letters) \in Nat /\ Len(x.closers) \in Nat
  BY StanceIs
<1>3. PICK fs, lts, cls : /\ fs = SubSeq(x.frames, 1, b.frame) /\ lts = SubSeq(x.letters, 1, b.lettersAt)
                          /\ cls = SubSeq(x.closers, 1, b.openedAt)
  OBVIOUS
<1>4. fs \in Seq(FrameSet)
  <2>1. b.frame \in 0 .. Len(x.frames)
    BY <1>1, <1>2
  <2> QED
    BY <1>2, <1>3, <2>1, FirstsAre
<1>5. lts \in Seq(LetterSet)
  <2>1. b.lettersAt \in 0 .. Len(x.letters)
    BY <1>1, <1>2
  <2> QED
    BY <1>2, <1>3, <2>1, FirstsAre
<1>6. cls \in Seq(CloserSet)
  <2>1. b.openedAt \in 0 .. Len(x.closers)
    BY <1>1, <1>2
  <2> QED
    BY <1>2, <1>3, <2>1, FirstsAre
<1>7. u = [x EXCEPT !.frames = fs, !.scope = b.outer, !.facts = b.outside, !.lines = b.lines,
                    !.names = b.named, !.letters = lts, !.closers = cls]
  BY <1>3 DEF GoneBack, Stances
<1>8. PICK at, known, ls, ns : at = b.outer /\ known = b.outside /\ ls = b.lines /\ ns = b.named
  OBVIOUS
<1>9. u = [x EXCEPT !.frames = fs, !.scope = at, !.facts = known, !.lines = ls, !.names = ns, !.letters = lts, !.closers = cls]
  BY <1>7, <1>8
<1>10. at \in Scopes /\ known \in KnownSet /\ ls \in Lines /\ ns \in SUBSET Nat
  BY <1>1, <1>8
<1>11. u \in Stances
  BY <1>4, <1>5, <1>6, <1>9, <1>10 DEF Stances
<1>12. u.frames = fs /\ u.scope = at /\ u.facts = known /\ u.lines = ls /\ u.names = ns /\ u.letters = lts /\ u.closers = cls
  BY <1>9 DEF Stances
<1> QED
  BY <1>3, <1>8, <1>11, <1>12 DEF BackAt

\* Back where the block was opened, what was known is known, and the blocks
\* around are around.
LEMMA GoneBackSound ==
  ASSUME IFrames, NEW k, NEW R, NEW b, InTop(k, R, b), NEW x, Shuts(x, b, R), NEW u, GoneBack(x, u, b),
         NEW bs, NEW rd, Outsides(k, R, b, bs, rd)
  PROVE  /\ u \in Stances /\ u.scope = b.outer /\ u.facts = b.outside /\ u.lines = b.lines
         /\ Sound(u, R, b.number - 1) /\ Stacked(u, bs, rd, used)
         /\ Len(u.closers) <= Len(closers) /\ \A i \in 1 .. Len(u.closers) : u.closers[i] = closers[i]
<1>1. /\ k \in Nat /\ k = Len(blocks) /\ k > 0 /\ Len(read) = k + 1 /\ R = ReadingAt(read, k)
      /\ b \in BlockSet /\ b = blocks[k] /\ Around(Now, b, R) /\ Shaped(b, R) /\ Beneath(b, ViewNow(Now, used))
  BY DEF InTop
<1>2. /\ Now \in Stances /\ Now.frames = frames /\ Now.scope = scope /\ Now.letters = letters /\ Now.closers = closers
      /\ Framed(frames, scope) /\ blocks \in Seq(BlockSet) /\ read \in Seq(Readings) /\ used \in Nat
      /\ Stacked(Now, blocks, read, used) /\ closers \in Seq(CloserSet) /\ Len(closers) \in Nat
  BY InvIs
<1>3. /\ b.outer \in Scopes /\ b.lettersAt \in Nat /\ b.openedAt \in Nat /\ Len(b.outer) \in Nat
      /\ b.frame = Len(b.outer) + 1 /\ b.lettersAt <= Len(letters) /\ b.openedAt <= Len(closers)
  <2>1. b.outer \in Scopes /\ b.lettersAt \in Nat /\ b.openedAt \in Nat
    BY <1>1, BlockIs
  <2>2. Len(b.outer) \in Nat
    BY <2>1 DEF Scopes
  <2> QED
    BY <1>1, <1>2, <2>1, <2>2 DEF Shaped, Beneath, ViewNow
<1>4. /\ x \in Stances /\ Framed(x.frames, x.scope) /\ IsPrefix(b.outer, x.scope)
      /\ (\A i \in 1 .. Len(b.outer) : x.frames[i] = frames[i]) /\ x.letters = letters
      /\ b.openedAt <= Len(x.closers) /\ \A i \in 1 .. b.openedAt : x.closers[i] = closers[i]
  BY DEF Shuts
<1>5. /\ x.scope \in Scopes /\ x.closers \in Seq(CloserSet) /\ Len(x.closers) \in Nat /\ Len(x.scope) \in Nat
  BY <1>4, StanceIs
<1>6. b.frame <= Len(x.frames)
  <2>1. Len(x.frames) = Len(x.scope) + 1
    BY <1>4 DEF Framed
  <2>2. Len(b.outer) <= Len(x.scope)
    BY <1>3, <1>4, <1>5, PrefixIs
  <2> QED
    BY <1>3, <1>5, <2>1, <2>2
<1>7. BackAt(x, u, b) /\ u.lines = b.lines /\ u.closers = SubSeq(x.closers, 1, b.openedAt)
  <2>1. b.lettersAt <= Len(x.letters) /\ b.openedAt <= Len(x.closers)
    BY <1>3, <1>4
  <2>2. x \in Stances /\ b \in BlockSet
    BY <1>1, <1>4
  <2> QED
    BY <1>6, <2>1, <2>2, GoneBackIs
<1>8. u \in Stances /\ u.scope = b.outer /\ u.facts = b.outside
  BY <1>7 DEF BackAt
<1>9. Around(x, b, R)
  BY <1>1, <1>2, <1>3, <1>4, AroundAs
<1>10. /\ Sound(u, R, b.number - 1) /\ Len(u.letters) = b.lettersAt
       /\ \A i \in 1 .. Len(b.outer) : u.frames[i] = x.frames[i]
       /\ \A i \in 1 .. b.lettersAt : u.letters[i] = x.letters[i]
  BY <1>1, <1>3, <1>4, <1>7, <1>9, SoundBack, SMTT(30)
<1>11. u.closers = SubSeq(closers, 1, b.openedAt)
  BY <1>2, <1>3, <1>4, <1>5, <1>7, SameFirsts
<1>12. ClosedTo(Now, u, b)
  BY <1>2, <1>4, <1>7, <1>8, <1>10, <1>11, ZenonT(60) DEF ClosedTo
<1>13. Stacked(u, bs, rd, used)
  <2>1. PICK j \in Nat : j + 1 = k
    BY <1>1
  <2>2. b = blocks[j + 1] /\ j + 1 = Len(blocks)
    BY <1>1, <2>1
  <2>3. Stacked(u, Front(blocks), Front(read), used)
    BY <1>1, <1>2, <1>8, <1>12, <2>2, StackClosed
  <2> QED
    BY <2>3 DEF Outsides
<1>14. Len(u.closers) = b.openedAt /\ \A i \in 1 .. b.openedAt : u.closers[i] = closers[i]
  <2>1. b.openedAt \in 0 .. Len(closers)
    BY <1>2, <1>3
  <2> QED
    BY <1>2, <1>11, <2>1, FirstsAre
<1> QED
  BY <1>3, <1>7, <1>8, <1>10, <1>13, <1>14

\* The block's own line written where it stood.
LEMMA ClosedLine ==
  ASSUME IFrames, NEW k, NEW R, NEW b, InTop(k, R, b), NEW u \in Stances, u.scope = b.outer, u.facts = b.outside,
         u.lines = b.lines, Sound(u, R, b.number - 1), NEW bs, NEW rd, Outsides(k, R, b, bs, rd), Stacked(u, bs, rd, used),
         NEW claim, claim = <<"line", b.number>>, NEW own, own = <<"step", b.number>>,
         NEW y, Kept(u, claim, own, b.about, y), NEW rd1, rd1 = Noted(rd, own, claim), NEW bs1, KeptSo(bs, bs1, rd)
  PROVE  /\ rd1 \in Seq(Readings) /\ Sound(y, Reading(rd1), used) /\ Stacked(y, bs1, rd1, used)
<1>1. b \in BlockSet /\ Beneath(b, ViewNow(Now, used)) /\ Shaped(b, R)
  BY DEF InTop
<1>2. used \in Nat
  BY InvIs
<1>3. b.number \in Nat /\ b.number > 0 /\ b.number <= used
  BY <1>1, BlockIs DEF Shaped, Beneath, ViewNow
<1>4. /\ bs \in Seq(BlockSet) /\ rd \in Seq(Readings) /\ Len(bs) = k - 1 /\ Len(rd) = k /\ k \in Nat /\ k > 0
      /\ Reading(rd) = R
  BY DEF Outsides
<1>5. claim \in Saids /\ Plain(claim) = claim
  <2>1. claim \in Saids
    BY <1>3 DEF Saids
  <2>2. claim[1] = "line"
    OBVIOUS
  <2> QED
    BY <2>1, <2>2 DEF Plain
<1>6. own \in Labels /\ Numbered(own, used)
  <2>1. b.number \in 1 .. used
    BY <1>2, <1>3
  <2> QED
    BY <1>3, <2>1 DEF Labels, Numbered
<1>7. PICK n0 \in Nat : n0 = b.number - 1 /\ n0 <= used
  BY <1>2, <1>3
<1>8. /\ y \in Stances /\ y.frames = u.frames /\ y.scope = u.scope /\ y.letters = u.letters /\ y.closers = u.closers
      /\ DOMAIN y.lines = DOMAIN u.lines \cup {own} /\ \A l \in DOMAIN u.lines : l # own => y.lines[l] = u.lines[l]
  BY DEF Kept
<1>9. Sound(y, Reading(rd1), used)
  <2>1. Sound(u, Reading(rd), n0)
    BY <1>4, <1>7
  <2>2. Len(rd) > 0
    BY <1>4
  <2> QED
    BY <1>2, <1>4, <1>5, <1>6, <1>7, <2>1, <2>2, KeptSound
<1>10. rd1 \in Seq(Readings) /\ Len(rd1) = Len(rd) /\ \A d \in 1 .. Len(rd) - 1 : rd1[d] = rd[d]
  BY <1>4, <1>5, <1>6, ReadingNoted, ZenonT(60)
<1>11. PICK j : j = Len(bs)
  OBVIOUS
<1>12. j \in Nat /\ k = j + 1
  BY <1>4, <1>11
<1>13. /\ bs1 \in Seq(BlockSet) /\ Len(bs1) = j /\ (\A d \in 1 .. j - 1 : bs1[d] = bs[d])
       /\ j > 0 => /\ SameBut(bs[j], bs1[j]) /\ Shaped(bs1[j], ReadingAt(rd, j))
                   /\ bs1[j].entered = bs[j].entered /\ (Parted(bs[j]) => bs[j].entered # NoPart)
  BY <1>11 DEF KeptSo
<1>14. j > 0 => \A l \in DOMAIN ReadingAt(rd, j) : l \in DOMAIN u.lines => l \in DOMAIN y.lines /\ y.lines[l] = u.lines[l]
  <2>1. SUFFICES ASSUME j > 0, NEW l \in DOMAIN ReadingAt(rd, j), l \in DOMAIN u.lines
                 PROVE  l \in DOMAIN y.lines /\ y.lines[l] = u.lines[l]
    OBVIOUS
  <2>2. Numbered(l, b.number - 1)
    BY <1>11, <2>1 DEF Outsides
  <2>3. l # own
    BY <1>3, <2>2, LabelFresh
  <2> QED
    BY <1>8, <2>1, <2>3
<1>15. Onward(u, y)
  BY <1>8, OnwardSelf
<1>16. PICK h : h = Len(u.closers)
  OBVIOUS
<1>17. h \in Nat /\ Framed(u.frames, u.scope)
  BY <1>16, StanceIs DEF Sound
<1>18. Leads(y.closers, u.scope, y.scope, h, h) /\ Later(y.closers, h, h, used)
  <2>1. Leads(y.closers, u.scope, u.scope, h, h)
    BY <1>8, <1>16, <1>17, LeadsNowhere
  <2>2. Later(y.closers, h, h, used)
    BY <1>17 DEF Later
  <2> QED
    BY <1>8, <2>1, <2>2
<1>19. j > 0 => Same(bs[j], bs1[j]) /\ bs1[j].opened = bs[j].opened
  BY <1>13 DEF SameBut
<1>20. Len(y.letters) = Len(u.letters) /\ Len(u.closers) <= Len(y.closers)
       /\ \A i \in 1 .. Len(u.closers) : y.closers[i] = u.closers[i]
  BY <1>8, <1>16, <1>17
<1>21. (\A d \in 1 .. j : rd1[d] = rd[d]) /\ Len(rd1) = j + 1
  <2>1. Len(rd) = j + 1 /\ Len(rd) - 1 = j
    BY <1>4, <1>12
  <2>2. \A d \in 1 .. j : d \in 1 .. Len(rd) - 1
    BY <2>1
  <2> QED
    BY <1>10, <2>1, <2>2
<1>22. GoesOn(u, y, bs, bs1, rd, rd1, used, used, j)
  <2>1. /\ u \in Stances /\ y \in Stances /\ bs \in Seq(BlockSet) /\ bs1 \in Seq(BlockSet)
        /\ rd \in Seq(Readings) /\ rd1 \in Seq(Readings) /\ used \in Nat /\ used <= used
    BY <1>2, <1>4, <1>8, <1>10, <1>13
  <2>2. Stacked(u, bs, rd, used) /\ Framed(u.frames, u.scope) /\ Onward(u, y)
    BY <1>15, <1>17
  <2>3. /\ j \in Nat /\ j = Len(bs) /\ Len(bs1) = j /\ Len(rd1) = j + 1
        /\ (\A d \in 1 .. j : rd1[d] = rd[d]) /\ \A d \in 1 .. j - 1 : bs1[d] = bs[d]
    BY <1>11, <1>12, <1>13, <1>21
  <2>4. j > 0 => /\ Same(bs[j], bs1[j]) /\ Shaped(bs1[j], ReadingAt(rd, j))
                 /\ bs1[j].entered = bs[j].entered /\ bs1[j].opened = bs[j].opened
                 /\ Parted(bs[j]) => bs[j].entered # NoPart
                 /\ \A l \in DOMAIN ReadingAt(rd, j) : l \in DOMAIN u.lines =>
                      l \in DOMAIN y.lines /\ y.lines[l] = u.lines[l]
    BY <1>13, <1>14, <1>19
  <2>5. Leads(y.closers, u.scope, y.scope, Len(u.closers), Len(y.closers))
    BY <1>8, <1>16, <1>18
  <2>6. Later(y.closers, Len(u.closers), Len(y.closers), used)
    BY <1>8, <1>16, <1>18
  <2> QED
    BY <1>20, <2>1, <2>2, <2>3, <2>4, <2>5, <2>6 DEF GoesOn
<1>23. Stacked(y, bs1, rd1, used)
  BY <1>22, StackOnward
<1> QED
  BY <1>9, <1>10, <1>23

\* What closing a block leaves.
Closed(k, b, x, u, y, bs, bs1, rd, rd1, claim, own) ==
  /\ x = EndCase(SettleClaimed(Now, 2)) /\ GoneBack(x, u, b)
  /\ claim = <<"line", b.number>> /\ own = <<"step", b.number>>
  /\ y = [u EXCEPT !.facts = With(@, claim, u.scope), !.lines = With(@, own, Line(claim, u.scope, b.about))]
  /\ bs = Front(blocks) /\ rd = Front(read) /\ bs1 = HandUp(b, bs) /\ rd1 = Noted(rd, own, claim)

\* What closing a block comes to.
ClosesTo(b, x, y, bs, bs1, rd, rd1, own, R) ==
  /\ Become(y) /\ y \in Stances /\ Sound(y, Reading(rd1), used) /\ Stacked(y, bs1, rd1, used)
  /\ bs1 \in Seq(BlockSet) /\ rd1 \in Seq(Readings) /\ own \in Labels
  /\ y.scope = b.outer /\ own \in DOMAIN y.lines
  /\ y.lines[own].under = b.outer /\ y.lines[own].about = b.about
  /\ EndsSo(bs, bs1, rd, [under |-> b.outer, about |-> b.about])
  /\ Len(y.closers) <= Len(closers) /\ \A i \in 1 .. Len(y.closers) : y.closers[i] = closers[i]
  /\ Closes(b, x)
  /\ \A other \in DOMAIN R : CarriedIn(other, y.lines, y.facts) = b.outer

\* How the closing steps the state.
ClosedBecomes(x, b, claim, own) ==
  Become([x EXCEPT !.frames = SubSeq(@, 1, b.frame), !.scope = b.outer,
                   !.facts = With(b.outside, claim, b.outer), !.lines = With(b.lines, own, Line(claim, b.outer, b.about)),
                   !.names = b.named, !.letters = SubSeq(@, 1, b.lettersAt),
                   !.closers = SubSeq(@, 1, b.openedAt)])

\* The state stands as the closing hands the elaborator on.
LEMMA ClosedBecomesIs ==
  ASSUME NEW x \in Stances, NEW b, NEW claim, NEW own, ClosedBecomes(x, b, claim, own), NEW y,
         y.frames = SubSeq(x.frames, 1, b.frame), y.scope = b.outer,
         y.facts = With(b.outside, claim, b.outer), y.lines = With(b.lines, own, Line(claim, b.outer, b.about)),
         y.names = b.named, y.letters = SubSeq(x.letters, 1, b.lettersAt), y.closers = SubSeq(x.closers, 1, b.openedAt)
  PROVE  Become(y)
<1>1. PICK fs, lts, cls, facts1, lines1 :
        /\ fs = SubSeq(x.frames, 1, b.frame) /\ lts = SubSeq(x.letters, 1, b.lettersAt)
        /\ cls = SubSeq(x.closers, 1, b.openedAt)
        /\ facts1 = With(b.outside, claim, b.outer) /\ lines1 = With(b.lines, own, Line(claim, b.outer, b.about))
  OBVIOUS
<1>2. PICK z : z = [x EXCEPT !.frames = fs, !.scope = b.outer, !.facts = facts1, !.lines = lines1,
                             !.names = b.named, !.letters = lts, !.closers = cls]
  OBVIOUS
<1>3. z = [x EXCEPT !.frames = SubSeq(@, 1, b.frame), !.scope = b.outer,
                   !.facts = With(b.outside, claim, b.outer), !.lines = With(b.lines, own, Line(claim, b.outer, b.about)),
                   !.names = b.named, !.letters = SubSeq(@, 1, b.lettersAt),
                   !.closers = SubSeq(@, 1, b.openedAt)]
  BY <1>1, <1>2 DEF Stances
<1>4. Become(z)
  BY <1>3 DEF ClosedBecomes
<1>5. z.frames = fs /\ z.scope = b.outer /\ z.facts = facts1 /\ z.lines = lines1 /\ z.names = b.named
      /\ z.letters = lts /\ z.closers = cls
  BY <1>2 DEF Stances
<1> QED
  BY <1>1, <1>4, <1>5 DEF Become

\* A block closes, and leaves its line known where it was opened.
LEMMA ClosedIs ==
  ASSUME IFrames, NEW k, NEW R, NEW b, InTop(k, R, b), blocks # <<>>, MayClose(b),
         NEW x, NEW u, NEW y, NEW bs, NEW bs1, NEW rd, NEW rd1, NEW claim, NEW own,
         Closed(k, b, x, u, y, bs, bs1, rd, rd1, claim, own), ClosedBecomes(x, b, claim, own)
  PROVE  ClosesTo(b, x, y, bs, bs1, rd, rd1, own, R)
<1>1. b \in BlockSet /\ Around(Now, b, R) /\ Shaped(b, R) /\ Beneath(b, ViewNow(Now, used))
  BY DEF InTop
<1>2. x = EndCase(SettleClaimed(Now, 2)) /\ GoneBack(x, u, b)
  BY DEF Closed
<1>3. claim = <<"line", b.number>> /\ own = <<"step", b.number>>
  BY DEF Closed
<1>4. y = [u EXCEPT !.facts = With(@, claim, u.scope), !.lines = With(@, own, Line(claim, u.scope, b.about))]
  BY DEF Closed
<1>5. bs = Front(blocks) /\ rd = Front(read) /\ bs1 = HandUp(b, bs) /\ rd1 = Noted(rd, own, claim)
  BY DEF Closed
<1>6. Shuts(x, b, R)
  <2>1. CASE Parted(b)
    BY <1>2, <2>1, PartedShuts
  <2>2. CASE ~Parted(b)
    BY <1>2, <2>2, PlainShuts
  <2> QED
    BY <2>1, <2>2
<1>7. Closes(b, x)
  BY <1>6, BlockCloses
<1>8. Outsides(k, R, b, bs, rd)
  BY <1>5, OutsidesAre
<1>9. /\ u \in Stances /\ u.scope = b.outer /\ u.facts = b.outside /\ u.lines = b.lines
      /\ Sound(u, R, b.number - 1) /\ Stacked(u, bs, rd, used)
      /\ Len(u.closers) <= Len(closers) /\ \A i \in 1 .. Len(u.closers) : u.closers[i] = closers[i]
  BY <1>2, <1>6, <1>8, GoneBackSound
<1>10. b.number \in Nat /\ b.about \in Nat /\ b.number > 0
  BY <1>1, BlockIs DEF Shaped
<1>11. claim \in Saids /\ own \in Labels
  BY <1>3, <1>10 DEF Saids, Labels
<1>12. AllAt(u.facts, u.scope)
  BY <1>9 DEF Sound, Viewed
<1>13. Kept(u, claim, own, b.about, y)
  BY <1>4, <1>9, <1>10, <1>11, <1>12, KeptIs
<1>14. PICK end : end = [under |-> b.outer, about |-> b.about]
  OBVIOUS
<1>15. EndsSo(bs, bs1, rd, end)
  BY <1>1, <1>5, <1>8, <1>14, HandUpIs
<1>16. KeptSo(bs, bs1, rd) /\ bs1 \in Seq(BlockSet)
  BY <1>15 DEF EndsSo, KeptSo
<1>17. rd1 \in Seq(Readings) /\ Sound(y, Reading(rd1), used) /\ Stacked(y, bs1, rd1, used)
  BY <1>3, <1>5, <1>8, <1>9, <1>13, <1>16, ClosedLine
<1>18. /\ y \in Stances /\ y.scope = b.outer /\ y.closers = u.closers /\ y.frames = u.frames /\ y.letters = u.letters
       /\ y.names = u.names /\ own \in DOMAIN y.lines
       /\ y.lines[own].under = b.outer /\ y.lines[own].about = b.about
       /\ AllAt(y.facts, y.scope) /\ DOMAIN y.facts = DOMAIN u.facts \cup {claim}
       /\ \A l \in DOMAIN u.lines : l # own => y.lines[l] = u.lines[l]
  BY <1>9, <1>13 DEF Kept
<1>19. \A other \in DOMAIN R : CarriedIn(other, y.lines, y.facts) = b.outer
  <2>1. SUFFICES ASSUME NEW other \in DOMAIN R
                 PROVE  CarriedIn(other, y.lines, y.facts) = b.outer
    OBVIOUS
  <2>2. Numbered(other, b.number - 1) /\ other \in DOMAIN b.lines /\ b.lines[other].claim \in DOMAIN b.outside
    BY <1>1 DEF Around, Viewed, Inscribed, InscribedLine
  <2>3. other # own
    BY <1>3, <1>10, <2>2, LabelFresh
  <2>4. y.lines[other].claim \in DOMAIN y.facts
    BY <1>9, <1>18, <2>2, <2>3
  <2> QED
    BY <1>18, <2>4 DEF CarriedIn, AllAt
<1>20. Become(y)
  <2>1. x \in Stances
    BY <1>6 DEF Shuts
  <2>2. b.frame <= Len(x.frames) /\ b.lettersAt <= Len(x.letters) /\ b.openedAt <= Len(x.closers)
    <3>1. Framed(x.frames, x.scope) /\ IsPrefix(b.outer, x.scope) /\ x.letters = letters /\ b.openedAt <= Len(x.closers)
      BY <1>6 DEF Shuts
    <3>2. Len(b.outer) <= Len(x.scope)
      BY <1>1, <2>1, <3>1, BlockIs, StanceIs, PrefixIs
    <3>3. b.frame = Len(b.outer) + 1 /\ Len(x.frames) = Len(x.scope) + 1 /\ Len(b.outer) \in Nat /\ Len(x.scope) \in Nat
      <4>1. b.outer \in Scopes
        BY <1>1, BlockIs
      <4> QED
        BY <1>1, <2>1, <3>1, <4>1, StanceIs DEF Shaped, Framed, Scopes
    <3>4. b.lettersAt <= Len(letters)
      BY <1>1, InvIs DEF Beneath, ViewNow
    <3> QED
      BY <3>1, <3>2, <3>3, <3>4
  <2>3. /\ BackAt(x, u, b) /\ u.names = b.named /\ u.closers = SubSeq(x.closers, 1, b.openedAt)
    BY <1>1, <1>2, <2>1, <2>2, GoneBackIs
  <2>4. u.frames = SubSeq(x.frames, 1, b.frame) /\ u.letters = SubSeq(x.letters, 1, b.lettersAt)
    BY <2>3 DEF BackAt
  <2>5. y.facts = With(b.outside, claim, b.outer) /\ y.lines = With(b.lines, own, Line(claim, b.outer, b.about))
    <3>1. y.facts = With(u.facts, claim, u.scope) /\ y.lines = With(u.lines, own, Line(claim, u.scope, b.about))
      BY <1>4, <1>9 DEF Stances
    <3> QED
      BY <1>9, <3>1
  <2> QED
    BY <1>18, <2>1, <2>3, <2>4, <2>5, ClosedBecomesIs
<1> QED
  BY <1>7, <1>9, <1>11, <1>14, <1>15, <1>16, <1>17, <1>18, <1>19, <1>20 DEF ClosesTo

\* A label read outside the innermost block is one the block itself reads.
LEMMA OutsideRead ==
  ASSUME IFrames, NEW k, NEW R, NEW b, InTop(k, R, b), NEW other \in UNION {DOMAIN read[i] : i \in 1 .. Len(read) - 1}
  PROVE  other \in DOMAIN R
<1>1. k \in Nat /\ Len(read) = k + 1 /\ R = ReadingAt(read, k)
  BY DEF InTop
<1>2. read \in Seq(Readings)
  BY InvIs
<1>3. PICK i \in 1 .. Len(read) - 1 : other \in DOMAIN read[i]
  OBVIOUS
<1>4. i \in 1 .. k /\ k \in 0 .. Len(read)
  BY <1>1
<1>5. PICK f : f = SubSeq(read, 1, k)
  OBVIOUS
<1>6. f \in Seq(Readings) /\ Len(f) = k /\ f[i] = read[i]
  BY <1>2, <1>4, <1>5, FirstsAre
<1>7. other \in DOMAIN Reading(f)
  BY <1>3, <1>4, <1>6, ReadingIs
<1> QED
  BY <1>1, <1>5, <1>7 DEF ReadingAt

\* A block closed keeps the invariant; where its step contradicts a line,
\* the line stands where the block around it does.
LEMMA CloseBlockHolds ==
  ASSUME IFrames, CloseBlock
  PROVE  IFrames'
<1>1. blocks # <<>> /\ MayClose(Top) /\ made = Nothing /\ used' = used /\ fresh' = fresh /\ made' = made /\ ~fresh
  BY DEF CloseBlock, MayClose
<1>2. PICK k, b, R : k = Len(blocks) /\ b = Top /\ R = ReadingAt(read, k)
  OBVIOUS
<1>3. InTop(k, R, b)
  BY <1>1, <1>2, TopIs
<1>4. PICK x, claim, own : x = EndCase(SettleClaimed(Now, 2)) /\ claim = <<"line", b.number>> /\ own = <<"step", b.number>>
  OBVIOUS
<1>5. PICK bs, rd : bs = Front(blocks) /\ rd = Front(read)
  OBVIOUS
<1>6. PICK bs1, rd1 : bs1 = HandUp(b, bs) /\ rd1 = Noted(rd, own, claim)
  OBVIOUS
<1>7. PICK u : GoneBack(x, u, b)
  BY DEF GoneBack
<1>8. PICK y : y = [u EXCEPT !.facts = With(@, claim, u.scope), !.lines = With(@, own, Line(claim, u.scope, b.about))]
  OBVIOUS
<1>9. Closed(k, b, x, u, y, bs, bs1, rd, rd1, claim, own)
  BY <1>4, <1>5, <1>6, <1>7, <1>8 DEF Closed
<1>10. ClosedBecomes(x, b, claim, own)
  BY <1>2, <1>4 DEF CloseBlock, ClosedBecomes
<1>11. ClosesTo(b, x, y, bs, bs1, rd, rd1, own, R)
  BY <1>1, <1>2, <1>3, <1>9, <1>10, ClosedIs
<1>12. blocks' = bs1 /\ read' = rd1 /\ last' = own
  BY <1>2, <1>4, <1>5, <1>6 DEF CloseBlock
<1>13. refused' = (ended = "unreached" \/ ~Closes(b, x))
  BY <1>2, <1>4 DEF CloseBlock
<1>14. ended' = IF ~b.against THEN "no" ELSE IF Last(bs).by = "contradiction" THEN "reached" ELSE "unreached"
  BY <1>2, <1>5 DEF CloseBlock
<1>15. /\ Become(y) /\ y \in Stances /\ Sound(y, Reading(rd1), used) /\ Stacked(y, bs1, rd1, used)
       /\ bs1 \in Seq(BlockSet) /\ rd1 \in Seq(Readings) /\ own \in Labels
       /\ y.scope = b.outer /\ own \in DOMAIN y.lines
       /\ y.lines[own].under = b.outer /\ y.lines[own].about = b.about
  BY <1>11 DEF ClosesTo
<1>16. scope' = y.scope /\ facts' = y.facts /\ lines' = y.lines /\ closers' = y.closers
  BY <1>15 DEF Become
<1>17. Outsides(k, R, b, bs, rd)
  BY <1>3, <1>5, OutsidesAre
<1>18. b.against => bs # <<>> /\ Last(bs).by = "contradiction" /\ Len(bs) > 0
  <2>1. b.against => Len(bs) > 0 /\ bs[Len(bs)].by = "contradiction"
    BY <1>17 DEF Outsides
  <2>2. bs \in Seq(BlockSet)
    BY <1>17 DEF Outsides
  <2>3. Len(bs) > 0 => bs # <<>> /\ Last(bs) = bs[Len(bs)]
    <3>1. Len(bs) > 0 => Last(bs) = bs[Len(bs)]
      BY <2>2, LastIs
    <3>2. Len(bs) > 0 => bs # <<>>
      BY <2>2, EmptySeq
    <3> QED
      BY <3>1, <3>2
  <2> QED
    BY <2>1, <2>3
<1>19. used \in Nat /\ used <= MaxIds /\ b \in BlockSet /\ Shaped(b, R) /\ b.number <= used
  BY <1>3, InvIs DEF InTop, Beneath, ViewNow
<1>20. PICK end : end = [under |-> b.outer, about |-> b.about]
  OBVIOUS
<1>21. EndsSo(bs, bs1, rd, end)
  BY <1>11, <1>20 DEF ClosesTo
<1>22. Done'
  <2>1. own \in DOMAIN lines' /\ lines'[own].under = scope' /\ lines'[own].about = b.about
    BY <1>15, <1>16
  <2>2. b.about \in 0 .. used
    <3>1. b.about \in Nat /\ b.number \in Nat /\ b.about < b.number
      BY <1>19, BlockIs DEF Shaped
    <3> QED
      BY <1>19, <3>1
  <2>3. bs1 # <<>> => /\ Parted(Last(bs1)) => Last(bs1).entered \in DOMAIN Last(bs1).parts
                                              /\ Last(bs1).parts[Last(bs1).entered] = end
    <3>1. SUFFICES ASSUME bs1 # <<>>, Parted(Last(bs1))
                   PROVE  Last(bs1).entered \in DOMAIN Last(bs1).parts /\ Last(bs1).parts[Last(bs1).entered] = end
      OBVIOUS
    <3>2. /\ SameBut(Last(bs), Last(bs1))
          /\ Parted(Last(bs)) => Last(bs1).entered \in DOMAIN Last(bs1).parts /\ Last(bs1).parts[Last(bs1).entered] = end
      BY <1>21, <3>1, EndsSoTop
    <3>3. Parted(Last(bs))
      BY <3>1, <3>2 DEF SameBut, Same, Parted
    <3> QED
      BY <3>2, <3>3
  <2>4. end.under = scope' /\ end.about = lines'[own].about
    BY <1>15, <1>16, <1>20, <2>1
  <2> QED
    BY <1>1, <1>12, <2>1, <2>2, <2>3, <2>4 DEF Done, Top
<1>23. Reached'
  <2>1. CASE ~b.against
    <3>1. ended' = "no"
      BY <1>14, <2>1
    <3> QED
      BY <3>1 DEF Reached
  <2>2. CASE b.against
    <3>1. ended' = "reached" /\ bs # <<>> /\ Last(bs).by = "contradiction" /\ Len(bs) > 0
      BY <1>14, <1>18, <2>2
    <3>2. Len(bs1) = Len(bs) /\ bs \in Seq(BlockSet) /\ bs1 \in Seq(BlockSet)
      BY <1>21 DEF EndsSo, KeptSo
    <3>3. bs1 # <<>>
      BY <3>1, <3>2
    <3>4. Last(bs1).by = "contradiction"
      BY <1>21, <3>1, <3>3, EndsSoTop DEF SameBut, Same
    <3>5. contradicted' = scope'
      <4>1. PICK other \in UNION {DOMAIN read[i] : i \in 1 .. Len(read) - 1} :
              contradicted' = CarriedIn(other, With(b.lines, own, Line(claim, b.outer, b.about)), With(b.outside, claim, b.outer))
        BY <1>2, <1>4, <1>5, <2>2, <3>1 DEF CloseBlock
      <4>2. other \in DOMAIN R
        BY <1>3, OutsideRead
      <4>3. y.lines = With(b.lines, own, Line(claim, b.outer, b.about)) /\ y.facts = With(b.outside, claim, b.outer)
        BY <1>10, <1>16 DEF ClosedBecomes, Become
      <4> QED
        BY <1>11, <1>15, <1>16, <4>1, <4>2, <4>3 DEF ClosesTo
    <3> QED
      BY <1>1, <1>12, <3>1, <3>3, <3>4, <3>5 DEF Reached, Top
  <2> QED
    BY <2>1, <2>2
<1>24. ~refused' /\ (made \in {Nothing, <<>>})'
  <2>1. Reached /\ Closes(b, x)
    BY <1>11 DEF IFrames, FramesInv, ClosesTo
  <2> QED
    BY <1>1, <1>13, <2>1 DEF Reached
<1>25. NamesGiven'
  <2>1. \A i \in 1 .. Len(closers) : closers[i].name <= used
    BY DEF IFrames, NamesGiven
  <2>2. Len(y.closers) <= Len(closers) /\ \A i \in 1 .. Len(y.closers) : y.closers[i] = closers[i]
    BY <1>11 DEF ClosesTo
  <2>3. Len(y.closers) \in Nat /\ Len(closers) \in Nat
    BY <1>15, InvIs, StanceIs
  <2>4. \A i \in 1 .. Len(y.closers) : y.closers[i].name <= used
    BY <2>1, <2>2, <2>3
  <2> QED
    BY <1>1, <1>16, <2>4 DEF NamesGiven
<1>26. last' \in Labels
  BY <1>12, <1>15
<1> QED
  BY <1>1, <1>12, <1>15, <1>19, <1>22, <1>23, <1>24, <1>25, <1>26, Assemble

(***************************************************************************)
(* A page from its first step to its last                                  *)
(***************************************************************************)

\* Nothing of what a step changes is changed.
LEMMA StillHolds ==
  ASSUME IFrames, UNCHANGED <<frames, scope, facts, lines, names, letters, closers, blocks, last,
                              contradicted, used, fresh, ended, read, refused>>, (made \in {Nothing, <<>>})'
  PROVE  IFrames'
<1>1. /\ Now \in Stances /\ blocks \in Seq(BlockSet) /\ read \in Seq(Readings) /\ used \in Nat /\ used <= MaxIds
      /\ Sound(Now, Reading(read), used) /\ Stacked(Now, blocks, read, used)
  BY InvIs
<1>2. Become(Now)
  BY DEF Become, Now
<1>3. Done /\ Reached /\ ~refused /\ NamesGiven /\ last \in Labels
  BY DEF IFrames, FramesInv, FTyped
<1>4. Done'
  BY <1>3 DEF Done, Top
<1>5. Reached'
  BY <1>3 DEF Reached, Top
<1>6. NamesGiven'
  BY <1>3 DEF NamesGiven
<1> QED
  BY <1>1, <1>2, <1>3, <1>4, <1>5, <1>6, Assemble

\* The page's end keeps the invariant: what the proof's obtains and lets
\* raised is discharged.
LEMMA FinishHolds ==
  ASSUME IFrames, Finish
  PROVE  IFrames'
<1>1. /\ blocks = <<>> /\ ~fresh /\ made' = Discharged(closers, lines[last].under, 0)
      /\ UNCHANGED <<frames, scope, facts, lines, names, letters, closers, blocks, last,
                     contradicted, used, fresh, ended, read, refused>>
  BY DEF Finish
<1>2. lines[last].under = scope
  <2>1. Done
    BY DEF IFrames, FramesInv
  <2> QED
    BY <1>1, <2>1 DEF Done
<1>3. /\ closers \in Seq(CloserSet) /\ Len(closers) \in Nat /\ Now.closers = closers /\ Now.scope = scope
      /\ Stacked(Now, blocks, read, used)
  BY InvIs
<1>4. Leads(closers, <<>>, scope, 0, Len(closers)) /\ Later(closers, 0, Len(closers), 0)
  <2>1. Len(blocks) = 0 /\ 1 \notin DOMAIN blocks
    BY <1>1
  <2>2. \A d \in 0 .. Len(blocks) :
          Closing(closers, From(blocks, d), Low(blocks, d), Since(blocks, d), ViewAt(Now, blocks, used, d + 1))
    BY <1>3 DEF Stacked
  <2>3. Closing(closers, From(blocks, 0), Low(blocks, 0), Since(blocks, 0), ViewAt(Now, blocks, used, 1))
    <3>1. 0 \in 0 .. Len(blocks) /\ 0 + 1 = 1
      BY <2>1
    <3> QED
      BY <2>2, <3>1
  <2>4. ViewAt(Now, blocks, used, 1) = ViewNow(Now, used)
    BY <2>1 DEF ViewAt
  <2>5. From(blocks, 0) = <<>> /\ Low(blocks, 0) = 0 /\ Since(blocks, 0) = 0
    BY DEF From, Low, Since
  <2> QED
    BY <1>3, <2>3, <2>4, <2>5 DEF Closing, ViewNow
<1>5. \A i \in 0 + 1 .. Len(closers) : closers[i].name # 0
  <2>1. \A i \in 0 + 1 .. Len(closers) : closers[i] \in CloserSet /\ closers[i].name > 0
    BY <1>3, <1>4 DEF Later
  <2> QED
    BY <2>1 DEF CloserSet
<1>6. PICK low \in Nat : low = 0
  OBVIOUS
<1>7. Discharged(After(closers, low), scope, 0) = <<>>
  BY <1>3, <1>4, <1>5, <1>6, DischargeIs
<1>8. After(closers, low) = closers
  <2>1. After(closers, low) = SubSeq(closers, 1, Len(closers))
    BY <1>6 DEF After
  <2> QED
    BY <1>3, <2>1
<1>9. made' = <<>>
  BY <1>1, <1>2, <1>7, <1>8
<1> QED
  BY <1>1, <1>9, StillHolds

\* The invariant holds as a page begins.
LEMMA InitHolds ==
  ASSUME InitFrames
  PROVE  IFrames
<1>1. PICK hyp, none, known, line, ls, m : /\ hyp = <<"hyp", 0>> /\ none = <<>> /\ known = Only(hyp, none)
                                           /\ line = Line(hyp, none, 0) /\ ls = Only(Hypothesis, line) /\ m = Only(Hypothesis, hyp)
  OBVIOUS
<1>2. hyp \in Saids /\ Plain(hyp) = hyp
  BY <1>1 DEF Saids, Plain
<1>3. none \in Scopes /\ Len(none) = 0 /\ none \in Seq(LetterSet) /\ none \in Seq(CloserSet) /\ none \in Seq(BlockSet)
      /\ none \in Saids \cup {<<>>}
  BY <1>1 DEF Scopes
<1>4. known \in KnownSet /\ DOMAIN known = {hyp} /\ known[hyp] = none
  BY <1>1, <1>2, <1>3, OnlyIn, OnlyIs, ZenonT(60) DEF KnownSet
<1>5. line \in LineSet /\ line.claim = hyp /\ line.under = none /\ line.about = 0
  BY <1>1, <1>2, <1>3, LineIs
<1>6. Hypothesis \in Labels
  BY DEF Labels
<1>7. ls \in Lines /\ DOMAIN ls = {Hypothesis} /\ ls[Hypothesis] = line
  BY <1>1, <1>5, <1>6, OnlyIn, OnlyIs DEF Lines
<1>8. m \in Readings /\ DOMAIN m = {Hypothesis} /\ m[Hypothesis] = hyp
  BY <1>1, <1>2, <1>6, OnlyIn, OnlyIs DEF Readings
<1>9. PICK frame : frame = [scope |-> none, added |-> none, known |-> known]
  OBVIOUS
<1>10. frame \in FrameSet /\ frame.scope = none /\ frame.known = known
  BY <1>3, <1>4, <1>9 DEF FrameSet
<1>11. /\ frames = <<frame>> /\ scope = none /\ facts = known /\ lines = ls /\ read = <<m>>
       /\ names = {} /\ letters = none /\ closers = none /\ blocks = none
       /\ last = Hypothesis /\ used = 0 /\ fresh = TRUE /\ ended = "no" /\ made = Nothing /\ refused = FALSE
  BY <1>1, <1>9 DEF InitFrames
<1>12. frames \in Seq(FrameSet) /\ Len(frames) = 1 /\ frames[1] = frame
  BY <1>10, <1>11
<1>13. read \in Seq(Readings) /\ Len(read) = 1 /\ read[1] = m
  BY <1>8, <1>11
<1>14. PICK w : w = Now
  OBVIOUS
<1>15. w = [frames |-> frames, scope |-> none, facts |-> known, lines |-> ls, names |-> {}, letters |-> none,
            closers |-> none, opened |-> none, b |-> none]
  BY <1>1, <1>11, <1>14 DEF Now
<1>16. w \in Stances
  <2>1. {} \in SUBSET Nat /\ none \in BlockSet \cup {<<>>}
    BY <1>1
  <2> QED
    BY <1>3, <1>4, <1>7, <1>12, <1>15, <2>1 DEF Stances
<1>17. PICK R : R = Reading(read)
  OBVIOUS
<1>18. DOMAIN R = {Hypothesis} /\ R[Hypothesis] = hyp
  <2>1. \A label : label \in DOMAIN R <=> \E i \in 1 .. Len(read) : label \in DOMAIN read[i]
    BY <1>13, <1>17, ReadingIs
  <2>2. \A label : label \in DOMAIN R <=> label \in DOMAIN m
    BY <1>13, <2>1
  <2>3. \A label, i : /\ i \in 1 .. Len(read) /\ label \in DOMAIN read[i]
                      /\ \A j \in 1 .. Len(read) : label \in DOMAIN read[j] => j <= i
                      => R[label] = read[i][label]
    BY <1>13, <1>17, ReadingIs
  <2>4. R[Hypothesis] = m[Hypothesis]
    <3>1. 1 \in 1 .. Len(read) /\ Hypothesis \in DOMAIN read[1] /\ \A j \in 1 .. Len(read) : j <= 1
      BY <1>8, <1>13
    <3> QED
      BY <1>13, <2>3, <3>1
  <2> QED
    BY <1>8, <2>2, <2>4
<1>19. Sound(w, R, used)
  <2>1. w.frames = frames /\ w.scope = none /\ w.facts = known /\ w.lines = ls /\ w.letters = none
    BY <1>15
  <2>2. AllAt(known, none)
    BY <1>4 DEF AllAt
  <2>3. Framed(frames, none)
    <3>1. SubSeq(none, 1, 0) = none
      BY <1>1
    <3>2. FrameIs(frame, none, 1)
      BY <1>3, <1>10, <2>2, <3>1 DEF FrameIs
    <3>3. \A i \in 1 .. Len(frames) : i = 1
      BY <1>12
    <3> QED
      BY <1>3, <1>12, <3>2, <3>3 DEF Framed
  <2>4. IsPrefix(none, none)
    BY <1>3, PrefixOfConcat, PrefixIs
  <2>5. Lettered(none, 0, none)
    BY DEF Lettered
  <2>6. Inscribed(frames, none, known, ls, R, used)
    <3>1. Numbered(Hypothesis, used)
      BY DEF Numbered
    <3>2. InscribedLine(frames, none, known, line, hyp)
      BY <1>2, <1>3, <1>4, <1>5 DEF InscribedLine
    <3> QED
      BY <1>7, <1>18, <3>1, <3>2 DEF Inscribed
  <2> QED
    BY <1>3, <2>1, <2>2, <2>3, <2>4, <2>5, <2>6 DEF Sound, Viewed
<1>20. Stacked(w, blocks, read, used)
  <2>1. Len(blocks) = 0 /\ 1 \notin DOMAIN blocks
    BY <1>1, <1>11
  <2>2. ViewAt(w, blocks, used, 1) = ViewNow(w, used)
    BY <2>1 DEF ViewAt
  <2>3. From(blocks, 0) = none /\ Low(blocks, 0) = 0 /\ Since(blocks, 0) = 0
    BY <1>1 DEF From, Low, Since
  <2>4. Closing(none, none, 0, 0, ViewNow(w, used))
    <3>1. Leads(none, none, none, 0, 0)
      BY <1>3, LeadsNowhere
    <3>2. Later(none, 0, 0, 0)
      BY DEF Later
    <3>3. ViewNow(w, used).scope = none /\ ViewNow(w, used).closers = 0
      BY <1>3, <1>15 DEF ViewNow
    <3> QED
      BY <3>1, <3>2, <3>3 DEF Closing
  <2>5. w.closers = none
    BY <1>15
  <2>6. ASSUME NEW d \in 0 .. Len(blocks)
        PROVE  Closing(w.closers, From(blocks, d), Low(blocks, d), Since(blocks, d), ViewAt(w, blocks, used, d + 1))
    <3>1. d = 0 /\ d + 1 = 1
      BY <2>1
    <3> QED
      BY <2>2, <2>3, <2>4, <2>5, <3>1
  <2>7. 1 .. Len(blocks) = {}
    BY <2>1
  <2> QED
    BY <1>13, <2>1, <2>6, <2>7 DEF Stacked
<1>21. FTyped
  BY <1>3, <1>6, <1>11, <1>13, <1>14, <1>16 DEF FTyped
<1>22. Done /\ Reached /\ ~refused /\ made \in {Nothing, <<>>}
  BY <1>11 DEF Done, Reached
<1>23. NamesGiven
  BY <1>3, <1>11 DEF NamesGiven
<1>24. used \in 0 .. MaxIds
  BY <1>11, FramesAssumption
<1> QED
  BY <1>14, <1>17, <1>19, <1>20, <1>21, <1>22, <1>23, <1>24 DEF IFrames, FramesInv

\* Every step keeps what must hold between two steps.
LEMMA NextHolds ==
  ASSUME ~OwnersEnd, ~Shadowing, IFrames, [NextFrames]_framesVars
  PROVE  IFrames'
<1>1. CASE TakeStep
  BY <1>1, TakeStepHolds
<1>2. CASE TakeContradicting
  BY <1>2, TakeContradictingHolds
<1>3. CASE Obtain
  BY <1>3, ObtainHolds
<1>4. CASE Define
  BY <1>4, DefineHolds
<1>5. CASE OpenContradiction
  BY <1>5, OpenContradictionHolds
<1>6. CASE OpenProof
  BY <1>6, OpenProofHolds
<1>7. CASE OpenCases
  BY <1>7, OpenCasesHolds
<1>8. CASE OpenInduction
  BY <1>8, OpenInductionHolds
<1>9. CASE EnterPart
  BY <1>9, EnterPartHolds
<1>10. CASE CloseBlock
  BY <1>10, CloseBlockHolds
<1>11. CASE Finish
  BY <1>11, FinishHolds
<1>12. CASE UNCHANGED framesVars
  <2>1. /\ UNCHANGED <<frames, scope, facts, lines, names, letters, closers, blocks, last,
                       contradicted, used, fresh, ended, read, refused>>
        /\ made' = made
    BY <1>12 DEF framesVars
  <2>2. made \in {Nothing, <<>>}
    BY DEF IFrames, FramesInv
  <2>3. made' \in {Nothing, <<>>}
    BY <2>1, <2>2
  <2> QED
    BY <2>1, <2>3, StillHolds
<1> QED
  BY <1>1, <1>2, <1>3, <1>4, <1>5, <1>6, <1>7, <1>8, <1>9, <1>10, <1>11, <1>12 DEF NextFrames

\* The scope of a frame widened by what the next frame adds is the next one's.
LEMMA FrameAfter ==
  ASSUME NEW fs \in Seq(FrameSet), NEW at \in Scopes, Framed(fs, at), NEW k \in 1 .. Len(fs) - 1
  PROVE  Weakened(fs[k].scope, fs[k].scope, fs[k + 1].added) = fs[k + 1].scope
<1>1. Len(fs) \in Nat /\ Len(at) \in Nat /\ Len(fs) = Len(at) + 1
  BY FramedIs DEF Framed
<1>2. PICK i \in 1 .. Len(at) : i = k /\ k + 1 \in 1 .. Len(fs) /\ k \in 1 .. Len(fs)
  BY <1>1
<1>3. PICK j \in Nat : j = k + 1 /\ j > 1 /\ j - 1 = k
  BY <1>1
<1>4. FrameIs(fs[k], at, k) /\ FrameIs(fs[j], at, j)
  BY <1>2, <1>3 DEF Framed
<1>5. fs[j].added = at[k] /\ fs[j].scope = SubSeq(at, 1, k) /\ fs[k].scope = SubSeq(at, 1, k - 1)
  BY <1>3, <1>4 DEF FrameIs
<1>6. Append(SubSeq(at, 1, k - 1), at[k]) = SubSeq(at, 1, k)
  <2> DEFINE s == SubSeq(at, 1, k - 1)  t == SubSeq(at, 1, k)  u == Append(s, at[k])
  <2>1. k - 1 \in 0 .. Len(at) /\ k \in 0 .. Len(at) /\ k \in 1 .. Len(at) /\ at \in Seq(Saids)
    BY <1>1, <1>2 DEF Scopes
  <2>2. PICK k1 \in Nat : k1 = k - 1 /\ k1 \in 0 .. Len(at)
    BY <2>1
  <2>3. s \in Seq(Saids) /\ Len(s) = k1 /\ \A l \in 1 .. k1 : s[l] = at[l]
    BY <2>1, <2>2, FirstsAre
  <2>4. t \in Seq(Saids) /\ Len(t) = k /\ \A l \in 1 .. k : t[l] = at[l]
    BY <2>1, FirstsAre
  <2>5. at[k] \in Saids
    BY <2>1, ElementOfSeq
  <2> HIDE DEF s, t
  <2>6. u \in Seq(Saids) /\ Len(u) = k1 + 1 /\ u[k1 + 1] = at[k] /\ \A l \in 1 .. k1 : u[l] = s[l]
    BY <2>3, <2>5, AppendProperties
  <2> HIDE DEF u
  <2>7. Len(u) = Len(t) /\ \A l \in 1 .. Len(u) : u[l] = t[l]
    <3>1. k1 + 1 = k /\ k \in 1 .. k /\ Len(u) = k /\ u[k] = at[k] /\ t[k] = at[k]
      BY <2>1, <2>2, <2>4, <2>6
    <3>2. ASSUME NEW l \in 1 .. k, l # k PROVE u[l] = t[l]
      <4>1. l \in 1 .. k1
        BY <1>1, <2>2, <3>2
      <4>2. u[l] = s[l] /\ s[l] = at[l] /\ t[l] = at[l]
        BY <2>3, <2>4, <2>6, <4>1
      <4> QED
        BY <4>2
    <3> QED
      BY <2>4, <3>1, <3>2
  <2>8. u = t
    BY <2>4, <2>6, <2>7, SeqEqual
  <2> QED
    BY <2>8 DEF u, s, t
<1> QED
  BY <1>3, <1>5, <1>6 DEF Weakened

\* Carried in from any frame, a proof that stands there stands at the scope.
LEMMA CarryIs ==
  ASSUME frames \in Seq(FrameSet), scope \in Scopes, Framed(frames, scope), NEW index \in 1 .. Len(frames)
  PROVE  Carry(frames[index].scope, index) = scope
<1> DEFINE h == Len(frames)
           into(under, k) == Weakened(under, frames[k].scope, frames[k + 1].added)
           Body(f, k) == IF k = index THEN frames[index].scope ELSE into(f[k - 1], k - 1)
           over == CHOOSE f : f = [k \in index .. Len(frames) |-> Body(f, k)]
           Stand(k) == frames[k].scope
           g == [k \in index .. h |-> Stand(k)]
<1>1. h \in Nat /\ Stand(h) = scope
  <2>1. Last(frames) = frames[Len(frames)]
    BY DEF Last
  <2> QED
    BY <2>1, FramedIs
<1>2. Carry(frames[index].scope, index) = over[Len(frames)]
  BY DEF Carry
<1>3. ASSUME NEW k \in index + 1 .. h PROVE into(Stand(k - 1), k - 1) = Stand(k)
  <2>1. PICK i \in 1 .. Len(frames) - 1 : i = k - 1 /\ i + 1 = k
    BY <1>1
  <2> QED
    BY <2>1, FrameAfter
<1>4. g = [k \in index .. h |-> Body(g, k)]
  <2>1. ASSUME NEW k \in index .. h PROVE g[k] = Body(g, k)
    <3>1. CASE k = index
      BY <3>1
    <3>2. CASE k # index
      <4>1. k \in index + 1 .. h /\ k - 1 \in index .. h
        BY <1>1, <3>2
      <4>2. g[k - 1] = Stand(k - 1) /\ g[k] = Stand(k)
        BY <4>1
      <4> HIDE DEF g, Stand, into
      <4> QED
        BY <1>3, <3>2, <4>1, <4>2
    <3> QED
      BY <3>1, <3>2
  <2> HIDE DEF Body, Stand
  <2> QED
    BY <2>1
<1>5. over = [k \in index .. h |-> Body(over, k)]
  <2> HIDE DEF Body, g, h
  <2>1. \E f : f = [k \in index .. Len(frames) |-> Body(f, k)]
    BY <1>4 DEF h
  <2> QED
    BY <2>1 DEF h
<1>6. \A k \in index .. h : over[k] = Body(over, k)
  BY <1>5
<1> HIDE DEF over
<1> DEFINE T == {m \in Nat : index + m <= h => over[index + m] = Stand(index + m)}
<1>7. 0 \in T
  <2>1. index \in index .. h /\ index + 0 = index
    BY <1>1
  <2>2. over[index] = Stand(index)
    BY <1>6, <2>1
  <2> QED
    BY <2>1, <2>2
<1>8. ASSUME NEW m \in Nat, m \in T PROVE m + 1 \in T
  <2> SUFFICES ASSUME index + (m + 1) <= h PROVE over[index + (m + 1)] = Stand(index + (m + 1))
    OBVIOUS
  <2>1. PICK k : k = index + (m + 1) /\ k \in index + 1 .. h /\ k \in index .. h /\ k # index /\ k - 1 = index + m /\ index + m <= h
    BY <1>1
  <2>2. over[k] = into(over[k - 1], k - 1)
    BY <1>6, <2>1
  <2>3. over[k - 1] = Stand(k - 1)
    BY <1>8, <2>1
  <2> HIDE DEF Stand, into
  <2> QED
    BY <1>3, <2>1, <2>2, <2>3
<1> HIDE DEF T
<1>9. \A m \in Nat : m \in T
  BY <1>7, <1>8, SetInduction
<1>10. over[h] = Stand(h)
  <2>1. h - index \in Nat /\ index + (h - index) = h
    BY <1>1
  <2> QED
    BY <1>9, <2>1 DEF T
<1> QED
  BY <1>1, <1>2, <1>10

\* What must hold between two steps says each of the three.
LEMMA FramesSay ==
  ASSUME IFrames
  PROVE  KernelAccepts /\ InScope /\ FramesReach
<1>1. ~refused /\ made \in {Nothing, <<>>}
  BY DEF IFrames, FramesInv
<1>2. KernelAccepts
  BY <1>1 DEF KernelAccepts
<1>3. InScope
  BY CitedIs DEF InScope
<1>4. /\ Framed(frames, scope) /\ AllAt(facts, scope) /\ scope \in Scopes /\ Sound(Now, Reading(read), used)
      /\ Now.scope = scope /\ Now.facts = facts /\ Now.lines = lines /\ Now.frames = frames
  BY InvIs
<1>5. frames \in Seq(FrameSet)
  BY NowIs DEF IFrames
<1>6. /\ Len(frames) \in Nat /\ Len(frames) = Len(scope) + 1 /\ Len(scope) \in Nat /\ Last(frames).scope = scope
      /\ DOMAIN frames = 1 .. Len(frames)
  BY <1>4, <1>5, FramedIs, LenProperties DEF Framed
<1>7. ASSUME NEW i \in 1 .. Len(frames)
      PROVE  \A claim \in DOMAIN FramesFacts(i) : FramesFacts(i)[claim] = frames[i].scope
  <2>1. CASE i = Len(frames)
    BY <1>4, <1>6, <2>1 DEF FramesFacts, AllAt, Last
  <2>2. CASE i # Len(frames)
    <3>1. FrameIs(frames[i], scope, i)
      BY <1>4, <1>7 DEF Framed
    <3> QED
      BY <2>2, <3>1 DEF FramesFacts, FrameIs, AllAt
  <2> QED
    BY <2>1, <2>2
<1>8. ASSUME NEW i \in 1 .. Len(frames), NEW label \in Citable, lines[label].under = frames[i].scope
      PROVE  lines[label].claim \in DOMAIN FramesFacts(i)
  <2>1. CASE i = Len(frames)
    BY <2>1, CitedIs DEF FramesFacts
  <2>2. CASE i # Len(frames)
    <3>1. i \in 1 .. Len(scope)
      BY <1>6, <2>2
    <3>2. label \in DOMAIN Reading(read)
      BY CitedIs
    <3>3. InscribedLine(frames, scope, facts, lines[label], Reading(read)[label])
      BY <1>4, <3>2 DEF Sound, Viewed, Inscribed
    <3> QED
      BY <1>8, <2>2, <3>1, <3>3 DEF FramesFacts, InscribedLine
  <2> QED
    BY <2>1, <2>2
<1>9. \A i \in 1 .. Len(frames) : Carry(frames[i].scope, i) = scope
  BY <1>4, <1>5, CarryIs
<1>10. FramesReach
  BY <1>6, <1>7, <1>8, <1>9 DEF FramesReach
<1> QED
  BY <1>2, <1>3, <1>10

\* Of a page that gives no part a label in use outside its block, and ends no
\* case or proof block by an owner that contradicts a line, this holds between
\* any two steps of elaborate's main loop.
THEOREM ScopesStand ==
  ASSUME ~Shadowing, ~OwnersEnd
  PROVE  SpecFrames => []IFrames
<1>1. InitFrames => IFrames
  BY InitHolds
<1>2. IFrames /\ [NextFrames]_framesVars => IFrames'
  BY NextHolds
<1> QED
  BY <1>1, <1>2, PTL DEF SpecFrames

\* Of such a page, however long and however its blocks nest, every block closes
\* with the lemma of its kind and the theorem's proof stands under its
\* hypotheses alone (close_block and the end of elaborate's main loop).
THEOREM KernelTakesEveryPage ==
  ASSUME ~Shadowing, ~OwnersEnd
  PROVE  SpecFrames => []KernelAccepts
<1>1. IFrames => KernelAccepts
  BY FramesSay
<1> QED
  BY <1>1, ScopesStand, PTL

\* Of such a page, a label is read as the checker reads it and its proof stands
\* where the step citing it does (cited_line, and Block's lines).
THEOREM LabelsStandInScope ==
  ASSUME ~Shadowing, ~OwnersEnd
  PROVE  SpecFrames => []InScope
<1>1. IFrames => InScope
  BY FramesSay
<1> QED
  BY <1>1, ScopesStand, PTL

\* Of such a page, a proof found at any frame is carried to where the next step
\* stands, and every frame knows what was proved there (widen_to,
\* frames_facts, carry).
THEOREM FramesReachEveryScope ==
  ASSUME ~Shadowing, ~OwnersEnd
  PROVE  SpecFrames => []FramesReach
<1>1. IFrames => FramesReach
  BY FramesSay
<1> QED
  BY <1>1, ScopesStand, PTL

=============================================================================
