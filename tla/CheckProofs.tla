----------------------------- MODULE CheckProofs -----------------------------
(***************************************************************************)
(* Theorems about InOrder, for every number of items, threads and cores,   *)
(* and about Incremental: for every corpus, any way its proof files import *)
(* from one another, and any number of edits, a corpus checked against a   *)
(* kept clean reading is said what it is said read afresh, a theorem an    *)
(* edit does not reach reads what it read, and whether an edit is reported *)
(* run_edited answers as run does.  And about SharedCheck: for             *)
(* any number of workers, any corpora read and any edits under the run, no *)
(* problem found is dropped and no theorem asked for is missed; and where  *)
(* the workers read one corpus the report is one worker's, in its order,   *)
(* however the theorems were shared out.                                   *)
(*                                                                         *)
(* The argument for SharedCheck: each index the cursor has passed is in a  *)
(* worker's hands or settled by one, and each worker that is done took an  *)
(* index past the end of its reading.  A place's problems are all of one   *)
(* worker's finding, in order, and a stable sort is fixed by the order of  *)
(* each place's problems.  The argument for Incremental: what an edit      *)
(* reaches is closed under being imported by, so the files a theorem not   *)
(* reached is led to are none of the edited ones, read both times alike,   *)
(* and lead to the same files both times.  The problems of the theorems    *)
(* checked into one report lie above the theorem checked next, so that     *)
(* each is said as into the report there was before the first.             *)
(***************************************************************************)
EXTENDS InOrder, Incremental, SharedCheck, Induction

(***************************************************************************)
(* At least one worker is spawned, even for an empty list, so that the     *)
(* scope in in_order_on always has a thread to join.                       *)
(***************************************************************************)
LEMMA WorkersNat == WorkerCount \in Nat \ {0}
  BY CountsAssumption DEF WorkerCount, AtMost

(***************************************************************************)
(* What TypeOK says of the workers, and that the item a worker has in hand *)
(* is one of the list, so that no answer is written past the slots.        *)
(***************************************************************************)
Shape ==
  /\ next \in Nat \ {0}
  /\ done \in [Items -> {Answer[i] : i \in Items} \cup {Nothing}]
  /\ pc \in [Workers -> {"take", "run", "put", "left", "panicked"}]
  /\ item \in [Workers -> Nat \ {0}]
  /\ \A w \in Workers : pc[w] \in {"run", "put", "panicked"} => item[w] \in Items

\* Shape is kept by every step of in_order_on.
LEMMA ShapeInvariant == Spec => []Shape
<1>1. Init => Shape
  BY CountsAssumption DEF Init, Shape
<1>2. Shape /\ [Next]_vars => Shape'
  <2> SUFFICES ASSUME Shape, [Next]_vars PROVE Shape'
    OBVIOUS
  <2> USE DEF Shape
  <2>1. CASE Join \/ UNCHANGED vars
    BY <2>1 DEF Join, vars
  <2>2. ASSUME NEW w \in Workers, Step(w) PROVE Shape'
    <3>1. CASE Take(w)
      BY <3>1 DEF Take, TakeBy
    <3>2. CASE Run(w)
      BY <3>2 DEF Run
    <3>3. CASE Put(w)
      BY <3>3 DEF Put, PutAt
    <3> QED
      BY <2>2, <3>1, <3>2, <3>3 DEF Step
  <2> QED
    BY <2>1, <2>2 DEF Next
<1>3. QED
  BY <1>1, <1>2, PTL DEF Spec

(***************************************************************************)
(* The invariant that makes the sharing right.  What has not been taken is *)
(* untouched; what a worker last took is behind the cursor, and no two     *)
(* workers took the same; what is in hand is not done, and what is done    *)
(* carries its own answer.                                                 *)
(***************************************************************************)
Taken(w) == pc[w] \in {"run", "put", "panicked"}

Sharing ==
  /\ \A i \in Items : i >= next => done[i] = Nothing
  /\ \A i \in Items : done[i] \in {Answer[i], Nothing}
  /\ \A w \in Workers : Taken(w) => item[w] < next /\ done[item[w]] = Nothing
  /\ \A v, w \in Workers : Taken(v) /\ Taken(w) /\ item[v] = item[w] => v = w
  /\ \A i \in Items :
       i < next /\ done[i] = Nothing => \E w \in Workers : Taken(w) /\ item[w] = i
  /\ \A w \in Workers : pc[w] = "left" => next > N
  /\ \A w \in Workers : pc[w] = "panicked" => item[w] \in CanPanic

\* Sharing is kept by every step of in_order_on.
LEMMA SharingInvariant == Spec => []Sharing
<1>1. Init => Sharing
  BY CountsAssumption DEF Init, Sharing, Taken, Items
<1>2. Shape /\ Sharing /\ [Next]_vars => Sharing'
  <2> SUFFICES ASSUME Shape, Sharing, [Next]_vars PROVE Sharing'
    OBVIOUS
  <2> USE DEF Shape, Sharing, Taken, Items
  <2>1. CASE Join \/ UNCHANGED vars
    BY <2>1 DEF Join, vars
  <2>2. ASSUME NEW w \in Workers, Step(w) PROVE Sharing'
    <3>1. CASE Take(w)
      <4>1. /\ pc[w] = "take" /\ next' = next + 1 /\ item' = [item EXCEPT ![w] = next]
            /\ pc' = [pc EXCEPT ![w] = IF next \in Items THEN "run" ELSE "left"]
            /\ UNCHANGED <<done, outcome>>
        BY <3>1 DEF Take, TakeBy
      <4>2. /\ \A i \in Items : i >= next' => done'[i] = Nothing
            /\ \A i \in Items : done'[i] \in {Answer[i], Nothing}
        BY <4>1
      <4>3. \A v \in Workers : Taken(v)' => item'[v] < next' /\ done'[item'[v]] = Nothing
        BY <4>1, CountsAssumption
      <4>4. \A u, v \in Workers : Taken(u)' /\ Taken(v)' /\ item'[u] = item'[v] => u = v
        BY <4>1, CountsAssumption
      <4>5. \A i \in Items :
              i < next' /\ done'[i] = Nothing => \E v \in Workers : Taken(v)' /\ item'[v] = i
        BY <4>1, CountsAssumption
      <4>6. /\ \A v \in Workers : pc'[v] = "left" => next' > N
            /\ \A v \in Workers : pc'[v] = "panicked" => item'[v] \in CanPanic
        BY <4>1, CountsAssumption
      <4> QED
        BY <4>2, <4>3, <4>4, <4>5, <4>6, Zenon
    <3>2. CASE Run(w)
      BY <3>2 DEF Run
    <3>3. CASE Put(w)
      BY <3>3, AnswerAssumption DEF Put, PutAt
    <3> QED
      BY <2>2, <3>1, <3>2, <3>3 DEF Step
  <2> QED
    BY <2>1, <2>2 DEF Next
<1>3. QED
  BY <1>1, <1>2, ShapeInvariant, PTL DEF Spec

(***************************************************************************)
(* No item is in two workers' hands, and none is run after it is done.     *)
(***************************************************************************)
THEOREM ItemsTakenOnce == Spec => []NoItemTwice
<1>1. Shape /\ Sharing => NoItemTwice
  BY DEF Shape, Sharing, Taken, NoItemTwice, Holds
<1>2. QED
  BY <1>1, ShapeInvariant, SharingInvariant, PTL

(***************************************************************************)
(* No item the cursor has passed is lost.                                  *)
(***************************************************************************)
THEOREM ItemsKept == Spec => []NoItemLost
<1>1. Sharing => NoItemLost
  BY DEF Sharing, Taken, NoItemLost
<1>2. QED
  BY <1>1, SharingInvariant, PTL

(***************************************************************************)
(* When every worker has ended, either one of them panicked, running an    *)
(* item that can, or every slot holds its item's answer.                   *)
(***************************************************************************)
LEMMA AllEnded ==
  ASSUME Shape, Sharing, \A w \in Workers : Ended(w)
  PROVE  \/ \E w \in Workers : pc[w] = "panicked" /\ item[w] \in CanPanic
         \/ done = [i \in 1..N |-> Answer[i]] /\ \A i \in Items : done[i] # Nothing
<1>1. CASE \E w \in Workers : pc[w] = "panicked"
  BY <1>1 DEF Sharing
<1>2. CASE \A w \in Workers : pc[w] = "left"
  <2>1. next > N
    BY <1>2, WorkersNat DEF Sharing, Workers
  <2>2. \A i \in Items : done[i] # Nothing
    BY <2>1, <1>2, CountsAssumption DEF Shape, Sharing, Taken, Items
  <2>3. \A i \in Items : done[i] = Answer[i]
    BY <2>2 DEF Sharing
  <2>4. QED
    BY <2>2, <2>3 DEF Shape, Items
<1>3. QED
  BY <1>1, <1>2 DEF Ended

(***************************************************************************)
(* The type invariant: what the call gives back never has a hole in it.    *)
(***************************************************************************)
THEOREM TypeCorrect == Spec => []TypeOK
<1>1. Init => TypeOK
  BY CountsAssumption DEF Init, TypeOK
<1>2. TypeOK /\ Shape /\ Sharing /\ [Next]_vars => TypeOK'
  <2> SUFFICES ASSUME TypeOK, Shape, Sharing, [Next]_vars PROVE TypeOK'
    OBVIOUS
  <2> USE DEF TypeOK
  <2>1. ASSUME NEW w \in Workers, Step(w) PROVE TypeOK'
    BY <2>1 DEF Shape, Step, Take, TakeBy, Run, Put, PutAt
  <2>2. CASE Join
    <3>1. CASE outcome' = Panicked
      BY <2>2, <3>1 DEF Join
    <3>2. CASE /\ outcome' = done
               /\ \A i \in Items : done[i] # Nothing
      BY <2>2, <3>2 DEF Join
    <3>3. QED
      BY <2>2, <3>1, <3>2 DEF Join
  <2>3. CASE UNCHANGED vars
    BY <2>3 DEF vars
  <2>4. QED
    BY <2>1, <2>2, <2>3 DEF Next
<1>3. QED
  BY <1>1, <1>2, ShapeInvariant, SharingInvariant, PTL DEF Spec

(***************************************************************************)
(* What the call returns is what in_order promises: every step of the      *)
(* workers is a stutter of MapInOrder, and the join is its Return or its   *)
(* Panic.                                                                  *)
(***************************************************************************)
THEOREM SharingImplementsMap == Spec => ImplementsMap
<1>1. Init => M!Init
  BY DEF Init, M!Init
<1>2. Shape /\ Sharing /\ [Next]_vars => [M!Next]_outcome
  <2> SUFFICES ASSUME Shape, Sharing, [Next]_vars
               PROVE  [M!Next]_outcome
    OBVIOUS
  <2>1. ASSUME NEW w \in Workers, Step(w) PROVE [M!Next]_outcome
    BY <2>1 DEF Step, Take, TakeBy, Run, Put, PutAt
  <2>2. CASE Join
    <3>1. CASE \E w \in Workers : pc[w] = "panicked" /\ item[w] \in CanPanic
      BY <2>2, <3>1 DEF Join, M!Next, M!Panic
    <3>2. CASE /\ ~ \E w \in Workers : pc[w] = "panicked"
               /\ done = [i \in 1..N |-> Answer[i]]
               /\ \A i \in Items : done[i] # Nothing
      BY <2>2, <3>2 DEF Join, M!Next, M!Return
    <3>3. QED
      BY <2>2, <3>1, <3>2, AllEnded DEF Join, Sharing
  <2>3. CASE UNCHANGED vars
    BY <2>3 DEF vars
  <2>4. QED
    BY <2>1, <2>2, <2>3 DEF Next
<1>3. QED
  BY <1>1, <1>2, ShapeInvariant, SharingInvariant, PTL DEF Spec, ImplementsMap, M!Spec

(***************************************************************************)
(* The scopes, and the place of a file among them                          *)
(***************************************************************************)

\* The scopes as the files are read, unrolled.
LEMMA ScopesUnrolled ==
  ASSUME NEW t
  PROVE  /\ Len(Order) \in Nat
         /\ ScopesBy(t)[0] = <<>>
         /\ \A n \in 1..Len(Order) :
              ScopesBy(t)[n] = IF Parses(t[Order[n]]) THEN Append(ScopesBy(t)[n - 1], Order[n])
                               ELSE ScopesBy(t)[n - 1]
<1> DEFINE Size == Len(Order)
<1> DEFINE Body(f, i) ==
      IF i = 0 THEN <<>>
      ELSE IF Parses(t[Order[i]]) THEN Append(f[i - 1], Order[i]) ELSE f[i - 1]
<1>1. Size \in Nat
  BY BoundsAssumption
<1> DEFINE T == {n \in Nat : \E f : f = [i \in 0..n |-> Body(f, i)]}
<1>2. 0 \in T
  <2>1. [i \in 0..0 |-> <<>>] = [i \in 0..0 |-> Body([j \in 0..0 |-> <<>>], i)]
    OBVIOUS
  <2> QED
    BY <2>1
<1>3. ASSUME NEW n \in Nat, n \in T PROVE n + 1 \in T
  <2>1. PICK f : f = [i \in 0..n |-> Body(f, i)]
    BY <1>3
  <2>2. \A i \in 0..n : f[i] = Body(f, i)
    BY <2>1
  <2> DEFINE h == [i \in 0..(n + 1) |->
                     IF i <= n THEN f[i]
                     ELSE IF Parses(t[Order[n + 1]]) THEN Append(f[n], Order[n + 1]) ELSE f[n]]
  <2>3. \A i \in 0..n : h[i] = f[i]
    OBVIOUS
  <2>4. h[n + 1] = IF Parses(t[Order[n + 1]]) THEN Append(f[n], Order[n + 1]) ELSE f[n]
    OBVIOUS
  <2>5. h = [i \in 0..(n + 1) |-> h[i]]
    OBVIOUS
  <2> HIDE DEF h
  <2>6. ASSUME NEW i \in 0..(n + 1) PROVE h[i] = Body(h, i)
    <3>1. CASE i = 0
      BY <2>2, <2>3, <3>1
    <3>2. CASE i \in 1..n
      <4>1. h[i] = f[i] /\ h[i - 1] = f[i - 1] /\ f[i] = Body(f, i)
        BY <2>2, <2>3, <3>2
      <4> QED
        BY <3>2, <4>1
    <3>3. CASE i = n + 1
      <4>1. h[i - 1] = f[n] /\ i # 0
        BY <2>3, <3>3
      <4> QED
        BY <2>4, <3>3, <4>1
    <3> QED
      BY <3>1, <3>2, <3>3
  <2>7. h = [i \in 0..(n + 1) |-> Body(h, i)]
    BY <2>5, <2>6, Zenon
  <2> QED
    BY <2>7
<1>4. Size \in T
  <2> HIDE DEF T, Size
  <2> QED
    BY <1>1, <1>2, <1>3, SetInduction
<1>5. ScopesBy(t) = [i \in 0..Size |-> Body(ScopesBy(t), i)]
  BY <1>4, Zenon DEF ScopesBy
<1>6. \A i \in 0..Size : ScopesBy(t)[i] = Body(ScopesBy(t), i)
  BY <1>5, Zenon
<1>7. ScopesBy(t)[0] = <<>>
  BY <1>1, <1>6
<1>8. \A n \in 1..Size : ScopesBy(t)[n] = Body(ScopesBy(t), n)
  BY <1>1, <1>6
<1> QED
  BY <1>1, <1>7, <1>8

\* The scopes are the files read so far that parse, and each stands where the
\* number of scopes before it says.
LEMMA ScopesRead ==
  ASSUME NEW t, NEW n \in 0..Len(Order)
  PROVE  /\ ScopesBy(t)[n] \in Seq(Proofs)
         /\ ToSet(ScopesBy(t)[n]) = {Order[i] : i \in {j \in 1..n : Parses(t[Order[j]])}}
         /\ \A i \in 1..n : Parses(t[Order[i]]) =>
              /\ Len(ScopesBy(t)[i - 1]) + 1 \in DOMAIN ScopesBy(t)[n]
              /\ ScopesBy(t)[n][Len(ScopesBy(t)[i - 1]) + 1] = Order[i]
<1> DEFINE By == ScopesBy(t)
<1> DEFINE Stands(k) ==
      /\ By[k] \in Seq(Proofs)
      /\ {By[k][i] : i \in 1..Len(By[k])} = {Order[i] : i \in {j \in 1..k : Parses(t[Order[j]])}}
      /\ \A i \in 1..k : Parses(t[Order[i]]) =>
           /\ Len(By[i - 1]) + 1 \in 1..Len(By[k])
           /\ By[k][Len(By[i - 1]) + 1] = Order[i]
<1> DEFINE T == {k \in Nat : k <= Len(Order) => Stands(k)}
<1>1. Len(Order) \in Nat /\ By[0] = <<>>
  BY ScopesUnrolled
<1> HIDE DEF By, Stands
<1>2. 0 \in T
  <2>1. <<>> \in Seq(Proofs) /\ Len(<<>>) = 0
    OBVIOUS
  <2>2. Stands(0)
    BY <1>1, <2>1 DEF Stands
  <2> QED
    BY <2>2
<1>3. ASSUME NEW k \in Nat, k \in T PROVE k + 1 \in T
  <2> SUFFICES ASSUME k + 1 <= Len(Order) PROVE Stands(k + 1)
    OBVIOUS
  <2>1. Stands(k) /\ k + 1 \in 1..Len(Order) /\ (k + 1) - 1 = k
    BY <1>1, <1>3
  <2>2. By[k + 1] = IF Parses(t[Order[k + 1]]) THEN Append(By[k], Order[k + 1]) ELSE By[k]
    BY <2>1, ScopesUnrolled DEF By
  <2>3. Order[k + 1] \in Proofs
    BY <2>1, BoundsAssumption DEF Proofs, ToSet
  <2>4. CASE ~Parses(t[Order[k + 1]])
    <3>1. By[k + 1] = By[k]
      BY <2>2, <2>4
    <3>2. {j \in 1..(k + 1) : Parses(t[Order[j]])} = {j \in 1..k : Parses(t[Order[j]])}
      BY <2>4
    <3>3. \A i \in 1..(k + 1) : Parses(t[Order[i]]) => i \in 1..k
      BY <2>4
    <3> QED
      BY <2>1, <3>1, <3>2, <3>3 DEF Stands
  <2>5. CASE Parses(t[Order[k + 1]])
    <3> DEFINE s == By[k]
    <3>1. By[k + 1] = Append(s, Order[k + 1]) /\ s \in Seq(Proofs)
      BY <2>1, <2>2, <2>5 DEF Stands
    <3>2. /\ By[k + 1] \in Seq(Proofs) /\ Len(By[k + 1]) = Len(s) + 1 /\ Len(s) \in Nat
          /\ By[k + 1][Len(s) + 1] = Order[k + 1]
          /\ \A i \in 1..Len(s) : By[k + 1][i] = s[i]
      BY <2>3, <3>1
    <3>3. {By[k + 1][i] : i \in 1..Len(By[k + 1])}
            = {s[i] : i \in 1..Len(s)} \cup {Order[k + 1]}
      <4> HIDE DEF s
      <4>1. 1..Len(By[k + 1]) = 1..Len(s) \cup {Len(s) + 1}
        BY <3>2
      <4> QED
        BY <3>2, <4>1
    <3>4. {Order[i] : i \in {j \in 1..(k + 1) : Parses(t[Order[j]])}}
            = {Order[i] : i \in {j \in 1..k : Parses(t[Order[j]])}} \cup {Order[k + 1]}
      <4>1. {j \in 1..(k + 1) : Parses(t[Order[j]])}
              = {j \in 1..k : Parses(t[Order[j]])} \cup {k + 1}
        BY <2>5
      <4> QED
        BY <4>1
    <3>5. ASSUME NEW i \in 1..(k + 1), Parses(t[Order[i]])
          PROVE  /\ Len(By[i - 1]) + 1 \in 1..Len(By[k + 1])
                 /\ By[k + 1][Len(By[i - 1]) + 1] = Order[i]
      <4>1. CASE i \in 1..k
        <5>1. Len(By[i - 1]) + 1 \in 1..Len(s) /\ s[Len(By[i - 1]) + 1] = Order[i]
          BY <2>1, <3>5, <4>1 DEF Stands
        <5> HIDE DEF s
        <5> QED
          BY <3>2, <5>1
      <4>2. CASE i = k + 1
        BY <2>1, <3>2, <4>2
      <4> QED
        BY <4>1, <4>2
    <3> HIDE DEF s
    <3>6. {s[i] : i \in 1..Len(s)} = {Order[i] : i \in {j \in 1..k : Parses(t[Order[j]])}}
      BY <2>1 DEF s, Stands
    <3> QED
      BY <3>2, <3>3, <3>4, <3>5, <3>6 DEF Stands
  <2> QED
    BY <2>4, <2>5
<1>4. \A k \in Nat : k \in T
  <2> HIDE DEF T
  <2> QED
    BY <1>2, <1>3, SetInduction
<1>5. Stands(n)
  BY <1>1, <1>4
<1>6. DOMAIN By[n] = 1..Len(By[n])
  BY <1>5 DEF Stands
<1> QED
  BY <1>5, <1>6 DEF ToSet, Stands, By

\* What one reading with nothing kept gives: the files there are as they
\* are, the scopes of the proof files that parse, and for each of these its
\* own scope at its place.
LEMMA ReadAll ==
  ASSUME NEW t, NEW r, r = ReadCorpus(t, NothingKept)
  PROVE  /\ Scopes(r) = {f \in Proofs : Parses(t[f])}
         /\ DOMAIN r.files = Present(t)
         /\ \A f \in Present(t) : r.files[f] = ReadAfresh(t, f)
         /\ \A f \in Scopes(r) :
              Place(t, f) \in DOMAIN r.scopes /\ r.scopes[Place(t, f)] = f
<1>1. r.scopes = ScopesBy(t)[Len(Order)]
      /\ r.files = [f \in Present(t) |-> IF f \in Proofs THEN FileRead(t, NothingKept, f)
                                         ELSE ReadAfresh(t, f)]
  BY DEF ReadCorpus
<1>2. Len(Order) \in Nat /\ Len(Order) \in 0..Len(Order) /\ DOMAIN Order = 1..Len(Order)
      /\ Proofs = {Order[i] : i \in 1..Len(Order)}
  BY BoundsAssumption DEF Proofs, ToSet
<1>3. Scopes(r) = {f \in Proofs : Parses(t[f])}
  <2>1. Scopes(r) = {Order[i] : i \in {j \in 1..Len(Order) : Parses(t[Order[j]])}}
    BY <1>1, <1>2, ScopesRead DEF Scopes
  <2> QED
    BY <1>2, <2>1
<1>4. \A f : FileRead(t, NothingKept, f) = ReadAfresh(t, f)
  BY DEF FileRead, NothingKept
<1>5. ASSUME NEW f \in Scopes(r)
      PROVE  Place(t, f) \in DOMAIN r.scopes /\ r.scopes[Place(t, f)] = f
  <2> DEFINE k == CHOOSE i \in DOMAIN Order : Order[i] = f
  <2>1. k \in 1..Len(Order) /\ Order[k] = f /\ Parses(t[f])
    BY <1>2, <1>3
  <2>2. Place(t, f) = Len(ScopesBy(t)[k - 1]) + 1
    BY DEF Place
  <2> HIDE DEF k
  <2>3. /\ Len(ScopesBy(t)[k - 1]) + 1 \in DOMAIN ScopesBy(t)[Len(Order)]
        /\ ScopesBy(t)[Len(Order)][Len(ScopesBy(t)[k - 1]) + 1] = Order[k]
    BY <1>2, <2>1, ScopesRead
  <2> QED
    BY <1>1, <2>1, <2>2, <2>3
<1> QED
  BY <1>1, <1>3, <1>4, <1>5

(***************************************************************************)
(* What an edit reaches                                                    *)
(***************************************************************************)

\* What is reached is read, holds what it is reached from, and every file
\* importing from it or from a file refused: the loop of reached_from ends
\* there.
LEMMA GrownClosed ==
  ASSUME NEW r, NEW reached \in SUBSET Scopes(r), NEW refused
  PROVE  /\ Grown(r, reached, refused) \in SUBSET Scopes(r)
         /\ reached \subseteq Grown(r, reached, refused)
         /\ Importing(r, Grown(r, reached, refused) \cup refused) \subseteq Grown(r, reached, refused)
<1> DEFINE F(S) == reached \cup Importing(r, S \cup refused)
<1> DEFINE W == {x \in Scopes(r) : \A S \in SUBSET Scopes(r) : F(S) \subseteq S => x \in S}
<1>1. \A S, T \in SUBSET Scopes(r) : S \subseteq T => F(S) \subseteq F(T)
  BY DEF Importing
<1>2. \A S \in SUBSET Scopes(r) : F(S) \in SUBSET Scopes(r)
  BY DEF Importing
<1>3. W \in SUBSET Scopes(r)
  OBVIOUS
<1> HIDE DEF F
<1>4. ASSUME NEW S \in SUBSET Scopes(r), F(S) \subseteq S PROVE W \subseteq S
  BY <1>4
<1>5. F(W) \subseteq W
  <2> SUFFICES ASSUME NEW x \in F(W), NEW S \in SUBSET Scopes(r), F(S) \subseteq S PROVE x \in S
    BY <1>2, <1>3
  <2>1. F(W) \subseteq F(S)
    BY <1>1, <1>3, <1>4
  <2> QED
    BY <2>1
<1>6. W \subseteq F(W)
  <2> HIDE DEF W
  <2>1. F(F(W)) \subseteq F(W)
    BY <1>1, <1>2, <1>3, <1>5
  <2> QED
    BY <1>2, <1>3, <1>4, <2>1
<1>7. F(W) = W
  BY <1>5, <1>6
<1>8. \A T \in SUBSET Scopes(r) : F(T) = T => W \subseteq T
  BY <1>4
<1>9. \E S \in SUBSET Scopes(r) :
        F(S) = S /\ \A T \in SUBSET Scopes(r) : F(T) = T => S \subseteq T
  <2> HIDE DEF W
  <2> QED
    BY <1>3, <1>7, <1>8
<1>10. /\ Grown(r, reached, refused) \in SUBSET Scopes(r)
       /\ F(Grown(r, reached, refused)) = Grown(r, reached, refused)
  BY <1>9, Zenon DEF Grown, F
<1> QED
  BY <1>10 DEF F

\* What an edit reaches was read, holds what was edited and read, and holds
\* whatever imports from it or from a file edited that did not read.
LEMMA ReachedIsRead ==
  ASSUME NEW r, NEW changed
  PROVE  /\ ReachedFrom(r, changed) \subseteq Scopes(r)
         /\ changed \cap Scopes(r) \subseteq ReachedFrom(r, changed)
         /\ changed \subseteq Proofs =>
              Importing(r, ReachedFrom(r, changed) \cup (changed \ Scopes(r)))
                \subseteq ReachedFrom(r, changed)
<1> DEFINE inside == changed \cap Scopes(r)
<1>1. inside \in SUBSET Scopes(r)
  OBVIOUS
<1> HIDE DEF inside
<1>2. /\ Grown(r, inside, changed \ Scopes(r)) \in SUBSET Scopes(r)
      /\ inside \subseteq Grown(r, inside, changed \ Scopes(r))
      /\ Importing(r, Grown(r, inside, changed \ Scopes(r)) \cup (changed \ Scopes(r)))
           \subseteq Grown(r, inside, changed \ Scopes(r))
  BY <1>1, GrownClosed
<1> QED
  BY <1>2 DEF ReachedFrom, inside

\* The files there may be, and what they hold.
LEMMA InTrees ==
  ASSUME NEW t \in Trees
  PROVE  /\ RecordFile \in Present(t)
         /\ \A f \in Proofs : Parses(t[f]) => f \in Present(t) /\ t[f].imports \subseteq Files
  BY BoundsAssumption DEF Trees, Present, Files, Parses

\* Where the records are alike, the theorem of a file no change reaches was
\* read before, and reads what it read: what its imports lead to is none of
\* the files changed.
LEMMA UnreachedReadsAlike ==
  ASSUME NEW was \in Trees, NEW now \in Trees,
         NEW changed \in SUBSET Proofs, \A g \in Files \ changed : now[g] = was[g],
         NEW before, before = ReadCorpus(was, NothingKept),
         NEW r, r = ReadCorpus(now, NothingKept),
         PhraseRecords(r) = PhraseRecords(before),
         NEW f \in Scopes(r) \ ReachedFrom(r, changed)
  PROVE  f \in Scopes(before) /\ Reading(r, f) = Reading(before, f)
<1> DEFINE reach == ReachedFrom(r, changed)
<1> DEFINE refused == changed \ Scopes(r)
<1> DEFINE A == Files \ (reach \cup refused)
<1>1. /\ changed \cap Scopes(r) \subseteq reach
      /\ Importing(r, reach \cup refused) \subseteq reach
      /\ reach \subseteq Scopes(r)
  BY ReachedIsRead
<1>2. /\ Scopes(r) = {g \in Proofs : Parses(now[g])}
      /\ Scopes(before) = {g \in Proofs : Parses(was[g])}
      /\ \A g \in Scopes(r) : g \in Present(now) /\ r.files[g] = ReadAfresh(now, g)
      /\ \A g \in Scopes(before) : g \in Present(was) /\ before.files[g] = ReadAfresh(was, g)
      /\ r.files[RecordFile] = ReadAfresh(now, RecordFile)
      /\ before.files[RecordFile] = ReadAfresh(was, RecordFile)
      /\ \A g \in Scopes(r) : Place(now, g) \in DOMAIN r.scopes /\ r.scopes[Place(now, g)] = g
      /\ \A g \in Scopes(before) :
           Place(was, g) \in DOMAIN before.scopes /\ before.scopes[Place(was, g)] = g
  <2>1. /\ \A g \in Present(now) : r.files[g] = ReadAfresh(now, g)
        /\ \A g \in Present(was) : before.files[g] = ReadAfresh(was, g)
    BY ReadAll
  <2>2. /\ Scopes(r) = {g \in Proofs : Parses(now[g])}
        /\ Scopes(before) = {g \in Proofs : Parses(was[g])}
    BY ReadAll
  <2>3. \A g \in Scopes(r) : Place(now, g) \in DOMAIN r.scopes /\ r.scopes[Place(now, g)] = g
    BY ReadAll
  <2>4. \A g \in Scopes(before) :
          Place(was, g) \in DOMAIN before.scopes /\ before.scopes[Place(was, g)] = g
    BY ReadAll
  <2>5. RecordFile \in Present(now) /\ RecordFile \in Present(was)
    BY InTrees
  <2>6. /\ \A g \in Scopes(r) : g \in Present(now)
        /\ \A g \in Scopes(before) : g \in Present(was)
    BY <2>2, InTrees
  <2> QED
    BY <2>1, <2>2, <2>3, <2>4, <2>5, <2>6
<1>3. /\ \A g \in Scopes(r) : r.files[g].raw = now[g] /\ r.files[g].at = Place(now, g)
      /\ \A g \in Scopes(before) :
           before.files[g].raw = was[g] /\ before.files[g].at = Place(was, g)
      /\ r.files[RecordFile].raw = now[RecordFile]
      /\ before.files[RecordFile].raw = was[RecordFile]
  <2>1. \A t, g : ReadAfresh(t, g).raw = t[g] /\ (g \in Proofs => ReadAfresh(t, g).at = Place(t, g))
    BY DEF ReadAfresh
  <2> QED
    BY <1>2, <2>1
<1>4. A \cap changed = {} /\ \A g \in A : now[g] = was[g]
  BY <1>1
<1>5. f \in A /\ f \in Scopes(before) /\ now[f] = was[f]
  BY <1>1, <1>2, <1>4 DEF Files
<1>6. A \cap Scopes(r) = A \cap Scopes(before)
  BY <1>2, <1>4
<1>7. \A g \in A \cap Scopes(r) : now[g].imports \subseteq A
  <2> TAKE g \in A \cap Scopes(r)
  <2>1. g \notin Importing(r, reach \cup refused)
    BY <1>1
  <2>2. now[g].imports \cap (reach \cup refused) = {}
    BY <1>3, <2>1 DEF Importing
  <2>3. now[g].imports \subseteq Files
    BY <1>2, InTrees
  <2> QED
    BY <2>2, <2>3
<1> DEFINE from == now[f].imports
<1>8. from \subseteq A /\ from = was[f].imports
  BY <1>5, <1>7
<1> HIDE DEF A, reach, refused, from
<1>9. A \in SUBSET Files
  BY DEF A
<1>10. LedTo(r, from) \subseteq A
  BY <1>3, <1>7, <1>8, <1>9 DEF LedTo
<1>11. LedTo(before, from) \subseteq A
  <2>1. \A g \in A \cap Scopes(before) : before.files[g].raw.imports \subseteq A
    BY <1>3, <1>4, <1>6, <1>7
  <2> QED
    BY <1>8, <1>9, <2>1 DEF LedTo
<1>12. LedTo(r, from) \subseteq LedTo(before, from)
  <2> SUFFICES ASSUME NEW x \in LedTo(r, from), NEW S \in SUBSET Files, from \subseteq S,
                      \A g \in S \cap Scopes(before) : before.files[g].raw.imports \subseteq S
               PROVE  x \in S
    BY DEF LedTo
  <2>1. \A g \in (S \cap A) \cap Scopes(r) : r.files[g].raw.imports \subseteq S \cap A
    BY <1>3, <1>4, <1>6, <1>7
  <2>2. S \cap A \in SUBSET Files /\ from \subseteq S \cap A
    BY <1>8
  <2> QED
    BY <2>1, <2>2 DEF LedTo
<1>13. LedTo(before, from) \subseteq LedTo(r, from)
  <2> SUFFICES ASSUME NEW x \in LedTo(before, from), NEW S \in SUBSET Files, from \subseteq S,
                      \A g \in S \cap Scopes(r) : r.files[g].raw.imports \subseteq S
               PROVE  x \in S
    BY DEF LedTo
  <2>1. \A g \in (S \cap A) \cap Scopes(before) : before.files[g].raw.imports \subseteq S \cap A
    BY <1>3, <1>4, <1>6, <1>7
  <2>2. S \cap A \in SUBSET Files /\ from \subseteq S \cap A
    BY <1>8
  <2> QED
    BY <2>1, <2>2 DEF LedTo
<1> DEFINE seen == LedTo(r, from)
<1>14. seen = LedTo(before, from) /\ seen \subseteq A
  BY <1>10, <1>12, <1>13
<1>15. Reading(r, f) = [body |-> now[f].body, sees |-> {<<g, r.files[g].raw>> : g \in seen \cap Scopes(r)},
                        lacks |-> seen \ Scopes(r), records |-> <<now[RecordFile], PhraseRecords(r)>>]
  <2>1. /\ r.files[f].at \in DOMAIN r.scopes /\ r.scopes[r.files[f].at] = f
        /\ r.files[f].raw = now[f] /\ r.files[RecordFile].raw = now[RecordFile]
        /\ r.files[f].raw.imports = from
    BY <1>2, <1>3 DEF from
  <2> QED
    BY <2>1 DEF Reading
<1>16. Reading(before, f) =
         [body |-> was[f].body, sees |-> {<<g, before.files[g].raw>> : g \in seen \cap Scopes(before)},
          lacks |-> seen \ Scopes(before), records |-> <<was[RecordFile], PhraseRecords(before)>>]
  <2>1. /\ before.files[f].at \in DOMAIN before.scopes /\ before.scopes[before.files[f].at] = f
        /\ before.files[f].raw = was[f] /\ before.files[RecordFile].raw = was[RecordFile]
        /\ before.files[f].raw.imports = from
    BY <1>2, <1>3, <1>5, <1>8 DEF from
  <2> QED
    BY <1>14, <2>1 DEF Reading
<1> HIDE DEF seen
<1>17. seen \cap Scopes(r) = seen \cap Scopes(before) /\ seen \ Scopes(r) = seen \ Scopes(before)
  BY <1>6, <1>14
<1>18. \A g \in seen \cap Scopes(r) : r.files[g].raw = before.files[g].raw
  BY <1>3, <1>4, <1>14, <1>17
<1>19. {<<g, r.files[g].raw>> : g \in seen \cap Scopes(r)}
         = {<<g, before.files[g].raw>> : g \in seen \cap Scopes(before)}
  BY <1>17, <1>18
<1>20. now[RecordFile] = was[RecordFile]
  BY BoundsAssumption DEF Files
<1> QED
  BY <1>5, <1>15, <1>16, <1>17, <1>19, <1>20

(***************************************************************************)
(* The invariant                                                           *)
(***************************************************************************)

\* What is said, where each worker took what "deal" says.  The tree and what
\* is said of it are of their types, and no run is said before a clean reading.
SaidOf(deal) ==
  said = [kept |-> RunKept(tree, edited), fresh |-> RunEdited(tree, edited),
          run |-> RunWhole(ReadCorpus(tree, NothingKept), Readings(ReadCorpus(tree, NothingKept)), deal)]
KeptTypeOK ==
  /\ tree \in Trees
  /\ edited \in SUBSET Files
  /\ edits \in 0..MaxEdits
  /\ edits > 0 => clean # None
  /\ said # None =>
       /\ clean # None
       /\ \E deal \in Deals : SaidOf(deal)

\* What is kept is the clean reading of a tree that differs from the tree now
\* only in the files the caller says it edited.
CleanIsOf(was) ==
  /\ clean = CleanOf(was)
  /\ \A f \in Files \ edited : tree[f] = was[f]
KeptOfTree == clean # None => \E was \in Trees : CleanIsOf(was)

\* What holds of every state: the types, and where the kept reading is from.
KeptInv == KeptTypeOK /\ KeptOfTree

\* It holds before anything is read.
LEMMA KeptInvInit == ASSUME InitKept PROVE KeptInv
  BY BoundsAssumption DEF InitKept, KeptInv, KeptTypeOK, KeptOfTree

\* Every step keeps it: reading keeps the tree's own reading, an edit changes
\* one file and says so, and a run says what it says of the tree as it is.
LEMMA KeptInvStep == ASSUME KeptInv, [NextKept]_keptVars PROVE KeptInv'
<1> USE DEF KeptInv, KeptTypeOK
<1>1. CASE ReadClean
  <2>1. CleanIsOf(tree)'
    BY <1>1 DEF ReadClean, CleanIsOf
  <2>2. said = None
    BY <1>1 DEF ReadClean
  <2> QED
    BY <1>1, <2>1, <2>2 DEF ReadClean, KeptOfTree
<1>2. ASSUME NEW f \in Files, Edit(f) PROVE KeptInv'
  <2>1. PICK c \in Written[f] : tree' = [tree EXCEPT ![f] = c]
    BY <1>2 DEF Edit
  <2>2. tree' \in Trees
    BY <2>1 DEF Trees
  <2>3. PICK was \in Trees : CleanIsOf(was)
    BY <1>2 DEF Edit, KeptOfTree
  <2>4. CleanIsOf(was)'
    BY <1>2, <2>1, <2>3 DEF Edit, CleanIsOf, Trees
  <2>5. edits' \in 0..MaxEdits /\ edited' \in SUBSET Files /\ clean' # None /\ said' = None
    BY <1>2, BoundsAssumption DEF Edit
  <2> QED
    BY <2>2, <2>4, <2>5 DEF KeptOfTree
<1>3. CASE RunAll
  <2>1. UNCHANGED <<tree, clean, edited, edits>> /\ clean # None
    BY <1>3 DEF RunAll
  <2>2. PICK deal \in Deals :
          said' = [kept |-> RunKept(tree, edited), fresh |-> RunEdited(tree, edited),
                   run |-> RunWhole(ReadCorpus(tree, NothingKept), Readings(ReadCorpus(tree, NothingKept)), deal)]
    BY <1>3, Zenon DEF RunAll
  <2>3. RunKept(tree, edited)' = RunKept(tree, edited)
    BY <2>1 DEF RunKept, Changed, RecordsAlike
  <2>4. KeptOfTree'
    BY <2>1 DEF KeptOfTree, CleanIsOf
  <2>5. SaidOf(deal)'
    BY <2>1, <2>2, <2>3, Zenon DEF SaidOf
  <2> QED
    BY <2>1, <2>4, <2>5
<1>4. CASE UNCHANGED keptVars
  <2>1. UNCHANGED <<tree, clean, edited, edits, said>>
    BY <1>4 DEF keptVars
  <2>2. RunKept(tree, edited)' = RunKept(tree, edited)
    BY <2>1 DEF RunKept, Changed, RecordsAlike
  <2>3. \A deal \in Deals : SaidOf(deal)' <=> SaidOf(deal)
    BY <2>1, <2>2, Zenon DEF SaidOf
  <2>4. KeptOfTree'
    BY <2>1 DEF KeptOfTree, CleanIsOf
  <2> QED
    BY <2>1, <2>2, <2>3, <2>4
<1> QED
  BY <1>1, <1>2, <1>3, <1>4 DEF NextKept

(***************************************************************************)
(* What the invariant gives                                                *)
(***************************************************************************)

\* A parse kept is the parse there would be: its bytes are the same, and it
\* stands where it stood.
LEMMA KeptParses ==
  ASSUME NEW was, NEW now
  PROVE  ReadCorpus(now, ReadCorpus(was, NothingKept).files) = ReadCorpus(now, NothingKept)
<1> DEFINE kept == ReadCorpus(was, NothingKept).files
<1>1. \A f \in DOMAIN kept : kept[f] = ReadAfresh(was, f)
  BY ReadAll
<1> HIDE DEF kept
<1>2. ASSUME NEW f \in Proofs PROVE FileRead(now, kept, f) = FileRead(now, NothingKept, f)
  <2>1. FileRead(now, NothingKept, f) = ReadAfresh(now, f)
    BY DEF FileRead, NothingKept
  <2>2. CASE f \in DOMAIN kept /\ kept[f].raw = now[f] /\ kept[f].at = Place(now, f)
    <3>1. kept[f] = [raw |-> was[f], at |-> Place(was, f)]
      BY <1>1, <1>2, <2>2 DEF ReadAfresh
    <3>2. was[f] = now[f] /\ Place(was, f) = Place(now, f)
      BY <2>2, <3>1
    <3>3. kept[f] = ReadAfresh(now, f)
      BY <1>2, <3>1, <3>2 DEF ReadAfresh
    <3> QED
      BY <2>1, <2>2, <3>3 DEF FileRead
  <2>3. CASE ~(f \in DOMAIN kept /\ kept[f].raw = now[f] /\ kept[f].at = Place(now, f))
    BY <2>1, <2>3 DEF FileRead
  <2> QED
    BY <2>2, <2>3
<1> DEFINE one == [f \in Present(now) |-> IF f \in Proofs THEN FileRead(now, kept, f) ELSE ReadAfresh(now, f)]
<1> DEFINE other == [f \in Present(now) |-> IF f \in Proofs THEN FileRead(now, NothingKept, f) ELSE ReadAfresh(now, f)]
<1>3. one = other
  BY <1>2
<1> QED
  BY <1>3 DEF ReadCorpus, kept

\* A theorem an edit does not reach was read before, and reads what it read.
LEMMA PassedReadsAlike ==
  ASSUME KeptInv, clean # None,
         NEW r, r = ReadCorpus(tree, NothingKept), RecordsAlike(r),
         NEW changed \in SUBSET Proofs,
         \/ changed = Changed(r.files)
         \/ edited \subseteq changed,
         NEW f \in Scopes(r) \ ReachedFrom(r, changed)
  PROVE  f \in DOMAIN clean.readings /\ Reading(r, f) = clean.readings[f]
<1>1. PICK was \in Trees : CleanIsOf(was)
  BY DEF KeptInv, KeptOfTree
<1> DEFINE before == ReadCorpus(was, NothingKept)
<1>2. /\ clean.files = before.files /\ clean.phrases = PhraseRecords(before)
      /\ clean.readings = [g \in Scopes(before) |-> Reading(before, g)]
  BY <1>1 DEF CleanIsOf, CleanOf, Readings
<1>3. PhraseRecords(r) = PhraseRecords(before)
  BY <1>2 DEF RecordsAlike
<1>4. tree \in Trees
  BY DEF KeptInv, KeptTypeOK
<1>5. ASSUME NEW g \in Files, g \notin Changed(r.files) PROVE tree[g] = was[g]
  <2>1. DOMAIN r.files = Present(tree) /\ DOMAIN clean.files = Present(was)
    BY <1>2, ReadAll
  <2>2. CASE g \in Present(tree)
    <3>1. g \in Present(was) /\ r.files[g] = clean.files[g]
      BY <1>5, <2>1, <2>2 DEF Changed
    <3>2. ReadAfresh(tree, g) = ReadAfresh(was, g)
      BY <1>2, <2>2, <3>1, ReadAll
    <3> QED
      BY <3>2 DEF ReadAfresh
  <2>3. CASE g \notin Present(tree)
    <3>1. g \notin Present(was)
      BY <1>5, <2>1, <2>3 DEF Changed
    <3> QED
      BY <2>3, <3>1 DEF Present
  <2> QED
    BY <2>2, <2>3
<1>6. \A g \in Files \ changed : tree[g] = was[g]
  BY <1>1, <1>5 DEF CleanIsOf
<1> HIDE DEF before
<1>7. f \in Scopes(before) /\ Reading(r, f) = Reading(before, f)
  BY <1>3, <1>4, <1>6, UnreachedReadsAlike DEF before
<1> QED
  BY <1>2, <1>7

\* The run against the kept reading takes from it only what a fresh reading
\* would give.
LEMMA KeptIsFresh ==
  ASSUME KeptInv, clean # None PROVE RunKept(tree, edited) = RunEdited(tree, edited)
<1> DEFINE r == ReadCorpus(tree, NothingKept)
<1>1. PICK was \in Trees : CleanIsOf(was)
  BY DEF KeptInv, KeptOfTree
<1>2. clean.files = ReadCorpus(was, NothingKept).files
  BY <1>1 DEF CleanIsOf, CleanOf
<1>3. ReadCorpus(tree, clean.files) = r
  BY <1>2, KeptParses
<1> DEFINE moved == ReachedFrom(r, Changed(r.files))
<1> DEFINE kept(f) == RecordsAlike(r) /\ f \notin moved /\ f \in DOMAIN clean.readings
<1> DEFINE one == [f \in Scopes(r) |-> IF kept(f) THEN clean.readings[f] ELSE Reading(r, f)]
<1> DEFINE other == [f \in Scopes(r) |-> Reading(r, f)]
<1>4. RunKept(tree, edited) = CheckReached(r, edited, one)
  BY <1>3 DEF RunKept
<1>5. RunEdited(tree, edited) = CheckReached(r, edited, other)
  BY DEF RunEdited, Readings
<1> HIDE DEF r
<1>6. ASSUME NEW f \in Scopes(r), kept(f) PROVE clean.readings[f] = Reading(r, f)
  <2>1. Changed(r.files) \in SUBSET Proofs
    BY <1>6 DEF RecordsAlike
  <2> QED
    BY <1>6, <2>1, PassedReadsAlike DEF r
<1>7. one = other
  BY <1>6
<1> QED
  BY <1>4, <1>5, <1>7

(***************************************************************************)
(* Problems said one theorem after another                                 *)
(***************************************************************************)

\* The theorems read stand in their files one below another, each a sequence
\* of steps, as the files written do.
LEMMA TheoremsInLines ==
  ASSUME NEW t \in Trees, NEW r, r = ReadCorpus(t, NothingKept)
  PROVE  /\ \A s \in TheoremsOf(r) :
              /\ s \in ToSet(Slots) /\ s[1] \in Scopes(r) /\ s = <<s[1], s[2]>>
              /\ DOMAIN Theorem(r, s) = 1..Len(Theorem(r, s)) /\ Len(Theorem(r, s)) \in Nat
              /\ \A i \in DOMAIN Theorem(r, s) : Theorem(r, s)[i].line \in Nat
         /\ \A s, u \in TheoremsOf(r) : s[1] = u[1] =>
              \A i \in DOMAIN Theorem(r, s), j \in DOMAIN Theorem(r, u) :
                s[2] < u[2] \/ (s[2] = u[2] /\ i < j) => Theorem(r, s)[i].line < Theorem(r, u)[j].line
         /\ \A s, u \in TheoremsOf(r) : s[2] \in Nat /\ (s[1] = u[1] /\ s[2] = u[2] => s = u)
<1>1. \A s \in ToSet(Slots) : s \in Proofs \X Nat
  BY BoundsAssumption DEF ToSet
<1>2. ASSUME NEW s \in TheoremsOf(r)
      PROVE  /\ s[1] \in Scopes(r) /\ s[1] \in Proofs /\ s \in ToSet(Slots) /\ s = <<s[1], s[2]>>
             /\ s[2] \in Nat /\ Theorem(r, s) = t[s[1]].theorems[s[2]]
             /\ s[2] \in DOMAIN t[s[1]].theorems /\ InLines(t[s[1]].theorems)
  <2>1. s \in ToSet(Slots) /\ s \in Proofs \X Nat /\ s[1] \in Scopes(r)
        /\ s[2] \in DOMAIN r.files[s[1]].raw.theorems
    BY <1>1 DEF TheoremsOf
  <2>2. Parses(t[s[1]]) /\ s[1] \in Proofs /\ t[s[1]] \in Written[s[1]]
    BY <2>1, ReadAll DEF Trees, Files
  <2>3. r.files[s[1]].raw = t[s[1]]
    <3>1. s[1] \in Present(t)
      BY <2>2, InTrees
    <3>2. r.files[s[1]] = ReadAfresh(t, s[1])
      BY <3>1, ReadAll
    <3> QED
      BY <3>2 DEF ReadAfresh
  <2>4. InLines(t[s[1]].theorems)
    <3>1. \A f \in Proofs : \A c \in Written[f] : Parses(c) => InLines(c.theorems)
      BY BoundsAssumption, Zenon
    <3> QED
      BY <2>2, <3>1, Zenon
  <2> QED
    BY <2>1, <2>2, <2>3, <2>4 DEF Theorem
<1>3. ASSUME NEW s \in TheoremsOf(r)
      PROVE  /\ DOMAIN Theorem(r, s) = 1..Len(Theorem(r, s)) /\ Len(Theorem(r, s)) \in Nat
             /\ \A i \in DOMAIN Theorem(r, s) : Theorem(r, s)[i].line \in Nat
  <2>1. PICK thms : thms = t[s[1]].theorems
    OBVIOUS
  <2>2. PICK Steps : Steps = [line : Nat, cites : BOOLEAN, surplus : BOOLEAN, pair : BOOLEAN]
    OBVIOUS
  <2>3. thms \in Seq(Seq(Steps)) /\ s[2] \in DOMAIN thms /\ Theorem(r, s) = thms[s[2]]
    BY <1>2, <2>1, <2>2 DEF InLines
  <2>4. Theorem(r, s) \in Seq(Steps)
    BY <2>3
  <2>5. \A x \in Steps : x.line \in Nat
    BY <2>2
  <2> QED
    BY <2>4, <2>5
<1>4. ASSUME NEW s \in TheoremsOf(r), NEW u \in TheoremsOf(r), s[1] = u[1],
             NEW i \in DOMAIN Theorem(r, s), NEW j \in DOMAIN Theorem(r, u),
             s[2] < u[2] \/ (s[2] = u[2] /\ i < j)
      PROVE  Theorem(r, s)[i].line < Theorem(r, u)[j].line
  <2>1. PICK thms : thms = t[s[1]].theorems
    OBVIOUS
  <2>2. \A k, m \in DOMAIN thms : \A a \in DOMAIN thms[k], b \in DOMAIN thms[m] :
          (k < m \/ (k = m /\ a < b)) => thms[k][a].line < thms[m][b].line
    <3>1. InLines(thms)
      BY <1>2, <2>1
    <3> QED
      BY <3>1, Zenon DEF InLines
  <2>3. Theorem(r, s) = thms[s[2]] /\ Theorem(r, u) = thms[u[2]]
        /\ s[2] \in DOMAIN thms /\ u[2] \in DOMAIN thms
    BY <1>2, <1>4, <2>1
  <2> QED
    BY <1>4, <2>2, <2>3
<1> QED
  BY <1>2, <1>3, <1>4

\* What may be said of a step, and the parts of what check_nth says.
StepProblem(r, s, i, what) == Problem(s[1], Theorem(r, s)[i].line, what)

WrongOf(r, s, reading) ==
  {StepProblem(r, s, i, "wrong") : i \in {j \in DOMAIN Theorem(r, s) :
     Theorem(r, s)[j].cites /\ reading.lacks # {}}}

IdleOf(report, r, s, reading) ==
  {StepProblem(r, s, i, "surplus") : i \in {j \in DOMAIN Theorem(r, s) :
     /\ Theorem(r, s)[j].surplus
     /\ ~Reported(report \cup WrongOf(r, s, reading), s[1], Theorem(r, s), j)}}

PairsOf(r, s) ==
  {StepProblem(r, s, i, "pair") : i \in {j \in DOMAIN Theorem(r, s) : Theorem(r, s)[j].pair}}

\* check_nth says these.
LEMMA CheckedIs ==
  ASSUME NEW report, NEW r, NEW s, NEW reading
  PROVE  Checked(report, r, s, reading)
           = WrongOf(r, s, reading) \cup IdleOf(report, r, s, reading)
             \cup (IF WrongOf(r, s, reading) \cup IdleOf(report, r, s, reading) = {}
                   THEN PairsOf(r, s) ELSE {})
  BY Zenon DEF Checked, WrongOf, IdleOf, PairsOf, StepProblem

\* All that check_nth says is said of the theorem's own steps.
LEMMA CheckedAt ==
  ASSUME NEW report, NEW r, NEW s, NEW reading, NEW p \in Checked(report, r, s, reading)
  PROVE  \E i \in DOMAIN Theorem(r, s) : \E what \in {"wrong", "surplus", "pair"} :
           p = StepProblem(r, s, i, what)
<1>1. p \in WrongOf(r, s, reading) \/ p \in IdleOf(report, r, s, reading) \/ p \in PairsOf(r, s)
  BY CheckedIs
<1> QED
  BY <1>1 DEF WrongOf, IdleOf, PairsOf

\* Problems said of the steps of theorems that stand above that of s.
SaidAbove(r, s, more) ==
  \A p \in more : \E u \in TheoremsOf(r) :
    /\ u[1] = s[1] => u[2] < s[2]
    /\ \E i \in DOMAIN Theorem(r, u) : \E what : p = StepProblem(r, u, i, what)

\* Problems of theorems that stand above it change nothing that check_nth says
\* of a theorem: none lies between its steps, nor below them.
LEMMA EarlierHidesNothing ==
  ASSUME NEW t \in Trees, NEW r, r = ReadCorpus(t, NothingKept),
         NEW report, NEW more, NEW s \in TheoremsOf(r), NEW reading,
         SaidAbove(r, s, more)
  PROVE  Checked(report \cup more, r, s, reading) = Checked(report, r, s, reading)
<1> DEFINE wrong == WrongOf(r, s, reading)
<1> DEFINE thm == Theorem(r, s)
<1>1. ASSUME NEW j \in DOMAIN thm, NEW p \in more, p.file = s[1] PROVE p.line < thm[j].line
  <2>1. PICK u \in TheoremsOf(r) : /\ u[1] = s[1] => u[2] < s[2]
                                  /\ \E i \in DOMAIN Theorem(r, u) : \E what : p = StepProblem(r, u, i, what)
    BY DEF SaidAbove
  <2>2. PICK i \in DOMAIN Theorem(r, u) : \E what : p = StepProblem(r, u, i, what)
    BY <2>1
  <2>3. p.file = u[1] /\ p.line = Theorem(r, u)[i].line
    BY <2>2 DEF StepProblem, Problem
  <2> QED
    BY <1>1, <2>1, <2>2, <2>3, TheoremsInLines
<1>2. \A j \in DOMAIN thm : thm[j].line \in Nat
  BY TheoremsInLines
<1>3. ASSUME NEW p \in more, p.file = s[1] PROVE p.line \in Nat
  <2>1. PICK u \in TheoremsOf(r) : \E i \in DOMAIN Theorem(r, u) : \E what : p = StepProblem(r, u, i, what)
    BY DEF SaidAbove
  <2>2. PICK i \in DOMAIN Theorem(r, u) : \E what : p = StepProblem(r, u, i, what)
    BY <2>1
  <2>3. p.line = Theorem(r, u)[i].line
    BY <2>2 DEF StepProblem, Problem
  <2> QED
    BY <2>3, TheoremsInLines
<1>4. ASSUME NEW j \in DOMAIN thm
      PROVE  Reported((report \cup more) \cup wrong, s[1], thm, j)
               <=> Reported(report \cup wrong, s[1], thm, j)
  <2> HIDE DEF wrong, thm
  <2>1. ASSUME NEW p \in more, p.file = s[1] PROVE ~(thm[j].line <= p.line)
    BY <1>1, <1>2, <1>3, <1>4, <2>1
  <2> QED
    BY <2>1 DEF Reported
<1>5. IdleOf(report \cup more, r, s, reading) = IdleOf(report, r, s, reading)
  <2> DEFINE Still1(rep) == {j \in DOMAIN thm : thm[j].surplus /\ ~Reported(rep \cup wrong, s[1], thm, j)}
  <2>1. Still1(report \cup more) = Still1(report)
    BY <1>4
  <2> HIDE DEF Still1
  <2>2. {StepProblem(r, s, i, "surplus") : i \in Still1(report \cup more)}
          = {StepProblem(r, s, i, "surplus") : i \in Still1(report)}
    BY <2>1
  <2> QED
    BY <2>2 DEF IdleOf, Still1
<1> QED
  BY <1>5, CheckedIs

\* What a worker's report holds as it goes from theorem to theorem.
IsHeld(Held, report, r, wanted, readings) ==
  /\ CheckAll(report, r, wanted, readings) = Held[Len(Slots)]
  /\ Held[0] = report
  /\ \A n \in 1..Len(Slots) :
       Held[n] = IF Slots[n] \in wanted
                 THEN Held[n - 1] \cup Checked(Held[n - 1], r, Slots[n], readings[Slots[n][1]])
                 ELSE Held[n - 1]

\* There is such a report at each, unrolled.
LEMMA HeldUnrolled ==
  ASSUME NEW report, NEW r, NEW wanted, NEW readings
  PROVE  \E Held : IsHeld(Held, report, r, wanted, readings)
<1> DEFINE Size == Len(Slots)
<1> DEFINE Taken1(held, i) ==
      IF Slots[i] \in wanted THEN held \cup Checked(held, r, Slots[i], readings[Slots[i][1]]) ELSE held
<1> DEFINE Body(f, i) == IF i = 0 THEN report ELSE Taken1(f[i - 1], i)
<1>1. Size \in Nat
  BY BoundsAssumption
<1> DEFINE T == {n \in Nat : \E f : f = [i \in 0..n |-> Body(f, i)]}
<1>2. 0 \in T
  <2>1. [i \in 0..0 |-> report] = [i \in 0..0 |-> Body([j \in 0..0 |-> report], i)]
    OBVIOUS
  <2> QED
    BY <2>1
<1>3. ASSUME NEW n \in Nat, n \in T PROVE n + 1 \in T
  <2>1. PICK f : f = [i \in 0..n |-> Body(f, i)]
    BY <1>3
  <2>2. \A i \in 0..n : f[i] = Body(f, i)
    BY <2>1
  <2> HIDE DEF Taken1
  <2> DEFINE h == [i \in 0..(n + 1) |-> IF i <= n THEN f[i] ELSE Taken1(f[n], n + 1)]
  <2>3. \A i \in 0..n : h[i] = f[i]
    OBVIOUS
  <2>4. h[n + 1] = Taken1(f[n], n + 1)
    OBVIOUS
  <2>5. h = [i \in 0..(n + 1) |-> h[i]]
    OBVIOUS
  <2> HIDE DEF h
  <2>6. ASSUME NEW i \in 0..(n + 1) PROVE h[i] = Body(h, i)
    <3>1. CASE i = 0
      BY <2>2, <2>3, <3>1
    <3>2. CASE i \in 1..n
      <4>1. h[i] = f[i] /\ h[i - 1] = f[i - 1] /\ f[i] = Body(f, i)
        BY <2>2, <2>3, <3>2
      <4> QED
        BY <3>2, <4>1
    <3>3. CASE i = n + 1
      <4>1. h[i - 1] = f[n] /\ i # 0
        BY <2>3, <3>3
      <4> QED
        BY <2>4, <3>3, <4>1
    <3> QED
      BY <3>1, <3>2, <3>3
  <2>7. h = [i \in 0..(n + 1) |-> Body(h, i)]
    BY <2>5, <2>6, Zenon
  <2> QED
    BY <2>7
<1>4. Size \in T
  <2> HIDE DEF T, Size
  <2> QED
    BY <1>1, <1>2, <1>3, SetInduction
<1> DEFINE Each == CHOOSE f : f = [i \in 0..Size |-> Body(f, i)]
<1>5. Each = [i \in 0..Size |-> Body(Each, i)]
  <2>1. \E f : f = [i \in 0..Size |-> Body(f, i)]
    BY <1>4
  <2> HIDE DEF Body, Size
  <2> QED
    BY <2>1, Zenon
<1>6. CheckAll(report, r, wanted, readings) = Each[Size]
  BY Zenon DEF CheckAll
<1> HIDE DEF Each, Taken1
<1>7. \A i \in 0..Size : Each[i] = Body(Each, i)
  BY <1>5, Zenon
<1>8. Each[0] = report
  BY <1>1, <1>7
<1>9. \A n \in 1..Size : Each[n] = Body(Each, n)
  BY <1>1, <1>7
<1>10. \A n \in 1..Size : Each[n] = Taken1(Each[n - 1], n)
  BY <1>1, <1>9
<1> QED
  BY <1>6, <1>8, <1>10, Zenon DEF Taken1, IsHeld

\* check_taken: the theorems wanted, said one after another into one report,
\* are said as each is said into the report there was before the first.
LEMMA ChecksAlone ==
  ASSUME NEW t \in Trees, NEW r, r = ReadCorpus(t, NothingKept),
         NEW report, NEW wanted \in SUBSET TheoremsOf(r), NEW readings
  PROVE  CheckAll(report, r, wanted, readings)
           = report \cup UNION {Checked(report, r, s, readings[s[1]]) : s \in wanted}
<1>a. PICK Held : IsHeld(Held, report, r, wanted, readings)
  BY HeldUnrolled, Zenon
<1>1. /\ CheckAll(report, r, wanted, readings) = Held[Len(Slots)]
      /\ Held[0] = report
      /\ \A n \in 1..Len(Slots) :
           Held[n] = IF Slots[n] \in wanted
                     THEN Held[n - 1] \cup Checked(Held[n - 1], r, Slots[n], readings[Slots[n][1]])
                     ELSE Held[n - 1]
  BY <1>a, Zenon DEF IsHeld
<1> DEFINE SaidBy(s) == Checked(report, r, s, readings[s[1]])
<1> DEFINE By(n) == {s \in wanted : \E m \in 1..n : Slots[m] = s}
<1> DEFINE T == {n \in Nat : n <= Len(Slots) => Held[n] = report \cup UNION {SaidBy(s) : s \in By(n)}}
<1>2. Len(Slots) \in Nat /\ DOMAIN Slots = 1..Len(Slots)
  BY BoundsAssumption
<1>b. \A more, s, reading : s \in TheoremsOf(r) /\ SaidAbove(r, s, more) =>
        Checked(report \cup more, r, s, reading) = Checked(report, r, s, reading)
  BY EarlierHidesNothing
<1>3. 0 \in T
  BY <1>1
<1>4. ASSUME NEW n \in Nat, n \in T PROVE n + 1 \in T
  <2> SUFFICES ASSUME n + 1 <= Len(Slots)
               PROVE  Held[n + 1] = report \cup UNION {SaidBy(s) : s \in By(n + 1)}
    OBVIOUS
  <2> DEFINE s == Slots[n + 1]
  <2> DEFINE more == UNION {SaidBy(u) : u \in By(n)}
  <2>1. Held[n] = report \cup more
    BY <1>2, <1>4
  <2>2. Held[n + 1] = IF s \in wanted THEN Held[n] \cup Checked(Held[n], r, s, readings[s[1]]) ELSE Held[n]
    <3>1. n + 1 \in 1..Len(Slots) /\ (n + 1) - 1 = n
      BY <1>2
    <3> QED
      BY <1>1, <3>1
  <2>3. CASE s \notin wanted
    <3>1. By(n + 1) = By(n)
      BY <2>3
    <3> HIDE DEF By, SaidBy, s
    <3> QED
      BY <2>1, <2>2, <2>3, <3>1
  <2>4. CASE s \in wanted
    <3>1. By(n + 1) = By(n) \cup {s}
      BY <2>4
    <3>2. ASSUME NEW p \in more
          PROVE  \E u \in TheoremsOf(r) :
                   /\ u[1] = s[1] => u[2] < s[2]
                   /\ \E i \in DOMAIN Theorem(r, u) : \E what : p = StepProblem(r, u, i, what)
      <4>1. PICK u \in By(n) : p \in SaidBy(u)
        BY <3>2
      <4>2. PICK m \in 1..n : Slots[m] = u
        BY <4>1
      <4>3. u \in TheoremsOf(r) /\ m \in DOMAIN Slots /\ n + 1 \in DOMAIN Slots /\ m < n + 1
        BY <1>2, <4>1, <4>2
      <4>4. u[1] = s[1] => u[2] < s[2]
        BY <4>2, <4>3, BoundsAssumption
      <4>5. \E i \in DOMAIN Theorem(r, u) : \E what \in {"wrong", "surplus", "pair"} : p = StepProblem(r, u, i, what)
        BY <4>1, CheckedAt
      <4> QED
        BY <4>3, <4>4, <4>5
    <3>a. s \in TheoremsOf(r)
      BY <2>4
    <3> HIDE DEF more, s
    <3>b. PICK reading : reading = readings[s[1]]
      OBVIOUS
    <3>c. SaidAbove(r, s, more)
      BY <3>2, Zenon DEF SaidAbove
    <3>d. Checked(report \cup more, r, s, reading) = Checked(report, r, s, reading)
      BY <3>a, <3>c, <1>b
    <3>3. Checked(report \cup more, r, s, readings[s[1]]) = SaidBy(s)
      BY <3>b, <3>d
    <3> HIDE DEF SaidBy
    <3>4. Held[n + 1] = (report \cup more) \cup SaidBy(s)
      BY <2>1, <2>2, <2>4, <3>3
    <3> HIDE DEF By
    <3>5. UNION {SaidBy(u) : u \in By(n + 1)} = more \cup SaidBy(s)
      BY <3>1 DEF more
    <3> QED
      BY <3>4, <3>5
  <2> QED
    BY <2>3, <2>4
<1>5. Len(Slots) \in T
  <2> HIDE DEF T
  <2> QED
    BY <1>2, <1>3, <1>4, SetInduction
<1>6. By(Len(Slots)) = wanted
  <2>1. \A s \in wanted : s \in ToSet(Slots)
    BY TheoremsInLines
  <2> QED
    BY <1>2, <2>1 DEF ToSet
<1>7. Held[Len(Slots)] = report \cup UNION {SaidBy(s) : s \in By(Len(Slots))}
  BY <1>2, <1>5
<1> HIDE DEF By
<1> QED
  BY <1>1, <1>6, <1>7

\* Every theorem read, said into the report the corpus's own checks make, and
\* said by itself: the first leaves out a surplus line the corpus's report
\* reaches, and says pairs where that was all.
LEMMA SaidApart ==
  ASSUME NEW r, NEW report, NEW s, NEW reading
  PROVE  /\ IdleOf(report, r, s, reading) \subseteq IdleOf({}, r, s, reading)
         /\ \A p \in IdleOf({}, r, s, reading) \ IdleOf(report, r, s, reading) :
              \E i \in DOMAIN Theorem(r, s) :
                /\ p = StepProblem(r, s, i, "surplus")
                /\ Reported(report, s[1], Theorem(r, s), i)
<1> DEFINE wrong == WrongOf(r, s, reading)
<1> DEFINE thm == Theorem(r, s)
<1>1. \A j : Reported(report \cup wrong, s[1], thm, j)
               <=> (Reported(report, s[1], thm, j) \/ Reported({} \cup wrong, s[1], thm, j))
  BY DEF Reported
<1> HIDE DEF wrong
<1>2. ASSUME NEW p \in IdleOf(report, r, s, reading) PROVE p \in IdleOf({}, r, s, reading)
  BY <1>1, <1>2 DEF IdleOf, wrong
<1>3. ASSUME NEW p \in IdleOf({}, r, s, reading), p \notin IdleOf(report, r, s, reading)
      PROVE  \E i \in DOMAIN Theorem(r, s) :
               p = StepProblem(r, s, i, "surplus") /\ Reported(report, s[1], Theorem(r, s), i)
  <2>1. PICK i \in DOMAIN thm : /\ thm[i].surplus /\ ~Reported({} \cup wrong, s[1], thm, i)
                                /\ p = StepProblem(r, s, i, "surplus")
    BY <1>3 DEF IdleOf, wrong
  <2>2. Reported(report \cup wrong, s[1], thm, i)
    BY <1>3, <2>1 DEF IdleOf, wrong
  <2> QED
    BY <1>1, <2>1, <2>2
<1> QED
  BY <1>2, <1>3

\* What run says of a tree and what run_edited says of it, of the whole corpus
\* and each theorem by itself.
LEMMA RunsSay ==
  ASSUME NEW t \in Trees, NEW r, r = ReadCorpus(t, NothingKept), NEW changed,
         NEW deal \in Deals
  PROVE  /\ RunWhole(r, Readings(r), deal)
              = WideProblems(r) \cup UNION {Checked({}, r, s, Reading(r, s[1])) : s \in TheoremsOf(r)}
         /\ RunEdited(t, changed).problems
              = WideProblems(r) \cup
                UNION {Checked(WideProblems(r), r, s, Reading(r, s[1])) :
                         s \in {u \in TheoremsOf(r) : u[1] \in ReachedFrom(r, changed)}}
<1> DEFINE wide == WideProblems(r)
<1> DEFINE readings == Readings(r)
<1> DEFINE reached == {u \in TheoremsOf(r) : u[1] \in ReachedFrom(r, changed)}
<1> DEFINE takes(w) == {s \in TheoremsOf(r) : deal[s] = w}
<1> DEFINE Alone(s) == Checked({}, r, s, readings[s[1]])
<1> DEFINE After1(s) == Checked(wide, r, s, readings[s[1]])
<1>1. \A s \in TheoremsOf(r) : readings[s[1]] = Reading(r, s[1]) /\ deal[s] \in Takers
  BY DEF Readings, TheoremsOf, Deals
<1>2. RunEdited(t, changed).problems = CheckAll(wide, r, reached, readings)
  BY DEF RunEdited, CheckReached
<1>3. RunWhole(r, readings, deal) = wide \cup UNION {CheckAll({}, r, takes(w), readings) : w \in Takers}
  BY DEF RunWhole
<1> HIDE DEF wide, readings
<1>4. CheckAll(wide, r, reached, readings) = wide \cup UNION {After1(s) : s \in reached}
  BY ChecksAlone
<1>5. \A w : CheckAll({}, r, takes(w), readings) = UNION {Alone(s) : s \in takes(w)}
  <2> SUFFICES ASSUME NEW w PROVE CheckAll({}, r, takes(w), readings) = UNION {Alone(s) : s \in takes(w)}
    OBVIOUS
  <2>1. takes(w) \in SUBSET TheoremsOf(r)
    OBVIOUS
  <2> HIDE DEF takes
  <2>2. CheckAll({}, r, takes(w), readings) = {} \cup UNION {Alone(s) : s \in takes(w)}
    BY <2>1, ChecksAlone
  <2> QED
    BY <2>2
<1> HIDE DEF Alone, After1
<1>6. UNION {CheckAll({}, r, takes(w), readings) : w \in Takers} = UNION {Alone(s) : s \in TheoremsOf(r)}
  <2> DEFINE both(w) == UNION {Alone(s) : s \in takes(w)}
  <2> HIDE DEF takes, both
  <2>a. \A w : CheckAll({}, r, takes(w), readings) = both(w)
    BY <1>5, Zenon DEF both
  <2>b. {CheckAll({}, r, takes(w), readings) : w \in Takers} = {both(w) : w \in Takers}
    BY <2>a, Zenon
  <2> USE DEF takes, both
  <2>1. {CheckAll({}, r, takes(w), readings) : w \in Takers} = {UNION {Alone(s) : s \in takes(w)} : w \in Takers}
    BY <2>b, Zenon
  <2>2. UNION {UNION {Alone(s) : s \in takes(w)} : w \in Takers} = UNION {Alone(s) : s \in TheoremsOf(r)}
    BY <1>1
  <2> QED
    BY <2>1, <2>2
<1>7. {Alone(s) : s \in TheoremsOf(r)} = {Checked({}, r, s, Reading(r, s[1])) : s \in TheoremsOf(r)}
  BY <1>1 DEF Alone
<1>8. {After1(s) : s \in reached} = {Checked(wide, r, s, Reading(r, s[1])) : s \in reached}
  BY <1>1 DEF After1
<1> QED
  BY <1>2, <1>3, <1>4, <1>6, <1>7, <1>8 DEF wide, readings

\* What run_edited leaves out of what run says of a file it reaches is a
\* surplus line hidden.
LEMMA LeftOutIsHidden ==
  ASSUME NEW t \in Trees, NEW r, r = ReadCorpus(t, NothingKept),
         NEW s \in TheoremsOf(r), NEW reading,
         NEW p \in Checked({}, r, s, reading), p \notin Checked(WideProblems(r), r, s, reading)
  PROVE  Hidden(r, p) /\ p \in IdleOf({}, r, s, reading)
<1> DEFINE wide == WideProblems(r)
<1> HIDE DEF wide
<1>1. p \in IdleOf({}, r, s, reading) \ IdleOf(wide, r, s, reading)
  BY CheckedIs, SaidApart DEF wide
<1>2. PICK i \in DOMAIN Theorem(r, s) :
        p = StepProblem(r, s, i, "surplus") /\ Reported(wide, s[1], Theorem(r, s), i)
  BY <1>1, SaidApart
<1>3. p.what = "surplus" /\ p.file = s[1] /\ p.line = Theorem(r, s)[i].line
  BY <1>2 DEF StepProblem, Problem
<1> QED
  BY <1>1, <1>2, <1>3 DEF Hidden, wide

\* What run_edited says more is a pair, where it leaves out a surplus line of
\* the same theorem.
LEMMA MoreIsPair ==
  ASSUME NEW t \in Trees, NEW r, r = ReadCorpus(t, NothingKept),
         NEW s \in TheoremsOf(r), NEW reading,
         NEW p \in Checked(WideProblems(r), r, s, reading), p \notin Checked({}, r, s, reading)
  PROVE  /\ p.what = "pair" /\ p.file = s[1]
         /\ \E q \in Checked({}, r, s, reading) \ Checked(WideProblems(r), r, s, reading) :
              \E i \in DOMAIN Theorem(r, s) : q = StepProblem(r, s, i, "surplus")
<1> DEFINE wide == WideProblems(r)
<1> HIDE DEF wide
<1>1. /\ p \in PairsOf(r, s) /\ WrongOf(r, s, reading) = {} /\ IdleOf(wide, r, s, reading) = {}
      /\ IdleOf({}, r, s, reading) # {}
  BY CheckedIs, SaidApart DEF wide
<1>2. p.what = "pair" /\ p.file = s[1]
  BY <1>1 DEF PairsOf, StepProblem, Problem
<1>3. PICK q : q \in IdleOf({}, r, s, reading)
  BY <1>1
<1>4. PICK i \in DOMAIN Theorem(r, s) : q = StepProblem(r, s, i, "surplus")
  BY <1>3 DEF IdleOf
<1>5. q \in Checked({}, r, s, reading)
  BY <1>3, CheckedIs
<1>6. q \notin Checked(wide, r, s, reading)
  <2>1. Checked(wide, r, s, reading) \subseteq PairsOf(r, s)
    BY <1>1, CheckedIs
  <2>2. q \notin PairsOf(r, s)
    BY <1>4 DEF PairsOf, StepProblem, Problem
  <2> QED
    BY <2>1, <2>2
<1> QED
  BY <1>2, <1>4, <1>5, <1>6 DEF wide

\* No two theorems have a step at one line.
LEMMA SaidOfOne ==
  ASSUME NEW t \in Trees, NEW r, r = ReadCorpus(t, NothingKept),
         NEW s \in TheoremsOf(r), NEW u \in TheoremsOf(r), s # u,
         NEW report, NEW reading, NEW i \in DOMAIN Theorem(r, s), NEW what
  PROVE  StepProblem(r, s, i, what) \notin Checked(report, r, u, reading)
<1> SUFFICES ASSUME StepProblem(r, s, i, what) \in Checked(report, r, u, reading) PROVE FALSE
  OBVIOUS
<1>a. PICK j \in DOMAIN Theorem(r, u) : \E kind \in {"wrong", "surplus", "pair"} :
        StepProblem(r, s, i, what) = StepProblem(r, u, j, kind)
  BY CheckedAt
<1>1. PICK kind : StepProblem(r, s, i, what) = StepProblem(r, u, j, kind)
  BY <1>a
<1>2. s[1] = u[1] /\ Theorem(r, s)[i].line = Theorem(r, u)[j].line
  <2>1. Problem(s[1], Theorem(r, s)[i].line, what) = Problem(u[1], Theorem(r, u)[j].line, kind)
    BY <1>1 DEF StepProblem
  <2> QED
    BY <2>1 DEF Problem
<1>3. s[2] \in Nat /\ u[2] \in Nat /\ s[2] # u[2]
  BY <1>2, TheoremsInLines
<1>4. Theorem(r, s)[i].line \in Nat /\ Theorem(r, u)[j].line \in Nat
  BY TheoremsInLines
<1>5. CASE s[2] < u[2]
  <2>1. Theorem(r, s)[i].line < Theorem(r, u)[j].line
    BY <1>2, <1>5, TheoremsInLines
  <2> QED
    BY <1>2, <1>4, <2>1
<1>6. CASE u[2] < s[2]
  <2>1. Theorem(r, u)[j].line < Theorem(r, s)[i].line
    BY <1>2, <1>6, TheoremsInLines
  <2> QED
    BY <1>2, <1>4, <2>1
<1> QED
  BY <1>3, <1>5, <1>6

\* run_edited of the corpus as it is answers as run does, whatever each worker
\* took: a theorem's problems depend on no other theorem's.
LEMMA EditedAnswers ==
  ASSUME tree \in Trees, NEW deal \in Deals, said # None,
         said.run = RunWhole(Now, Readings(Now), deal),
         said.fresh = RunEdited(tree, edited)
  PROVE  EditedSaysRun
<1> DEFINE r == Now
<1> DEFINE wide == WideProblems(r)
<1> DEFINE passed == PassedOver
<1> DEFINE whole == said.run
<1> DEFINE edit == said.fresh.problems
<1> DEFINE Alone(s) == Checked({}, r, s, Reading(r, s[1]))
<1> DEFINE After1(s) == Checked(wide, r, s, Reading(r, s[1]))
<1> DEFINE reached == {u \in TheoremsOf(r) : u[1] \in ReachedFrom(r, edited)}
<1>1. /\ whole = wide \cup UNION {Alone(s) : s \in TheoremsOf(r)}
      /\ edit = wide \cup UNION {After1(s) : s \in reached}
  BY RunsSay DEF Now
<1>2. \A p \in wide : p.what = "wide"
  BY DEF WideProblems, Problem
<1>3. \A s \in TheoremsOf(r) : \A p \in Alone(s) \cup After1(s) :
        p.file = s[1] /\ p.what # "wide" /\ s[1] \in Scopes(r)
  <2> SUFFICES ASSUME NEW s \in TheoremsOf(r), NEW p \in Alone(s) \cup After1(s)
               PROVE  p.file = s[1] /\ p.what # "wide" /\ s[1] \in Scopes(r)
    OBVIOUS
  <2>1. PICK i \in DOMAIN Theorem(r, s) : \E what \in {"wrong", "surplus", "pair"} : p = StepProblem(r, s, i, what)
    BY CheckedAt
  <2> QED
    BY <2>1 DEF StepProblem, Problem, TheoremsOf
<1>4. \A s \in TheoremsOf(r) : s \notin reached <=> s[1] \in passed
  BY DEF PassedOver, TheoremsOf
<1>5. r = ReadCorpus(tree, NothingKept)
  BY DEF Now
<1> HIDE DEF r, passed
<1>6. ASSUME NEW p \in whole \ edit PROVE p.file \in passed \/ Hidden(r, p)
  <2>1. PICK s \in TheoremsOf(r) : p \in Alone(s)
    BY <1>1, <1>6
  <2>2. CASE s \in reached
    <3>1. p \notin After1(s)
      BY <1>1, <1>6, <2>2
    <3> QED
      BY <1>5, <2>1, <3>1, LeftOutIsHidden
  <2>3. CASE s \notin reached
    BY <1>3, <1>4, <2>1, <2>3
  <2> QED
    BY <2>2, <2>3
<1>7. ASSUME NEW p \in edit \ whole
      PROVE  p.what = "pair" /\ \E q \in whole \ edit : q.file = p.file /\ Hidden(r, q)
  <2>1. PICK s \in reached : p \in After1(s)
    BY <1>1, <1>7
  <2>2. p \notin Alone(s) /\ s \in TheoremsOf(r)
    BY <1>1, <1>7
  <2>3. p.what = "pair" /\ p.file = s[1]
    BY <1>5, <2>1, <2>2, MoreIsPair
  <2>4. PICK q \in Alone(s) \ After1(s) : \E i \in DOMAIN Theorem(r, s) : q = StepProblem(r, s, i, "surplus")
    BY <1>5, <2>1, <2>2, MoreIsPair
  <2>5. PICK i \in DOMAIN Theorem(r, s) : q = StepProblem(r, s, i, "surplus")
    BY <2>4
  <2>6. ASSUME NEW u \in reached PROVE q \notin After1(u)
    <3>1. u \in TheoremsOf(r)
      OBVIOUS
    <3>2. CASE u = s
      BY <2>4, <3>2
    <3>3. CASE u # s
      BY <1>5, <2>2, <2>5, <3>1, <3>3, SaidOfOne
    <3> QED
      BY <3>2, <3>3
  <2>7. q.file = s[1] /\ q.what # "wide"
    BY <1>3, <2>2, <2>4
  <2>8. q \notin wide
    BY <1>2, <2>7
  <2> HIDE DEF Alone, After1, wide, reached, whole, edit
  <2>9. q \in whole \ edit
    BY <1>1, <2>2, <2>4, <2>6, <2>8
  <2>10. Hidden(r, q)
    BY <1>5, <2>2, <2>4, LeftOutIsHidden DEF Alone, After1, wide
  <2> QED
    BY <2>3, <2>7, <2>9, <2>10
<1>8. ASSUME NEW p \in edit, p.file \in passed PROVE p.what = "wide"
  <2>1. CASE p \in wide
    BY <1>2, <2>1
  <2>2. ASSUME NEW s \in reached, p \in After1(s) PROVE FALSE
    <3>1. p.file = s[1] /\ s \in TheoremsOf(r)
      BY <1>3, <2>2
    <3> QED
      BY <1>4, <1>8, <2>2, <3>1
  <2> QED
    BY <1>1, <1>8, <2>1, <2>2
<1>9. ASSUME NEW f \in Scopes(r) \ passed
      PROVE  (\E p \in edit : p.file = f) <=> (\E p \in whole : p.file = f)
  <2>1. ASSUME NEW p \in edit, p.file = f PROVE \E q \in whole : q.file = f
    BY <1>7, <2>1
  <2>2. ASSUME NEW p \in whole, p.file = f PROVE \E q \in edit : q.file = f
    <3>1. CASE p \in edit
      BY <2>2, <3>1
    <3>2. CASE p \notin edit
      <4>1. Hidden(r, p)
        BY <1>6, <1>9, <2>2, <3>2
      <4>2. PICK s, i : p.file = s[1] /\ Reported(wide, s[1], Theorem(r, s), i)
        BY <4>1 DEF Hidden
      <4>3. PICK q \in wide : q.file = s[1]
        BY <4>2 DEF Reported
      <4> QED
        BY <1>1, <2>2, <4>2, <4>3
    <3> QED
      BY <3>1, <3>2
  <2> QED
    BY <2>1, <2>2
<1> HIDE DEF whole, edit
<1>10. \A p \in whole \ edit : p.file \in passed \/ Hidden(r, p)
  BY <1>6
<1>11. \A p \in edit \ whole :
         p.what = "pair" /\ \E q \in whole \ edit : q.file = p.file /\ Hidden(r, q)
  BY <1>7
<1>12. \A p \in edit : p.file \in passed => p.what = "wide"
  BY <1>8
<1>13. \A f \in Scopes(r) \ passed : (\E p \in edit : p.file = f) <=> (\E p \in whole : p.file = f)
  BY <1>9
<1> QED
  BY <1>10, <1>11, <1>12, <1>13 DEF EditedSaysRun, whole, edit, r, passed

(***************************************************************************)
(* The theorems                                                            *)
(***************************************************************************)

\* The invariant holds throughout.
LEMMA KeptInvariant == SpecKept => []KeptInv
<1>1. InitKept => KeptInv
  BY KeptInvInit
<1>2. KeptInv /\ [NextKept]_keptVars => KeptInv'
  BY KeptInvStep
<1> QED
  BY <1>1, <1>2, PTL DEF SpecKept

\* The tree, the files said to be edited and the runs keep their types.
THEOREM KeptTypeCorrect == SpecKept => []KeptTypeOK
  BY KeptInvariant, PTL DEF KeptInv

\* Clean::run_edited says, word for word, what run_edited says read afresh:
\* no kept parse or reading is stale, whatever was added, taken away, refused
\* or moved.
THEOREM KeptIsNeverStale == SpecKept => []KeptSaysFresh
<1>1. KeptInv => KeptSaysFresh
  BY KeptIsFresh DEF KeptInv, KeptTypeOK, SaidOf, KeptSaysFresh
<1> QED
  BY <1>1, KeptInvariant, PTL

\* While the records stay as they were, a theorem reached_from passes over
\* reads what it read: passing it over can hide no problem the edit made.
THEOREM PassedOverReadsAlike == SpecKept => []ReachSound
<1>1. KeptInv => ReachSound
  <2> SUFFICES ASSUME KeptInv, clean # None, RecordsAlike(Now), NEW f \in PassedOver
               PROVE  f \in DOMAIN clean.readings /\ Reading(Now, f) = clean.readings[f]
    BY DEF ReachSound
  <2>1. f \in Scopes(Now) \ ReachedFrom(Now, edited)
    BY DEF PassedOver
  <2>2. edited \in SUBSET Proofs
    BY <2>1 DEF ReachedFrom
  <2> QED
    BY <2>1, <2>2, PassedReadsAlike DEF Now
<1> QED
  BY <1>1, KeptInvariant, PTL

\* Whether an edit is reported, run_edited answers as run does: all it may
\* leave out of a file it reaches is a surplus line by which the checks of the
\* corpus as a whole report another, all it may say more is a pair left out
\* for one, and of each file it says something exactly where run does.
THEOREM EditedAnswersAsRun == SpecKept => []EditedSaysRun
<1>1. KeptInv => EditedSaysRun
  <2>1. CASE said = None
    BY <2>1 DEF EditedSaysRun
  <2>2. CASE KeptInv /\ said # None
    <3>1. PICK deal \in Deals : SaidOf(deal)
      BY <2>2 DEF KeptInv, KeptTypeOK
    <3>2. said.run = RunWhole(Now, Readings(Now), deal) /\ said.fresh = RunEdited(tree, edited)
      BY <3>1 DEF SaidOf, Now
    <3> QED
      BY <2>2, <3>2, EditedAnswers DEF KeptInv, KeptTypeOK
  <2> QED
    BY <2>1, <2>2
<1> QED
  BY <1>1, KeptInvariant, PTL

(***************************************************************************)
(* SharedCheck: the workers' problems put one after another                *)
(***************************************************************************)

\* What checked_shared gathers is empty only where the reading's problems and
\* every worker's own are: no worker's problems are left out.
LEMMA GatheredAll ==
  ASSUME NEW found \in Seq(Problems), own \in [Checkers -> Seq(Problems)]
  PROVE  /\ Gathered(found) \in Seq(Problems)
         /\ Gathered(found) = <<>> => found = <<>> /\ \A w \in Checkers : own[w] = <<>>
<1>1. Threads \in Nat /\ Checkers = 1..Threads
  BY SharedAssumption DEF Checkers
<1>2. own \in Seq(Seq(Problems)) /\ Len(own) = Threads
  BY <1>1
<1>3. Joined(own) \in Seq(Problems)
  BY <1>2, JoinedIs
<1>4. Joined(own) = <<>> => \A w \in Checkers : own[w] = <<>>
  BY <1>1, <1>2, JoinedNothing
<1> QED
  BY <1>3, <1>4, ConcatProperties, ConcatEqualIffEmpty DEF Gathered

(***************************************************************************)
(* SharedCheck: the invariant                                              *)
(***************************************************************************)

\* What a worker holds: a reading of the tree, problems, and, while it
\* checks, an index its own reading has.
SharedTypeOK ==
  /\ sharedTree \in Corpora
  /\ sharedNext \in Nat \ {0}
  /\ sharedPc \in [Checkers -> {"read", "take", "check", "done", "refused"}]
  /\ corpus \in [Checkers -> Corpora]
  /\ taken \in [Checkers -> Nat]
  /\ own \in [Checkers -> Seq(Problems)]
  /\ \A w \in Checkers : sharedPc[w] = "check" => taken[w] \in DOMAIN corpus[w].theorems

\* Only a worker that read a corpus takes theorems, and one that is done took
\* an index past the end of what it read.
TakesWhatItRead ==
  \A w \in Checkers :
    /\ sharedPc[w] \in {"take", "check", "done"} => corpus[w].reads
    /\ sharedPc[w] = "done" =>
         /\ taken[w] \in 1..(sharedNext - 1)
         /\ taken[w] \notin DOMAIN corpus[w].theorems

\* Worker w's account of index i: where its reading has a theorem asked for
\* there, that theorem checks clean or w has problems to say.
Settled(w, i) ==
  \/ i \notin DOMAIN corpus[w].theorems
  \/ corpus[w].theorems[i] \notin Wanted
  \/ CheckNth(corpus[w].theorems[i]) = <<>>
  \/ own[w] # <<>>

\* Each index the cursor has passed is in a worker's hands or settled by one.
NoIndexMissed ==
  \A i \in 1..(sharedNext - 1) : \E w \in Checkers :
    \/ sharedPc[w] = "check" /\ taken[w] = i
    \/ sharedPc[w] \in {"take", "check", "done"} /\ Settled(w, i)

\* What was said was said of workers that had ended, and status 0 of none
\* that was refused or had a problem.
SaidOfAll ==
  sharedOutcome # Unsaid =>
    /\ \A w \in Checkers : EndedShared(w)
    /\ sharedOutcome.status = 0 =>
         /\ \A w \in Checkers : sharedPc[w] = "done" /\ own[w] = <<>>
         /\ corpus[1].found = <<>>

SharedInv == SharedTypeOK /\ TakesWhatItRead /\ NoIndexMissed /\ SaidOfAll

\* What is found of a theorem a reading has is a list of problems.
LEMMA CheckNthProblems ==
  ASSUME NEW c \in Corpora, NEW i \in DOMAIN c.theorems
  PROVE  CheckNth(c.theorems[i]) \in Seq(Problems)
<1>1. c.theorems[i] \in DOMAIN Own
  BY SharedAssumption
<1> QED
  BY <1>1, SharedAssumption DEF CheckNth

\* No worker has read anything before the first step, and none has taken.
LEMMA SharedInvInit == ASSUME InitShared PROVE SharedInv
<1>1. SharedTypeOK
  BY SharedAssumption DEF InitShared, SharedTypeOK
<1> QED
  BY <1>1 DEF InitShared, SharedInv, TakesWhatItRead, NoIndexMissed, SaidOfAll

\* Where a worker was refused, one was refused first.
LEMMA FirstRefused ==
  ASSUME NEW w \in Checkers, sharedPc[w] = "refused"
  PROVE  \E v \in Checkers : sharedPc[v] = "refused" /\ \A u \in 1..(v - 1) : sharedPc[u] # "refused"
<1> DEFINE First(v) == sharedPc[v] = "refused" /\ \A u \in 1..(v - 1) : sharedPc[u] # "refused"
<1> DEFINE T == {n \in Nat : \A v \in Checkers : v <= n /\ sharedPc[v] = "refused" => \E u \in Checkers : First(u)}
<1>1. 0 \in T
  BY DEF Checkers
<1>2. ASSUME NEW n \in Nat, n \in T PROVE n + 1 \in T
  <2> SUFFICES ASSUME n + 1 \in Checkers, sharedPc[n + 1] = "refused"
               PROVE  \E v \in Checkers : First(v)
    BY <1>2 DEF Checkers
  <2>1. CASE \E v \in 1..n : sharedPc[v] = "refused"
    BY <1>2, <2>1, SharedAssumption DEF Checkers
  <2>2. CASE \A v \in 1..n : sharedPc[v] # "refused"
    <3>1. First(n + 1)
      BY <2>2
    <3> QED
      BY <3>1
  <2> QED
    BY <2>1, <2>2
<1>3. \A n \in Nat : n \in T
  <2> HIDE DEF T
  <2> QED
    BY <1>1, <1>2, SetInduction
<1>4. w \in Nat /\ w <= w
  BY SharedAssumption DEF Checkers
<1> QED
  BY <1>3, <1>4

\* A run ended by a refusal says what the first worker refused read.
LEMMA JoinRefused ==
  ASSUME JoinShared, \E w \in Checkers : sharedPc[w] = "refused"
  PROVE  \E w \in Checkers : sharedPc[w] = "refused" /\ sharedOutcome' = Refused(corpus[w])
<1> DEFINE First(w) == sharedPc[w] = "refused" /\ \A v \in 1..(w - 1) : sharedPc[v] # "refused"
<1>1. sharedOutcome' = Refused(corpus[CHOOSE w \in Checkers : First(w)])
  BY DEF JoinShared
<1>2. \E w \in Checkers : First(w)
  BY FirstRefused
<1>3. First(CHOOSE w \in Checkers : First(w)) /\ (CHOOSE w \in Checkers : First(w)) \in Checkers
  <2> HIDE DEF First
  <2> QED
    BY <1>2
<1> QED
  BY <1>1, <1>3

\* Status 0 is said only of workers that all read and found nothing: a
\* refusal is never 0, and neither is a report with a problem in it.
LEMMA JoinSaysAll == ASSUME SharedInv, JoinShared PROVE SaidOfAll'
<1>1. UNCHANGED <<sharedPc, corpus, own>> /\ \A w \in Checkers : EndedShared(w)
  BY DEF JoinShared
<1>2. 1 \in Checkers
  BY SharedAssumption DEF Checkers
<1>3. SharedTypeOK
  BY DEF SharedInv
<1>4. \A w \in Checkers : EndedShared(w)'
  BY <1>1 DEF EndedShared
<1>5. CASE \E w \in Checkers : sharedPc[w] = "refused"
  <2>1. PICK c \in Corpora : sharedOutcome' = Refused(c)
    BY <1>3, <1>5, JoinRefused DEF SharedTypeOK
  <2>2. sharedOutcome'.status # 0
    <3>1. CASE c.empty
      BY <2>1, <3>1 DEF Refused, Complained
    <3>2. CASE ~c.empty
      <4> DEFINE all == Append(c.found, c.grammar)
      <4>1. all # <<>>
        <5>1. c.found \in Seq(Problems)
          BY SharedAssumption
        <5>2. Len(all) = Len(c.found) + 1 /\ Len(c.found) \in Nat
          BY <5>1
        <5> QED
          BY <5>2
      <4>2. sharedOutcome'.status = 1
        BY <2>1, <3>2, <4>1 DEF Refused, Summary
      <4> QED
        BY <4>2
    <3> QED
      BY <3>1, <3>2
  <2> QED
    BY <1>4, <2>2 DEF SaidOfAll
<1>6. CASE \A w \in Checkers : sharedPc[w] # "refused"
  <2>1. \A w \in Checkers : sharedPc[w] = "done"
    BY <1>1, <1>6 DEF EndedShared
  <2> DEFINE all == Gathered(corpus[1].found)
  <2>2. sharedOutcome' = Said(all, Len(corpus[1].theorems), asked)
    BY <1>6 DEF JoinShared, Merged
  <2>3. corpus[1].found \in Seq(Problems)
    BY <1>2, <1>3, SharedAssumption DEF SharedTypeOK
  <2>4. all = <<>> => corpus[1].found = <<>> /\ \A w \in Checkers : own[w] = <<>>
    <3>1. own \in [Checkers -> Seq(Problems)]
      BY <1>3 DEF SharedTypeOK
    <3> QED
      BY <2>3, <3>1, GatheredAll
  <2> HIDE DEF all
  <2>5. sharedOutcome'.status = 0 => all = <<>>
    BY <2>2 DEF Said, Summary, Complained
  <2> QED
    BY <1>1, <1>4, <2>1, <2>4, <2>5 DEF SaidOfAll
<1> QED
  BY <1>5, <1>6

\* Every step keeps the types.
LEMMA SharedTypeStep ==
  ASSUME SharedInv, [NextShared]_sharedVars PROVE SharedTypeOK'
<1> USE DEF SharedInv, SharedTypeOK
<1>1. CASE EditShared
  BY <1>1 DEF EditShared
<1>2. CASE JoinShared
  BY <1>2 DEF JoinShared
<1>3. ASSUME NEW w \in Checkers, ReadShared(w) PROVE SharedTypeOK'
  BY <1>3 DEF ReadShared
<1>4. ASSUME NEW w \in Checkers, TakeShared(w) PROVE SharedTypeOK'
  <2>1. UNCHANGED <<sharedTree, corpus, own>> /\ sharedNext' = sharedNext + 1
    BY <1>4 DEF TakeShared, TakeSharedBy
  <2>2. taken' = [taken EXCEPT ![w] = sharedNext]
    BY <1>4 DEF TakeShared, TakeSharedBy
  <2>3. \E p \in {"done", "check", "take"} :
          /\ sharedPc' = [sharedPc EXCEPT ![w] = p]
          /\ p = "check" => sharedNext \in DOMAIN corpus[w].theorems
    BY <1>4 DEF TakeShared, TakeSharedBy
  <2> QED
    BY <2>1, <2>2, <2>3
<1>5. ASSUME NEW w \in Checkers, CheckShared(w) PROVE SharedTypeOK'
  <2>1. CheckNth(corpus[w].theorems[taken[w]]) \in Seq(Problems)
    BY <1>5, CheckNthProblems DEF CheckShared
  <2> DEFINE more == CheckNth(corpus[w].theorems[taken[w]])
  <2>2. own' = [own EXCEPT ![w] = own[w] \o more]
    BY <1>5 DEF CheckShared
  <2>3. own[w] \o more \in Seq(Problems)
    BY <2>1
  <2> HIDE DEF more
  <2> QED
    BY <1>5, <2>2, <2>3 DEF CheckShared
<1>6. CASE UNCHANGED sharedVars
  BY <1>6 DEF sharedVars
<1> QED
  BY <1>1, <1>2, <1>3, <1>4, <1>5, <1>6 DEF NextShared, StepShared

\* Every step keeps that a worker takes what it read.
LEMMA TakesStep ==
  ASSUME SharedInv, [NextShared]_sharedVars PROVE TakesWhatItRead'
<1> USE DEF SharedInv, SharedTypeOK, TakesWhatItRead
<1>1. CASE EditShared
  BY <1>1 DEF EditShared
<1>2. CASE JoinShared
  BY <1>2 DEF JoinShared
<1>3. ASSUME NEW w \in Checkers, ReadShared(w) PROVE TakesWhatItRead'
  BY <1>3 DEF ReadShared
<1>4. ASSUME NEW w \in Checkers, TakeShared(w) PROVE TakesWhatItRead'
  <2>1. UNCHANGED corpus /\ sharedNext' = sharedNext + 1 /\ corpus[w].reads
    BY <1>4 DEF TakeShared, TakeSharedBy
  <2>2. taken' = [taken EXCEPT ![w] = sharedNext]
    BY <1>4 DEF TakeShared, TakeSharedBy
  <2>3. \E p \in {"done", "check", "take"} :
          /\ sharedPc' = [sharedPc EXCEPT ![w] = p]
          /\ p = "done" => sharedNext \notin DOMAIN corpus[w].theorems
    BY <1>4 DEF TakeShared, TakeSharedBy
  <2> QED
    BY <2>1, <2>2, <2>3
<1>5. ASSUME NEW w \in Checkers, CheckShared(w) PROVE TakesWhatItRead'
  BY <1>5 DEF CheckShared
<1>6. CASE UNCHANGED sharedVars
  BY <1>6 DEF sharedVars
<1> QED
  BY <1>1, <1>2, <1>3, <1>4, <1>5, <1>6 DEF NextShared, StepShared

\* Every step keeps that no index the cursor passed is missed: the one taken
\* is in its taker's hands, or has nothing there to check; and one checked is
\* settled, its problems, if any, being its worker's own.
LEMMA MissedStep ==
  ASSUME SharedInv, [NextShared]_sharedVars PROVE NoIndexMissed'
<1> DEFINE Hand(w, i) == sharedPc[w] = "check" /\ taken[w] = i
<1> DEFINE Account(w, i) == sharedPc[w] \in {"take", "check", "done"} /\ Settled(w, i)
<1> DEFINE Seen(i) == \E w \in Checkers : Hand(w, i) \/ Account(w, i)
<1>0. \A i \in 1..(sharedNext - 1) : Seen(i)
  BY DEF SharedInv, NoIndexMissed
<1>00. SharedTypeOK
  BY DEF SharedInv
<1>a. ASSUME UNCHANGED <<sharedNext, sharedPc, taken, corpus, own>> PROVE NoIndexMissed'
  BY <1>0, <1>a DEF NoIndexMissed, Settled
<1>1. CASE EditShared
  BY <1>1, <1>a DEF EditShared
<1>2. CASE JoinShared
  BY <1>2, <1>a DEF JoinShared
<1>3. ASSUME NEW w \in Checkers, ReadShared(w) PROVE NoIndexMissed'
  <2>1. UNCHANGED <<sharedNext, taken, own>> /\ sharedPc[w] = "read"
    BY <1>3 DEF ReadShared
  <2>2. \A v \in Checkers \ {w} : sharedPc'[v] = sharedPc[v] /\ corpus'[v] = corpus[v]
    BY <1>3, <1>00 DEF ReadShared, SharedTypeOK
  <2> SUFFICES ASSUME NEW i \in 1..(sharedNext - 1) PROVE Seen(i)'
    BY <2>1 DEF NoIndexMissed
  <2>3. PICK v \in Checkers : Hand(v, i) \/ Account(v, i)
    BY <1>0
  <2>4. v # w
    BY <2>1, <2>3
  <2>5. Hand(v, i)' \/ Account(v, i)'
    BY <2>1, <2>2, <2>3, <2>4 DEF Settled
  <2> QED
    BY <2>5
<1>4. ASSUME NEW w \in Checkers, TakeShared(w) PROVE NoIndexMissed'
  <2>1. UNCHANGED <<corpus, own>> /\ sharedNext' = sharedNext + 1 /\ sharedPc[w] = "take"
    BY <1>4 DEF TakeShared, TakeSharedBy
  <2>2. taken' = [taken EXCEPT ![w] = sharedNext]
    BY <1>4 DEF TakeShared, TakeSharedBy
  <2>3. \E p \in {"done", "check", "take"} :
          /\ sharedPc' = [sharedPc EXCEPT ![w] = p]
          /\ p = "check" \/ sharedNext \notin DOMAIN corpus[w].theorems
             \/ corpus[w].theorems[sharedNext] \notin Wanted
    BY <1>4 DEF TakeShared, TakeSharedBy
  <2>4. /\ sharedPc'[w] \in {"done", "check", "take"} /\ taken'[w] = sharedNext
        /\ sharedPc'[w] = "check" \/ Settled(w, sharedNext)
        /\ \A v \in Checkers \ {w} : sharedPc'[v] = sharedPc[v] /\ taken'[v] = taken[v]
    BY <1>00, <2>2, <2>3 DEF SharedTypeOK, Settled
  <2>5. \A v \in Checkers, i \in Nat : Settled(v, i)' <=> Settled(v, i)
    BY <2>1 DEF Settled
  <2> SUFFICES ASSUME NEW i \in 1..sharedNext PROVE Seen(i)'
    BY <1>00, <2>1 DEF NoIndexMissed, SharedTypeOK
  <2>6. i \in Nat /\ sharedNext \in Nat
    BY <1>00 DEF SharedTypeOK
  <2>7. CASE i = sharedNext
    <3>1. Hand(w, i)' \/ Account(w, i)'
      BY <2>4, <2>5, <2>6, <2>7
    <3> QED
      BY <3>1
  <2>8. CASE i \in 1..(sharedNext - 1)
    <3>1. PICK v \in Checkers : Hand(v, i) \/ Account(v, i)
      BY <1>0, <2>8
    <3>2. Hand(v, i)' \/ Account(v, i)'
      <4>1. CASE v = w
        BY <2>1, <2>4, <2>5, <2>6, <3>1, <4>1
      <4>2. CASE v # w
        BY <2>4, <2>5, <2>6, <3>1, <4>2
      <4> QED
        BY <4>1, <4>2
    <3> QED
      BY <3>2
  <2> QED
    BY <2>6, <2>7, <2>8
<1>5. ASSUME NEW w \in Checkers, CheckShared(w) PROVE NoIndexMissed'
  <2> DEFINE more == CheckNth(corpus[w].theorems[taken[w]])
  <2>1. /\ UNCHANGED <<sharedNext, taken, corpus>> /\ sharedPc[w] = "check"
        /\ own' = [own EXCEPT ![w] = own[w] \o more]
        /\ sharedPc' = [sharedPc EXCEPT ![w] = "take"]
    BY <1>5 DEF CheckShared
  <2>2. /\ own'[w] = own[w] \o more /\ sharedPc'[w] = "take"
        /\ \A v \in Checkers \ {w} : sharedPc'[v] = sharedPc[v] /\ own'[v] = own[v]
    <3> HIDE DEF more
    <3> QED
      BY <1>00, <2>1 DEF SharedTypeOK
  <2>3. own[w] \in Seq(Problems) /\ more \in Seq(Problems)
    BY <1>00, <2>1, CheckNthProblems DEF SharedTypeOK
  <2>4. own[w] # <<>> \/ more # <<>> => own'[w] # <<>>
    <3> HIDE DEF more
    <3>1. Len(own'[w]) = Len(own[w]) + Len(more) /\ Len(own[w]) \in Nat /\ Len(more) \in Nat
      BY <2>2, <2>3
    <3>2. own'[w] = <<>> => Len(own[w]) = 0 /\ Len(more) = 0
      BY <3>1
    <3> QED
      BY <2>3, <3>2
  <2>5. Settled(w, taken[w])'
    BY <2>1, <2>4 DEF Settled
  <2>6. \A v \in Checkers, i \in Nat : Settled(v, i) => Settled(v, i)'
    <3> HIDE DEF more
    <3> QED
      BY <2>1, <2>2, <2>4 DEF Settled
  <2> SUFFICES ASSUME NEW i \in 1..(sharedNext - 1) PROVE Seen(i)'
    BY <2>1 DEF NoIndexMissed
  <2>7. i \in Nat
    BY <1>00 DEF SharedTypeOK
  <2>8. PICK v \in Checkers : Hand(v, i) \/ Account(v, i)
    BY <1>0
  <2>9. Hand(v, i)' \/ Account(v, i)'
    <3> HIDE DEF more
    <3>1. CASE v = w
      BY <2>1, <2>2, <2>5, <2>6, <2>7, <2>8, <3>1
    <3>2. CASE v # w
      BY <2>1, <2>2, <2>6, <2>7, <2>8, <3>2
    <3> QED
      BY <3>1, <3>2
  <2> QED
    BY <2>9
<1>6. CASE UNCHANGED sharedVars
  BY <1>6, <1>a DEF sharedVars
<1> QED
  BY <1>1, <1>2, <1>3, <1>4, <1>5, <1>6 DEF NextShared, StepShared

\* Every step keeps what was said: once it is, every worker has ended.
LEMMA SaidStep ==
  ASSUME SharedInv, [NextShared]_sharedVars PROVE SaidOfAll'
<1>1. ASSUME UNCHANGED <<sharedPc, corpus, own, sharedOutcome>> PROVE SaidOfAll'
  BY <1>1 DEF SharedInv, SaidOfAll, EndedShared
<1>2. ASSUME NEW w \in Checkers, StepShared(w) PROVE SaidOfAll'
  <2>1. ~EndedShared(w) /\ UNCHANGED sharedOutcome
    BY <1>2 DEF StepShared, ReadShared, TakeShared, TakeSharedBy, CheckShared, EndedShared
  <2>2. sharedOutcome' = Unsaid
    BY <2>1 DEF SharedInv, SaidOfAll
  <2> QED
    BY <2>2 DEF SaidOfAll
<1>3. CASE EditShared
  BY <1>1, <1>3 DEF EditShared
<1>4. CASE UNCHANGED sharedVars
  BY <1>1, <1>4 DEF sharedVars
<1> QED
  BY <1>2, <1>3, <1>4, JoinSaysAll DEF NextShared

(***************************************************************************)
(* Whatever is edited under `parley check` and however the workers take    *)
(* theorems, status 0 is said only where every worker read a corpus and    *)
(* found no problem in what it took, the first reading had none, and,      *)
(* where they read one corpus, every theorem asked for checks clean        *)
(* (run_named, checked_shared).                                            *)
(***************************************************************************)
THEOREM NoneDropped == SpecShared => []NothingDropped
<1>1. InitShared => SharedInv
  BY SharedInvInit
<1>2. SharedInv /\ [NextShared]_sharedVars => SharedInv'
  BY SharedTypeStep, TakesStep, MissedStep, SaidStep DEF SharedInv
<1>3. SharedInv => NothingDropped
  <2> SUFFICES ASSUME SharedInv, sharedOutcome # Unsaid, sharedOutcome.status = 0
               PROVE  /\ \A w \in Checkers : corpus[w].reads /\ own[w] = <<>>
                      /\ corpus[1].found = <<>>
                      /\ Agree => \A t \in ToSet(corpus[1].theorems) \cap Wanted : CheckNth(t) = <<>>
    BY DEF NothingDropped
  <2>1. /\ \A w \in Checkers : sharedPc[w] = "done" /\ own[w] = <<>>
        /\ corpus[1].found = <<>>
    BY DEF SharedInv, SaidOfAll
  <2>2. \A w \in Checkers : corpus[w].reads
    BY <2>1 DEF SharedInv, TakesWhatItRead
  <2>3. ASSUME Agree, NEW t \in ToSet(corpus[1].theorems) \cap Wanted PROVE CheckNth(t) = <<>>
    <3>1. 1 \in Checkers
      BY SharedAssumption DEF Checkers
    <3>2. corpus[1].theorems \in Seq(DOMAIN Own)
      BY <3>1, SharedAssumption DEF SharedInv, SharedTypeOK
    <3>3. PICK i \in DOMAIN corpus[1].theorems : corpus[1].theorems[i] = t
      BY <2>3 DEF ToSet
    <3>4. taken[1] \in 1..(sharedNext - 1) /\ taken[1] \notin DOMAIN corpus[1].theorems
      BY <2>1, <3>1 DEF SharedInv, TakesWhatItRead
    <3>5. i \in 1..(sharedNext - 1)
      <4>1. sharedNext \in Nat
        BY DEF SharedInv, SharedTypeOK
      <4>2. DOMAIN corpus[1].theorems = 1..Len(corpus[1].theorems) /\ Len(corpus[1].theorems) \in Nat
        BY <3>2
      <4> QED
        BY <3>3, <3>4, <4>1, <4>2
    <3>6. PICK w \in Checkers : Settled(w, i)
      BY <2>1, <3>5 DEF SharedInv, NoIndexMissed
    <3>7. corpus[w] = corpus[1]
      BY <2>3, <3>1 DEF Agree
    <3> QED
      BY <2>1, <2>3, <3>3, <3>6, <3>7 DEF Settled
  <2> QED
    BY <2>1, <2>2, <2>3
<1> QED
  BY <1>1, <1>2, <1>3, PTL DEF SpecShared

(***************************************************************************)
(* SharedCheck: problems sorted by place                                   *)
(***************************************************************************)

\* What of a list of problems is at a place, and on either side of it.
At(s, a) == Sift(s, {p \in Problems : p.at = a})
UpTo(s, a) == Sift(s, {p \in Problems : p.at <= a})
Past(s, a) == Sift(s, {p \in Problems : p.at > a})

\* A problem is put in past those up to its place.
LEMMA SortedInIs ==
  ASSUME NEW s \in Seq(Problems), NEW p \in Problems
  PROVE  /\ SortedIn(s, p) = Append(UpTo(s, p.at), p) \o Past(s, p.at)
         /\ UpTo(s, p.at) \in Seq(Problems) /\ Past(s, p.at) \in Seq(Problems)
         /\ SortedIn(s, p) \in Seq(Problems)
<1> DEFINE E == ToSet(s)
<1> DEFINE before == {q \in E : q.at <= p.at}
<1> DEFINE B == {q \in Problems : q.at <= p.at}
<1> DEFINE A == {q \in Problems : q.at > p.at}
<1>1. E \subseteq Problems /\ s \in Seq(E)
  <2>1. \A i \in 1..Len(s) : s[i] \in Problems
    BY ElementOfSeq
  <2>2. DOMAIN s = 1..Len(s)
    BY LenProperties
  <2>3. E = Range(s)
    BY DEF ToSet, Range
  <2>4. s \in Seq(Range(s))
    BY SeqOfRange
  <2> QED
    BY <2>1, <2>2, <2>3, <2>4 DEF ToSet
<1>2. \A q \in Problems : q.at \in Nat
  BY SharedAssumption
<1>3. before \cap E = B \cap E
  BY <1>1
<1>4. (E \ before) \cap E = A \cap E
  BY <1>1, <1>2
<1>5. SortedIn(s, p) = Append(Sift(s, before), p) \o Sift(s, E \ before)
  BY DEF SortedIn
<1> HIDE DEF E, before, A, B
<1>6. Sift(s, before) = Sift(s, B) /\ Sift(s, E \ before) = Sift(s, A)
  BY <1>1, <1>3, <1>4, SiftSame
<1>7. Sift(s, B) = UpTo(s, p.at) /\ Sift(s, A) = Past(s, p.at)
  BY DEF UpTo, Past, A, B
<1>8. UpTo(s, p.at) \in Seq(Problems) /\ Past(s, p.at) \in Seq(Problems)
  BY SiftIs DEF UpTo, Past
<1>9. Append(UpTo(s, p.at), p) \in Seq(Problems)
  BY <1>8, AppendProperties
<1>10. Append(UpTo(s, p.at), p) \o Past(s, p.at) \in Seq(Problems)
  BY <1>8, <1>9, ConcatProperties
<1> QED
  BY <1>5, <1>6, <1>7, <1>8, <1>10

\* In, in Sorted, is what its recursion says.
SortedAll(g, s) ==
  /\ g[0] = <<>>
  /\ \A k \in 1..Len(s) : g[k] = SortedIn(g[k - 1], s[k])

\* Sorted is the last value its recursion makes.
LEMMA SortedRuns ==
  ASSUME NEW s \in Seq(Problems)
  PROVE  \E g \in [0..Len(s) -> Seq(Problems)] : SortedAll(g, s) /\ Sorted(s) = g[Len(s)]
<1> DEFINE Body(f, k) ==
      IF k = 0 THEN <<>> ELSE SortedIn(f[k - 1], s[k])
<1> DEFINE Ins == CHOOSE f : f = [k \in 0..Len(s) |-> Body(f, k)]
<1> DEFINE Size == Len(s)
<1> DEFINE SS == Seq(Problems)
<1>1. Size \in Nat /\ Sorted(s) = Ins[Size]
  BY LenProperties DEF Sorted
<1> DEFINE step == [k \in 1..Size |-> [t \in SS |-> SortedIn(t, s[k])]]
<1>2. step \in [1..Size -> [SS -> SS]]
  <2>1. \A k \in 1..Size : s[k] \in Problems
    BY ElementOfSeq
  <2>2. \A k \in 1..Size, t \in SS : SortedIn(t, s[k]) \in SS
    BY <2>1, SortedInIs
  <2> QED
    BY <2>2
<1>3. PICK g \in [0..Size -> SS] : Carries(g, <<>>, step, Size)
  <2>1. <<>> \in SS
    BY EmptySeq
  <2> HIDE DEF step, SS, Size
  <2> QED
    BY <1>1, <1>2, <2>1, RecursionAt
<1>4. SortedAll(g, s)
  <2>1. ASSUME NEW k \in 1..Size
        PROVE  g[k] = SortedIn(g[k - 1], s[k])
    <3>1. k - 1 \in 0..Size
      BY <1>1
    <3>2. g[k - 1] \in SS
      BY <3>1
    <3>3. g[k] = step[k][g[k - 1]]
      BY <1>3 DEF Carries
    <3> QED
      BY <3>2, <3>3
  <2> QED
    BY <1>3, <2>1 DEF SortedAll, Carries
<1>5. g = [k \in 0..Size |-> Body(g, k)]
  <2>1. ASSUME NEW k \in 0..Size PROVE g[k] = Body(g, k)
    <3>1. k = 0 \/ k \in 1..Size
      BY <1>1
    <3> QED
      BY <1>4, <3>1 DEF SortedAll
  <2> HIDE DEF Body
  <2> QED
    BY <2>1
<1>6. Ins = [k \in 0..Size |-> Body(Ins, k)]
  <2> HIDE DEF Body
  <2> QED
    BY <1>5
<1>7. Ins \in [0..Size -> SS] /\ SortedAll(Ins, s)
  <2> HIDE DEF Ins
  <2>0. DOMAIN Ins = 0..Size /\ \A k \in 0..Size : Ins[k] = Body(Ins, k)
    <3> HIDE DEF Body
    <3> QED
      BY <1>6
  <2>1. SortedAll(Ins, s)
    <3>1. \A k \in 1..Size : k \in 0..Size /\ k # 0
      BY <1>1
    <3>2. 0 \in 0..Size
      BY <1>1
    <3> QED
      BY <2>0, <3>1, <3>2 DEF SortedAll
  <2> DEFINE T == {n \in Nat : n <= Size => Ins[n] \in SS}
  <2>2. 0 \in T
    BY <2>1, EmptySeq DEF SortedAll
  <2>3. ASSUME NEW n \in Nat, n \in T PROVE n + 1 \in T
    <3> SUFFICES ASSUME n + 1 <= Size PROVE Ins[n + 1] \in SS
      OBVIOUS
    <3>1. n + 1 \in 1..Size /\ (n + 1) - 1 = n /\ Ins[n] \in SS
      BY <1>1, <2>3
    <3>2. s[n + 1] \in Problems
      BY <3>1, ElementOfSeq
    <3>3. SortedIn(Ins[n], s[n + 1]) \in SS
      BY <3>1, <3>2, SortedInIs
    <3> QED
      BY <2>1, <3>1, <3>3 DEF SortedAll
  <2>4. \A n \in Nat : n \in T
    <3> HIDE DEF T
    <3> QED
      BY <2>2, <2>3, SetInduction
  <2>5. \A n \in 0..Size : Ins[n] \in SS
    BY <1>1, <2>4
  <2>6. Ins = [k \in 0..Size |-> Ins[k]]
    <3> HIDE DEF Body
    <3> QED
      BY <1>6
  <2> QED
    BY <2>1, <2>5, <2>6
<1> HIDE DEF Ins
<1> QED
  BY <1>1, <1>7

\* A list of problems sorted is a list of problems.
LEMMA SortedIs ==
  ASSUME NEW s \in Seq(Problems)
  PROVE  Sorted(s) \in Seq(Problems)
<1>1. PICK g \in [0..Len(s) -> Seq(Problems)] : SortedAll(g, s) /\ Sorted(s) = g[Len(s)]
  BY SortedRuns
<1>2. Len(s) \in Nat
  BY LenProperties
<1> QED
  BY <1>1, <1>2

\* No problems sorted are none.
LEMMA SortedNone == Sorted(<<>>) = <<>>
<1>1. <<>> \in Seq(Problems) /\ Len(<<>>) = 0
  BY EmptySeq
<1>2. PICK g \in [0..Len(<<>>) -> Seq(Problems)] : SortedAll(g, <<>>) /\ Sorted(<<>>) = g[Len(<<>>)]
  BY <1>1, SortedRuns
<1> QED
  BY <1>1, <1>2 DEF SortedAll

\* A problem more is put in among the others sorted.
LEMMA SortedAppend ==
  ASSUME NEW s \in Seq(Problems), NEW x \in Problems
  PROVE  Sorted(Append(s, x)) = SortedIn(Sorted(s), x)
<1> DEFINE t == Append(s, x)
<1> DEFINE Size == Len(s)
<1>1. t \in Seq(Problems) /\ Size \in Nat /\ Len(t) = Size + 1 /\ t[Size + 1] = x
      /\ \A k \in 1..Size : t[k] = s[k]
  BY AppendProperties, LenProperties
<1>2. PICK g \in [0..Size -> Seq(Problems)] : SortedAll(g, s) /\ Sorted(s) = g[Size]
  BY SortedRuns
<1>3. PICK h \in [0..Len(t) -> Seq(Problems)] : SortedAll(h, t) /\ Sorted(t) = h[Len(t)]
  BY <1>1, SortedRuns
<1> HIDE DEF t, Size
<1> DEFINE T == {n \in Nat : n <= Size => g[n] = h[n]}
<1>4. 0 \in T
  BY <1>2, <1>3 DEF SortedAll
<1>5. ASSUME NEW n \in Nat, n \in T PROVE n + 1 \in T
  <2> SUFFICES ASSUME n + 1 <= Size PROVE g[n + 1] = h[n + 1]
    OBVIOUS
  <2>1. n + 1 \in 1..Size /\ n + 1 \in 1..(Size + 1) /\ (n + 1) - 1 = n /\ g[n] = h[n]
    <3>1. Size \in Nat
      BY <1>1
    <3>2. n + 1 \in 1..Size /\ n + 1 \in 1..(Size + 1) /\ (n + 1) - 1 = n /\ n <= Size
      BY <3>1
    <3> QED
      BY <1>5, <3>2
  <2>2. t[n + 1] = s[n + 1]
    BY <1>1, <2>1
  <2>3. g[n + 1] = SortedIn(g[n], s[n + 1])
    BY <1>2, <2>1 DEF SortedAll, Size
  <2>4. h[n + 1] = SortedIn(h[n], t[n + 1])
    BY <1>1, <1>3, <2>1 DEF SortedAll
  <2> QED
    BY <2>1, <2>2, <2>3, <2>4
<1>6. g[Size] = h[Size]
  <2>1. Size \in T
    <3> HIDE DEF T
    <3> QED
      BY <1>1, <1>4, <1>5, SetInduction
  <2> QED
    BY <1>1, <2>1
<1>7. Size + 1 \in 1..Len(t) /\ (Size + 1) - 1 = Size
  BY <1>1
<1>8. h[Size + 1] = SortedIn(h[Size], t[Size + 1])
  BY <1>3, <1>7 DEF SortedAll
<1>9. h[Size + 1] = SortedIn(g[Size], x)
  BY <1>1, <1>6, <1>8
<1>10. Sorted(t) = h[Size + 1]
  BY <1>1, <1>3
<1> QED
  BY <1>2, <1>9, <1>10 DEF t

\* What two lists put together have at a place is what each has.
LEMMA AtConcat ==
  ASSUME NEW s \in Seq(Problems), NEW t \in Seq(Problems), NEW a
  PROVE  At(s \o t, a) = At(s, a) \o At(t, a)
BY SiftConcat DEF At

\* The problems at a place.
AtPlace(a) == {p \in Problems : p.at = a}

\* Putting a problem in adds it at its place and leaves the others'.
LEMMA AtSortedIn ==
  ASSUME NEW s \in Seq(Problems), NEW p \in Problems, NEW a \in Nat
  PROVE  At(SortedIn(s, p), a) = IF p.at = a THEN Append(At(s, a), p) ELSE At(s, a)
<1> DEFINE E == AtPlace(a)
<1> DEFINE B == {q \in Problems : q.at <= p.at}
<1> DEFINE A == {q \in Problems : q.at > p.at}
<1>1. /\ SortedIn(s, p) = Append(Sift(s, B), p) \o Sift(s, A)
      /\ Sift(s, B) \in Seq(Problems) /\ Sift(s, A) \in Seq(Problems)
      /\ Append(Sift(s, B), p) \in Seq(Problems)
  BY SortedInIs, AppendProperties DEF UpTo, Past
<1>2. p.at \in Nat /\ \A q \in Problems : q.at \in Nat
  BY SharedAssumption
<1>3. (p \in E <=> p.at = a) /\ E \subseteq Problems
  BY DEF AtPlace
<1>4. /\ a <= p.at => B \cap E = E /\ A \cap E = {}
      /\ ~(a <= p.at) => B \cap E = {} /\ A \cap E = E /\ p \notin E
  BY <1>2 DEF AtPlace
<1>a. At(SortedIn(s, p), a) = Sift(SortedIn(s, p), E) /\ At(s, a) = Sift(s, E)
  BY DEF At, AtPlace
<1> HIDE DEF A, B, E
<1>5. Sift(SortedIn(s, p), E) = Sift(Append(Sift(s, B), p), E) \o Sift(Sift(s, A), E)
  <2>1. \A w, y \in Seq(Problems) : Sift(w \o y, E) = Sift(w, E) \o Sift(y, E)
    BY SiftConcat, SMTT(30)
  <2> QED
    BY <1>1, <2>1
<1>6. Sift(Append(Sift(s, B), p), E)
        = IF p \in E THEN Append(Sift(Sift(s, B), E), p) ELSE Sift(Sift(s, B), E)
  BY <1>1, SiftAppend
<1>7. Sift(Sift(s, B), E) = Sift(s, B \cap E) /\ Sift(Sift(s, A), E) = Sift(s, A \cap E)
  <2>1. Sift(Sift(s, B), E) = Sift(s, B \cap E)
    BY SiftTwice, SMTT(30)
  <2>2. Sift(Sift(s, A), E) = Sift(s, A \cap E)
    BY SiftTwice, SMTT(30)
  <2> QED
    BY <2>1, <2>2
<1>8. Sift(s, {}) = <<>> /\ Sift(s, E) \in Seq(Problems)
  BY SiftEmpty, SiftIs
<1>9. Append(Sift(s, E), p) \in Seq(Problems)
  BY <1>8, AppendProperties
<1>10. CASE a <= p.at
  <2>1. Sift(Sift(s, B), E) = Sift(s, E) /\ Sift(Sift(s, A), E) = <<>>
    BY <1>4, <1>7, <1>8, <1>10
  <2>2. Sift(s, E) \o <<>> = Sift(s, E) /\ Append(Sift(s, E), p) \o <<>> = Append(Sift(s, E), p)
    BY <1>8, <1>9, ConcatEmptySeq
  <2>3. CASE p \in E
    BY <1>a, <1>3, <1>5, <1>6, <2>1, <2>2, <2>3
  <2>4. CASE p \notin E
    BY <1>a, <1>3, <1>5, <1>6, <2>1, <2>2, <2>4
  <2> QED
    BY <2>3, <2>4
<1>11. CASE ~(a <= p.at)
  <2>1. Sift(Sift(s, B), E) = <<>> /\ Sift(Sift(s, A), E) = Sift(s, E) /\ p \notin E
    BY <1>4, <1>7, <1>8, <1>11
  <2>2. <<>> \o Sift(s, E) = Sift(s, E)
    BY <1>8, ConcatEmptySeq
  <2> QED
    BY <1>a, <1>3, <1>5, <1>6, <2>1, <2>2
<1> QED
  BY <1>10, <1>11

\* Sorting keeps what is at each place, in its order: the sort is stable.
LEMMA AtSorted ==
  ASSUME NEW s \in Seq(Problems), NEW a \in Nat
  PROVE  At(Sorted(s), a) = At(s, a)
<1> DEFINE T == {u \in Seq(Problems) : At(Sorted(u), a) = At(u, a)}
<1>1. <<>> \in T
  BY EmptySeq, SortedNone
<1>2. ASSUME NEW u \in Seq(Problems), NEW p \in Problems, u \in T PROVE Append(u, p) \in T
  <2>1. Append(u, p) \in Seq(Problems) /\ Sorted(u) \in Seq(Problems)
    BY SortedIs, AppendProperties
  <2>2. At(Append(u, p), a) = IF p \in AtPlace(a) THEN Append(At(u, a), p) ELSE At(u, a)
    BY SiftAppend DEF At, AtPlace
  <2>3. At(SortedIn(Sorted(u), p), a) = IF p.at = a THEN Append(At(Sorted(u), a), p) ELSE At(Sorted(u), a)
    BY <2>1, AtSortedIn
  <2>4. Sorted(Append(u, p)) = SortedIn(Sorted(u), p)
    BY SortedAppend
  <2>5. p \in AtPlace(a) <=> p.at = a
    BY DEF AtPlace
  <2>6. At(Sorted(u), a) = At(u, a)
    BY <1>2
  <2> HIDE DEF T
  <2>7. At(Sorted(Append(u, p)), a) = At(Append(u, p), a)
    BY <2>2, <2>3, <2>4, <2>5, <2>6
  <2> QED
    BY <2>1, <2>7 DEF T
<1>3. \A u \in Seq(Problems) : u \in T
  <2> HIDE DEF T
  <2> QED
    BY <1>1, <1>2, SeqInduction
<1> QED
  BY <1>3

\* The problems up to a place, and a list of them in the order of their places.
Below(a) == {p \in Problems : p.at <= a}
InPlaces(s) == \A i, j \in 1..Len(s) : i < j => s[i].at <= s[j].at

\* A list in order with a problem more is in order where none is past it.
LEMMA InPlacesAppend ==
  ASSUME NEW s \in Seq(Problems), NEW p \in Problems
  PROVE  InPlaces(Append(s, p)) <=> InPlaces(s) /\ s \in Seq(Below(p.at))
<1> DEFINE t == Append(s, p)
<1>1. /\ Len(t) = Len(s) + 1 /\ Len(s) \in Nat /\ t[Len(s) + 1] = p
      /\ \A i \in 1..Len(s) : t[i] = s[i]
  BY AppendProperties, LenProperties
<1>2. s \in Seq(Below(p.at)) <=> \A i \in 1..Len(s) : s[i].at <= p.at
  <2>1. \A i \in 1..Len(s) : s[i] \in Problems
    BY ElementOfSeq
  <2>2. s \in Seq(Below(p.at)) => \A i \in 1..Len(s) : s[i] \in Below(p.at)
    BY ElementOfSeq
  <2>3. ASSUME \A i \in 1..Len(s) : s[i].at <= p.at PROVE s \in Seq(Below(p.at))
    <3>1. \A i \in 1..Len(s) : s[i] \in Below(p.at)
      BY <2>1, <2>3 DEF Below
    <3>2. s = [i \in 1..Len(s) |-> s[i]]
      BY LenProperties
    <3> QED
      BY <1>1, <3>1, <3>2, IsASeq
  <2> QED
    BY <2>2, <2>3 DEF Below
<1> HIDE DEF t
<1>3. ASSUME InPlaces(t) PROVE InPlaces(s) /\ \A i \in 1..Len(s) : s[i].at <= p.at
  <2>1. \A i, j \in 1..Len(s) : i < j => s[i].at <= s[j].at
    <3>1. \A i \in 1..Len(s) : i \in 1..Len(t)
      BY <1>1
    <3> QED
      BY <1>1, <1>3, <3>1 DEF InPlaces
  <2>2. \A i \in 1..Len(s) : s[i].at <= p.at
    <3>1. \A i \in 1..Len(s) : i \in 1..Len(t) /\ Len(s) + 1 \in 1..Len(t) /\ i < Len(s) + 1
      BY <1>1
    <3>2. \A i \in 1..Len(s) : t[i].at <= t[Len(s) + 1].at
      BY <1>3, <3>1 DEF InPlaces
    <3> QED
      BY <1>1, <3>2
  <2> QED
    BY <2>1, <2>2 DEF InPlaces
<1>4. ASSUME InPlaces(s), \A i \in 1..Len(s) : s[i].at <= p.at PROVE InPlaces(t)
  <2> SUFFICES ASSUME NEW i \in 1..Len(t), NEW j \in 1..Len(t), i < j PROVE t[i].at <= t[j].at
    BY DEF InPlaces
  <2>1. i \in 1..Len(s) /\ (j \in 1..Len(s) \/ j = Len(s) + 1)
    BY <1>1
  <2>2. CASE j \in 1..Len(s)
    BY <1>1, <1>4, <2>1, <2>2 DEF InPlaces
  <2>3. CASE j = Len(s) + 1
    BY <1>1, <1>4, <2>1, <2>3
  <2> QED
    BY <2>1, <2>2, <2>3
<1> QED
  BY <1>2, <1>3, <1>4 DEF t

\* What is kept of a list in order is in order.
LEMMA InPlacesSift ==
  ASSUME NEW s \in Seq(Problems), NEW kept, InPlaces(s)
  PROVE  InPlaces(Sift(s, kept))
<1> DEFINE T == {u \in Seq(Problems) : InPlaces(u) => InPlaces(Sift(u, kept))}
<1>1. <<>> \in T
  BY EmptySeq, SiftNone DEF InPlaces
<1>2. ASSUME NEW u \in Seq(Problems), NEW p \in Problems, u \in T PROVE Append(u, p) \in T
  <2>1. Append(u, p) \in Seq(Problems) /\ Sift(u, kept) \in Seq(Problems)
    BY SiftIs, AppendProperties
  <2> SUFFICES ASSUME InPlaces(Append(u, p)) PROVE InPlaces(Sift(Append(u, p), kept))
    BY <2>1
  <2>2. InPlaces(u) /\ u \in Seq(Below(p.at))
    BY InPlacesAppend
  <2>3. Sift(u, kept) \in Seq(Below(p.at))
    BY <2>2, SiftIs
  <2>4. InPlaces(Sift(u, kept))
    BY <1>2, <2>2
  <2>5. InPlaces(Append(Sift(u, kept), p))
    BY <2>1, <2>3, <2>4, InPlacesAppend
  <2>6. Sift(Append(u, p), kept) = IF p \in kept THEN Append(Sift(u, kept), p) ELSE Sift(u, kept)
    BY SiftAppend
  <2> QED
    BY <2>4, <2>5, <2>6
<1>3. \A u \in Seq(Problems) : u \in T
  <2> HIDE DEF T
  <2> QED
    BY <1>1, <1>2, SeqInduction
<1> QED
  BY <1>3

\* Two lists in order, the one's places not past the other's, are in order
\* put together.
LEMMA InPlacesConcat ==
  ASSUME NEW s \in Seq(Problems), NEW t \in Seq(Problems), InPlaces(s), InPlaces(t),
         \A i \in 1..Len(s), j \in 1..Len(t) : s[i].at <= t[j].at
  PROVE  InPlaces(s \o t)
<1>1. /\ Len(s \o t) = Len(s) + Len(t) /\ Len(s) \in Nat /\ Len(t) \in Nat
      /\ \A i \in 1 .. Len(s) + Len(t) : (s \o t)[i] = IF i <= Len(s) THEN s[i] ELSE t[i - Len(s)]
  BY ConcatProperties, LenProperties
<1> SUFFICES ASSUME NEW i \in 1..(Len(s) + Len(t)), NEW j \in 1..(Len(s) + Len(t)), i < j
             PROVE  (s \o t)[i].at <= (s \o t)[j].at
  BY <1>1 DEF InPlaces
<1>2. CASE j <= Len(s)
  <2>1. i \in 1..Len(s) /\ j \in 1..Len(s) /\ i <= Len(s)
    BY <1>1, <1>2
  <2>2. (s \o t)[i] = s[i] /\ (s \o t)[j] = s[j]
    BY <1>1, <1>2, <2>1
  <2> QED
    BY <2>1, <2>2 DEF InPlaces
<1>3. CASE i <= Len(s) /\ ~(j <= Len(s))
  <2>1. i \in 1..Len(s) /\ j - Len(s) \in 1..Len(t)
    BY <1>1, <1>3
  <2>2. (s \o t)[i] = s[i] /\ (s \o t)[j] = t[j - Len(s)]
    BY <1>1, <1>3
  <2> QED
    BY <2>1, <2>2
<1>4. CASE ~(i <= Len(s))
  <2>1. i - Len(s) \in 1..Len(t) /\ j - Len(s) \in 1..Len(t) /\ i - Len(s) < j - Len(s) /\ ~(j <= Len(s))
    BY <1>1, <1>4
  <2>2. (s \o t)[i] = t[i - Len(s)] /\ (s \o t)[j] = t[j - Len(s)]
    BY <1>1, <1>4, <2>1
  <2> QED
    BY <2>1, <2>2 DEF InPlaces
<1> QED
  BY <1>1, <1>2, <1>3, <1>4

\* A list sorted is in order.
LEMMA SortedInPlaces ==
  ASSUME NEW s \in Seq(Problems)
  PROVE  InPlaces(Sorted(s))
<1> DEFINE T == {u \in Seq(Problems) : InPlaces(Sorted(u))}
<1>1. <<>> \in T
  BY EmptySeq, SortedNone DEF InPlaces
<1>2. ASSUME NEW u \in Seq(Problems), NEW p \in Problems, u \in T PROVE Append(u, p) \in T
  <2> DEFINE v == Sorted(u)
  <2>1. Append(u, p) \in Seq(Problems) /\ v \in Seq(Problems) /\ InPlaces(v)
        /\ Sorted(Append(u, p)) = SortedIn(v, p)
    BY <1>2, SortedIs, AppendProperties, SortedAppend
  <2> HIDE DEF v
  <2> DEFINE B == {q \in Problems : q.at <= p.at}
  <2> DEFINE A == {q \in Problems : q.at > p.at}
  <2>2. \A q \in Problems : q.at \in Nat
    BY SharedAssumption
  <2>3. SortedIn(v, p) = Append(Sift(v, B), p) \o Sift(v, A)
    BY <2>1, SortedInIs DEF UpTo, Past
  <2>4. Sift(v, B) \in Seq(Problems \cap B) /\ Sift(v, A) \in Seq(Problems \cap A)
    <3> HIDE DEF A, B
    <3> QED
      BY <2>1, SiftWithin
  <2>5. InPlaces(Sift(v, B)) /\ InPlaces(Sift(v, A))
    <3> HIDE DEF A, B
    <3> QED
      BY <2>1, InPlacesSift
  <2>6. Sift(v, B) \in Seq(Problems) /\ Sift(v, A) \in Seq(Problems)
    <3> HIDE DEF A, B
    <3> QED
      BY <2>1, SiftIs
  <2>7. Problems \cap B = Below(p.at)
    BY DEF Below
  <2>8. \A i \in 1..Len(Sift(v, A)) : Sift(v, A)[i] \in A
    <3> HIDE DEF A, B
    <3>1. \A i \in 1..Len(Sift(v, A)) : Sift(v, A)[i] \in Problems \cap A
      BY <2>4, ElementOfSeq
    <3> QED
      BY <3>1
  <2>9. InPlaces(Append(Sift(v, B), p))
    <3> HIDE DEF A, B
    <3> QED
      BY <2>4, <2>5, <2>6, <2>7, InPlacesAppend
  <2> DEFINE w == Append(Sift(v, B), p)
  <2>10. w \in Seq(Below(p.at)) /\ w \in Seq(Problems)
    <3>1. p \in Below(p.at)
      BY <2>2 DEF Below
    <3> HIDE DEF A, B
    <3> QED
      BY <2>4, <2>6, <2>7, <3>1, AppendProperties
  <2>11. \A i \in 1..Len(w) : w[i] \in Below(p.at)
    <3> HIDE DEF w
    <3> QED
      BY <2>10, ElementOfSeq
  <2>12. \A i \in 1..Len(w), j \in 1..Len(Sift(v, A)) : w[i].at <= Sift(v, A)[j].at
    <3> HIDE DEF w
    <3> SUFFICES ASSUME NEW i \in 1..Len(w), NEW j \in 1..Len(Sift(v, A))
                 PROVE  w[i].at <= Sift(v, A)[j].at
      OBVIOUS
    <3>1. w[i] \in Problems /\ w[i].at <= p.at
      BY <2>11 DEF Below
    <3>2. Sift(v, A)[j] \in Problems /\ Sift(v, A)[j].at > p.at
      BY <2>8
    <3>3. \A a, b, c \in Nat : a <= b /\ c > b => a <= c
      OBVIOUS
    <3> QED
      BY <2>2, <3>1, <3>2, <3>3
  <2>13. InPlaces(w \o Sift(v, A))
    <3> HIDE DEF A, B
    <3>1. w \in Seq(Problems) /\ Sift(v, A) \in Seq(Problems) /\ InPlaces(w) /\ InPlaces(Sift(v, A))
      BY <2>5, <2>6, <2>9, <2>10
    <3> HIDE DEF w
    <3> QED
      BY <2>12, <3>1, InPlacesConcat
  <2> QED
    BY <2>1, <2>3, <2>13
<1>3. \A u \in Seq(Problems) : u \in T
  <2> HIDE DEF T
  <2> QED
    BY <1>1, <1>2, SeqInduction
<1> QED
  BY <1>3

\* Two lists in order that have the same at each place are one list.
LEMMA InPlacesSame ==
  ASSUME NEW s \in Seq(Problems), NEW t \in Seq(Problems), InPlaces(s), InPlaces(t),
         \A a \in Nat : At(s, a) = At(t, a)
  PROVE  s = t
<1> DEFINE Alike(u, v) == InPlaces(u) /\ InPlaces(v) /\ \A a \in Nat : At(u, a) = At(v, a)
<1> DEFINE T == {u \in Seq(Problems) : \A v \in Seq(Problems) : Alike(u, v) => u = v}
<1>0. \A p \in Problems : p.at \in Nat /\ p \in AtPlace(p.at)
  BY SharedAssumption DEF AtPlace
<1>a. ASSUME NEW u \in Seq(Problems), NEW a \in Nat, At(u, a) = <<>>, NEW i \in 1..Len(u)
      PROVE  u[i].at # a
  <2>1. u[i] \notin AtPlace(a) /\ u[i] \in Problems
    BY <1>a, SiftNothing, ElementOfSeq DEF At, AtPlace
  <2> QED
    BY <2>1 DEF AtPlace
<1>b. ASSUME NEW u \in Seq(Problems), NEW p \in Problems, NEW a \in Nat
      PROVE  /\ At(Append(u, p), a) = IF p.at = a THEN Append(At(u, a), p) ELSE At(u, a)
             /\ At(u, a) \in Seq(Problems)
             /\ Append(At(u, a), p) # <<>>
  <2>1. p \in AtPlace(a) <=> p.at = a
    BY DEF AtPlace
  <2>2. At(u, a) \in Seq(Problems)
    BY SiftIs DEF At
  <2>3. Append(At(u, a), p) # <<>>
    BY <2>2, AppendProperties
  <2> QED
    BY <2>1, <2>2, <2>3, SiftAppend DEF At, AtPlace
<1>c. ASSUME NEW u \in Seq(Problems), NEW a \in Nat, At(u, a) # <<>>
      PROVE  \E i \in 1..Len(u) : u[i].at = a
  <2> SUFFICES ASSUME \A i \in 1..Len(u) : u[i].at # a PROVE FALSE
    OBVIOUS
  <2> DEFINE D == {p \in Problems : p.at # a}
  <2>1. u \in Seq(D)
    <3>1. \A i \in 1..Len(u) : u[i] \in D
      BY ElementOfSeq
    <3>2. u = [i \in 1..Len(u) |-> u[i]] /\ Len(u) \in Nat
      BY LenProperties
    <3> HIDE DEF D
    <3> QED
      BY <3>1, <3>2, IsASeq
  <2>2. D \cap AtPlace(a) = {}
    BY DEF AtPlace
  <2> HIDE DEF D
  <2>3. Sift(u, AtPlace(a)) = <<>>
    BY <2>1, <2>2, SiftEmpty
  <2> QED
    BY <1>c, <2>3 DEF At, AtPlace
<1>1. <<>> \in T
  <2> SUFFICES ASSUME NEW v \in Seq(Problems), Alike(<<>>, v) PROVE v = <<>>
    BY EmptySeq
  <2> SUFFICES ASSUME v # <<>> PROVE FALSE
    OBVIOUS
  <2>1. 1 \in 1..Len(v) /\ v[1] \in Problems
    BY EmptySeq, ElementOfSeq
  <2>2. At(<<>>, v[1].at) = <<>>
    BY SiftNone DEF At
  <2>3. At(v, v[1].at) = <<>>
    BY <1>0, <2>1, <2>2
  <2> QED
    BY <1>0, <1>a, <2>1, <2>3
<1>2. ASSUME NEW u \in Seq(Problems), NEW p \in Problems, u \in T PROVE Append(u, p) \in T
  <2>0. Append(u, p) \in Seq(Problems)
    BY AppendProperties
  <2> SUFFICES ASSUME NEW v \in Seq(Problems), Alike(Append(u, p), v) PROVE Append(u, p) = v
    BY <2>0
  <2>1. InPlaces(u) /\ u \in Seq(Below(p.at))
    BY InPlacesAppend
  <2>b. p.at \in Nat /\ At(v, p.at) = At(Append(u, p), p.at) /\ At(Append(u, p), p.at) # <<>>
    <3>1. p.at \in Nat
      BY <1>0
    <3>2. At(Append(u, p), p.at) = Append(At(u, p.at), p) /\ Append(At(u, p.at), p) # <<>>
      BY <1>b, <3>1
    <3> QED
      BY <3>1, <3>2
  <2>2. v # <<>>
    <3>1. At(<<>>, p.at) = <<>>
      BY SiftNone DEF At
    <3> QED
      BY <2>b, <3>1
  <2>3. PICK w \in Seq(Problems), q \in Problems : v = Append(w, q)
    BY <2>2, SequenceEmptyOrAppend
  <2>4. InPlaces(w) /\ w \in Seq(Below(q.at))
    BY <2>3, InPlacesAppend
  <2>c. \A a \in Nat : At(Append(u, p), a) = At(Append(w, q), a)
    BY <2>3
  <2>d. q.at \in Nat
    BY <1>0
  <2>e. \A a \in Nat : At(Append(u, p), a) = IF p.at = a THEN Append(At(u, a), p) ELSE At(u, a)
    BY <1>b
  <2>f. \A a \in Nat : At(Append(w, q), a) = IF q.at = a THEN Append(At(w, a), q) ELSE At(w, a)
    BY <1>b
  <2>g. At(Append(w, q), q.at) # <<>>
    <3>1. Append(At(w, q.at), q) # <<>>
      BY <1>b, <2>d
    <3> QED
      BY <2>d, <2>f, <3>1
  <2> HIDE DEF T
  <2>a. ASSUME NEW x \in Seq(Problems), NEW y \in Problems, NEW z \in Problems,
               x \in Seq(Below(y.at)), At(Append(x, y), z.at) # <<>>
        PROVE  z.at <= y.at
    <3>1. Append(x, y) \in Seq(Below(y.at))
      <4>1. y \in Below(y.at)
        BY <1>0 DEF Below
      <4> QED
        BY <2>a, <4>1, AppendProperties
    <3>2. Append(x, y) \in Seq(Problems)
      BY AppendProperties
    <3>3. PICK i \in 1..Len(Append(x, y)) : Append(x, y)[i].at = z.at
      BY <1>0, <1>c, <2>a, <3>2
    <3>4. Append(x, y)[i] \in Below(y.at)
      BY <3>1, ElementOfSeq
    <3> QED
      BY <3>3, <3>4 DEF Below
  <2>5. At(Append(u, p), q.at) # <<>> /\ At(Append(w, q), p.at) # <<>>
    BY <2>b, <2>c, <2>d, <2>g
  <2>6. p.at = q.at
    <3>1. q.at <= p.at /\ p.at <= q.at
      BY <2>1, <2>4, <2>5, <2>a
    <3> QED
      BY <1>0, <3>1
  <2>7. Append(At(u, p.at), p) = Append(At(w, p.at), q)
    BY <2>b, <2>c, <2>e, <2>f, <2>6
  <2>8. p = q /\ At(u, p.at) = At(w, p.at)
    <3>1. At(u, p.at) \in Seq(Problems) /\ At(w, p.at) \in Seq(Problems)
      BY <1>0, <1>b
    <3>2. \A x, y \in Seq(Problems) : Append(x, p) = Append(y, q) => x = y /\ p = q
      BY AppendInjective, SMTT(30)
    <3> QED
      BY <2>7, <3>1, <3>2
  <2>9. \A a \in Nat : At(u, a) = At(w, a)
    <3> SUFFICES ASSUME NEW a \in Nat, a # p.at PROVE At(u, a) = At(w, a)
      BY <2>8
    <3> QED
      BY <2>c, <2>e, <2>f, <2>6
  <2>10. u = w
    BY <1>2, <2>1, <2>4, <2>9 DEF T
  <2> QED
    BY <2>3, <2>8, <2>10
<1>3. \A u \in Seq(Problems) : u \in T
  <2> HIDE DEF T
  <2> QED
    BY <1>1, <1>2, SeqInduction
<1> QED
  BY <1>3

\* Lists that have the same at each place, in the same order, are printed alike.
LEMMA SortedSame ==
  ASSUME NEW s \in Seq(Problems), NEW t \in Seq(Problems), \A a \in Nat : At(s, a) = At(t, a)
  PROVE  Sorted(s) = Sorted(t)
<1>1. \A a \in Nat : At(Sorted(s), a) = At(Sorted(t), a)
  BY AtSorted
<1>2. Sorted(s) \in Seq(Problems) /\ Sorted(t) \in Seq(Problems)
  BY SortedIs
<1>3. InPlaces(Sorted(s)) /\ InPlaces(Sorted(t))
  BY SortedInPlaces
<1> QED
  BY <1>1, <1>2, <1>3, InPlacesSame

(***************************************************************************)
(* SharedCheck: what one worker finds                                      *)
(***************************************************************************)

\* What is asked for of a list of theorems, and what is found of it all.
Asked(ts) == Sift(ts, Wanted)
Finds(asks) == [i \in DOMAIN asks |-> CheckNth(asks[i])]
FoundOf(ts) == Joined(Finds(Asked(ts)))

\* What is found of a theorem something may be found of is a list of problems.
LEMMA CheckNthIs ==
  ASSUME NEW t \in DOMAIN Own PROVE CheckNth(t) \in Seq(Problems)
BY SharedAssumption DEF CheckNth

\* What is found of each theorem asked for is a list of problems.
LEMMA FindsIs ==
  ASSUME NEW asks \in Seq(DOMAIN Own)
  PROVE  Finds(asks) \in Seq(Seq(Problems)) /\ Len(Finds(asks)) = Len(asks)
<1>1. DOMAIN asks = 1..Len(asks) /\ Len(asks) \in Nat
  BY LenProperties
<1>2. \A i \in 1..Len(asks) : CheckNth(asks[i]) \in Seq(Problems)
  BY ElementOfSeq, CheckNthIs
<1>3. Finds(asks) = [i \in 1..Len(asks) |-> CheckNth(asks[i])]
  BY <1>1 DEF Finds
<1>4. Finds(asks) \in Seq(Seq(Problems))
  BY <1>1, <1>2, <1>3, IsASeq
<1>5. DOMAIN Finds(asks) = 1..Len(asks) /\ DOMAIN Finds(asks) = 1..Len(Finds(asks)) /\ Len(Finds(asks)) \in Nat
  BY <1>3, <1>4, LenProperties
<1>6. \A m, n \in Nat : 1..m = 1..n => m = n
  <2> SUFFICES ASSUME NEW m \in Nat, NEW n \in Nat, 1..m = 1..n PROVE m = n
    OBVIOUS
  <2>1. m > 0 => m \in 1..n
    OBVIOUS
  <2>2. n > 0 => n \in 1..m
    OBVIOUS
  <2> QED
    BY <2>1, <2>2
<1> QED
  BY <1>1, <1>4, <1>5, <1>6

\* With a theorem more, what is found of it is added where it is asked for.
LEMMA FoundOfAppend ==
  ASSUME NEW ts \in Seq(DOMAIN Own), NEW t \in DOMAIN Own
  PROVE  /\ FoundOf(Append(ts, t)) = IF t \in Wanted THEN FoundOf(ts) \o CheckNth(t) ELSE FoundOf(ts)
         /\ FoundOf(ts) \in Seq(Problems)
<1> DEFINE asks == Asked(ts)
<1>1. asks \in Seq(DOMAIN Own) /\ Finds(asks) \in Seq(Seq(Problems))
  BY SiftIs, FindsIs DEF Asked
<1>2. Asked(Append(ts, t)) = IF t \in Wanted THEN Append(asks, t) ELSE asks
  BY SiftAppend DEF Asked
<1>a. FoundOf(ts) = Joined(Finds(asks))
  BY DEF FoundOf
<1> HIDE DEF asks
<1>3. Finds(Append(asks, t)) = Append(Finds(asks), CheckNth(t))
  <2>1. Append(asks, t) \in Seq(DOMAIN Own) /\ Len(Append(asks, t)) = Len(asks) + 1 /\ Len(asks) \in Nat
        /\ Append(asks, t)[Len(asks) + 1] = t /\ \A i \in 1..Len(asks) : Append(asks, t)[i] = asks[i]
    BY <1>1, AppendProperties, LenProperties
  <2>2. DOMAIN asks = 1..Len(asks) /\ DOMAIN Append(asks, t) = 1..(Len(asks) + 1)
    BY <1>1, <2>1, LenProperties
  <2>3. Finds(Append(asks, t)) \in Seq(Seq(Problems)) /\ Len(Finds(Append(asks, t))) = Len(asks) + 1
    BY <2>1, FindsIs
  <2>4. Len(Finds(asks)) = Len(asks) /\ CheckNth(t) \in Seq(Problems)
    BY <1>1, FindsIs, CheckNthIs
  <2>5. /\ Append(Finds(asks), CheckNth(t)) \in Seq(Seq(Problems))
        /\ Len(Append(Finds(asks), CheckNth(t))) = Len(asks) + 1
        /\ Append(Finds(asks), CheckNth(t))[Len(asks) + 1] = CheckNth(t)
        /\ \A i \in 1..Len(asks) : Append(Finds(asks), CheckNth(t))[i] = Finds(asks)[i]
    <3>1. \A f \in Seq(Seq(Problems)), x \in Seq(Problems) :
            /\ Append(f, x) \in Seq(Seq(Problems)) /\ Len(Append(f, x)) = Len(f) + 1
            /\ Append(f, x)[Len(f) + 1] = x
            /\ \A i \in 1..Len(f) : Append(f, x)[i] = f[i]
      BY AppendProperties
    <3> QED
      BY <1>1, <2>4, <3>1
  <2>6. ASSUME NEW i \in 1..(Len(asks) + 1)
        PROVE  Finds(Append(asks, t))[i] = Append(Finds(asks), CheckNth(t))[i]
    <3>1. i = Len(asks) + 1 \/ i \in 1..Len(asks)
      BY <2>1
    <3>2. Finds(Append(asks, t))[i] = CheckNth(Append(asks, t)[i])
      BY <2>2 DEF Finds
    <3>3. CASE i = Len(asks) + 1
      BY <2>1, <2>5, <3>2, <3>3
    <3>4. CASE i \in 1..Len(asks)
      <4>1. Finds(asks)[i] = CheckNth(asks[i])
        BY <2>2, <3>4 DEF Finds
      <4> QED
        BY <2>1, <2>5, <3>2, <3>4, <4>1
    <3> QED
      BY <3>1, <3>3, <3>4
  <2> QED
    BY <2>3, <2>5, <2>6, SeqEqual
<1>4. Joined(Append(Finds(asks), CheckNth(t))) = Joined(Finds(asks)) \o CheckNth(t)
  BY <1>1, CheckNthIs, JoinedAppend
<1>5. Joined(Finds(asks)) \in Seq(Problems)
  BY <1>1, JoinedIs
<1> QED
  BY <1>a, <1>2, <1>3, <1>4, <1>5 DEF FoundOf

\* The theorem at i is asked for, and has problems at a place.
Asks(ts, i) == i \in 1..Len(ts) /\ ts[i] \in Wanted
Shows(ts, i, a) == Asks(ts, i) /\ At(CheckNth(ts[i]), a) # <<>>

\* What is found of a list of theorems has nothing at a place where none of
\* them has, and what one of them has there where it alone has.
LEMMA FoundAt ==
  ASSUME NEW ts \in Seq(DOMAIN Own), NEW a \in Nat
  PROVE  /\ FoundOf(ts) \in Seq(Problems)
         /\ (\A i \in Nat : ~Shows(ts, i, a)) => At(FoundOf(ts), a) = <<>>
         /\ \A j \in Nat : /\ Shows(ts, j, a)
                           /\ \A i \in Nat : Shows(ts, i, a) => i = j
                           => At(FoundOf(ts), a) = At(CheckNth(ts[j]), a)
<1> DEFINE NoShow(u) == (\A i \in Nat : ~Shows(u, i, a)) => At(FoundOf(u), a) = <<>>
<1> DEFINE One(u) == \A j \in Nat : /\ Shows(u, j, a)
                                    /\ \A i \in Nat : Shows(u, i, a) => i = j
                                    => At(FoundOf(u), a) = At(CheckNth(u[j]), a)
<1> DEFINE T == {u \in Seq(DOMAIN Own) : FoundOf(u) \in Seq(Problems) /\ NoShow(u) /\ One(u)}
<1>1. <<>> \in T
  <2>1. <<>> \in Seq(DOMAIN Own) /\ Len(<<>>) = 0 /\ <<>> \in Seq(Problems)
    BY EmptySeq
  <2>2. FoundOf(<<>>) = <<>>
    <3>1. Asked(<<>>) = <<>>
      BY SiftNone DEF Asked
    <3>2. Finds(<<>>) \in Seq(Seq(Problems)) /\ Len(Finds(<<>>)) = 0
      BY <2>1, FindsIs
    <3>3. Finds(<<>>) = <<>>
      BY <3>2, EmptySeq
    <3> QED
      BY <3>1, <3>3, JoinedNone DEF FoundOf
  <2>3. At(<<>>, a) = <<>>
    BY SiftNone DEF At
  <2>4. \A i \in Nat : ~Shows(<<>>, i, a)
    BY <2>1 DEF Shows, Asks
  <2> QED
    BY <2>1, <2>2, <2>3, <2>4
<1>2. ASSUME NEW u \in Seq(DOMAIN Own), NEW t \in DOMAIN Own, u \in T PROVE Append(u, t) \in T
  <2> DEFINE v == Append(u, t)
  <2>1. /\ v \in Seq(DOMAIN Own) /\ Len(v) = Len(u) + 1 /\ Len(u) \in Nat
        /\ \A i \in 1..Len(u) : v[i] = u[i]
        /\ v[Len(u) + 1] = t
    BY AppendProperties, LenProperties
  <2>2. /\ FoundOf(v) = IF t \in Wanted THEN FoundOf(u) \o CheckNth(t) ELSE FoundOf(u)
        /\ FoundOf(u) \in Seq(Problems)
    BY FoundOfAppend
  <2> HIDE DEF v
  <2>3. CheckNth(t) \in Seq(Problems)
    BY CheckNthIs
  <2>4. FoundOf(v) \in Seq(Problems)
    BY <2>2, <2>3, ConcatProperties
  <2>5. At(FoundOf(u) \o CheckNth(t), a) = At(FoundOf(u), a) \o At(CheckNth(t), a)
    <3>1. \A x, y \in Seq(Problems) : At(x \o y, a) = At(x, a) \o At(y, a)
      BY SiftConcat, SMTT(30) DEF At
    <3> QED
      BY <2>2, <2>3, <3>1
  <2>6. /\ At(FoundOf(u), a) \in Seq(Problems) /\ At(CheckNth(t), a) \in Seq(Problems)
        /\ <<>> \o <<>> = <<>> /\ At(FoundOf(u), a) \o <<>> = At(FoundOf(u), a)
        /\ <<>> \o At(CheckNth(t), a) = At(CheckNth(t), a)
    <3>1. \A x \in Seq(Problems) : At(x, a) \in Seq(Problems)
      BY SiftIs DEF At
    <3>2. At(FoundOf(u), a) \in Seq(Problems) /\ At(CheckNth(t), a) \in Seq(Problems)
      BY <2>2, <2>3, <3>1
    <3> QED
      BY <3>2, EmptySeq, ConcatEmptySeq
  <2>7. \A i \in Nat : Shows(v, i, a) <=> \/ Shows(u, i, a)
                                          \/ i = Len(u) + 1 /\ t \in Wanted /\ At(CheckNth(t), a) # <<>>
    <3> SUFFICES ASSUME NEW i \in Nat
                 PROVE  Shows(v, i, a) <=> \/ Shows(u, i, a)
                                           \/ i = Len(u) + 1 /\ t \in Wanted /\ At(CheckNth(t), a) # <<>>
      OBVIOUS
    <3>1. CASE i \in 1..Len(u)
      <4>1. i \in 1..Len(v) /\ i # Len(u) + 1 /\ v[i] = u[i]
        BY <2>1, <3>1
      <4> QED
        BY <3>1, <4>1 DEF Shows, Asks
    <3>2. CASE i = Len(u) + 1
      <4>1. i \in 1..Len(v) /\ i \notin 1..Len(u) /\ v[i] = t
        BY <2>1, <3>2
      <4> QED
        BY <3>2, <4>1 DEF Shows, Asks
    <3>3. CASE i \notin 1..Len(u) /\ i # Len(u) + 1
      <4>1. i \notin 1..Len(v)
        BY <2>1, <3>3
      <4> QED
        BY <3>3, <4>1 DEF Shows, Asks
    <3> QED
      BY <3>1, <3>2, <3>3
  <2>8. ~Shows(u, Len(u) + 1, a)
    <3>1. Len(u) + 1 \notin 1..Len(u)
      BY <2>1
    <3> QED
      BY <3>1 DEF Shows, Asks
  <2>9. NoShow(v)
    <3> SUFFICES ASSUME \A i \in Nat : ~Shows(v, i, a) PROVE At(FoundOf(v), a) = <<>>
      OBVIOUS
    <3>1. At(FoundOf(u), a) = <<>>
      <4>1. \A i \in Nat : ~Shows(u, i, a)
        BY <2>7
      <4> QED
        BY <1>2, <4>1
    <3>2. t \in Wanted => At(CheckNth(t), a) = <<>>
      <4>1. Len(u) + 1 \in Nat
        BY <2>1
      <4> QED
        BY <2>7, <4>1
    <3> QED
      BY <2>2, <2>5, <2>6, <3>1, <3>2
  <2>10. One(v)
    <3> SUFFICES ASSUME NEW j \in Nat, Shows(v, j, a), \A i \in Nat : Shows(v, i, a) => i = j
                 PROVE  At(FoundOf(v), a) = At(CheckNth(v[j]), a)
      OBVIOUS
    <3>1. CASE j = Len(u) + 1
      <4>1. \A i \in Nat : ~Shows(u, i, a)
        BY <2>7, <2>8, <3>1
      <4>2. At(FoundOf(u), a) = <<>>
        BY <1>2, <4>1
      <4>3. v[j] = t /\ t \in Wanted
        BY <2>1, <2>7, <2>8, <3>1
      <4> QED
        BY <2>2, <2>5, <2>6, <4>2, <4>3
    <3>2. CASE j # Len(u) + 1
      <4>1. Shows(u, j, a) /\ \A i \in Nat : Shows(u, i, a) => i = j
        BY <2>7, <3>2
      <4>2. At(FoundOf(u), a) = At(CheckNth(u[j]), a)
        BY <1>2, <4>1
      <4>3. v[j] = u[j]
        BY <2>1, <4>1 DEF Shows, Asks
      <4>4. t \in Wanted => At(CheckNth(t), a) = <<>>
        <5>1. Len(u) + 1 \in Nat
          BY <2>1
        <5> QED
          BY <2>7, <3>2, <5>1
      <4> QED
        BY <2>2, <2>5, <2>6, <4>2, <4>3, <4>4
    <3> QED
      BY <3>1, <3>2
  <2> QED
    BY <2>1, <2>4, <2>9, <2>10 DEF v
<1>3. \A u \in Seq(DOMAIN Own) : u \in T
  <2> HIDE DEF T
  <2> QED
    BY <1>1, <1>2, SeqInduction
<1> QED
  BY <1>3

\* As many are asked for as there are places where one is.
LEMMA AskedCount ==
  ASSUME NEW ts \in Seq(DOMAIN Own)
  PROVE  Len(Asked(ts)) = Cardinality({i \in Nat : Asks(ts, i)})
<1> DEFINE P(u) == {i \in Nat : Asks(u, i)}
<1> DEFINE T == {u \in Seq(DOMAIN Own) : IsFiniteSet(P(u)) /\ Len(Asked(u)) = Cardinality(P(u))}
<1>1. <<>> \in T
  <2>1. P(<<>>) = {}
    BY EmptySeq DEF Asks
  <2>2. Asked(<<>>) = <<>>
    BY SiftNone DEF Asked
  <2>3. IsFiniteSet({}) /\ Cardinality({}) = 0
    BY FS_EmptySet
  <2> QED
    BY <2>1, <2>2, <2>3, EmptySeq
<1>2. ASSUME NEW u \in Seq(DOMAIN Own), NEW t \in DOMAIN Own, u \in T PROVE Append(u, t) \in T
  <2> DEFINE v == Append(u, t)
  <2>1. /\ v \in Seq(DOMAIN Own) /\ Len(v) = Len(u) + 1 /\ Len(u) \in Nat
        /\ \A i \in 1..Len(u) : v[i] = u[i]
        /\ v[Len(u) + 1] = t
    BY AppendProperties, LenProperties
  <2>2. Asked(v) = IF t \in Wanted THEN Append(Asked(u), t) ELSE Asked(u)
    BY SiftAppend DEF Asked
  <2>3. Asked(u) \in Seq(DOMAIN Own)
    BY SiftIs DEF Asked
  <2>4. t \in Wanted => Len(Asked(v)) = Len(Asked(u)) + 1
    BY <2>2, <2>3, AppendProperties
  <2> HIDE DEF v
  <2>5. P(v) = IF t \in Wanted THEN P(u) \cup {Len(u) + 1} ELSE P(u)
    <3>1. ASSUME NEW i \in Nat PROVE Asks(v, i) <=> Asks(u, i) \/ (t \in Wanted /\ i = Len(u) + 1)
      <4>1. CASE i \in 1..Len(u)
        <5>1. i \in 1..Len(v) /\ i # Len(u) + 1 /\ v[i] = u[i]
          BY <2>1, <4>1
        <5> QED
          BY <4>1, <5>1 DEF Asks
      <4>2. CASE i = Len(u) + 1
        <5>1. i \in 1..Len(v) /\ i \notin 1..Len(u) /\ v[i] = t
          BY <2>1, <4>2
        <5> QED
          BY <4>2, <5>1 DEF Asks
      <4>3. CASE i \notin 1..Len(u) /\ i # Len(u) + 1
        <5>1. i \notin 1..Len(v)
          BY <2>1, <4>3
        <5> QED
          BY <4>3, <5>1 DEF Asks
      <4> QED
        BY <4>1, <4>2, <4>3
    <3> QED
      BY <2>1, <3>1
  <2>6. Len(u) + 1 \notin P(u)
    <3>1. Len(u) + 1 \notin 1..Len(u)
      BY <2>1
    <3> QED
      BY <3>1 DEF Asks
  <2>7. IsFiniteSet(P(u)) /\ Len(Asked(u)) = Cardinality(P(u))
    BY <1>2
  <2> DEFINE Q == P(u)
  <2>8. IsFiniteSet(Q \cup {Len(u) + 1}) /\ Cardinality(Q \cup {Len(u) + 1}) = Cardinality(Q) + 1
    <3>1. IsFiniteSet(Q) /\ Len(u) + 1 \notin Q
      BY <2>6, <2>7
    <3> HIDE DEF Q
    <3> QED
      BY <3>1, FS_AddElement
  <2>9. IsFiniteSet(P(v)) /\ Len(Asked(v)) = Cardinality(P(v))
    <3>1. CASE t \in Wanted
      <4>1. P(v) = Q \cup {Len(u) + 1}
        BY <2>5, <3>1
      <4> HIDE DEF P
      <4> QED
        BY <2>4, <2>7, <2>8, <3>1, <4>1
    <3>2. CASE t \notin Wanted
      <4>1. P(v) = P(u) /\ Asked(v) = Asked(u)
        BY <2>2, <2>5, <3>2
      <4> HIDE DEF P
      <4> QED
        BY <2>7, <4>1
    <3> QED
      BY <3>1, <3>2
  <2> QED
    BY <2>1, <2>9 DEF v
<1>3. \A u \in Seq(DOMAIN Own) : u \in T
  <2> HIDE DEF T
  <2> QED
    BY <1>1, <1>2, SeqInduction
<1> QED
  BY <1>3

(***************************************************************************)
(* SharedCheck: who checked what                                           *)
(***************************************************************************)

\* Worker w's reading asks for the theorem at i, and where that shows.
Wants(w, i) == Asks(corpus[w].theorems, i)
Says(w, i, a) == Shows(corpus[w].theorems, i, a)

\* Each index is checked by one worker, one the cursor has passed and its
\* reading asks for, and a worker that reads has checked none.
Parted(did) ==
  \A w \in Checkers :
    /\ \A i \in did[w] : i \in 1..(sharedNext - 1) /\ Wants(w, i)
    /\ \A v \in Checkers : v # w => did[v] \cap did[w] = {}
    /\ sharedPc[w] \in {"read", "refused"} => did[w] = {}

\* What a worker checks was taken by it alone, and is not checked yet.
InHand(did) ==
  \A w \in Checkers : sharedPc[w] = "check" =>
    /\ taken[w] \in 1..(sharedNext - 1) /\ Wants(w, taken[w])
    /\ \A v \in Checkers :
         taken[w] \notin did[v] /\ (v # w /\ sharedPc[v] = "check" => taken[v] # taken[w])

\* Each index the cursor has passed is checked, in a worker's hands, or not
\* asked for by the reading of a worker that took it.
Passed(did) ==
  \A i \in 1..(sharedNext - 1) : \E w \in Checkers :
    \/ i \in did[w]
    \/ sharedPc[w] = "check" /\ taken[w] = i
    \/ sharedPc[w] \in {"take", "check", "done"} /\ ~Wants(w, i)

\* As many were asked for as were checked.
Counted(did) == asked = Cardinality({i \in 1..(sharedNext - 1) : \E w \in Checkers : i \in did[w]})

\* A worker's own problems at a place are those of what it checked.
Heard(did) ==
  \A w \in Checkers, a \in Nat :
    /\ (\A i \in did[w] : ~Says(w, i, a)) => At(own[w], a) = <<>>
    /\ \A i \in did[w] : Says(w, i, a) => At(own[w], a) = At(CheckNth(corpus[w].theorems[i]), a)

SharesBy(did) == Parted(did) /\ InHand(did) /\ Passed(did) /\ Counted(did) /\ Heard(did)
Shares == \E did \in [Checkers -> SUBSET Nat] : SharesBy(did)

\* A worker refused is one whose reading no grammar can be built from.
RefusedUnread == \A w \in Checkers : sharedPc[w] = "refused" => ~corpus[w].reads

\* What was said is what the workers joined make.
SaidIs ==
  sharedOutcome # Unsaid =>
    /\ \A w \in Checkers : EndedShared(w)
    /\ (\E w \in Checkers : sharedPc[w] = "refused") =>
         \E w \in Checkers : sharedPc[w] = "refused" /\ sharedOutcome = Refused(corpus[w])
    /\ (\A w \in Checkers : sharedPc[w] # "refused") =>
         sharedOutcome = Merged(Len(corpus[1].theorems))

ScheduleInv == SharedInv /\ Shares /\ RefusedUnread /\ SaidIs

\* What a place has of two theorems a reading asks for is said of one of them.
LEMMA OneShows ==
  ASSUME NEW c \in Corpora, NEW i, NEW j, NEW a,
         Shows(c.theorems, i, a), Shows(c.theorems, j, a)
  PROVE  i = j
<1> DEFINE ts == c.theorems
<1>1. ts \in Seq(DOMAIN Own)
  BY SharedAssumption
<1>2. i \in DOMAIN ts /\ j \in DOMAIN ts /\ ts[i] \in Wanted /\ ts[j] \in Wanted
      /\ ts[i] \in DOMAIN Own /\ ts[j] \in DOMAIN Own
  <2>1. DOMAIN ts = 1..Len(ts) /\ \A k \in 1..Len(ts) : ts[k] \in DOMAIN Own
    BY <1>1, LenProperties, ElementOfSeq
  <2> QED
    BY <2>1 DEF Shows, Asks
<1>3. ASSUME NEW t \in DOMAIN Own, At(CheckNth(t), a) # <<>> PROVE a \in PlacesOf(t)
  <2>1. CheckNth(t) \in Seq(Problems)
    BY CheckNthIs
  <2> DEFINE s == CheckNth(t)
  <2> DEFINE E == ToSet(s)
  <2>2. s \in Seq(E) /\ E \subseteq Problems
    <3>1. E = Range(s)
      BY DEF ToSet, Range
    <3>2. s \in Seq(Range(s))
      BY <2>1, SeqOfRange
    <3>3. \A k \in 1..Len(s) : s[k] \in Problems
      BY <2>1, ElementOfSeq
    <3>4. DOMAIN s = 1..Len(s)
      BY <2>1, LenProperties
    <3> QED
      BY <3>1, <3>2, <3>3, <3>4 DEF ToSet
  <2>3. E \cap {p \in Problems : p.at = a} # {}
    <3> SUFFICES ASSUME E \cap {p \in Problems : p.at = a} = {} PROVE FALSE
      OBVIOUS
    <3> HIDE DEF E, s
    <3>1. Sift(s, {p \in Problems : p.at = a}) = <<>>
      BY <2>2, SiftEmpty
    <3> QED
      BY <1>3, <3>1 DEF At, s
  <2> QED
    BY <2>3 DEF PlacesOf
<1>4. a \in PlacesOf(ts[i]) \cap PlacesOf(ts[j])
  BY <1>2, <1>3 DEF Shows
<1> QED
  BY <1>2, <1>4, PlacesAssumption

\* At first nothing is taken.
LEMMA SharesInit == ASSUME InitShared PROVE Shares /\ RefusedUnread /\ SaidIs
<1> DEFINE did == [w \in Checkers |-> {}]
<1>1. did \in [Checkers -> SUBSET Nat] /\ \A w \in Checkers : did[w] = {}
  OBVIOUS
<1> HIDE DEF did
<1>2. /\ sharedNext = 1 /\ asked = 0 /\ sharedOutcome = Unsaid
      /\ \A w \in Checkers : sharedPc[w] = "read" /\ own[w] = <<>>
  BY DEF InitShared
<1>3. 1..(sharedNext - 1) = {}
  BY <1>2
<1>4. Parted(did) /\ InHand(did) /\ Passed(did)
  BY <1>1, <1>2, <1>3 DEF Parted, InHand, Passed
<1>5. Counted(did)
  BY <1>2, <1>3, FS_EmptySet DEF Counted
<1>6. Heard(did)
  <2>1. \A a : At(<<>>, a) = <<>>
    BY SiftNone DEF At
  <2> QED
    BY <1>1, <1>2, <2>1 DEF Heard
<1>7. Shares
  BY <1>1, <1>4, <1>5, <1>6 DEF Shares, SharesBy
<1> QED
  BY <1>2, <1>7 DEF RefusedUnread, SaidIs

\* A worker that reads has checked nothing of another reading.
LEMMA SharesRead ==
  ASSUME SharedInv, Shares, NEW w \in Checkers, ReadShared(w) PROVE Shares'
<1>1. PICK did \in [Checkers -> SUBSET Nat] : SharesBy(did)
  BY DEF Shares
<1>2. /\ sharedPc[w] = "read" /\ UNCHANGED <<sharedNext, asked, taken, own>>
      /\ sharedPc'[w] \in {"take", "refused"}
      /\ \A v \in Checkers : v # w => sharedPc'[v] = sharedPc[v] /\ corpus'[v] = corpus[v]
  BY DEF ReadShared, SharedInv, SharedTypeOK
<1>3. did[w] = {}
  BY <1>1, <1>2 DEF SharesBy, Parted
<1>4. \A v \in Checkers : v # w => \A i : (Wants(v, i)' <=> Wants(v, i)) /\ \A a : Says(v, i, a)' <=> Says(v, i, a)
  BY <1>2 DEF Wants, Says
<1>5. Parted(did)'
  <2>1. Parted(did)
    BY <1>1 DEF SharesBy
  <2> QED
    BY <1>2, <1>3, <1>4, <2>1 DEF Parted
<1>6. InHand(did)'
  <2>1. InHand(did)
    BY <1>1 DEF SharesBy
  <2> QED
    BY <1>2, <1>4, <2>1 DEF InHand
<1>7. Passed(did)'
  <2>1. Passed(did)
    BY <1>1 DEF SharesBy
  <2> SUFFICES ASSUME NEW i \in 1..(sharedNext - 1)
               PROVE  \E v \in Checkers :
                        \/ i \in did[v]
                        \/ sharedPc'[v] = "check" /\ taken'[v] = i
                        \/ sharedPc'[v] \in {"take", "check", "done"} /\ ~Wants(v, i)'
    BY <1>2 DEF Passed
  <2>2. PICK v \in Checkers :
          \/ i \in did[v]
          \/ sharedPc[v] = "check" /\ taken[v] = i
          \/ sharedPc[v] \in {"take", "check", "done"} /\ ~Wants(v, i)
    BY <2>1 DEF Passed
  <2>3. v # w
    BY <1>2, <1>3, <2>2
  <2> QED
    BY <1>2, <1>4, <2>2, <2>3
<1>8. Counted(did)'
  <2>1. Counted(did)
    BY <1>1 DEF SharesBy
  <2> QED
    BY <1>2, <2>1 DEF Counted
<1>9. Heard(did)'
  <2>1. Heard(did)
    BY <1>1 DEF SharesBy
  <2> SUFFICES ASSUME NEW v \in Checkers, NEW a \in Nat
               PROVE  /\ (\A i \in did[v] : ~Says(v, i, a)') => At(own[v], a) = <<>>
                      /\ \A i \in did[v] : Says(v, i, a)' =>
                           At(own[v], a) = At(CheckNth(corpus'[v].theorems[i]), a)
    BY <1>2 DEF Heard
  <2>2. CASE v = w
    BY <1>3, <2>1, <2>2 DEF Heard
  <2>3. CASE v # w
    BY <1>2, <1>4, <2>1, <2>3 DEF Heard
  <2> QED
    BY <2>2, <2>3
<1> QED
  BY <1>5, <1>6, <1>7, <1>8, <1>9 DEF Shares, SharesBy

\* The index a worker takes is its own, or not one its reading asks for.
LEMMA SharesTake ==
  ASSUME SharedInv, Shares, NEW w \in Checkers, TakeShared(w) PROVE Shares'
<1>1. PICK did \in [Checkers -> SUBSET Nat] : SharesBy(did)
  BY DEF Shares
<1> DEFINE n == sharedNext
<1>2. /\ sharedPc[w] = "take" /\ UNCHANGED <<asked, corpus, own>>
      /\ sharedNext' = n + 1 /\ n \in Nat \ {0}
      /\ taken'[w] = n
      /\ \A v \in Checkers : v # w => sharedPc'[v] = sharedPc[v] /\ taken'[v] = taken[v]
  BY DEF TakeShared, TakeSharedBy, SharedInv, SharedTypeOK
<1>3. /\ sharedPc'[w] \in {"take", "done", "check"}
      /\ sharedPc'[w] = "check" <=> Wants(w, n)
  <2>1. corpus[w].theorems \in Seq(DOMAIN Own)
    BY SharedAssumption DEF SharedInv, SharedTypeOK
  <2>2. DOMAIN corpus[w].theorems = 1..Len(corpus[w].theorems)
    BY <2>1, LenProperties
  <2>3. sharedPc'[w] = IF n \notin DOMAIN corpus[w].theorems THEN "done"
                       ELSE IF corpus[w].theorems[n] \in Wanted THEN "check" ELSE "take"
    BY DEF TakeShared, TakeSharedBy, SharedInv, SharedTypeOK
  <2> QED
    BY <2>2, <2>3 DEF Wants, Asks
<1>4. \A v \in Checkers : \A i : (Wants(v, i)' <=> Wants(v, i)) /\ \A a : Says(v, i, a)' <=> Says(v, i, a)
  BY <1>2 DEF Wants, Says
<1>5. /\ \A i \in 1..(n - 1) : i \in 1..(sharedNext' - 1) /\ i # n
      /\ n \in 1..(sharedNext' - 1)
      /\ \A i \in 1..(sharedNext' - 1) : i \in 1..(n - 1) \/ i = n
  BY <1>2
<1>6. Parted(did)'
  <2>1. Parted(did)
    BY <1>1 DEF SharesBy
  <2> SUFFICES ASSUME NEW v \in Checkers
               PROVE  /\ \A i \in did[v] : i \in 1..(sharedNext' - 1) /\ Wants(v, i)'
                      /\ \A x \in Checkers : x # v => did[x] \cap did[v] = {}
                      /\ sharedPc'[v] \in {"read", "refused"} => did[v] = {}
    BY DEF Parted
  <2> QED
    BY <1>2, <1>3, <1>4, <1>5, <2>1 DEF Parted
<1>7. InHand(did)'
  <2>1. InHand(did) /\ Parted(did)
    BY <1>1 DEF SharesBy
  <2> SUFFICES ASSUME NEW v \in Checkers, sharedPc'[v] = "check"
               PROVE  /\ taken'[v] \in 1..(sharedNext' - 1) /\ Wants(v, taken[v])'
                      /\ \A x \in Checkers :
                           taken'[v] \notin did[x] /\ (x # v /\ sharedPc'[x] = "check" => taken'[x] # taken'[v])
    BY DEF InHand
  <2>2. \A x \in Checkers : n \notin did[x]
    BY <1>5, <2>1 DEF Parted
  <2>3. \A x \in Checkers : x # w /\ sharedPc'[x] = "check" => taken'[x] # n
    BY <1>2, <1>5, <2>1 DEF InHand
  <2>4. CASE v = w
    BY <1>2, <1>3, <1>4, <1>5, <2>2, <2>3, <2>4
  <2>5. CASE v # w
    <3>1. sharedPc[v] = "check" /\ taken'[v] = taken[v] /\ taken[v] # n
      BY <1>2, <2>3, <2>5
    <3>2. taken[v] \in 1..(n - 1) /\ Wants(v, taken[v]) /\ \A x \in Checkers : taken[v] \notin did[x]
      BY <2>1, <3>1 DEF InHand
    <3>3. \A x \in Checkers : x # v /\ sharedPc'[x] = "check" => taken'[x] # taken[v]
      BY <1>2, <2>1, <3>1 DEF InHand
    <3> QED
      BY <1>4, <1>5, <3>1, <3>2, <3>3
  <2> QED
    BY <2>4, <2>5
<1>8. Passed(did)'
  <2>1. Passed(did)
    BY <1>1 DEF SharesBy
  <2> DEFINE Good(i) == \E v \in Checkers :
                          \/ i \in did[v]
                          \/ sharedPc'[v] = "check" /\ taken'[v] = i
                          \/ sharedPc'[v] \in {"take", "check", "done"} /\ ~Wants(v, i)'
  <2> SUFFICES ASSUME NEW i \in 1..(sharedNext' - 1) PROVE Good(i)
    BY DEF Passed
  <2>2. CASE i = n
    BY <1>2, <1>3, <1>4, <2>2
  <2>3. CASE i \in 1..(n - 1)
    <3>1. PICK v \in Checkers :
            \/ i \in did[v]
            \/ sharedPc[v] = "check" /\ taken[v] = i
            \/ sharedPc[v] \in {"take", "check", "done"} /\ ~Wants(v, i)
      BY <2>1, <2>3 DEF Passed
    <3>2. CASE v = w
      BY <1>2, <1>3, <1>4, <3>1, <3>2
    <3>3. CASE v # w
      BY <1>2, <1>4, <3>1, <3>3
    <3> QED
      BY <3>2, <3>3
  <2> QED
    BY <1>5, <2>2, <2>3
<1>9. Counted(did)'
  <2>1. Counted(did) /\ Parted(did)
    BY <1>1 DEF SharesBy
  <2>2. {i \in 1..(n - 1) : \E v \in Checkers : i \in did[v]}
          = {i \in 1..(sharedNext' - 1) : \E v \in Checkers : i \in did[v]}
    BY <1>5, <2>1 DEF Parted
  <2> QED
    BY <1>2, <2>1, <2>2 DEF Counted
<1>10. Heard(did)'
  <2>1. Heard(did)
    BY <1>1 DEF SharesBy
  <2> QED
    BY <1>2, <1>4, <2>1 DEF Heard
<1> QED
  BY <1>6, <1>7, <1>8, <1>9, <1>10 DEF Shares, SharesBy

\* What a worker checks is checked once, and its problems are its own.
LEMMA SharesCheck ==
  ASSUME SharedInv, Shares, NEW w \in Checkers, CheckShared(w) PROVE Shares'
<1>1. PICK did \in [Checkers -> SUBSET Nat] : SharesBy(did)
  BY DEF Shares
<1> DEFINE n == taken[w]
<1> DEFINE more == CheckNth(corpus[w].theorems[n])
<1>2. /\ sharedPc[w] = "check" /\ UNCHANGED <<sharedNext, corpus, taken>> /\ asked' = asked + 1
      /\ sharedPc'[w] = "take" /\ own'[w] = own[w] \o more /\ n \in Nat
      /\ \A v \in Checkers : v # w => sharedPc'[v] = sharedPc[v] /\ own'[v] = own[v]
  BY DEF CheckShared, SharedInv, SharedTypeOK
<1>3. /\ Parted(did) /\ InHand(did) /\ Passed(did) /\ Counted(did) /\ Heard(did)
  BY <1>1 DEF SharesBy
<1>4. /\ n \in 1..(sharedNext - 1) /\ Wants(w, n)
      /\ \A v \in Checkers : n \notin did[v] /\ (v # w /\ sharedPc[v] = "check" => taken[v] # n)
  BY <1>2, <1>3 DEF InHand
<1>5. PICK now \in [Checkers -> SUBSET Nat] :
        now[w] = did[w] \cup {n} /\ \A v \in Checkers : v # w => now[v] = did[v]
  <2>1. [did EXCEPT ![w] = did[w] \cup {n}] \in [Checkers -> SUBSET Nat]
    BY <1>2
  <2> QED
    BY <2>1
<1>a. own[w] \in Seq(Problems) /\ more \in Seq(Problems)
  BY <1>2, CheckNthProblems DEF SharedInv, SharedTypeOK
<1>b. corpus[w] \in Corpora
  BY DEF SharedInv, SharedTypeOK
<1>6. \A v \in Checkers : \A i : (Wants(v, i)' <=> Wants(v, i)) /\ \A a : Says(v, i, a)' <=> Says(v, i, a)
  BY <1>2 DEF Wants, Says
<1>7. Parted(now)'
  <2> SUFFICES ASSUME NEW v \in Checkers
               PROVE  /\ \A i \in now[v] : i \in 1..(sharedNext - 1) /\ Wants(v, i)
                      /\ \A x \in Checkers : x # v => now[x] \cap now[v] = {}
                      /\ sharedPc'[v] \in {"read", "refused"} => now[v] = {}
    BY <1>2, <1>6 DEF Parted
  <2>1. \A i \in now[v] : i \in 1..(sharedNext - 1) /\ Wants(v, i)
    <3>1. \A i \in did[v] : i \in 1..(sharedNext - 1) /\ Wants(v, i)
      BY <1>3 DEF Parted
    <3> QED
      BY <1>4, <1>5, <3>1
  <2>2. \A x \in Checkers : x # v => now[x] \cap now[v] = {}
    <3>1. \A x \in Checkers : x # v => did[x] \cap did[v] = {}
      BY <1>3 DEF Parted
    <3> QED
      BY <1>4, <1>5, <3>1
  <2>3. sharedPc'[v] \in {"read", "refused"} => now[v] = {}
    BY <1>2, <1>3, <1>5 DEF Parted
  <2> QED
    BY <2>1, <2>2, <2>3
<1>8. InHand(now)'
  <2> SUFFICES ASSUME NEW v \in Checkers, sharedPc'[v] = "check"
               PROVE  /\ taken[v] \in 1..(sharedNext - 1) /\ Wants(v, taken[v])
                      /\ \A x \in Checkers :
                           taken[v] \notin now[x] /\ (x # v /\ sharedPc'[x] = "check" => taken[x] # taken[v])
    BY <1>2, <1>6 DEF InHand
  <2>1. v # w /\ sharedPc[v] = "check"
    BY <1>2
  <2>2. /\ taken[v] \in 1..(sharedNext - 1) /\ Wants(v, taken[v])
        /\ \A x \in Checkers :
             taken[v] \notin did[x] /\ (x # v /\ sharedPc[x] = "check" => taken[x] # taken[v])
    BY <1>3, <2>1 DEF InHand
  <2>3. taken[v] # n
    BY <1>4, <2>1
  <2>4. \A x \in Checkers : taken[v] \notin now[x]
    BY <1>5, <2>2, <2>3
  <2>5. \A x \in Checkers : x # v /\ sharedPc'[x] = "check" => taken[x] # taken[v]
    BY <1>2, <2>2
  <2> QED
    BY <2>2, <2>4, <2>5
<1>9. Passed(now)'
  <2> DEFINE Good(i) == \E v \in Checkers :
                          \/ i \in now[v]
                          \/ sharedPc'[v] = "check" /\ taken[v] = i
                          \/ sharedPc'[v] \in {"take", "check", "done"} /\ ~Wants(v, i)
  <2> SUFFICES ASSUME NEW i \in 1..(sharedNext - 1) PROVE Good(i)
    BY <1>2, <1>6 DEF Passed
  <2>1. PICK v \in Checkers :
          \/ i \in did[v]
          \/ sharedPc[v] = "check" /\ taken[v] = i
          \/ sharedPc[v] \in {"take", "check", "done"} /\ ~Wants(v, i)
    BY <1>3 DEF Passed
  <2>2. CASE v = w
    BY <1>2, <1>5, <2>1, <2>2
  <2>3. CASE v # w
    BY <1>2, <1>5, <2>1, <2>3
  <2> QED
    BY <2>2, <2>3
<1>10. Counted(now)'
  <2> DEFINE Before == {i \in 1..(sharedNext - 1) : \E v \in Checkers : i \in did[v]}
  <2> DEFINE After == {i \in 1..(sharedNext - 1) : \E v \in Checkers : i \in now[v]}
  <2>1. After = Before \cup {n}
    BY <1>4, <1>5
  <2>2. n \notin Before
    BY <1>4
  <2>3. IsFiniteSet(Before)
    <3>1. Before \subseteq 1..(sharedNext - 1) /\ sharedNext - 1 \in Int
      BY DEF SharedInv, SharedTypeOK
    <3>2. IsFiniteSet(1..(sharedNext - 1))
      BY <3>1, FS_Interval
    <3> HIDE DEF Before
    <3> QED
      BY <3>1, <3>2, FS_Subset
  <2>4. asked = Cardinality(Before)
    BY <1>3 DEF Counted
  <2> HIDE DEF Before, After
  <2>5. Cardinality(After) = Cardinality(Before) + 1
    BY <2>1, <2>2, <2>3, FS_AddElement
  <2>6. asked' = Cardinality(After)
    BY <1>2, <2>4, <2>5
  <2> QED
    BY <1>2, <2>6 DEF Counted, After
<1>11. Heard(now)'
  <2> SUFFICES ASSUME NEW v \in Checkers, NEW a \in Nat
               PROVE  /\ (\A i \in now[v] : ~Says(v, i, a)) => At(own'[v], a) = <<>>
                      /\ \A i \in now[v] : Says(v, i, a) =>
                           At(own'[v], a) = At(CheckNth(corpus[v].theorems[i]), a)
    BY <1>2, <1>6 DEF Heard
  <2>1. CASE v # w
    BY <1>2, <1>3, <1>5, <2>1 DEF Heard
  <2>2. CASE v = w
    <3>1. At(own'[w], a) = At(own[w], a) \o At(more, a)
      <4>1. \A x, y \in Seq(Problems) : At(x \o y, a) = At(x, a) \o At(y, a)
        BY SiftConcat, SMTT(30) DEF At
      <4> HIDE DEF more
      <4> QED
        BY <1>2, <1>a, <4>1
    <3>2. At(own[w], a) \in Seq(Problems) /\ At(more, a) \in Seq(Problems)
      <4> HIDE DEF more
      <4> QED
        BY <1>a, SiftIs DEF At
    <3>3. /\ (\A i \in did[w] : ~Says(w, i, a)) => At(own[w], a) = <<>>
          /\ \A i \in did[w] : Says(w, i, a) => At(own[w], a) = At(CheckNth(corpus[w].theorems[i]), a)
      BY <1>3 DEF Heard
    <3>4. Says(w, n, a) <=> At(more, a) # <<>>
      BY <1>4 DEF Says, Shows, Wants
    <3>5. /\ <<>> \o <<>> = <<>> /\ At(own[w], a) \o <<>> = At(own[w], a)
          /\ <<>> \o At(more, a) = At(more, a)
      <4> HIDE DEF more
      <4> QED
        BY <3>2, EmptySeq, ConcatEmptySeq
    <3>6. CASE Says(w, n, a)
      <4>1. \A i \in did[w] : ~Says(w, i, a)
        BY <1>4, <1>b, <3>6, OneShows DEF Says
      <4>2. At(own'[w], a) = At(more, a)
        BY <3>1, <3>3, <3>5, <4>1
      <4> QED
        BY <1>5, <2>2, <3>6, <4>1, <4>2
    <3>7. CASE ~Says(w, n, a)
      <4>1. At(own'[w], a) = At(own[w], a)
        BY <3>1, <3>4, <3>5, <3>7
      <4> QED
        BY <1>5, <2>2, <3>3, <3>7, <4>1
    <3> QED
      BY <3>6, <3>7
  <2> QED
    BY <2>1, <2>2
<1>12. SharesBy(now)'
  BY <1>7, <1>8, <1>9, <1>10, <1>11 DEF SharesBy
<1> QED
  BY <1>5, <1>12 DEF Shares

\* Every step keeps who checked what, and what was said.
LEMMA ScheduleStep ==
  ASSUME SharedInv, Shares, RefusedUnread, SaidIs, [NextShared]_sharedVars
  PROVE  Shares' /\ RefusedUnread' /\ SaidIs'
<1>1. ASSUME UNCHANGED <<sharedNext, asked, sharedPc, corpus, taken, own>> PROVE Shares' /\ RefusedUnread'
  <2>1. PICK did \in [Checkers -> SUBSET Nat] : SharesBy(did)
    BY DEF Shares
  <2>2. \A w \in Checkers : \A i : (Wants(w, i)' <=> Wants(w, i)) /\ \A a : Says(w, i, a)' <=> Says(w, i, a)
    BY <1>1 DEF Wants, Says
  <2>3. Parted(did)' /\ InHand(did)'
    BY <1>1, <2>1, <2>2 DEF SharesBy, Parted, InHand
  <2>4. Passed(did)' /\ Counted(did)'
    BY <1>1, <2>1, <2>2 DEF SharesBy, Passed, Counted
  <2>5. Heard(did)'
    BY <1>1, <2>1, <2>2 DEF SharesBy, Heard
  <2>6. Shares'
    BY <2>3, <2>4, <2>5 DEF Shares, SharesBy
  <2> QED
    BY <1>1, <2>6 DEF RefusedUnread
<1>2. ASSUME NEW w \in Checkers, StepShared(w) PROVE Shares' /\ RefusedUnread' /\ SaidIs'
  <2>1. Shares'
    BY <1>2, SharesRead, SharesTake, SharesCheck DEF StepShared
  <2>2. RefusedUnread'
    <3>1. CASE ReadShared(w)
      <4>1. sharedPc'[w] = "refused" => ~corpus'[w].reads
        BY <3>1 DEF ReadShared, SharedInv, SharedTypeOK
      <4>2. \A v \in Checkers : v # w => sharedPc'[v] = sharedPc[v] /\ corpus'[v] = corpus[v]
        BY <3>1 DEF ReadShared, SharedInv, SharedTypeOK
      <4> QED
        BY <4>1, <4>2 DEF RefusedUnread
    <3>2. CASE TakeShared(w) \/ CheckShared(w)
      <4>1. corpus' = corpus /\ \A v \in Checkers : sharedPc'[v] = "refused" => sharedPc[v] = "refused"
        BY <3>2 DEF TakeShared, TakeSharedBy, CheckShared, SharedInv, SharedTypeOK
      <4> QED
        BY <4>1 DEF RefusedUnread
    <3> QED
      BY <1>2, <3>1, <3>2 DEF StepShared
  <2>3. ~EndedShared(w) /\ UNCHANGED sharedOutcome
    BY <1>2 DEF StepShared, ReadShared, TakeShared, TakeSharedBy, CheckShared, EndedShared
  <2>4. SaidIs'
    BY <2>3 DEF SaidIs
  <2> QED
    BY <2>1, <2>2, <2>4
<1>3. CASE EditShared
  <2>1. UNCHANGED <<sharedNext, asked, sharedPc, corpus, taken, own, sharedOutcome>> /\ sharedOutcome = Unsaid
    BY <1>3 DEF EditShared
  <2> QED
    BY <1>1, <2>1 DEF SaidIs
<1>4. CASE JoinShared
  <2>1. /\ UNCHANGED <<sharedNext, asked, sharedPc, corpus, taken, own>>
        /\ \A w \in Checkers : EndedShared(w)
    BY <1>4 DEF JoinShared
  <2>2. (\A w \in Checkers : sharedPc[w] # "refused") => sharedOutcome' = Merged(Len(corpus[1].theorems))
    BY <1>4 DEF JoinShared
  <2>3. SaidIs'
    BY <1>4, <2>1, <2>2, JoinRefused DEF SaidIs, EndedShared, Merged, Gathered, Said
  <2> QED
    BY <1>1, <2>1, <2>3
<1>5. CASE UNCHANGED sharedVars
  <2>1. UNCHANGED <<sharedNext, asked, sharedPc, corpus, taken, own, sharedOutcome>>
    BY <1>5 DEF sharedVars
  <2>2. SaidIs'
    BY <2>1 DEF SaidIs, EndedShared, Merged, Gathered, Said
  <2> QED
    BY <1>1, <2>1, <2>2
<1> QED
  BY <1>2, <1>3, <1>4, <1>5 DEF NextShared

\* What the workers found of one reading, gathered, has at each place what one
\* worker alone finds there.
LEMMA GatheredAt ==
  ASSUME ScheduleInv, Agree, \A w \in Checkers : sharedPc[w] = "done"
  PROVE  /\ asked = Len(Asked(corpus[1].theorems))
         /\ Joined(own) \in Seq(Problems)
         /\ \A a \in Nat : At(Joined(own), a) = At(FoundOf(corpus[1].theorems), a)
<1> DEFINE ts == corpus[1].theorems
<1>1. PICK did \in [Checkers -> SUBSET Nat] : SharesBy(did)
  BY DEF ScheduleInv, Shares
<1>2. Parted(did) /\ Passed(did) /\ Counted(did) /\ Heard(did)
  BY <1>1 DEF SharesBy
<1>3. 1 \in Checkers /\ Checkers = 1..Threads /\ Threads \in Nat
  BY SharedAssumption DEF Checkers
<1>4. /\ corpus[1] \in Corpora /\ own \in [Checkers -> Seq(Problems)] /\ sharedNext \in Nat
      /\ taken[1] \in 1..(sharedNext - 1) /\ taken[1] \notin DOMAIN ts
  BY <1>3 DEF ScheduleInv, SharedInv, SharedTypeOK, TakesWhatItRead
<1>5. ts \in Seq(DOMAIN Own) /\ DOMAIN ts = 1..Len(ts) /\ Len(ts) \in Nat
  <2>1. ts \in Seq(DOMAIN Own)
    BY <1>4, SharedAssumption
  <2> QED
    BY <2>1, LenProperties
<1>6. Len(ts) < sharedNext
  BY <1>4, <1>5
<1>7. \A w \in Checkers : corpus[w].theorems = ts
  BY <1>3 DEF Agree
<1> HIDE DEF ts
<1>8. \A w \in Checkers : \A i : (Wants(w, i) <=> Asks(ts, i)) /\ \A a : Says(w, i, a) <=> Shows(ts, i, a)
  BY <1>7 DEF Wants, Says
<1>9. \A i \in Nat : Asks(ts, i) <=> i \in 1..(sharedNext - 1) /\ \E w \in Checkers : i \in did[w]
  <2> SUFFICES ASSUME NEW i \in Nat
               PROVE  Asks(ts, i) <=> i \in 1..(sharedNext - 1) /\ \E w \in Checkers : i \in did[w]
    OBVIOUS
  <2>1. ASSUME Asks(ts, i) PROVE i \in 1..(sharedNext - 1) /\ \E w \in Checkers : i \in did[w]
    <3>1. i \in 1..(sharedNext - 1)
      BY <1>4, <1>5, <1>6, <2>1 DEF Asks
    <3> QED
      BY <1>2, <1>8, <2>1, <3>1 DEF Passed
  <2>2. ASSUME NEW w \in Checkers, i \in did[w] PROVE Asks(ts, i)
    BY <1>2, <1>8, <2>2 DEF Parted
  <2> QED
    BY <2>1, <2>2
<1>10. asked = Len(Asked(ts))
  <2>1. {i \in 1..(sharedNext - 1) : \E w \in Checkers : i \in did[w]} = {i \in Nat : Asks(ts, i)}
    <3>1. 1..(sharedNext - 1) \subseteq Nat
      BY <1>4
    <3> QED
      BY <1>9, <3>1
  <2> QED
    BY <1>2, <1>5, <2>1, AskedCount DEF Counted
<1>11. own \in Seq(Seq(Problems)) /\ Len(own) = Threads
  BY <1>3, <1>4
<1>12. Joined(own) \in Seq(Problems)
  BY <1>11, JoinedIs
<1>13. ASSUME NEW a \in Nat PROVE At(Joined(own), a) = At(FoundOf(ts), a)
  <2> DEFINE V == {p \in Problems : p.at = a}
  <2>1. \A s : At(s, a) = Sift(s, V)
    BY DEF At
  <2> HIDE DEF V
  <2>2. \A w \in Checkers : (\A i \in did[w] : ~Shows(ts, i, a)) => At(own[w], a) = <<>>
    BY <1>2, <1>8 DEF Heard
  <2>3. \A w \in Checkers : \A i \in did[w] : Shows(ts, i, a) => At(own[w], a) = At(CheckNth(ts[i]), a)
    BY <1>2, <1>7, <1>8 DEF Heard
  <2>4. CASE \A i \in Nat : ~Shows(ts, i, a)
    <3>1. At(FoundOf(ts), a) = <<>>
      BY <1>5, <2>4, FoundAt
    <3>2. \A w \in 1..Len(own) : Sift(own[w], V) = <<>>
      BY <1>1, <1>3, <1>11, <2>1, <2>2, <2>4
    <3>3. Sift(Joined(own), V) = <<>>
      BY <1>11, <3>2, SiftJoinedNone
    <3> QED
      BY <2>1, <3>1, <3>3
  <2>5. CASE \E i \in Nat : Shows(ts, i, a)
    <3>1. PICK j \in Nat : Shows(ts, j, a)
      BY <2>5
    <3>2. \A i \in Nat : Shows(ts, i, a) => i = j
      BY <1>4, <3>1, OneShows DEF ts
    <3>3. At(FoundOf(ts), a) = At(CheckNth(ts[j]), a)
      BY <1>5, <3>1, <3>2, FoundAt
    <3>4. PICK w \in Checkers : j \in did[w]
      BY <1>9, <3>1 DEF Shows
    <3>5. At(own[w], a) = At(CheckNth(ts[j]), a)
      BY <2>3, <3>1, <3>4
    <3>6. \A v \in 1..Len(own) : v # w => Sift(own[v], V) = <<>>
      <4>1. \A v \in Checkers : v # w => j \notin did[v]
        BY <1>2, <3>4 DEF Parted
      <4>2. \A v \in Checkers : v # w => \A i \in did[v] : ~Shows(ts, i, a)
        BY <1>1, <3>2, <4>1
      <4> QED
        BY <1>3, <1>11, <2>1, <2>2, <4>2
    <3>7. w \in 1..Len(own)
      BY <1>3, <1>11
    <3>8. Sift(Joined(own), V) = Sift(own[w], V)
      BY <1>11, <3>6, <3>7, SiftJoinedOne
    <3> QED
      BY <2>1, <3>3, <3>5, <3>8
  <2> QED
    BY <2>4, <2>5
<1> QED
  BY <1>10, <1>12, <1>13 DEF ts

\* Lists that have the same at each place are both empty, or neither is.
LEMMA SameNothing ==
  ASSUME NEW s \in Seq(Problems), NEW t \in Seq(Problems), \A a \in Nat : At(s, a) = At(t, a), t = <<>>
  PROVE  s = <<>>
<1>1. \A a \in Nat : At(s, a) = <<>>
  BY SiftNone DEF At
<1> SUFFICES ASSUME s # <<>> PROVE FALSE
  OBVIOUS
<1>2. 1 \in 1..Len(s) /\ s[1] \in Problems
  BY EmptySeq, ElementOfSeq
<1>3. s[1].at \in Nat
  BY <1>2, SharedAssumption
<1>4. s[1] \notin {p \in Problems : p.at = s[1].at}
  BY <1>1, <1>2, <1>3, SiftNothing DEF At
<1> QED
  BY <1>2, <1>4

\* Of one reading, what the workers joined make is what one worker says: each
\* place has the problems of one theorem, in the order they were found.
LEMMA SaidAsOne == ASSUME ScheduleInv PROVE AsOneWorker
<1> SUFFICES ASSUME sharedOutcome # Unsaid, Agree PROVE sharedOutcome = OneWorker(corpus[1])
  BY DEF AsOneWorker
<1> DEFINE c == corpus[1]
<1>0. 1 \in Checkers /\ \A w \in Checkers : corpus[w] = c
  BY SharedAssumption DEF Checkers, Agree
<1>1. CASE \E w \in Checkers : sharedPc[w] = "refused"
  <2>1. PICK w \in Checkers : sharedPc[w] = "refused" /\ sharedOutcome = Refused(corpus[w])
    BY <1>1 DEF ScheduleInv, SaidIs
  <2>2. ~corpus[w].reads
    BY <2>1 DEF ScheduleInv, RefusedUnread
  <2>3. corpus[w] = c
    BY <1>0
  <2> QED
    BY <2>1, <2>2, <2>3 DEF OneWorker
<1>2. CASE \A w \in Checkers : sharedPc[w] # "refused"
  <2>1. \A w \in Checkers : sharedPc[w] = "done"
    BY <1>2 DEF ScheduleInv, SaidIs, EndedShared
  <2>2. sharedOutcome = Said(c.found \o Joined(own), Len(c.theorems), asked)
    BY <1>2 DEF ScheduleInv, SaidIs, Merged, Gathered
  <2>3. c.reads /\ c \in Corpora
    BY <1>0, <2>1 DEF ScheduleInv, SharedInv, SharedTypeOK, TakesWhatItRead
  <2>4. OneWorker(c) = Said(c.found \o FoundOf(c.theorems), Len(c.theorems), Len(Asked(c.theorems)))
    BY <2>3 DEF OneWorker, FoundOf, Finds, Asked
  <2>5. /\ asked = Len(Asked(c.theorems)) /\ Joined(own) \in Seq(Problems)
        /\ \A a \in Nat : At(Joined(own), a) = At(FoundOf(c.theorems), a)
    BY <2>1, GatheredAt
  <2>6. c.found \in Seq(Problems) /\ FoundOf(c.theorems) \in Seq(Problems)
    <3>1. c.theorems \in Seq(DOMAIN Own)
      BY <2>3, SharedAssumption
    <3> QED
      BY <2>3, <3>1, SharedAssumption, FoundAt
  <2> DEFINE g == c.found \o Joined(own)
  <2> DEFINE h == c.found \o FoundOf(c.theorems)
  <2>7. g \in Seq(Problems) /\ h \in Seq(Problems)
    BY <2>5, <2>6, ConcatProperties
  <2>8. \A a \in Nat : At(g, a) = At(h, a)
    <3>1. \A a \in Nat : At(g, a) = At(c.found, a) \o At(Joined(own), a)
      BY <2>5, <2>6, AtConcat
    <3>2. \A a \in Nat : At(h, a) = At(c.found, a) \o At(FoundOf(c.theorems), a)
      BY <2>6, AtConcat
    <3> QED
      BY <2>5, <3>1, <3>2
  <2> HIDE DEF g, h
  <2>9. Sorted(g) = Sorted(h) /\ (g = <<>> <=> h = <<>>)
    BY <2>7, <2>8, SortedSame, SameNothing
  <2>10. \A n, k : Summary(g, n, k) = Summary(h, n, k)
    BY <2>9 DEF Summary
  <2>11. \A n, k : Said(g, n, k) = Said(h, n, k)
    BY <2>10 DEF Said
  <2> QED
    BY <2>2, <2>4, <2>5, <2>11 DEF g, h
<1> QED
  BY <1>1, <1>2

(***************************************************************************)
(* Where the workers of `parley check` read one corpus, what is printed    *)
(* and the status are what one worker alone would print, however many      *)
(* threads there are and however they take the theorems (checked_shared,   *)
(* check_taken, summary).                                                  *)
(***************************************************************************)
THEOREM OneWorkerSaid == SpecShared => []AsOneWorker
<1>1. InitShared => ScheduleInv
  BY SharedInvInit, SharesInit DEF ScheduleInv
<1>2. ScheduleInv /\ [NextShared]_sharedVars => ScheduleInv'
  <2>1. SharedInv /\ [NextShared]_sharedVars => SharedInv'
    BY SharedTypeStep, TakesStep, MissedStep, SaidStep DEF SharedInv
  <2> QED
    BY <2>1, ScheduleStep DEF ScheduleInv
<1>3. ScheduleInv => AsOneWorker
  BY SaidAsOne
<1> QED
  BY <1>1, <1>2, <1>3, PTL DEF SpecShared
=============================================================================
