------------------------------ MODULE Induction ------------------------------
(***************************************************************************)
(* Induction over the natural numbers, stated of a set: the least element  *)
(* principle behind it comes from the library's theorem that the finite    *)
(* sets are well founded under strict inclusion.  Then over sequences, one *)
(* element more at a time, and what Sift and Joined make of them.          *)
(***************************************************************************)
EXTENDS Sifts, FiniteSetTheorems, SequenceTheorems, TLAPS

\* A set that holds 0, and with a number the next, holds every number.
LEMMA SetInduction ==
  ASSUME NEW T, 0 \in T, \A n \in Nat : n \in T => n + 1 \in T
  PROVE  \A n \in Nat : n \in T
<1> DEFINE B == Nat \ T
<1> DEFINE Downs == {0..n : n \in B}
<1>1. SUFFICES ASSUME B # {} PROVE FALSE
  OBVIOUS
<1>2. Downs \subseteq FiniteSubsetsOf(Nat)
  <2>1. \A n \in Nat : IsFiniteSet(0..n) /\ 0..n \in SUBSET Nat
    BY FS_Interval
  <2>2. QED
    BY <2>1 DEF FiniteSubsetsOf
<1>3. Downs # {}
  BY <1>1
<1>4. \E x \in Downs : \A y \in Downs : <<y, x>> \notin StrictSubsetOrdering(Nat)
  <2> HIDE DEF Downs
  <2>1. IsWellFoundedOn(StrictSubsetOrdering(Nat), FiniteSubsetsOf(Nat))
    BY FS_StrictSubsetOrderingWellFounded
  <2>2. QED
    BY <1>2, <1>3, <2>1, WFMin
<1>5. PICK m \in B : \A n \in B : <<0..n, 0..m>> \notin StrictSubsetOrdering(Nat)
  BY <1>4
<1>6. m # 0 /\ m - 1 \in Nat /\ m - 1 \in B
  BY <1>5
<1>7. <<0..(m - 1), 0..m>> \in StrictSubsetOrdering(Nat)
  <2>1. 0..(m - 1) \subseteq 0..m /\ m \in 0..m /\ m \notin 0..(m - 1)
    BY <1>6
  <2>2. 0..(m - 1) \in SUBSET Nat /\ 0..m \in SUBSET Nat
    BY <1>6
  <2>3. QED
    BY <2>1, <2>2 DEF StrictSubsetOrdering
<1>8. QED
  BY <1>5, <1>6, <1>7

\* The values a step makes of a base, up to n times over.
Iterates(S, base, step, n) ==
  CHOOSE g \in [0..n -> S] : g[0] = base /\ \A i \in 1..n : g[i] = step[g[i - 1]]

\* There are such values, for every step from a set to itself: a function
\* over 0..n may be defined by recursion.
LEMMA Recursion ==
  ASSUME NEW S, NEW base \in S, NEW step \in [S -> S], NEW N \in Nat
  PROVE  /\ Iterates(S, base, step, N) \in [0..N -> S]
         /\ Iterates(S, base, step, N)[0] = base
         /\ \A i \in 1..N :
              Iterates(S, base, step, N)[i] = step[Iterates(S, base, step, N)[i - 1]]
<1> DEFINE Upto(n, g) == g[0] = base /\ \A i \in 1..n : g[i] = step[g[i - 1]]
<1> DEFINE T == {n \in Nat : \E g \in [0..n -> S] : Upto(n, g)}
<1>1. 0 \in T
  <2>1. [i \in 0..0 |-> base] \in [0..0 -> S] /\ Upto(0, [i \in 0..0 |-> base])
    OBVIOUS
  <2> QED
    BY <2>1
<1>2. ASSUME NEW n \in Nat, n \in T PROVE n + 1 \in T
  <2>1. PICK g \in [0..n -> S] : Upto(n, g)
    BY <1>2
  <2> DEFINE h == [i \in 0..(n + 1) |-> IF i <= n THEN g[i] ELSE step[g[n]]]
  <2>2. h \in [0..(n + 1) -> S]
    OBVIOUS
  <2>3. h[n + 1] = step[g[n]] /\ \A i \in 0..n : h[i] = g[i]
    OBVIOUS
  <2> HIDE DEF h
  <2>4. ASSUME NEW i \in 1..(n + 1) PROVE h[i] = step[h[i - 1]]
    <3>1. i - 1 \in 0..n /\ h[i - 1] = g[i - 1]
      BY <2>3
    <3>2. CASE i \in 1..n
      <4>1. h[i] = g[i]
        BY <2>3, <3>2
      <4> QED
        BY <2>1, <3>1, <3>2, <4>1
    <3>3. CASE i = n + 1
      BY <2>3, <3>1, <3>3
    <3> QED
      BY <3>2, <3>3
  <2>5. Upto(n + 1, h)
    BY <2>1, <2>3, <2>4
  <2> QED
    BY <2>2, <2>5
<1>3. N \in T
  <2> HIDE DEF T
  <2> QED
    BY <1>1, <1>2, SetInduction
<1>4. \E g \in [0..N -> S] : Upto(N, g)
  BY <1>3
<1> QED
  BY <1>4, Zenon DEF Iterates

\* What a loop had at each index, up to n, if each index has a step of its own.
Carries(g, base, step, n) ==
  /\ g[0] = base
  /\ \A i \in 1..n : g[i] = step[i][g[i - 1]]

\* There is such a record of a loop, for every step from a set to itself: a
\* function over 0..n may be defined by recursion with the index in its step.
LEMMA RecursionAt ==
  ASSUME NEW S, NEW base \in S, NEW N0 \in Nat, NEW step \in [1..N0 -> [S -> S]]
  PROVE  \E g \in [0..N0 -> S] : Carries(g, base, step, N0)
<1> DEFINE Upto(n, g) == g[0] = base /\ \A i \in 1..n : g[i] = step[i][g[i - 1]]
<1> DEFINE T == {n \in Nat : n <= N0 => \E g \in [0..n -> S] : Upto(n, g)}
<1>1. 0 \in T
  <2>1. [i \in 0..0 |-> base] \in [0..0 -> S] /\ Upto(0, [i \in 0..0 |-> base])
    OBVIOUS
  <2> QED
    BY <2>1
<1>2. ASSUME NEW n \in Nat, n \in T PROVE n + 1 \in T
  <2> SUFFICES ASSUME n + 1 <= N0 PROVE \E g \in [0..(n + 1) -> S] : Upto(n + 1, g)
    OBVIOUS
  <2>1. PICK g \in [0..n -> S] : Upto(n, g)
    BY <1>2
  <2>2. n + 1 \in 1..N0 /\ g[n] \in S
    OBVIOUS
  <2>3. step[n + 1][g[n]] \in S
    BY <2>2
  <2> DEFINE h == [i \in 0..(n + 1) |-> IF i <= n THEN g[i] ELSE step[n + 1][g[n]]]
  <2>4. h \in [0..(n + 1) -> S]
    BY <2>3
  <2>5. h[n + 1] = step[n + 1][g[n]] /\ \A i \in 0..n : h[i] = g[i]
    OBVIOUS
  <2> HIDE DEF h
  <2>6. ASSUME NEW i \in 1..(n + 1) PROVE h[i] = step[i][h[i - 1]]
    <3>1. i - 1 \in 0..n /\ h[i - 1] = g[i - 1]
      BY <2>5
    <3>2. CASE i \in 1..n
      <4>1. h[i] = g[i]
        BY <2>5, <3>2
      <4> QED
        BY <2>1, <3>1, <3>2, <4>1
    <3>3. CASE i = n + 1
      BY <2>5, <3>1, <3>3
    <3> QED
      BY <3>2, <3>3
  <2>7. Upto(n + 1, h)
    BY <2>1, <2>5, <2>6
  <2> QED
    BY <2>4, <2>7
<1>3. N0 \in T
  <2> HIDE DEF T
  <2> QED
    BY <1>1, <1>2, SetInduction
<1> QED
  BY <1>3 DEF Carries

(***************************************************************************)
(* Sequences, one element more at a time                                   *)
(***************************************************************************)

\* A set that holds the empty sequence, and with a sequence every one that has
\* one element more, holds every sequence.
LEMMA SeqInduction ==
  ASSUME NEW S, NEW T, <<>> \in T, \A s \in Seq(S), x \in S : s \in T => Append(s, x) \in T
  PROVE  \A s \in Seq(S) : s \in T
<1> DEFINE N == {n \in Nat : \A s \in Seq(S) : Len(s) = n => s \in T}
<1>1. 0 \in N
  <2>1. \A s \in Seq(S) : Len(s) = 0 => s = <<>>
    BY EmptySeq
  <2> QED
    BY <2>1
<1>2. ASSUME NEW n \in Nat, n \in N PROVE n + 1 \in N
  <2> SUFFICES ASSUME NEW s \in Seq(S), Len(s) = n + 1 PROVE s \in T
    OBVIOUS
  <2>1. s # <<>>
    BY EmptySeq
  <2>2. PICK f \in Seq(S), x \in S : s = Append(f, x)
    BY <2>1, SequenceEmptyOrAppend
  <2>3. Len(f) = n
    <3>1. Len(s) = Len(f) + 1 /\ Len(f) \in Nat
      BY <2>2, AppendProperties, LenProperties
    <3> QED
      BY <3>1
  <2>4. f \in T
    BY <1>2, <2>3
  <2> QED
    BY <2>2, <2>4
<1>3. \A n \in Nat : n \in N
  <2> HIDE DEF N
  <2> QED
    BY <1>1, <1>2, SetInduction
<1> QED
  BY <1>3, LenProperties

\* Kept, in Sift, is what its recursion says.
SiftKept(g, s, kept) ==
  /\ g[0] = <<>>
  /\ \A k \in 1..Len(s) : g[k] = IF s[k] \in kept THEN Append(g[k - 1], s[k]) ELSE g[k - 1]

\* Sift is the last value its recursion makes.
LEMMA SiftRuns ==
  ASSUME NEW S, NEW s \in Seq(S), NEW kept
  PROVE  \E g \in [0..Len(s) -> Seq(S)] : SiftKept(g, s, kept) /\ Sift(s, kept) = g[Len(s)]
<1> DEFINE Body(f, k) ==
      IF k = 0 THEN <<>> ELSE IF s[k] \in kept THEN Append(f[k - 1], s[k]) ELSE f[k - 1]
<1> DEFINE Kept == CHOOSE f : f = [k \in 0..Len(s) |-> Body(f, k)]
<1> DEFINE N == Len(s)
<1> DEFINE SS == Seq(S)
<1>1. N \in Nat /\ Sift(s, kept) = Kept[N]
  BY LenProperties DEF Sift
<1> DEFINE step == [k \in 1..N |-> [t \in SS |-> IF s[k] \in kept THEN Append(t, s[k]) ELSE t]]
<1>2. step \in [1..N -> [SS -> SS]]
  <2>1. \A k \in 1..N : s[k] \in S
    BY ElementOfSeq
  <2>2. \A k \in 1..N, t \in SS : Append(t, s[k]) \in SS
    BY <2>1, AppendProperties
  <2> QED
    BY <2>2
<1>3. PICK g \in [0..N -> SS] : Carries(g, <<>>, step, N)
  <2>1. <<>> \in SS
    BY EmptySeq
  <2> HIDE DEF step, SS, N
  <2> QED
    BY <1>1, <1>2, <2>1, RecursionAt
<1>4. SiftKept(g, s, kept)
  <2>1. ASSUME NEW k \in 1..N
        PROVE  g[k] = IF s[k] \in kept THEN Append(g[k - 1], s[k]) ELSE g[k - 1]
    <3>1. k - 1 \in 0..N
      BY <1>1
    <3>2. g[k - 1] \in SS
      BY <3>1
    <3>3. g[k] = step[k][g[k - 1]]
      BY <1>3 DEF Carries
    <3> QED
      BY <3>2, <3>3
  <2> QED
    BY <1>3, <2>1 DEF SiftKept, Carries
<1>5. g = [k \in 0..N |-> Body(g, k)]
  <2>1. ASSUME NEW k \in 0..N PROVE g[k] = Body(g, k)
    <3>1. k = 0 \/ k \in 1..N
      BY <1>1
    <3> QED
      BY <1>4, <3>1 DEF SiftKept
  <2> HIDE DEF Body
  <2> QED
    BY <2>1
<1>6. Kept = [k \in 0..N |-> Body(Kept, k)]
  <2> HIDE DEF Body
  <2> QED
    BY <1>5
<1>7. Kept \in [0..N -> SS] /\ SiftKept(Kept, s, kept)
  <2> HIDE DEF Kept
  <2>0. DOMAIN Kept = 0..N /\ \A k \in 0..N : Kept[k] = Body(Kept, k)
    <3> HIDE DEF Body
    <3> QED
      BY <1>6
  <2>1. SiftKept(Kept, s, kept)
    <3>1. \A k \in 1..N : k \in 0..N /\ k # 0
      BY <1>1
    <3>2. 0 \in 0..N
      BY <1>1
    <3> QED
      BY <2>0, <3>1, <3>2 DEF SiftKept
  <2> DEFINE T == {n \in Nat : n <= N => Kept[n] \in SS}
  <2>2. 0 \in T
    BY <2>1, EmptySeq DEF SiftKept
  <2>3. ASSUME NEW n \in Nat, n \in T PROVE n + 1 \in T
    <3> SUFFICES ASSUME n + 1 <= N PROVE Kept[n + 1] \in SS
      OBVIOUS
    <3>1. n + 1 \in 1..N /\ (n + 1) - 1 = n /\ Kept[n] \in SS
      BY <1>1, <2>3
    <3>2. s[n + 1] \in S
      BY <3>1, ElementOfSeq
    <3>3. Append(Kept[n], s[n + 1]) \in SS
      BY <3>1, <3>2, AppendProperties
    <3> QED
      BY <2>1, <3>1, <3>3 DEF SiftKept
  <2>4. \A n \in Nat : n \in T
    <3> HIDE DEF T
    <3> QED
      BY <2>2, <2>3, SetInduction
  <2>5. \A n \in 0..N : Kept[n] \in SS
    BY <1>1, <2>4
  <2>6. Kept = [k \in 0..N |-> Kept[k]]
    <3> HIDE DEF Body
    <3> QED
      BY <1>6
  <2> QED
    BY <2>1, <2>5, <2>6
<1> HIDE DEF Kept
<1> QED
  BY <1>1, <1>7

\* What is kept of a sequence is a sequence of its elements.
LEMMA SiftIs ==
  ASSUME NEW S, NEW s \in Seq(S), NEW kept
  PROVE  Sift(s, kept) \in Seq(S)
<1>1. PICK g \in [0..Len(s) -> Seq(S)] : SiftKept(g, s, kept) /\ Sift(s, kept) = g[Len(s)]
  BY SiftRuns
<1>2. Len(s) \in Nat
  BY LenProperties
<1> QED
  BY <1>1, <1>2

\* Of nothing nothing is kept.
LEMMA SiftNone ==
  ASSUME NEW kept
  PROVE  Sift(<<>>, kept) = <<>>
<1>1. <<>> \in Seq({}) /\ Len(<<>>) = 0
  BY EmptySeq
<1>2. PICK g \in [0..Len(<<>>) -> Seq({})] : SiftKept(g, <<>>, kept) /\ Sift(<<>>, kept) = g[Len(<<>>)]
  BY <1>1, SiftRuns
<1> QED
  BY <1>1, <1>2 DEF SiftKept

\* Of a sequence with an element more, the element is kept where it is in the
\* set.
LEMMA SiftAppend ==
  ASSUME NEW S, NEW s \in Seq(S), NEW x \in S, NEW kept
  PROVE  Sift(Append(s, x), kept) = IF x \in kept THEN Append(Sift(s, kept), x) ELSE Sift(s, kept)
<1> DEFINE t == Append(s, x)
<1> DEFINE N == Len(s)
<1>1. t \in Seq(S) /\ N \in Nat /\ Len(t) = N + 1 /\ t[N + 1] = x
      /\ \A k \in 1..N : t[k] = s[k]
  BY AppendProperties, LenProperties
<1>2. PICK g \in [0..N -> Seq(S)] : SiftKept(g, s, kept) /\ Sift(s, kept) = g[N]
  BY SiftRuns
<1>3. PICK h \in [0..Len(t) -> Seq(S)] : SiftKept(h, t, kept) /\ Sift(t, kept) = h[Len(t)]
  BY <1>1, SiftRuns
<1> HIDE DEF t, N
<1> DEFINE T == {n \in Nat : n <= N => g[n] = h[n]}
<1>4. 0 \in T
  BY <1>2, <1>3 DEF SiftKept
<1>5. ASSUME NEW n \in Nat, n \in T PROVE n + 1 \in T
  <2> SUFFICES ASSUME n + 1 <= N PROVE g[n + 1] = h[n + 1]
    OBVIOUS
  <2>1. n + 1 \in 1..N /\ n + 1 \in 1..(N + 1) /\ (n + 1) - 1 = n /\ g[n] = h[n]
    BY <1>1, <1>5
  <2>2. t[n + 1] = s[n + 1]
    BY <1>1, <2>1
  <2>3. g[n + 1] = IF s[n + 1] \in kept THEN Append(g[n], s[n + 1]) ELSE g[n]
    BY <1>2, <2>1 DEF SiftKept, N
  <2>4. h[n + 1] = IF t[n + 1] \in kept THEN Append(h[n], t[n + 1]) ELSE h[n]
    BY <1>1, <1>3, <2>1 DEF SiftKept
  <2> QED
    BY <2>1, <2>2, <2>3, <2>4
<1>6. g[N] = h[N]
  <2>1. N \in T
    <3> HIDE DEF T
    <3> QED
      BY <1>1, <1>4, <1>5, SetInduction
  <2> QED
    BY <1>1, <2>1
<1>7. N + 1 \in 1..Len(t) /\ (N + 1) - 1 = N
  BY <1>1
<1>8. h[N + 1] = IF t[N + 1] \in kept THEN Append(h[N], t[N + 1]) ELSE h[N]
  BY <1>3, <1>7 DEF SiftKept
<1>9. h[N + 1] = IF x \in kept THEN Append(g[N], x) ELSE g[N]
  BY <1>1, <1>6, <1>8
<1>10. Sift(t, kept) = h[N + 1]
  BY <1>1, <1>3
<1> QED
  BY <1>2, <1>9, <1>10 DEF t

\* An element added to the second of two sequences is added to both together.
LEMMA ConcatAppend ==
  ASSUME NEW S, NEW s \in Seq(S), NEW t \in Seq(S), NEW x \in S
  PROVE  /\ s \o Append(t, x) = Append(s \o t, x)
         /\ s \o t \in Seq(S) /\ Append(t, x) \in Seq(S)
<1>1. <<x>> \in Seq(S) /\ s \o t \in Seq(S) /\ Append(t, x) \in Seq(S)
  BY ConcatProperties, AppendProperties
<1>2. Append(t, x) = t \o <<x>> /\ Append(s \o t, x) = (s \o t) \o <<x>>
  BY <1>1, AppendIsConcat
<1>3. (s \o t) \o <<x>> = s \o (t \o <<x>>)
  BY <1>1, ConcatAssociative
<1> QED
  BY <1>1, <1>2, <1>3

\* What is kept of two sequences put together is what is kept of each.
LEMMA SiftConcat ==
  ASSUME NEW S, NEW s \in Seq(S), NEW t \in Seq(S), NEW kept
  PROVE  Sift(s \o t, kept) = Sift(s, kept) \o Sift(t, kept)
<1> DEFINE T == {u \in Seq(S) : Sift(s \o u, kept) = Sift(s, kept) \o Sift(u, kept)}
<1>1. <<>> \in T
  <2>1. <<>> \in Seq(S) /\ s \o <<>> = s /\ Sift(<<>>, kept) = <<>>
    BY EmptySeq, ConcatEmptySeq, SiftNone
  <2>2. Sift(s, kept) \o <<>> = Sift(s, kept)
    BY SiftIs, ConcatEmptySeq
  <2> QED
    BY <2>1, <2>2
<1>2. ASSUME NEW u \in Seq(S), NEW x \in S, u \in T PROVE Append(u, x) \in T
  <2>1. s \o Append(u, x) = Append(s \o u, x) /\ s \o u \in Seq(S) /\ Append(u, x) \in Seq(S)
    BY ConcatAppend
  <2>2. Sift(s \o Append(u, x), kept)
          = IF x \in kept THEN Append(Sift(s \o u, kept), x) ELSE Sift(s \o u, kept)
    BY <2>1, SiftAppend
  <2>3. Sift(Append(u, x), kept) = IF x \in kept THEN Append(Sift(u, kept), x) ELSE Sift(u, kept)
    BY SiftAppend
  <2>4. Sift(s, kept) \in Seq(S) /\ Sift(u, kept) \in Seq(S)
    BY SiftIs
  <2>5. Sift(s, kept) \o Append(Sift(u, kept), x) = Append(Sift(s, kept) \o Sift(u, kept), x)
    BY <2>4, ConcatAppend
  <2> QED
    BY <1>2, <2>1, <2>2, <2>3, <2>5
<1>3. \A u \in Seq(S) : u \in T
  <2> HIDE DEF T
  <2> QED
    BY <1>1, <1>2, SeqInduction
<1> QED
  BY <1>3

\* What is kept of what was kept is what is in both.
LEMMA SiftTwice ==
  ASSUME NEW S, NEW s \in Seq(S), NEW kept, NEW also
  PROVE  Sift(Sift(s, kept), also) = Sift(s, kept \cap also)
<1> DEFINE T == {u \in Seq(S) : Sift(Sift(u, kept), also) = Sift(u, kept \cap also)}
<1>1. <<>> \in T
  BY EmptySeq, SiftNone
<1>2. ASSUME NEW u \in Seq(S), NEW x \in S, u \in T PROVE Append(u, x) \in T
  <2>1. Append(u, x) \in Seq(S) /\ Sift(u, kept) \in Seq(S)
    BY SiftIs, AppendProperties
  <2>2. Sift(Append(u, x), kept) = IF x \in kept THEN Append(Sift(u, kept), x) ELSE Sift(u, kept)
    BY SiftAppend
  <2>3. Sift(Append(u, x), kept \cap also)
          = IF x \in kept \cap also THEN Append(Sift(u, kept \cap also), x) ELSE Sift(u, kept \cap also)
    BY SiftAppend
  <2>4. Sift(Append(Sift(u, kept), x), also)
          = IF x \in also THEN Append(Sift(Sift(u, kept), also), x) ELSE Sift(Sift(u, kept), also)
    BY <2>1, SiftAppend
  <2>5. CASE x \in kept
    <3>1. Sift(Sift(Append(u, x), kept), also) = Sift(Append(Sift(u, kept), x), also)
      BY <2>2, <2>5
    <3>2. Sift(Sift(u, kept), also) = Sift(u, kept \cap also)
      BY <1>2
    <3>3. x \in kept \cap also <=> x \in also
      BY <2>5
    <3>4. Sift(Append(Sift(u, kept), x), also) = Sift(Append(u, x), kept \cap also)
      BY <2>3, <2>4, <3>2, <3>3, Zenon
    <3> QED
      BY <2>1, <3>1, <3>4
  <2>6. CASE x \notin kept
    BY <1>2, <2>1, <2>2, <2>3, <2>6
  <2> QED
    BY <2>5, <2>6
<1>3. \A u \in Seq(S) : u \in T
  <2> HIDE DEF T
  <2> QED
    BY <1>1, <1>2, SeqInduction
<1> QED
  BY <1>3

\* Two sets that hold the same elements of S keep the same of a sequence of them.
LEMMA SiftSame ==
  ASSUME NEW S, NEW s \in Seq(S), NEW kept, NEW also, kept \cap S = also \cap S
  PROVE  Sift(s, kept) = Sift(s, also)
<1> DEFINE T == {u \in Seq(S) : Sift(u, kept) = Sift(u, also)}
<1>1. <<>> \in T
  BY EmptySeq, SiftNone
<1>2. ASSUME NEW u \in Seq(S), NEW x \in S, u \in T PROVE Append(u, x) \in T
  <2>1. Append(u, x) \in Seq(S)
    BY AppendProperties
  <2>2. Sift(Append(u, x), kept) = IF x \in kept THEN Append(Sift(u, kept), x) ELSE Sift(u, kept)
    BY SiftAppend
  <2>3. Sift(Append(u, x), also) = IF x \in also THEN Append(Sift(u, also), x) ELSE Sift(u, also)
    BY SiftAppend
  <2> QED
    BY <1>2, <2>1, <2>2, <2>3
<1>3. \A u \in Seq(S) : u \in T
  <2> HIDE DEF T
  <2> QED
    BY <1>1, <1>2, SeqInduction
<1> QED
  BY <1>3

\* Where every element is in the set, the sequence is kept.
LEMMA SiftAll ==
  ASSUME NEW S, NEW s \in Seq(S), NEW kept, S \subseteq kept
  PROVE  Sift(s, kept) = s
<1> DEFINE T == {u \in Seq(S) : Sift(u, kept) = u}
<1>1. <<>> \in T
  BY EmptySeq, SiftNone
<1>2. ASSUME NEW u \in Seq(S), NEW x \in S, u \in T PROVE Append(u, x) \in T
  BY <1>2, SiftAppend, AppendProperties
<1>3. \A u \in Seq(S) : u \in T
  <2> HIDE DEF T
  <2> QED
    BY <1>1, <1>2, SeqInduction
<1> QED
  BY <1>3

\* Where no element is in the set, nothing is kept.
LEMMA SiftEmpty ==
  ASSUME NEW S, NEW s \in Seq(S), NEW kept, S \cap kept = {}
  PROVE  Sift(s, kept) = <<>>
<1> DEFINE T == {u \in Seq(S) : Sift(u, kept) = <<>>}
<1>1. <<>> \in T
  BY EmptySeq, SiftNone
<1>2. ASSUME NEW u \in Seq(S), NEW x \in S, u \in T PROVE Append(u, x) \in T
  BY <1>2, SiftAppend, AppendProperties
<1>3. \A u \in Seq(S) : u \in T
  <2> HIDE DEF T
  <2> QED
    BY <1>1, <1>2, SeqInduction
<1> QED
  BY <1>3

\* What is kept is in the set.
LEMMA SiftWithin ==
  ASSUME NEW S, NEW s \in Seq(S), NEW kept
  PROVE  Sift(s, kept) \in Seq(S \cap kept)
<1> DEFINE T == {u \in Seq(S) : Sift(u, kept) \in Seq(S \cap kept)}
<1>1. <<>> \in T
  BY EmptySeq, SiftNone
<1>2. ASSUME NEW u \in Seq(S), NEW x \in S, u \in T PROVE Append(u, x) \in T
  <2>1. Append(u, x) \in Seq(S)
    BY AppendProperties
  <2>2. Sift(Append(u, x), kept) = IF x \in kept THEN Append(Sift(u, kept), x) ELSE Sift(u, kept)
    BY SiftAppend
  <2>3. x \in kept => Append(Sift(u, kept), x) \in Seq(S \cap kept)
    BY <1>2, AppendProperties
  <2> QED
    BY <1>2, <2>1, <2>2, <2>3
<1>3. \A u \in Seq(S) : u \in T
  <2> HIDE DEF T
  <2> QED
    BY <1>1, <1>2, SeqInduction
<1> QED
  BY <1>3

\* Nothing is kept only where no element is in the set.
LEMMA SiftNothing ==
  ASSUME NEW S, NEW s \in Seq(S), NEW kept, Sift(s, kept) = <<>>
  PROVE  \A i \in 1..Len(s) : s[i] \notin kept
<1> DEFINE T == {u \in Seq(S) : Sift(u, kept) = <<>> => \A i \in 1..Len(u) : u[i] \notin kept}
<1>1. <<>> \in T
  BY EmptySeq
<1>2. ASSUME NEW u \in Seq(S), NEW x \in S, u \in T PROVE Append(u, x) \in T
  <2>1. /\ Append(u, x) \in Seq(S) /\ Len(Append(u, x)) = Len(u) + 1 /\ Len(u) \in Nat
        /\ \A i \in 1..Len(u) : Append(u, x)[i] = u[i]
        /\ Append(u, x)[Len(u) + 1] = x
    BY AppendProperties, LenProperties
  <2>2. Sift(Append(u, x), kept) = IF x \in kept THEN Append(Sift(u, kept), x) ELSE Sift(u, kept)
    BY SiftAppend
  <2>3. Append(Sift(u, kept), x) # <<>>
    <3>1. Sift(u, kept) \in Seq(S)
      BY SiftIs
    <3> DEFINE v == Sift(u, kept)
    <3> HIDE DEF v
    <3>2. v \in Seq(S)
      BY <3>1 DEF v
    <3>3. Append(v, x) # <<>>
      BY <3>2, AppendProperties
    <3> QED
      BY <3>3 DEF v
  <2>4. ASSUME Sift(Append(u, x), kept) = <<>>, NEW i \in 1..(Len(u) + 1) PROVE Append(u, x)[i] \notin kept
    <3>1. x \notin kept /\ Sift(u, kept) = <<>>
      BY <2>2, <2>3, <2>4
    <3>2. i = Len(u) + 1 \/ i \in 1..Len(u)
      BY <2>1
    <3>3. CASE i = Len(u) + 1
      BY <2>1, <3>1, <3>3
    <3>4. CASE i \in 1..Len(u)
      BY <1>2, <2>1, <3>1, <3>4
    <3> QED
      BY <3>2, <3>3, <3>4
  <2> QED
    BY <2>1, <2>4
<1>3. \A u \in Seq(S) : u \in T
  <2> HIDE DEF T
  <2> QED
    BY <1>1, <1>2, SeqInduction
<1> QED
  BY <1>3

\* All, in Joined, is what its recursion says.
JoinedAll(g, s) ==
  /\ g[0] = <<>>
  /\ \A k \in 1..Len(s) : g[k] = g[k - 1] \o s[k]

\* Joined is the last value its recursion makes.
LEMMA JoinedRuns ==
  ASSUME NEW S, NEW s \in Seq(Seq(S))
  PROVE  \E g \in [0..Len(s) -> Seq(S)] : JoinedAll(g, s) /\ Joined(s) = g[Len(s)]
<1> DEFINE Body(f, k) ==
      IF k = 0 THEN <<>> ELSE f[k - 1] \o s[k]
<1> DEFINE All == CHOOSE f : f = [k \in 0..Len(s) |-> Body(f, k)]
<1> DEFINE N == Len(s)
<1> DEFINE SS == Seq(S)
<1>1. N \in Nat /\ Joined(s) = All[N]
  BY LenProperties DEF Joined
<1> DEFINE step == [k \in 1..N |-> [t \in SS |-> t \o s[k]]]
<1>2. step \in [1..N -> [SS -> SS]]
  <2>1. \A k \in 1..N : s[k] \in SS
    BY ElementOfSeq
  <2>2. \A k \in 1..N, t \in SS : t \o s[k] \in SS
    BY <2>1, ConcatProperties
  <2> QED
    BY <2>2
<1>3. PICK g \in [0..N -> SS] : Carries(g, <<>>, step, N)
  <2>1. <<>> \in SS
    BY EmptySeq
  <2> HIDE DEF step, SS, N
  <2> QED
    BY <1>1, <1>2, <2>1, RecursionAt
<1>4. JoinedAll(g, s)
  <2>1. ASSUME NEW k \in 1..N
        PROVE  g[k] = g[k - 1] \o s[k]
    <3>1. k - 1 \in 0..N
      BY <1>1
    <3>2. g[k - 1] \in SS
      BY <3>1
    <3>3. g[k] = step[k][g[k - 1]]
      BY <1>3 DEF Carries
    <3> QED
      BY <3>2, <3>3
  <2> QED
    BY <1>3, <2>1 DEF JoinedAll, Carries
<1>5. g = [k \in 0..N |-> Body(g, k)]
  <2>1. ASSUME NEW k \in 0..N PROVE g[k] = Body(g, k)
    <3>1. k = 0 \/ k \in 1..N
      BY <1>1
    <3> QED
      BY <1>4, <3>1 DEF JoinedAll
  <2> HIDE DEF Body
  <2> QED
    BY <2>1
<1>6. All = [k \in 0..N |-> Body(All, k)]
  <2> HIDE DEF Body
  <2> QED
    BY <1>5
<1>7. All \in [0..N -> SS] /\ JoinedAll(All, s)
  <2> HIDE DEF All
  <2>0. DOMAIN All = 0..N /\ \A k \in 0..N : All[k] = Body(All, k)
    <3> HIDE DEF Body
    <3> QED
      BY <1>6
  <2>1. JoinedAll(All, s)
    <3>1. \A k \in 1..N : k \in 0..N /\ k # 0
      BY <1>1
    <3>2. 0 \in 0..N
      BY <1>1
    <3> QED
      BY <2>0, <3>1, <3>2 DEF JoinedAll
  <2> DEFINE T == {n \in Nat : n <= N => All[n] \in SS}
  <2>2. 0 \in T
    BY <2>1, EmptySeq DEF JoinedAll
  <2>3. ASSUME NEW n \in Nat, n \in T PROVE n + 1 \in T
    <3> SUFFICES ASSUME n + 1 <= N PROVE All[n + 1] \in SS
      OBVIOUS
    <3>1. n + 1 \in 1..N /\ (n + 1) - 1 = n /\ All[n] \in SS
      BY <1>1, <2>3
    <3>2. s[n + 1] \in SS
      BY <3>1, ElementOfSeq
    <3>3. All[n] \o s[n + 1] \in SS
      BY <3>1, <3>2, ConcatProperties
    <3> QED
      BY <2>1, <3>1, <3>3 DEF JoinedAll
  <2>4. \A n \in Nat : n \in T
    <3> HIDE DEF T
    <3> QED
      BY <2>2, <2>3, SetInduction
  <2>5. \A n \in 0..N : All[n] \in SS
    BY <1>1, <2>4
  <2>6. All = [k \in 0..N |-> All[k]]
    <3> HIDE DEF Body
    <3> QED
      BY <1>6
  <2> QED
    BY <2>1, <2>5, <2>6
<1> HIDE DEF All
<1> QED
  BY <1>1, <1>7

\* Sequences put one after another are a sequence.
LEMMA JoinedIs ==
  ASSUME NEW S, NEW s \in Seq(Seq(S))
  PROVE  Joined(s) \in Seq(S)
<1>1. PICK g \in [0..Len(s) -> Seq(S)] : JoinedAll(g, s) /\ Joined(s) = g[Len(s)]
  BY JoinedRuns
<1>2. Len(s) \in Nat
  BY LenProperties
<1> QED
  BY <1>1, <1>2

\* No sequences make nothing.
LEMMA JoinedNone == Joined(<<>>) = <<>>
<1>1. <<>> \in Seq(Seq({})) /\ Len(<<>>) = 0
  BY EmptySeq
<1>2. PICK g \in [0..Len(<<>>) -> Seq({})] : JoinedAll(g, <<>>) /\ Joined(<<>>) = g[Len(<<>>)]
  BY <1>1, JoinedRuns
<1> QED
  BY <1>1, <1>2 DEF JoinedAll

\* A sequence more is put after what the others make.
LEMMA JoinedAppend ==
  ASSUME NEW S, NEW s \in Seq(Seq(S)), NEW x \in Seq(S)
  PROVE  Joined(Append(s, x)) = Joined(s) \o x
<1> DEFINE t == Append(s, x)
<1> DEFINE N == Len(s)
<1>1. t \in Seq(Seq(S)) /\ N \in Nat /\ Len(t) = N + 1 /\ t[N + 1] = x
      /\ \A k \in 1..N : t[k] = s[k]
  BY AppendProperties, LenProperties
<1>2. PICK g \in [0..N -> Seq(S)] : JoinedAll(g, s) /\ Joined(s) = g[N]
  BY JoinedRuns
<1>3. PICK h \in [0..Len(t) -> Seq(S)] : JoinedAll(h, t) /\ Joined(t) = h[Len(t)]
  BY <1>1, JoinedRuns
<1> HIDE DEF t, N
<1> DEFINE T == {n \in Nat : n <= N => g[n] = h[n]}
<1>4. 0 \in T
  BY <1>2, <1>3 DEF JoinedAll
<1>5. ASSUME NEW n \in Nat, n \in T PROVE n + 1 \in T
  <2> SUFFICES ASSUME n + 1 <= N PROVE g[n + 1] = h[n + 1]
    OBVIOUS
  <2>1. n + 1 \in 1..N /\ n + 1 \in 1..(N + 1) /\ (n + 1) - 1 = n /\ g[n] = h[n]
    BY <1>1, <1>5
  <2>2. t[n + 1] = s[n + 1]
    BY <1>1, <2>1
  <2>3. g[n + 1] = g[n] \o s[n + 1]
    BY <1>2, <2>1 DEF JoinedAll, N
  <2>4. h[n + 1] = h[n] \o t[n + 1]
    BY <1>1, <1>3, <2>1 DEF JoinedAll
  <2> QED
    BY <2>1, <2>2, <2>3, <2>4
<1>6. g[N] = h[N]
  <2>1. N \in T
    <3> HIDE DEF T
    <3> QED
      BY <1>1, <1>4, <1>5, SetInduction
  <2> QED
    BY <1>1, <2>1
<1>7. N + 1 \in 1..Len(t) /\ (N + 1) - 1 = N
  <2>1. N \in Nat /\ Len(t) = N + 1
    BY <1>1
  <2> QED
    BY <2>1
<1>8. h[N + 1] = h[N] \o t[N + 1]
  BY <1>3, <1>7 DEF JoinedAll
<1>9. h[N + 1] = g[N] \o x
  BY <1>1, <1>6, <1>8
<1>10. Joined(t) = h[N + 1]
  BY <1>1, <1>3
<1> QED
  BY <1>2, <1>9, <1>10 DEF t

\* What is kept of sequences put one after another is nothing where none of
\* each is kept.
LEMMA SiftJoinedNone ==
  ASSUME NEW S, NEW parts \in Seq(Seq(S)), NEW kept,
         \A i \in 1..Len(parts) : Sift(parts[i], kept) = <<>>
  PROVE  Sift(Joined(parts), kept) = <<>>
<1> DEFINE T == {u \in Seq(Seq(S)) :
                   (\A i \in 1..Len(u) : Sift(u[i], kept) = <<>>) => Sift(Joined(u), kept) = <<>>}
<1>1. <<>> \in T
  BY EmptySeq, JoinedNone, SiftNone
<1>2. ASSUME NEW u \in Seq(Seq(S)), NEW x \in Seq(S), u \in T PROVE Append(u, x) \in T
  <2>1. /\ Append(u, x) \in Seq(Seq(S)) /\ Len(Append(u, x)) = Len(u) + 1 /\ Len(u) \in Nat
        /\ \A i \in 1..Len(u) : Append(u, x)[i] = u[i]
        /\ Append(u, x)[Len(u) + 1] = x
    BY AppendProperties, LenProperties
  <2>2. Joined(u) \in Seq(S) /\ Joined(Append(u, x)) = Joined(u) \o x
    BY JoinedIs, JoinedAppend
  <2>3. Sift(Joined(u) \o x, kept) = Sift(Joined(u), kept) \o Sift(x, kept)
    BY <2>2, SiftConcat
  <2>4. ASSUME \A i \in 1..(Len(u) + 1) : Sift(Append(u, x)[i], kept) = <<>>
        PROVE  Sift(Joined(u), kept) = <<>> /\ Sift(x, kept) = <<>>
    <3>1. \A i \in 1..Len(u) : i \in 1..(Len(u) + 1)
      BY <2>1
    <3>2. Len(u) + 1 \in 1..(Len(u) + 1)
      BY <2>1
    <3> QED
      BY <1>2, <2>1, <2>4, <3>1, <3>2
  <2>5. <<>> \o <<>> = <<>>
    BY EmptySeq, ConcatEmptySeq
  <2> QED
    BY <2>1, <2>2, <2>3, <2>4, <2>5
<1>3. \A u \in Seq(Seq(S)) : u \in T
  <2> HIDE DEF T
  <2> QED
    BY <1>1, <1>2, SeqInduction
<1> QED
  BY <1>3

\* Where all but one of them have none of it, it is what is kept of that one.
LEMMA SiftJoinedOne ==
  ASSUME NEW S, NEW parts \in Seq(Seq(S)), NEW kept, NEW at \in 1..Len(parts),
         \A i \in 1..Len(parts) : i # at => Sift(parts[i], kept) = <<>>
  PROVE  Sift(Joined(parts), kept) = Sift(parts[at], kept)
<1>0. \A w, y \in Seq(S) : Sift(w \o y, kept) = Sift(w, kept) \o Sift(y, kept)
  BY SiftConcat, SMTT(30)
<1> DEFINE Alone(u) == \A i \in 1..Len(u) : i # at => Sift(u[i], kept) = <<>>
<1> DEFINE T == {u \in Seq(Seq(S)) : at \in 1..Len(u) /\ Alone(u) => Sift(Joined(u), kept) = Sift(u[at], kept)}
<1>1. <<>> \in T
  BY EmptySeq
<1>2. ASSUME NEW u \in Seq(Seq(S)), NEW x \in Seq(S), u \in T PROVE Append(u, x) \in T
  <2> DEFINE v == Append(u, x)
  <2>1. /\ v \in Seq(Seq(S)) /\ Len(v) = Len(u) + 1 /\ Len(u) \in Nat
        /\ \A i \in 1..Len(u) : v[i] = u[i]
        /\ v[Len(u) + 1] = x
    BY AppendProperties, LenProperties
  <2>2. Joined(u) \in Seq(S) /\ Joined(v) = Joined(u) \o x
    BY JoinedIs, JoinedAppend
  <2> HIDE DEF v
  <2>3. Sift(Joined(u) \o x, kept) = Sift(Joined(u), kept) \o Sift(x, kept)
    BY <1>0, <2>2
  <2>4. Sift(Joined(u), kept) \in Seq(S) /\ Sift(x, kept) \in Seq(S)
    BY <2>2, SiftIs
  <2> SUFFICES ASSUME at \in 1..Len(v), Alone(v) PROVE Sift(Joined(v), kept) = Sift(v[at], kept)
    BY <2>1 DEF v
  <2>5. \A i \in 1..Len(u) : i \in 1..Len(v) /\ i # Len(u) + 1
    BY <2>1
  <2>6. Len(u) + 1 \in 1..Len(v)
    BY <2>1
  <2>7. CASE at = Len(u) + 1
    <3>1. \A i \in 1..Len(u) : Sift(u[i], kept) = <<>>
      BY <2>1, <2>5, <2>7
    <3>2. Sift(Joined(u), kept) = <<>>
      BY <3>1, SiftJoinedNone
    <3>3. <<>> \o Sift(x, kept) = Sift(x, kept)
      BY <2>4, ConcatEmptySeq
    <3> QED
      BY <2>1, <2>2, <2>3, <2>7, <3>2, <3>3
  <2>8. CASE at # Len(u) + 1
    <3>1. at \in 1..Len(u)
      BY <2>1, <2>8
    <3>2. Alone(u)
      BY <2>1, <2>5
    <3>3. Sift(Joined(u), kept) = Sift(u[at], kept)
      BY <1>2, <3>1, <3>2
    <3>4. Sift(x, kept) = <<>>
      BY <2>1, <2>6, <2>8
    <3>5. Sift(Joined(u), kept) \o <<>> = Sift(Joined(u), kept)
      BY <2>4, ConcatEmptySeq
    <3> QED
      BY <2>1, <2>2, <2>3, <3>1, <3>3, <3>4, <3>5
  <2> QED
    BY <2>7, <2>8
<1>3. \A u \in Seq(Seq(S)) : u \in T
  <2> HIDE DEF T
  <2> QED
    BY <1>1, <1>2, SeqInduction
<1> QED
  BY <1>3

\* Sequences that make nothing put one after another are each empty.
LEMMA JoinedNothing ==
  ASSUME NEW S, NEW parts \in Seq(Seq(S)), Joined(parts) = <<>>
  PROVE  \A i \in 1..Len(parts) : parts[i] = <<>>
<1> DEFINE T == {u \in Seq(Seq(S)) : Joined(u) = <<>> => \A i \in 1..Len(u) : u[i] = <<>>}
<1>1. <<>> \in T
  BY EmptySeq
<1>2. ASSUME NEW u \in Seq(Seq(S)), NEW x \in Seq(S), u \in T PROVE Append(u, x) \in T
  <2>1. /\ Append(u, x) \in Seq(Seq(S)) /\ Len(Append(u, x)) = Len(u) + 1 /\ Len(u) \in Nat
        /\ \A i \in 1..Len(u) : Append(u, x)[i] = u[i]
        /\ Append(u, x)[Len(u) + 1] = x
    BY AppendProperties, LenProperties
  <2>2. Joined(u) \in Seq(S) /\ Joined(Append(u, x)) = Joined(u) \o x
    BY JoinedIs, JoinedAppend
  <2>3. Joined(u) \o x = <<>> => Joined(u) = <<>> /\ x = <<>>
    BY <2>2, ConcatEqualIffEmpty
  <2>4. ASSUME Joined(Append(u, x)) = <<>>, NEW i \in 1..(Len(u) + 1) PROVE Append(u, x)[i] = <<>>
    <3>1. i = Len(u) + 1 \/ i \in 1..Len(u)
      BY <2>1
    <3>2. Joined(u) = <<>> /\ x = <<>>
      BY <2>2, <2>3, <2>4
    <3>3. CASE i = Len(u) + 1
      BY <2>1, <3>2, <3>3
    <3>4. CASE i \in 1..Len(u)
      BY <1>2, <2>1, <3>2, <3>4
    <3> QED
      BY <3>1, <3>3, <3>4
  <2> QED
    BY <2>1, <2>4
<1>3. \A u \in Seq(Seq(S)) : u \in T
  <2> HIDE DEF T
  <2> QED
    BY <1>1, <1>2, SeqInduction
<1> QED
  BY <1>3
=============================================================================
