----------------------------- MODULE BuildProofs -----------------------------
(***************************************************************************)
(* Proofs about Build: for every corpus, however its theorems cite one     *)
(* another, and any number of runs, edits, kills and failed writes, a      *)
(* build of everything that answers 0 leaves what a build in an empty tree *)
(* makes, and the gate is green exactly over that tree.                    *)
(*                                                                         *)
(* The argument has three parts.  The waves of src/src/tools/build.rs are  *)
(* unrolled: an artifact taken up waits for nothing but what the waves     *)
(* before its own hold.  What is made afresh is a fixed point: made once   *)
(* more it is the same.  So a run whose earlier waves hold what is made    *)
(* afresh makes the next artifact as it is made afresh.                    *)
(***************************************************************************)
EXTENDS Build, Induction

Last == Cardinality(Artifacts)

\* What the sources may hold.
Pages ==
  {p \in [Sources -> UNION {Versions[s] : s \in Sources}] : \A s \in Sources : p[s] \in Versions[s]}

\* There are finitely many artifacts, and as many waves at most.
LEMMA Counted == IsFiniteSet(Artifacts) /\ Last \in Nat
<1>1. IsFiniteSet({DEFINITIONS, PROVED})
  <2>1. {DEFINITIONS, PROVED} = {DEFINITIONS} \cup {PROVED}
    OBVIOUS
  <2>2. IsFiniteSet({DEFINITIONS}) /\ IsFiniteSet({PROVED})
    BY FS_Singleton, Zenon
  <2> QED
    BY <2>1, <2>2, FS_Union, Zenon
<1> QED
  BY <1>1, BuildAssumption, FS_Union, FS_CardinalityType, Zenon DEF Artifacts, Last

\* What an artifact waits for is an artifact.
LEMMA NeedsArtifacts ==
  ASSUME NEW p \in Pages, NEW a \in Artifacts
  PROVE  Needs(p, a) \subseteq Artifacts
<1>1. CASE a \in Theorems
  <2>1. p[a] \in Versions[a]
    BY <1>1 DEF Pages, Sources
  <2>2. Cites[a][p[a]] \subseteq Theorems
    BY <1>1, <2>1, BuildAssumption
  <2> QED
    BY <2>2 DEF Needs, Artifacts
<1>2. CASE a \notin Theorems
  BY <1>2 DEF Needs, Artifacts
<1> QED
  BY <1>1, <1>2

(***************************************************************************)
(* The waves                                                               *)
(***************************************************************************)

\* The waves of a run, unrolled: nothing is done before the first, and each
\* adds what is ready after the one before.
LEMMA WavesUnrolled ==
  ASSUME NEW p, NEW wants \in SUBSET Artifacts
  PROVE  /\ Waved(p, wants)[0] = {}
         /\ \A n \in 1..Last :
              Waved(p, wants)[n] = Waved(p, wants)[n - 1] \cup Ready(p, wants, Waved(p, wants)[n - 1])
         /\ \A n \in 0..Last : Waved(p, wants)[n] \subseteq wants
<1> DEFINE S == SUBSET wants
<1> DEFINE Grow(d) == d \cup Ready(p, wants, d)
<1> DEFINE step == [d \in S |-> Grow(d)]
<1>1. step \in [S -> S] /\ {} \in S
  BY DEF Ready
<1> DEFINE g == Iterates(S, {}, step, Last)
<1>2. g \in [0..Last -> S] /\ g[0] = {} /\ \A i \in 1..Last : g[i] = step[g[i - 1]]
  <2> HIDE DEF step, S
  <2> QED
    BY <1>1, Counted, Recursion
<1> HIDE DEF g
<1>3. \A i \in 1..Last : g[i - 1] \in S /\ g[i] = Grow(g[i - 1])
  <2> TAKE i \in 1..Last
  <2>1. i - 1 \in 0..Last
    BY Counted
  <2> QED
    BY <1>2, <2>1
<1> DEFINE Body(f, i) == IF i = 0 THEN {} ELSE Grow(f[i - 1])
<1>4. g = [i \in 0..Last |-> Body(g, i)]
  <2> HIDE DEF Grow
  <2>1. ASSUME NEW i \in 0..Last PROVE g[i] = Body(g, i)
    <3>1. CASE i = 0
      BY <1>2, <3>1
    <3>2. CASE i \in 1..Last
      BY <1>3, <3>2
    <3> QED
      BY <3>1, <3>2, Counted
  <2>2. g = [i \in 0..Last |-> g[i]]
    BY <1>2, Zenon
  <2> QED
    BY <2>1, <2>2, Zenon
<1>5. Waved(p, wants) = [i \in 0..Last |-> Body(Waved(p, wants), i)]
  BY <1>4, Zenon DEF Waved, Last
<1> HIDE DEF Grow
<1>6. \A i \in 0..Last : Waved(p, wants)[i] = Body(Waved(p, wants), i)
  BY <1>5, Zenon
<1>7. Waved(p, wants)[0] = {}
  BY <1>6, Counted
<1>8. \A n \in 1..Last : Waved(p, wants)[n] = Grow(Waved(p, wants)[n - 1])
  BY <1>6, Counted
<1>9. \A n \in 0..Last : Waved(p, wants)[n] \subseteq wants
  <2> DEFINE T == {n \in Nat : n <= Last => Waved(p, wants)[n] \subseteq wants}
  <2>1. 0 \in T
    BY <1>7
  <2>2. ASSUME NEW n \in Nat, n \in T PROVE n + 1 \in T
    <3> SUFFICES ASSUME n + 1 <= Last PROVE Waved(p, wants)[n + 1] \subseteq wants
      OBVIOUS
    <3>1. Waved(p, wants)[n] \subseteq wants
      BY <2>2, Counted
    <3>2. Waved(p, wants)[n + 1] = Grow(Waved(p, wants)[n])
      <4>1. n + 1 \in 1..Last /\ (n + 1) - 1 = n
        BY Counted
      <4> QED
        BY <4>1, <1>8
    <3> QED
      BY <3>1, <3>2 DEF Grow, Ready
  <2> HIDE DEF T
  <2>3. \A n \in Nat : n \in T
    BY <2>1, <2>2, SetInduction
  <2> QED
    BY <2>3, Counted DEF T
<1> QED
  BY <1>7, <1>8, <1>9, Zenon DEF Grow

\* What waits for nothing outside it.
Closed(p, wants) == \A a \in wants : Needs(p, a) \subseteq wants

\* What holds of an artifact wherever it holds of what that waits for holds
\* of all a run makes, if nothing waits on itself.
LEMMA AlongWaves ==
  ASSUME NEW p, NEW wants \in SUBSET Artifacts, ~Stuck(p, wants),
         NEW T, \A a \in wants : Needs(p, a) \cap wants \subseteq T => a \in T
  PROVE  wants \subseteq T
<1> DEFINE U == {n \in Nat : n <= Last => Waved(p, wants)[n] \subseteq T}
<1>1. 0 \in U
  BY WavesUnrolled
<1>2. ASSUME NEW n \in Nat, n \in U PROVE n + 1 \in U
  <2> SUFFICES ASSUME n + 1 <= Last PROVE Waved(p, wants)[n + 1] \subseteq T
    OBVIOUS
  <2>1. n + 1 \in 1..Last /\ (n + 1) - 1 = n /\ n <= Last
    BY Counted
  <2>2. Waved(p, wants)[n] \subseteq T
    BY <1>2, <2>1
  <2>3. Waved(p, wants)[n + 1] = Waved(p, wants)[n] \cup Ready(p, wants, Waved(p, wants)[n])
    BY <2>1, WavesUnrolled
  <2> QED
    BY <2>2, <2>3 DEF Ready
<1>3. Last \in U
  <2> HIDE DEF U
  <2> QED
    BY <1>1, <1>2, SetInduction, Counted
<1> QED
  BY <1>3, Counted DEF Stuck, Last

\* What an edit reaches is artifacts, and with each all it waits for: read
\* as often as there are artifacts, nothing more is added.
LEMMA ReachedClosed ==
  ASSUME NEW p \in Pages, NEW files \in SUBSET Artifacts,
         NEW sources \in {{}, {"worksheets"}}
  PROVE  /\ ReachedBy(p, files, sources) \in SUBSET Artifacts
         /\ Closed(p, ReachedBy(p, files, sources))
<1> DEFINE base == files \cup (IF sources = {} THEN {} ELSE {PROVED})
<1> DEFINE R == ReadFrom(p, base)
<1> DEFINE Grow(d) == d \cup UNION {Needs(p, a) : a \in d}
<1>1. base \in SUBSET Artifacts
  BY DEF Artifacts
<1>2. ReachedBy(p, files, sources) = R[Last]
  BY DEF ReachedBy, Last
<1> HIDE DEF base
<1>3. /\ R[0] = base
      /\ \A n \in 1..Last : R[n] = Grow(R[n - 1])
      /\ \A n \in 0..Last : R[n] \in SUBSET Artifacts
  <2> DEFINE S == SUBSET Artifacts
  <2> DEFINE step == [d \in S |-> Grow(d)]
  <2>1. step \in [S -> S]
    BY NeedsArtifacts
  <2> DEFINE g == Iterates(S, base, step, Last)
  <2>2. g \in [0..Last -> S] /\ g[0] = base /\ \A i \in 1..Last : g[i] = step[g[i - 1]]
    <3> HIDE DEF step, S
    <3>1. base \in S
      BY <1>1 DEF S
    <3> QED
      BY <2>1, <3>1, Counted, Recursion
  <2> HIDE DEF g
  <2>3. \A i \in 1..Last : g[i - 1] \in S /\ g[i] = Grow(g[i - 1])
    <3> TAKE i \in 1..Last
    <3>1. i - 1 \in 0..Last
      BY Counted
    <3> QED
      BY <2>2, <3>1
  <2> DEFINE Body(f, i) == IF i = 0 THEN base ELSE Grow(f[i - 1])
  <2>4. g = [i \in 0..Last |-> Body(g, i)]
    <3> HIDE DEF Grow
    <3>1. ASSUME NEW i \in 0..Last PROVE g[i] = Body(g, i)
      <4>1. CASE i = 0
        BY <2>2, <4>1
      <4>2. CASE i \in 1..Last
        BY <2>3, <4>2
      <4> QED
        BY <4>1, <4>2, Counted
    <3>2. g = [i \in 0..Last |-> g[i]]
      BY <2>2, Zenon
    <3> QED
      BY <3>1, <3>2, Zenon
  <2>5. R = [i \in 0..Last |-> Body(R, i)]
    BY <2>4, Zenon DEF ReadFrom, Last
  <2>6. R = g
    <3> DEFINE T == {n \in Nat : n <= Last => R[n] = g[n]}
    <3> HIDE DEF Grow, R
    <3>1. 0 \in T
      BY <2>2, <2>5, Counted
    <3>2. ASSUME NEW n \in Nat, n \in T PROVE n + 1 \in T
      <4> SUFFICES ASSUME n + 1 <= Last PROVE R[n + 1] = g[n + 1]
        OBVIOUS
      <4>1. n + 1 \in 1..Last /\ n + 1 \in 0..Last /\ (n + 1) - 1 = n /\ n <= Last /\ n + 1 # 0
        BY Counted
      <4>2. R[n + 1] = Grow(R[n])
        BY <2>5, <4>1
      <4>3. g[n + 1] = Grow(g[n])
        BY <2>3, <4>1
      <4> QED
        BY <3>2, <4>1, <4>2, <4>3
    <3>3. \A n \in Nat : n \in T
      <4> HIDE DEF T
      <4> QED
        BY <3>1, <3>2, SetInduction
    <3>4. \A n \in 0..Last : R[n] = g[n]
      BY <3>3, Counted
    <3>5. R = [i \in 0..Last |-> R[i]] /\ g = [i \in 0..Last |-> g[i]]
      BY <2>2, <2>5, Zenon
    <3> QED
      BY <3>4, <3>5, Zenon
  <2> HIDE DEF R
  <2> QED
    BY <2>2, <2>3, <2>6
<1> HIDE DEF R
<1> DEFINE T == {n \in Nat : n <= Last => Closed(p, R[n]) \/ Cardinality(R[n]) >= n}
<1>4. \A n \in 0..Last : IsFiniteSet(R[n]) /\ Cardinality(R[n]) \in Nat
  BY <1>3, Counted, FS_Subset, FS_CardinalityType
<1>5. 0 \in T
  BY <1>4, Counted
<1>6. ASSUME NEW n \in Nat, n \in T PROVE n + 1 \in T
  <2> SUFFICES ASSUME n + 1 <= Last PROVE Closed(p, R[n + 1]) \/ Cardinality(R[n + 1]) >= n + 1
    OBVIOUS
  <2>1. n + 1 \in 1..Last /\ (n + 1) - 1 = n /\ n \in 0..Last /\ n + 1 \in 0..Last /\ n <= Last
    BY Counted
  <2>2. R[n + 1] = Grow(R[n])
    BY <1>3, <2>1
  <2>3. CASE Closed(p, R[n])
    BY <2>2, <2>3 DEF Closed
  <2>4. CASE ~Closed(p, R[n])
    <3>1. Cardinality(R[n]) >= n
      BY <1>6, <2>1, <2>4
    <3>2. R[n] \subseteq R[n + 1] /\ R[n] # R[n + 1]
      BY <2>2, <2>4 DEF Closed
    <3>3. Cardinality(R[n]) < Cardinality(R[n + 1])
      BY <1>4, <2>1, <3>2, FS_Subset
    <3> QED
      BY <1>4, <2>1, <3>1, <3>3
  <2> QED
    BY <2>3, <2>4
<1>7. Closed(p, R[Last]) \/ Cardinality(R[Last]) >= Last
  <2> HIDE DEF T
  <2>1. Last \in T
    BY <1>5, <1>6, SetInduction, Counted
  <2> QED
    BY <2>1, Counted DEF T
<1>8. Closed(p, R[Last])
  <2>1. CASE Cardinality(R[Last]) >= Last
    <3>1. R[Last] = Artifacts
      BY <1>3, <1>4, <2>1, Counted, FS_Subset DEF Last
    <3> QED
      BY <3>1, NeedsArtifacts DEF Closed
  <2> QED
    BY <1>7, <2>1
<1> QED
  BY <1>2, <1>3, <1>8, Counted

(***************************************************************************)
(* What is made afresh                                                     *)
(***************************************************************************)

\* Everything made once more, from what was made before and the files there.
Again(p, there, before) ==
  [a \in Artifacts |->
     Made(a, p, p["worksheets"], TextOf(before, there), TextOf(before, there)[PROVED])]

\* The rounds, unrolled: nothing, and then each made from the one before.
LEMMA RoundsUnrolled ==
  ASSUME NEW p, NEW there
  PROVE  /\ Rounds(p, there)[0] = Nothing
         /\ \A n \in 1..Last : Rounds(p, there)[n] = Again(p, there, Rounds(p, there)[n - 1])
<1> DEFINE Body(g, i) == IF i = 0 THEN Nothing ELSE Again(p, there, g[i - 1])
<1> DEFINE T == {n \in Nat : \E g : g = [i \in 0..n |-> Body(g, i)]}
<1>1. 0 \in T
  <2>1. [i \in 0..0 |-> Nothing] = [i \in 0..0 |-> Body([j \in 0..0 |-> Nothing], i)]
    OBVIOUS
  <2> QED
    BY <2>1
<1>2. ASSUME NEW n \in Nat, n \in T PROVE n + 1 \in T
  <2>1. PICK g : g = [i \in 0..n |-> Body(g, i)]
    BY <1>2
  <2>2. \A i \in 0..n : g[i] = Body(g, i)
    BY <2>1
  <2> DEFINE h == [i \in 0..(n + 1) |-> IF i <= n THEN g[i] ELSE Again(p, there, g[n])]
  <2>3. \A i \in 0..n : h[i] = g[i]
    OBVIOUS
  <2>4. h[n + 1] = Again(p, there, g[n])
    OBVIOUS
  <2>5. h = [i \in 0..(n + 1) |-> h[i]]
    OBVIOUS
  <2> HIDE DEF h
  <2>6. ASSUME NEW i \in 0..(n + 1) PROVE h[i] = Body(h, i)
    <3>1. CASE i = 0
      BY <2>2, <2>3, <3>1
    <3>2. CASE i \in 1..n
      <4>1. h[i] = g[i] /\ h[i - 1] = g[i - 1] /\ g[i] = Body(g, i)
        BY <2>2, <2>3, <3>2
      <4> QED
        BY <3>2, <4>1
    <3>3. CASE i = n + 1
      BY <2>3, <2>4, <3>3
    <3> QED
      BY <3>1, <3>2, <3>3
  <2>7. h = [i \in 0..(n + 1) |-> Body(h, i)]
    BY <2>5, <2>6, Zenon
  <2> QED
    BY <2>7
<1>3. Last \in T
  <2> HIDE DEF T
  <2> QED
    BY <1>1, <1>2, SetInduction, Counted
<1>4. Rounds(p, there) = [i \in 0..Last |-> Body(Rounds(p, there), i)]
  BY <1>3, Zenon DEF Rounds, Again, Last
<1>5. \A i \in 0..Last : Rounds(p, there)[i] = Body(Rounds(p, there), i)
  BY <1>4, Zenon
<1>6. Rounds(p, there)[0] = Nothing
  BY <1>5, Counted
<1>7. \A n \in 1..Last : Rounds(p, there)[n] = Again(p, there, Rounds(p, there)[n - 1])
  BY <1>5, Counted
<1> QED
  BY <1>6, <1>7

\* What is made of an artifact rests only on the texts of what it waits for.
LEMMA MadeOfNeeds ==
  ASSUME NEW p \in Pages, NEW a \in Artifacts, NEW sheets,
         NEW one, NEW other, \A c \in Needs(p, a) : one[c] = other[c],
         NEW proved, NEW provedToo, a \in Theorems => proved = provedToo
  PROVE  Made(a, p, sheets, one, proved) = Made(a, p, sheets, other, provedToo)
<1>1. CASE a = DEFINITIONS
  <2>1. a \notin Comparisons /\ a # PROVED
    BY <1>1, BuildAssumption DEF PROVED, DEFINITIONS
  <2> QED
    BY <1>1, <2>1, Zenon DEF Made
<1>2. CASE a = PROVED
  <2>1. a \notin Comparisons \cup {DEFINITIONS}
    BY <1>2, BuildAssumption DEF PROVED, DEFINITIONS
  <2>2. one[DEFINITIONS] = other[DEFINITIONS]
    BY <1>2, <2>1 DEF Needs
  <2> QED
    BY <1>2, <2>1, <2>2 DEF Made
<1>3. CASE a \in Comparisons
  <2>1. a # DEFINITIONS /\ a # PROVED
    BY <1>3, BuildAssumption
  <2> QED
    BY <1>3, <2>1, Zenon DEF Made
<1>4. CASE a \in Theorems
  <2>1. a \notin Comparisons \cup {DEFINITIONS} /\ a # PROVED
    BY <1>4, BuildAssumption
  <2> DEFINE cited == Cites[a][p[a]] \ {a}
  <2>2. \A c \in cited : one[c] = other[c]
    BY <2>1 DEF Needs
  <2>3. \A c \in cited : StatementOf(one[c]) = StatementOf(other[c])
    BY <2>2
  <2> HIDE DEF cited
  <2>4. [c \in cited |-> StatementOf(one[c])] = [c \in cited |-> StatementOf(other[c])]
    BY <2>3
  <2>5. (\E c \in cited : StatementOf(one[c]) = None)
          <=> (\E c \in cited : StatementOf(other[c]) = None)
    BY <2>3
  <2> QED
    BY <1>4, <2>1, <2>4, <2>5 DEF Made, cited
<1> QED
  BY <1>1, <1>2, <1>3, <1>4 DEF Artifacts

\* ... and so does making everything once more.
LEMMA AgainOfNeeds ==
  ASSUME NEW p \in Pages, NEW there, NEW a \in Artifacts, NEW one, NEW other,
         \A c \in Needs(p, a) : one[c] = other[c]
  PROVE  Again(p, there, one)[a] = Again(p, there, other)[a]
<1>1. \A c \in Needs(p, a) : TextOf(one, there)[c] = TextOf(other, there)[c]
  BY NeedsArtifacts DEF TextOf
<1>2. a \in Theorems => PROVED \in Needs(p, a)
  BY BuildAssumption DEF Needs
<1> DEFINE text == TextOf(one, there)
<1> DEFINE textToo == TextOf(other, there)
<1> HIDE DEF text, textToo
<1>3. Made(a, p, p["worksheets"], text, text[PROVED])
        = Made(a, p, p["worksheets"], textToo, textToo[PROVED])
  <2>1. a \in Theorems => text[PROVED] = textToo[PROVED]
    BY <1>1, <1>2 DEF text, textToo
  <2> QED
    BY <1>1, <2>1, MadeOfNeeds DEF text, textToo
<1> QED
  BY <1>3 DEF Again, text, textToo

\* Once a round has made what one wave holds, no later round makes it anew.
LEMMA RoundsSettle ==
  ASSUME NEW p \in Pages, NEW there, NEW wants \in SUBSET Artifacts, Closed(p, wants)
  PROVE  \A k \in 0..Last : \A a \in Waved(p, wants)[k] : \A m, n \in k..Last :
            Rounds(p, there)[m][a] = Rounds(p, there)[n][a]
<1> DEFINE R == Rounds(p, there)
<1> DEFINE Settled(k) == \A a \in Waved(p, wants)[k] : \A m, n \in k..Last : R[m][a] = R[n][a]
<1> DEFINE U == {k \in Nat : k <= Last => Settled(k)}
<1>1. 0 \in U
  BY WavesUnrolled
<1>2. ASSUME NEW k \in Nat, k \in U PROVE k + 1 \in U
  <2> SUFFICES ASSUME k + 1 <= Last, NEW a \in Waved(p, wants)[k + 1],
                      NEW m \in (k + 1)..Last, NEW n \in (k + 1)..Last
               PROVE  R[m][a] = R[n][a]
    OBVIOUS
  <2>1. k + 1 \in 1..Last /\ (k + 1) - 1 = k /\ k <= Last /\ k \in 0..Last /\ k + 1 \in 0..Last
    BY Counted
  <2>2. Settled(k)
    BY <1>2, <2>1
  <2>3. /\ Waved(p, wants)[k + 1] = Waved(p, wants)[k] \cup Ready(p, wants, Waved(p, wants)[k])
        /\ Waved(p, wants)[k + 1] \subseteq wants
    BY <2>1, WavesUnrolled
  <2>4. CASE a \in Waved(p, wants)[k]
    <3>1. m \in k..Last /\ n \in k..Last
      BY Counted
    <3> QED
      BY <2>2, <2>4, <3>1
  <2>5. CASE a \in Ready(p, wants, Waved(p, wants)[k])
    <3>1. a \in Artifacts /\ Needs(p, a) \subseteq Waved(p, wants)[k]
      BY <2>3, <2>5 DEF Closed, Ready
    <3>2. m \in 1..Last /\ n \in 1..Last /\ m - 1 \in k..Last /\ n - 1 \in k..Last
      BY Counted
    <3>3. \A c \in Needs(p, a) : R[m - 1][c] = R[n - 1][c]
      BY <2>2, <3>1, <3>2
    <3>4. R[m][a] = Again(p, there, R[m - 1])[a] /\ R[n][a] = Again(p, there, R[n - 1])[a]
      BY <3>2, RoundsUnrolled
    <3> DEFINE one == R[m - 1]
    <3> DEFINE other == R[n - 1]
    <3>5. \A c \in Needs(p, a) : one[c] = other[c]
      BY <3>3
    <3> HIDE DEF R, one, other
    <3>6. Again(p, there, one)[a] = Again(p, there, other)[a]
      BY <3>1, <3>5, AgainOfNeeds
    <3> QED
      BY <3>4, <3>6 DEF one, other
  <2> QED
    BY <2>3, <2>4, <2>5
<1>3. \A k \in Nat : k \in U
  <2> HIDE DEF U
  <2> QED
    BY <1>1, <1>2, SetInduction
<1> QED
  BY <1>3, Counted

\* What is made afresh is what is made once more of it: of all of which
\* nothing waits on itself, each text is what the others make it.
LEMMA AfreshFixed ==
  ASSUME NEW p \in Pages, NEW there, NEW wants \in SUBSET Artifacts,
         Closed(p, wants), ~Stuck(p, wants)
  PROVE  \A a \in wants : Afresh(p, there)[a] = Again(p, there, Afresh(p, there))[a]
<1> DEFINE R == Rounds(p, there)
<1> DEFINE Fixed(a) == R[Last][a] = Again(p, there, R[Last])[a]
<1> DEFINE U == {k \in Nat : k <= Last => \A a \in Waved(p, wants)[k] : Fixed(a)}
<1>1. 0 \in U
  BY WavesUnrolled
<1>2. ASSUME NEW k \in Nat, k \in U PROVE k + 1 \in U
  <2> SUFFICES ASSUME k + 1 <= Last, NEW a \in Waved(p, wants)[k + 1] PROVE Fixed(a)
    OBVIOUS
  <2>1. /\ k + 1 \in 1..Last /\ (k + 1) - 1 = k /\ k \in 0..Last /\ k + 1 \in 0..Last
        /\ Last \in 1..Last /\ Last - 1 \in k..Last /\ Last \in k..Last
    BY Counted
  <2>2. /\ Waved(p, wants)[k + 1] = Waved(p, wants)[k] \cup Ready(p, wants, Waved(p, wants)[k])
        /\ Waved(p, wants)[k + 1] \subseteq wants
    BY <2>1, WavesUnrolled
  <2>3. CASE a \in Waved(p, wants)[k]
    BY <1>2, <2>1, <2>3
  <2>4. CASE a \in Ready(p, wants, Waved(p, wants)[k])
    <3>1. a \in Artifacts /\ Needs(p, a) \subseteq Waved(p, wants)[k]
      BY <2>2, <2>4 DEF Closed, Ready
    <3>2. \A c \in Needs(p, a) : R[Last - 1][c] = R[Last][c]
      BY <2>1, <3>1, RoundsSettle
    <3>3. R[Last][a] = Again(p, there, R[Last - 1])[a]
      BY <2>1, RoundsUnrolled
    <3> HIDE DEF R
    <3>4. Again(p, there, R[Last - 1])[a] = Again(p, there, R[Last])[a]
      BY <3>1, <3>2, AgainOfNeeds
    <3> QED
      BY <3>3, <3>4
  <2> QED
    BY <2>2, <2>3, <2>4
<1>3. Last \in U
  <2> HIDE DEF U
  <2> QED
    BY <1>1, <1>2, SetInduction, Counted
<1>4. \A a \in wants : Fixed(a)
  BY <1>3, Counted DEF Stuck, Last
<1> QED
  BY <1>4 DEF Afresh, Last

(***************************************************************************)
(* The invariants                                                          *)
(***************************************************************************)

\* A text, or none, for each artifact.
OnArtifacts(f) == f = [a \in Artifacts |-> f[a]]

\* The types of the variables.
TypeOK ==
  /\ page \in Pages /\ corpus \in Pages
  /\ OnArtifacts(tree) /\ OnArtifacts(made)
  /\ setmm \in BOOLEAN /\ running \in BOOLEAN /\ failed \in BOOLEAN /\ moved \in BOOLEAN
  /\ kind \in {"build", "gate"} /\ status \in {0, 1, 2, None}
  /\ faults \in Nat /\ runs \in Nat /\ wave \in 0..Last
  /\ wanted \in SUBSET Artifacts /\ left \in SUBSET wanted
  /\ marks \in SUBSET wanted /\ differ \in SUBSET wanted
  /\ writing \in wanted \cup {None}

\* What the waves begun hold, and those before the one under way.
Begun == Waved(corpus, wanted)[wave]
Before == IF wave = 0 THEN {} ELSE Waved(corpus, wanted)[wave - 1]

\* A run under way has waves enough for all it makes, and what is left of a
\* wave is of that wave; a gate makes with each artifact all it waits for,
\* and writes nothing.
Underway ==
  /\ running =>
       /\ ~Stuck(corpus, wanted)
       /\ left \subseteq Begun \ Before
       /\ kind = "gate" => Closed(corpus, wanted) /\ writing = None
  /\ ~running => left = {} /\ made = Nothing /\ writing = None
  /\ ~moved => corpus = page

\* A build of everything has made of each artifact what is made afresh, or
\* nothing; nothing only of what is left or, after a failure, of the last
\* wave; what it marks is in the tree as made.
Building == running /\ kind = "build" /\ wanted = Artifacts /\ ~moved
AsBuilt ==
  Building =>
    /\ \A a \in Artifacts : made[a] \in {None, Afresh(corpus, Nothing)[a]}
    /\ \A a \in Begun \ left : made[a] # None \/ (failed /\ a \notin Before)
    /\ \A a \in marks : a \in Begun \ left /\ made[a] # None /\ tree[a] = made[a]
    /\ writing # None => writing \in (Begun \ left) \ marks /\ made[writing] # None
    /\ library \subseteq {Afresh(corpus, Nothing)[PROVED]}

\* A gate has made what is made afresh beside the tree, and says of what it
\* has made whether the tree has it.
Gating == running /\ kind = "gate" /\ ~moved
AsGated ==
  Gating =>
    /\ \A a \in Begun \ left :
         /\ made[a] = Afresh(corpus, tree)[a]
         /\ a \in differ <=> made[a] = None \/ made[a] # tree[a]
    /\ \A a \in Artifacts : a \notin Begun \ left => made[a] = None
    /\ differ \subseteq Begun \ left
    /\ library \subseteq {TextOf(Afresh(corpus, tree), tree)[PROVED]}

\* An artifact taken up waits for nothing the run makes but what the waves
\* before its own hold.
LEMMA LeftIsReady ==
  ASSUME TypeOK, Underway, running, NEW a \in left
  PROVE  /\ wave \in 1..Last /\ Before = Waved(corpus, wanted)[wave - 1]
         /\ a \in Begun /\ a \notin Before
         /\ Needs(corpus, a) \cap wanted \subseteq Before
<1>1. a \in Begun /\ a \notin Before /\ wave \in 0..Last
  BY DEF Underway, TypeOK
<1>2. wanted \in SUBSET Artifacts
  BY DEF TypeOK
<1>3. wave # 0
  BY <1>1, <1>2, WavesUnrolled DEF Begun
<1>4. wave \in 1..Last /\ Before = Waved(corpus, wanted)[wave - 1]
  BY <1>1, <1>3, Counted DEF Before
<1>5. Begun = Before \cup Ready(corpus, wanted, Before)
  BY <1>2, <1>4, WavesUnrolled DEF Begun
<1> QED
  BY <1>1, <1>4, <1>5 DEF Ready

\* Where what the waves before hold reads as what is made afresh does, and
\* the library was read so, what is made now is what is made afresh, and the
\* library is kept so.
LEMMA MakingAfresh ==
  ASSUME TypeOK, Underway, running, ~moved, Closed(corpus, wanted),
         NEW a \in Artifacts, Making(a),
         NEW there,
         library \subseteq {TextOf(Afresh(corpus, there), there)[PROVED]},
         \A c \in Before : TextOf(made, tree)[c] = TextOf(Afresh(corpus, there), there)[c]
  PROVE  /\ MadeNow(a) = Afresh(corpus, there)[a]
         /\ library' \subseteq {TextOf(Afresh(corpus, there), there)[PROVED]}
<1> DEFINE F == Afresh(corpus, there)
<1> DEFINE now == TextOf(made, tree)
<1> DEFINE then == TextOf(F, there)
<1> DEFINE proved == IF library = {} THEN now[PROVED] ELSE CHOOSE p \in library : TRUE
<1>1. a \in left /\ corpus = page /\ corpus \in Pages /\ wanted \in SUBSET Artifacts
      /\ a \in wanted
  BY DEF Making, Underway, TypeOK
<1>2. Needs(corpus, a) \subseteq Before
  BY <1>1, LeftIsReady DEF Closed
<1>3. \A c \in Needs(corpus, a) : now[c] = then[c]
  BY <1>2
<1>4. a \in Theorems => now[PROVED] = then[PROVED]
  <2>1. a \in Theorems => PROVED \in Needs(corpus, a)
    BY BuildAssumption DEF Needs
  <2> QED
    BY <1>3, <2>1
<1>5. a \in Theorems => proved = then[PROVED]
  BY <1>4
<1>6. F[a] = Made(a, corpus, corpus["worksheets"], then, then[PROVED])
  <2>1. F[a] = Again(corpus, there, F)[a]
    BY <1>1, AfreshFixed DEF Underway
  <2> QED
    BY <2>1 DEF Again
<1>7. MadeNow(a) = Made(a, corpus, corpus["worksheets"], now, proved)
  BY <1>1 DEF MadeNow
<1>8. library' \subseteq {then[PROVED]}
  BY <1>4 DEF Making
<1> HIDE DEF F, now, then, proved
<1>9. MadeNow(a) = F[a]
  BY <1>1, <1>3, <1>5, <1>6, <1>7, MadeOfNeeds
<1> QED
  BY <1>8, <1>9 DEF F, then

\* Over a tree that is what is made afresh beside it, or in an empty tree,
\* the two are one.
LEMMA AfreshAgree ==
  ASSUME NEW p \in Pages, ~Stuck(p, Artifacts), NEW there,
         \/ \A a \in Artifacts : there[a] = Afresh(p, there)[a]
         \/ \A a \in Artifacts : there[a] = Afresh(p, Nothing)[a]
  PROVE  \A a \in Artifacts : Afresh(p, there)[a] = Afresh(p, Nothing)[a]
<1> DEFINE F == Afresh(p, Nothing)
<1> DEFINE G == Afresh(p, there)
<1> DEFINE T == {a \in Artifacts : G[a] = F[a]}
<1>1. Closed(p, Artifacts)
  BY NeedsArtifacts DEF Closed
<1>2. ASSUME NEW a \in Artifacts, Needs(p, a) \cap Artifacts \subseteq T PROVE a \in T
  <2>1. F[a] = Again(p, Nothing, F)[a] /\ G[a] = Again(p, there, G)[a]
    BY <1>1, AfreshFixed
  <2> DEFINE one == TextOf(G, there)
  <2> DEFINE other == TextOf(F, Nothing)
  <2>2. \A c \in Needs(p, a) : c \in Artifacts /\ G[c] = F[c]
    BY <1>2, NeedsArtifacts
  <2>3. \A c \in Needs(p, a) : other[c] = F[c]
    BY <2>2 DEF TextOf, Nothing
  <2>4. \A c \in Needs(p, a) : one[c] = F[c]
    BY <2>2 DEF TextOf
  <2>5. \A c \in Needs(p, a) : one[c] = other[c]
    BY <2>3, <2>4
  <2>6. a \in Theorems => one[PROVED] = other[PROVED]
    <3>1. a \in Theorems => PROVED \in Needs(p, a)
      BY BuildAssumption DEF Needs
    <3> QED
      BY <2>5, <3>1
  <2>7. /\ F[a] = Made(a, p, p["worksheets"], other, other[PROVED])
        /\ G[a] = Made(a, p, p["worksheets"], one, one[PROVED])
    BY <2>1 DEF Again
  <2> HIDE DEF F, G, one, other
  <2>8. G[a] = F[a]
    BY <2>5, <2>6, <2>7, MadeOfNeeds
  <2> QED
    BY <2>8
<1>3. Artifacts \subseteq T
  <2> HIDE DEF T
  <2> QED
    BY <1>2, AlongWaves
<1> QED
  BY <1>3

(***************************************************************************)
(* The shape of a run                                                      *)
(***************************************************************************)

\* What is made afresh is a text, or none, for each artifact.
LEMMA AfreshShape == ASSUME NEW p, NEW there PROVE OnArtifacts(Afresh(p, there))
<1>1. Last \in 1..Last \/ Last = 0
  BY Counted
<1>2. CASE Last = 0
  BY <1>2, RoundsUnrolled DEF Afresh, Last, OnArtifacts, Nothing
<1>3. CASE Last \in 1..Last
  <2>1. Afresh(p, there) = Again(p, there, Rounds(p, there)[Last - 1])
    BY <1>3, RoundsUnrolled DEF Afresh, Last
  <2> QED
    BY <2>1, Zenon DEF OnArtifacts, Nothing, Again
<1> QED
  BY <1>1, <1>2, <1>3

\* Before any run, the variables are of their types and no run is under way.
LEMMA InitShape == ASSUME Init PROVE TypeOK /\ Underway
<1>1. page \in Pages
  BY BuildAssumption DEF Init, Pages, Sources
<1>2. OnArtifacts(Nothing) /\ OnArtifacts(Afresh(page, Nothing))
  BY AfreshShape DEF OnArtifacts, Nothing
<1>3. OnArtifacts(tree) /\ OnArtifacts(made)
  BY <1>2 DEF Init
<1>4. Underway
  BY DEF Init, Underway
<1>5. wave \in 0..Last /\ faults \in Nat /\ runs \in Nat
  BY Counted DEF Init
<1>6. setmm \in BOOLEAN /\ running \in BOOLEAN /\ failed \in BOOLEAN /\ moved \in BOOLEAN
  BY DEF Init
<1>7. /\ wanted \in SUBSET Artifacts /\ left \in SUBSET wanted
      /\ marks \in SUBSET wanted /\ differ \in SUBSET wanted
      /\ kind \in {"build", "gate"} /\ status \in {0, 1, 2, None} /\ writing \in wanted \cup {None}
      /\ corpus = page
  BY DEF Init
<1> QED
  BY <1>1, <1>3, <1>4, <1>5, <1>6, <1>7, Zenon DEF TypeOK

\* A run asked for begins with no wave; where nothing it makes waits on itself
\* it is under way, and otherwise it has answered.
LEMMA StartShape ==
  ASSUME TypeOK, Underway, NEW what \in {"build", "gate"}, NEW wants \in SUBSET Artifacts,
         what = "gate" => Closed(page, wants),
         Start(what, wants)
  PROVE  TypeOK' /\ Underway'
<1>1. OnArtifacts(made') /\ OnArtifacts(tree')
  BY DEF Start, TypeOK, OnArtifacts, Nothing
<1>2. status' \in {0, 1, 2, None} /\ running' \in BOOLEAN /\ wanted' \in SUBSET Artifacts
  BY DEF Start, TypeOK
<1>3. TypeOK'
  <2>1. wave' \in 0..Last /\ faults' \in Nat /\ runs' \in Nat
    BY Counted DEF Start, TypeOK
  <2>2. setmm' \in BOOLEAN /\ failed' \in BOOLEAN /\ moved' \in BOOLEAN
    BY Zenon DEF Start, TypeOK
  <2>3. /\ left' \in SUBSET wanted' /\ marks' \in SUBSET wanted' /\ differ' \in SUBSET wanted'
        /\ kind' \in {"build", "gate"} /\ writing' \in wanted' \cup {None}
        /\ page' \in Pages /\ corpus' \in Pages
    BY DEF Start, TypeOK
  <2> QED
    BY <1>1, <1>2, <2>1, <2>2, <2>3, Zenon DEF TypeOK
<1>4. running' => ~Stuck(corpus', wanted') /\ wanted' = wants
  BY DEF Start
<1>5. Underway'
  BY <1>4 DEF Start, Underway
<1> QED
  BY <1>3, <1>5

\* A run that ends, or is killed, keeps nothing of what it made in memory.
LEMMA OverShape ==
  ASSUME TypeOK, Underway, Over, UNCHANGED tree, faults' \in Nat,
         status' \in {0, 1, 2, None}, differ' \subseteq wanted
  PROVE  TypeOK' /\ Underway'
<1>1. OnArtifacts(made')
  BY DEF Over, OnArtifacts, Nothing
<1>2. wave' \in 0..Last /\ runs' \in Nat
  BY Counted DEF Over, TypeOK
<1>3. setmm' \in BOOLEAN /\ failed' \in BOOLEAN /\ moved' \in BOOLEAN /\ running' \in BOOLEAN
  BY Zenon DEF Over, TypeOK
<1>4. /\ left' \in SUBSET wanted' /\ marks' \in SUBSET wanted' /\ differ' \in SUBSET wanted'
      /\ kind' \in {"build", "gate"} /\ writing' \in wanted' \cup {None}
      /\ page' \in Pages /\ corpus' \in Pages /\ wanted' \in SUBSET Artifacts /\ OnArtifacts(tree')
  BY DEF Over, TypeOK, OnArtifacts
<1>5. TypeOK'
  BY <1>1, <1>2, <1>3, <1>4, Zenon DEF TypeOK
<1>6. Underway'
  BY DEF Over, Underway
<1> QED
  BY <1>5, <1>6

\* What one artifact made leaves as it was.
LEMMA MakeShape ==
  ASSUME TypeOK, Underway, NEW a \in Artifacts, Making(a),
         OnArtifacts(made'), OnArtifacts(tree'),
         UNCHANGED <<page, runs, running, asked, wave, status, moved>>,
         failed' \in BOOLEAN, faults' \in Nat,
         marks' \subseteq wanted, differ' \subseteq wanted,
         writing' \in wanted \cup {None}, kind = "gate" => writing' = None
  PROVE  TypeOK' /\ Underway'
<1>1. left' \subseteq left /\ running
  BY DEF Making
<1>2. TypeOK'
  BY <1>1 DEF TypeOK, asked
<1>3. Begun' = Begun /\ Before' = Before
  BY DEF Begun, Before, asked
<1>4. Underway'
  BY <1>1, <1>3 DEF Underway, asked
<1> QED
  BY <1>2, <1>4

\* Every step keeps the types and the shape of the run.
LEMMA ShapeStep == ASSUME TypeOK, Underway, [Next]_vars PROVE TypeOK' /\ Underway'
<1>1. CASE BuildAll
  BY <1>1, StartShape DEF BuildAll
<1>2. CASE BuildOne
  <2>1. PICK a \in Artifacts : Start("build", {a})
    BY <1>2 DEF BuildOne
  <2> QED
    BY <2>1, StartShape
<1>3. CASE Gate
  <2>1. Closed(page, Artifacts)
    BY NeedsArtifacts DEF Closed, TypeOK
  <2> QED
    BY <1>3, <2>1, StartShape DEF Gate
<1>4. CASE GateEdited
  <2>1. PICK files \in {{}} \cup {{a} : a \in Artifacts}, sources \in {{}, {"worksheets"}} :
          Start("gate", ReachedBy(page, files, sources))
    BY <1>4 DEF GateEdited
  <2>2. files \in SUBSET Artifacts /\ page \in Pages
    BY DEF TypeOK
  <2> QED
    BY <2>1, <2>2, ReachedClosed, StartShape
<1>5. CASE NextWave
  <2>1. /\ wave' = wave + 1 /\ left' = Waves(corpus, wanted)[wave + 1] /\ running /\ left = {}
        /\ Waved(corpus, wanted)[wave] # wanted /\ ~Stuck(corpus, wanted)
    BY <1>5 DEF NextWave, Underway
  <2>2. wave \in 0..Last /\ wave # Last /\ wanted \in SUBSET Artifacts
    BY <2>1 DEF TypeOK, Stuck, Last
  <2>3. wave + 1 \in 1..Last /\ wave + 1 \in 0..Last /\ (wave + 1) - 1 = wave /\ wave + 1 # 0
    BY <2>2, Counted
  <2>4. left' = Waved(corpus, wanted)[wave + 1] \ Waved(corpus, wanted)[wave]
    BY <2>1, <2>3 DEF Waves, Last
  <2>5. left' \subseteq wanted
    BY <2>2, <2>3, <2>4, WavesUnrolled
  <2>6. TypeOK'
    BY <1>5, <2>1, <2>3, <2>5 DEF NextWave, TypeOK, asked, answer, OnArtifacts
  <2>7. left' \subseteq Begun' \ Before'
    BY <1>5, <2>1, <2>3, <2>4 DEF NextWave, Begun, Before, asked
  <2> QED
    BY <1>5, <2>6, <2>7 DEF NextWave, Underway, asked
<1>6. CASE Wrote
  <2>1. OnArtifacts(tree')
    BY <1>6 DEF Wrote, TypeOK, OnArtifacts
  <2>2. TypeOK'
    <3>1. faults' \in Nat
      BY <1>6 DEF Wrote, Spend, TypeOK
    <3>2. marks' \in SUBSET wanted'
      BY <1>6 DEF Wrote, TypeOK, asked
    <3>3. writing' \in wanted' \cup {None} /\ left' \in SUBSET wanted' /\ differ' \in SUBSET wanted'
      BY <1>6 DEF Wrote, TypeOK, asked
    <3>4. /\ page' \in Pages /\ corpus' \in Pages /\ OnArtifacts(made')
          /\ kind' \in {"build", "gate"} /\ status' \in {0, 1, 2, None} /\ wanted' \in SUBSET Artifacts
      BY <1>6 DEF Wrote, TypeOK, asked, OnArtifacts
    <3>5. setmm' \in BOOLEAN /\ running' \in BOOLEAN /\ failed' \in BOOLEAN /\ moved' \in BOOLEAN
      BY <1>6, Zenon DEF Wrote, TypeOK, asked
    <3>6. runs' \in Nat /\ wave' \in 0..Last
      BY <1>6 DEF Wrote, TypeOK, asked
    <3> QED
      BY <2>1, <3>1, <3>2, <3>3, <3>4, <3>5, <3>6, Zenon DEF TypeOK
  <2>3. Begun' = Begun /\ Before' = Before
    BY <1>6 DEF Wrote, Begun, Before, asked
  <2> QED
    BY <1>6, <2>2, <2>3 DEF Wrote, Underway, asked
<1>7. CASE End
  <2>1. status' \in {0, 1, 2, None}
    BY <1>7 DEF End, Answer
  <2> QED
    BY <1>7, <2>1, OverShape DEF End, TypeOK
<1>8. CASE Kill
  BY <1>8, OverShape DEF Kill, Spend, TypeOK
<1>9. CASE EditSource
  <2>1. PICK s \in Sources : \E v \in Versions[s] : page' = [page EXCEPT ![s] = v]
    BY <1>9 DEF EditSource
  <2>2. page' \in Pages
    BY <2>1 DEF TypeOK, Pages
  <2>3. TypeOK'
    BY <1>9, <2>2 DEF EditSource, Spend, TypeOK, OnArtifacts, asked, answer
  <2> QED
    BY <1>9, <2>3 DEF EditSource, Underway, Begun, Before, asked
<1>10. CASE EditTree
  <2>1. OnArtifacts(tree')
    BY <1>10 DEF EditTree, TypeOK, OnArtifacts
  <2>2. TypeOK'
    BY <1>10, <2>1 DEF EditTree, Spend, TypeOK, OnArtifacts, asked, answer
  <2> QED
    BY <1>10, <2>2 DEF EditTree, Underway, Begun, Before, asked
<1>11. ASSUME NEW a \in Artifacts, Fail(a) PROVE TypeOK' /\ Underway'
  <2>1. a \in wanted
    BY <1>11 DEF Fail, FailSaying, Making, TypeOK
  <2> QED
    BY <1>11, <2>1, MakeShape
       DEF Fail, FailSaying, TypeOK, OnArtifacts, Underway, Making
<1>12. ASSUME NEW a \in Artifacts, Same(a) PROVE TypeOK' /\ Underway'
  <2>1. a \in wanted
    BY <1>12 DEF Same, Making, TypeOK
  <2>2. OnArtifacts(made')
    BY <1>12 DEF Same, TypeOK, OnArtifacts
  <2> QED
    BY <1>12, <2>1, <2>2, MakeShape DEF Same, TypeOK, OnArtifacts, Underway, Making
<1>13. ASSUME NEW a \in Artifacts, Differs(a) PROVE TypeOK' /\ Underway'
  <2>1. a \in wanted
    BY <1>13 DEF Differs, Making, TypeOK
  <2>2. OnArtifacts(made')
    BY <1>13 DEF Differs, TypeOK, OnArtifacts
  <2> QED
    BY <1>13, <2>1, <2>2, MakeShape DEF Differs, TypeOK, OnArtifacts, Underway, Making
<1>14. ASSUME NEW a \in Artifacts, Write(a) PROVE TypeOK' /\ Underway'
  <2>1. a \in wanted
    BY <1>14 DEF Write, Making, TypeOK
  <2>2. OnArtifacts(made') /\ OnArtifacts(tree')
    BY <1>14 DEF Write, TypeOK, OnArtifacts
  <2>3. failed' \in BOOLEAN /\ faults' \in Nat /\ writing' \in wanted \cup {None} /\ kind # "gate"
    <3>1. failed' \in BOOLEAN
      BY <1>14, Zenon DEF Write, TypeOK
    <3>2. faults' \in Nat
      BY <1>14 DEF Write, Spend, TypeOK
    <3>3. writing' \in wanted \cup {None} /\ kind # "gate"
      BY <1>14, <2>1 DEF Write, TypeOK
    <3> QED
      BY <3>1, <3>2, <3>3
  <2> QED
    BY <1>14, <2>2, <2>3, MakeShape DEF Write, TypeOK
<1>15. CASE UNCHANGED vars
  BY <1>15 DEF vars, asked, answer, TypeOK, OnArtifacts, Underway, Begun, Before
<1> QED
  BY <1>1, <1>2, <1>3, <1>4, <1>5, <1>6, <1>7, <1>8, <1>9, <1>10, <1>11, <1>12, <1>13, <1>14, <1>15
     DEF Next, Step

(***************************************************************************)
(* A build of everything                                                   *)
(***************************************************************************)

\* A build of everything makes of each artifact it takes up what is made
\* afresh, since what that reads is made so and nothing that failed is read.
LEMMA BuildMaking ==
  ASSUME TypeOK, Underway, AsBuilt, Building, NEW a \in Artifacts, Making(a)
  PROVE  /\ MadeNow(a) = Afresh(corpus, Nothing)[a]
         /\ library' \subseteq {Afresh(corpus, Nothing)[PROVED]}
         /\ a \in Begun /\ a \notin Before /\ a \in left /\ left' = left \ {a} /\ writing = None
         /\ a \notin marks
<1> DEFINE F == Afresh(corpus, Nothing)
<1>1. running /\ ~moved /\ wanted = Artifacts /\ a \in left /\ corpus \in Pages
  BY DEF Building, Making, TypeOK
<1>2. Closed(corpus, wanted)
  BY <1>1, NeedsArtifacts DEF Closed
<1>3. /\ wave \in 1..Last /\ Before = Waved(corpus, wanted)[wave - 1]
      /\ a \in Begun /\ a \notin Before
  BY <1>1, LeftIsReady
<1>4. Before \subseteq Begun \ left /\ Before \subseteq Artifacts
  <2>1. Begun = Before \cup Ready(corpus, wanted, Before)
    BY <1>1, <1>3, WavesUnrolled DEF Begun
  <2>2. wave - 1 \in 0..Last
    BY <1>3, Counted
  <2>3. Before \subseteq Artifacts
    BY <1>1, <1>3, <2>2, WavesUnrolled
  <2> QED
    BY <1>1, <2>1, <2>3 DEF Underway
<1>5. \A x \in Artifacts : TextOf(F, Nothing)[x] = F[x]
  BY DEF TextOf, Nothing
<1>6. \A c \in Before : TextOf(made, tree)[c] = TextOf(F, Nothing)[c]
  <2> TAKE c \in Before
  <2>1. made[c] # None /\ made[c] = F[c] /\ c \in Artifacts
    BY <1>4 DEF AsBuilt
  <2> QED
    BY <1>5, <2>1 DEF TextOf
<1>7. PROVED \in Artifacts
  BY DEF Artifacts
<1>8. library \subseteq {TextOf(F, Nothing)[PROVED]}
  BY <1>5, <1>7 DEF AsBuilt
<1> HIDE DEF F
<1>9. MadeNow(a) = F[a] /\ library' \subseteq {TextOf(F, Nothing)[PROVED]}
  BY <1>1, <1>2, <1>6, <1>8, MakingAfresh DEF F
<1>10. a \notin marks
  BY <1>1 DEF AsBuilt
<1> QED
  BY <1>3, <1>5, <1>7, <1>9, <1>10 DEF F, Making

\* Every step keeps what a build of everything has made as made afresh.
LEMMA BuiltStep ==
  ASSUME TypeOK, Underway, AsBuilt, [Next]_vars PROVE AsBuilt'
<1> SUFFICES ASSUME Building' PROVE AsBuilt'
  BY DEF AsBuilt
<1>1. ASSUME NEW what, NEW wants, Start(what, wants) PROVE AsBuilt'
  <2>1. /\ wave' = 0 /\ made' = Nothing /\ marks' = {} /\ writing' = None /\ library' = {}
        /\ wanted' \in SUBSET Artifacts
    BY <1>1 DEF Start, Building
  <2>2. Begun' = {}
    BY <2>1, WavesUnrolled DEF Begun
  <2> QED
    BY <2>1, <2>2 DEF AsBuilt, Nothing
<1>2. CASE NextWave
  <2>1. /\ Building /\ ~failed /\ left = {} /\ writing = None /\ wave' = wave + 1
        /\ Waved(corpus, wanted)[wave] # wanted /\ ~Stuck(corpus, wanted)
        /\ left' = Waves(corpus, wanted)[wave + 1]
        /\ UNCHANGED <<tree, corpus, wanted, made, library, marks, failed, writing>>
    BY <1>2 DEF NextWave, Stops, Building, asked, answer, Underway
  <2>2. wave \in 0..Last /\ wave # Last /\ wanted \in SUBSET Artifacts
    BY <2>1 DEF TypeOK, Stuck, Last
  <2>3. wave + 1 \in 1..Last /\ (wave + 1) - 1 = wave /\ wave + 1 # 0
    BY <2>2, Counted
  <2>4. Before' = Begun /\ Begun \subseteq Begun' /\ left' = Begun' \ Begun
    BY <2>1, <2>2, <2>3, WavesUnrolled DEF Before, Begun, Waves, Last
  <2>5. Begun' \ left' = Begun \ left
    BY <2>1, <2>4
  <2> QED
    BY <2>1, <2>4, <2>5 DEF AsBuilt
<1>3. CASE Wrote
  <2>1. Building /\ Begun' = Begun /\ Before' = Before
    BY <1>3 DEF Wrote, Building, Begun, Before, asked
  <2>2. /\ writing # None /\ writing' = None /\ writing \in Begun \ left /\ made[writing] # None
        /\ writing \notin marks /\ writing \in Artifacts
        /\ UNCHANGED <<left, made, library, corpus>>
    BY <1>3, <2>1 DEF Wrote, AsBuilt, asked, TypeOK
  <2>3. failed => failed'
    BY <1>3 DEF Wrote
  <2>4. \A a \in marks' : a \in Begun \ left /\ made[a] # None /\ tree'[a] = made[a]
    BY <1>3, <2>1, <2>2 DEF Wrote, AsBuilt, TypeOK, OnArtifacts
  <2> QED
    BY <2>1, <2>2, <2>3, <2>4 DEF AsBuilt
<1>4. CASE End \/ Kill
  BY <1>4 DEF End, Kill, Over, Building
<1>5. CASE EditSource \/ EditTree
  BY <1>5 DEF EditSource, EditTree, Building
<1>6. ASSUME NEW a \in Artifacts, Fail(a) \/ Same(a) \/ Differs(a) \/ Write(a) PROVE AsBuilt'
  <2>1. Making(a) /\ UNCHANGED <<running, asked, wave, moved>>
    BY <1>6 DEF Fail, FailSaying, Same, Differs, Write
  <2>2. Building /\ kind = "build" /\ Begun' = Begun /\ Before' = Before /\ corpus' = corpus
    BY <2>1 DEF Building, Begun, Before, asked
  <2>3. /\ MadeNow(a) = Afresh(corpus, Nothing)[a]
        /\ library' \subseteq {Afresh(corpus, Nothing)[PROVED]}
        /\ a \in Begun /\ a \notin Before /\ a \in left /\ left' = left \ {a} /\ writing = None
        /\ a \notin marks
    BY <2>1, <2>2, BuildMaking
  <2>4. CASE Fail(a)
    <3>1. failed' = TRUE /\ UNCHANGED <<made, marks, tree, writing>>
      BY <2>2, <2>4 DEF Fail, FailSaying
    <3> QED
      BY <2>2, <2>3, <3>1 DEF AsBuilt
  <2>5. ASSUME \/ Same(a) /\ marks' = marks \cup {a} /\ UNCHANGED <<tree, writing, failed>> /\ tree[a] = MadeNow(a)
               \/ Write(a),
               MadeNow(a) # None,
               made' = [made EXCEPT ![a] = MadeNow(a)]
        PROVE  AsBuilt'
    <3>1. made'[a] = MadeNow(a) /\ \A b \in Artifacts : b # a => made'[b] = made[b]
      BY <2>5 DEF TypeOK, OnArtifacts
    <3>2. \A b \in Artifacts : made'[b] \in {None, Afresh(corpus, Nothing)[b]}
      BY <2>2, <2>3, <3>1 DEF AsBuilt
    <3>3. Begun \subseteq Artifacts /\ marks \subseteq Artifacts
      BY WavesUnrolled DEF Begun, TypeOK
    <3>4. failed => failed'
      BY <2>5 DEF Write
    <3>5. \A b \in Begun \ left' : made'[b] # None \/ (failed' /\ b \notin Before)
      BY <2>2, <2>3, <2>5, <3>1, <3>3, <3>4 DEF AsBuilt
    <3>6. \A b \in marks' : b \in Begun \ left' /\ made'[b] # None /\ tree'[b] = made'[b]
      BY <2>2, <2>3, <2>5, <3>1, <3>3 DEF AsBuilt, Write, TypeOK, OnArtifacts
    <3>7. writing' # None => writing' \in (Begun \ left') \ marks' /\ made'[writing'] # None
      BY <2>2, <2>3, <2>5, <3>1, <3>3 DEF Write
    <3> QED
      BY <2>2, <2>3, <3>2, <3>5, <3>6, <3>7 DEF AsBuilt
  <2>6. CASE Same(a)
    BY <2>2, <2>5, <2>6 DEF Same
  <2>7. CASE Write(a)
    BY <2>5, <2>7 DEF Write
  <2>8. ~Differs(a)
    BY <2>2 DEF Differs
  <2> QED
    BY <1>6, <2>4, <2>6, <2>7, <2>8
<1>7. CASE UNCHANGED vars
  BY <1>7 DEF vars, asked, answer, AsBuilt, Building, Begun, Before
<1> QED
  BY <1>1, <1>2, <1>3, <1>4, <1>5, <1>6, <1>7
     DEF Next, Step, BuildAll, BuildOne, Gate, GateEdited

(***************************************************************************)
(* The gate's fresh build                                                  *)
(***************************************************************************)

\* The gate makes of each artifact it takes up what is made afresh beside
\* the tree, since it makes first all that what it takes up reads.
LEMMA GateMaking ==
  ASSUME TypeOK, Underway, AsGated, Gating, NEW a \in Artifacts, Making(a)
  PROVE  /\ MadeNow(a) = Afresh(corpus, tree)[a]
         /\ library' \subseteq {TextOf(Afresh(corpus, tree), tree)[PROVED]}
         /\ a \in Begun /\ a \in left /\ left' = left \ {a}
         /\ made[a] = None /\ a \notin differ
<1> DEFINE F == Afresh(corpus, tree)
<1>1. /\ running /\ ~moved /\ kind = "gate" /\ a \in left /\ corpus \in Pages
      /\ wanted \in SUBSET Artifacts
  BY DEF Gating, Making, TypeOK
<1>2. Closed(corpus, wanted)
  BY <1>1 DEF Underway
<1>3. /\ wave \in 1..Last /\ Before = Waved(corpus, wanted)[wave - 1]
      /\ a \in Begun /\ a \notin Before
  BY <1>1, LeftIsReady
<1>4. Before \subseteq Begun \ left /\ Before \subseteq Artifacts
  <2>1. Begun = Before \cup Ready(corpus, wanted, Before)
    BY <1>1, <1>3, WavesUnrolled DEF Begun
  <2>2. wave - 1 \in 0..Last
    BY <1>3, Counted
  <2>3. Before \subseteq Artifacts
    BY <1>1, <1>3, <2>2, WavesUnrolled
  <2> QED
    BY <1>1, <2>1, <2>3 DEF Underway
<1>5. \A c \in Before : TextOf(made, tree)[c] = TextOf(F, tree)[c]
  <2> TAKE c \in Before
  <2>1. made[c] = F[c] /\ c \in Artifacts
    BY <1>4 DEF AsGated
  <2> QED
    BY <2>1 DEF TextOf
<1>6. library \subseteq {TextOf(F, tree)[PROVED]}
  BY DEF AsGated
<1> HIDE DEF F
<1>7. MadeNow(a) = F[a] /\ library' \subseteq {TextOf(F, tree)[PROVED]}
  BY <1>1, <1>2, <1>5, <1>6, MakingAfresh DEF F
<1>8. made[a] = None /\ a \notin differ
  BY <1>1 DEF AsGated
<1> QED
  BY <1>3, <1>7, <1>8 DEF F, Making

\* Every step keeps what a gate has made as made afresh beside the tree, and
\* what it says of it true.
LEMMA GatedStep ==
  ASSUME TypeOK, Underway, AsGated, [Next]_vars PROVE AsGated'
<1> SUFFICES ASSUME Gating' PROVE AsGated'
  BY DEF AsGated
<1>1. ASSUME NEW what, NEW wants, Start(what, wants) PROVE AsGated'
  <2>1. /\ wave' = 0 /\ made' = Nothing /\ differ' = {} /\ library' = {}
        /\ (running' => wanted' = wants)
    BY <1>1 DEF Start
  <2>2. wanted' \in SUBSET Artifacts
    BY <1>1, ShapeStep DEF TypeOK
  <2>3. Begun' = {}
    BY <2>1, <2>2, WavesUnrolled DEF Begun
  <2> QED
    BY <2>1, <2>3 DEF AsGated, Nothing
<1>2. CASE NextWave
  <2>1. /\ Gating /\ left = {} /\ wave' = wave + 1
        /\ Waved(corpus, wanted)[wave] # wanted /\ ~Stuck(corpus, wanted)
        /\ left' = Waves(corpus, wanted)[wave + 1]
        /\ UNCHANGED <<tree, corpus, wanted, made, library, differ>>
    BY <1>2 DEF NextWave, Gating, asked, answer, Underway
  <2>2. wave \in 0..Last /\ wave # Last /\ wanted \in SUBSET Artifacts
    BY <2>1 DEF TypeOK, Stuck, Last
  <2>3. wave + 1 \in 1..Last /\ (wave + 1) - 1 = wave /\ wave + 1 # 0
    BY <2>2, Counted
  <2>4. Begun \subseteq Begun' /\ left' = Begun' \ Begun
    BY <2>1, <2>2, <2>3, WavesUnrolled DEF Begun, Waves, Last
  <2>5. Begun' \ left' = Begun \ left
    BY <2>1, <2>4
  <2> QED
    BY <2>1, <2>5 DEF AsGated
<1>3. ~Wrote
  BY DEF Wrote, Gating, Underway, asked
<1>4. CASE End \/ Kill
  BY <1>4 DEF End, Kill, Over, Gating
<1>5. CASE EditSource \/ EditTree
  BY <1>5 DEF EditSource, EditTree, Gating
<1>6. ASSUME NEW a \in Artifacts, Fail(a) \/ Same(a) \/ Differs(a) \/ Write(a) PROVE AsGated'
  <2>1. Making(a) /\ UNCHANGED <<running, asked, wave, moved>>
    BY <1>6 DEF Fail, FailSaying, Same, Differs, Write
  <2>2. Gating /\ kind = "gate" /\ Begun' = Begun /\ corpus' = corpus
    BY <2>1 DEF Gating, Begun, asked
  <2>3. /\ MadeNow(a) = Afresh(corpus, tree)[a]
        /\ library' \subseteq {TextOf(Afresh(corpus, tree), tree)[PROVED]}
        /\ a \in Begun /\ a \in left /\ left' = left \ {a}
        /\ made[a] = None /\ a \notin differ
    BY <2>1, <2>2, GateMaking
  <2>4. ~Write(a)
    BY <2>2 DEF Write
  <2>5. tree' = tree
    BY <1>6, <2>4 DEF Fail, FailSaying, Same, Differs
  <2>6. /\ made'[a] = MadeNow(a) /\ \A b \in Artifacts : b # a => made'[b] = made[b]
        /\ a \in differ' <=> made'[a] = None \/ made'[a] # tree[a]
        /\ differ \subseteq differ' /\ differ' \subseteq differ \cup {a}
    <3>1. CASE Fail(a)
      BY <2>2, <2>3, <3>1 DEF Fail, FailSaying
    <3>2. CASE Same(a)
      BY <2>3, <3>2 DEF Same, TypeOK, OnArtifacts
    <3>3. CASE Differs(a)
      BY <2>3, <3>3 DEF Differs, TypeOK, OnArtifacts
    <3> QED
      BY <1>6, <2>4, <3>1, <3>2, <3>3
  <2>7. Begun \subseteq Artifacts
    BY WavesUnrolled DEF Begun, TypeOK
  <2>8. Begun \ left' = (Begun \ left) \cup {a} /\ a \notin Begun \ left
    BY <2>3
  <2>9. ASSUME NEW b \in Begun \ left'
        PROVE  /\ made'[b] = Afresh(corpus, tree)[b]
               /\ b \in differ' <=> made'[b] = None \/ made'[b] # tree[b]
    BY <2>2, <2>3, <2>6, <2>7, <2>8, <2>9 DEF AsGated
  <2>10. \A b \in Artifacts : b \notin Begun \ left' => made'[b] = None
    BY <2>2, <2>6, <2>8 DEF AsGated
  <2>11. differ' \subseteq Begun \ left'
    BY <2>2, <2>6, <2>8 DEF AsGated
  <2> QED
    BY <2>2, <2>3, <2>5, <2>9, <2>10, <2>11 DEF AsGated
<1>7. CASE UNCHANGED vars
  BY <1>7 DEF vars, asked, answer, AsGated, Gating, Begun
<1> QED
  BY <1>1, <1>2, <1>3, <1>4, <1>5, <1>6, <1>7
     DEF Next, Step, BuildAll, BuildOne, Gate, GateEdited

(***************************************************************************)
(* What a run leaves                                                       *)
(***************************************************************************)

\* A run that answers has ended, been refused, or is asked for.
LEMMA Answered ==
  ASSUME TypeOK, Underway, [Next]_vars, ~running', ~moved', status' \in {0, 1}
  PROVE  \/ status' = 1 /\ wanted' = {} /\ differ' = {}
         \/ End
         \/ ~running /\ ~moved /\ UNCHANGED <<kind, wanted, status, page, tree, differ>>
<1>1. ASSUME NEW what, NEW wants, Start(what, wants)
      PROVE  status' = 1 /\ wanted' = {} /\ differ' = {}
  BY <1>1, BuildAssumption DEF Start
<1>2. CASE NextWave \/ Wrote
  BY <1>2 DEF NextWave, Wrote
<1>3. CASE Kill
  BY <1>3, BuildAssumption DEF Kill
<1>4. CASE EditSource \/ EditTree
  BY <1>4 DEF EditSource, EditTree
<1>5. ASSUME NEW a \in Artifacts, Fail(a) \/ Same(a) \/ Differs(a) \/ Write(a) PROVE FALSE
  BY <1>5 DEF Fail, FailSaying, Same, Differs, Write, Making
<1>6. CASE UNCHANGED vars
  BY <1>6 DEF vars, asked, answer
<1> QED
  BY <1>1, <1>2, <1>3, <1>4, <1>5, <1>6 DEF Next, Step, BuildAll, BuildOne, Gate, GateEdited

\* A build that ends with all of its artifacts marked leaves them as made
\* afresh.
LEMMA BuiltFreshStep ==
  ASSUME TypeOK, Underway, AsBuilt, BuiltIsFresh, [Next]_vars PROVE BuiltIsFresh'
<1> SUFFICES ASSUME ~running', kind' = "build", wanted' = Artifacts, status' = 0, ~moved'
             PROVE  /\ tree' = Afresh(page', Nothing)
                    /\ \A a \in Artifacts : tree'[a] # None
  BY DEF BuiltIsFresh
<1>1. CASE End
  <2>1. running /\ kind = "build" /\ wanted = Artifacts /\ ~moved /\ page' = page /\ tree' = tree
    BY <1>1 DEF End, Over
  <2>2. marks = Artifacts
    BY <1>1, <2>1 DEF End, Answer
  <2>3. \A a \in Artifacts : tree[a] # None /\ tree[a] = Afresh(corpus, Nothing)[a]
    BY <2>1, <2>2 DEF AsBuilt, Building
  <2>4. OnArtifacts(tree) /\ OnArtifacts(Afresh(corpus, Nothing)) /\ corpus = page
    BY <2>1, AfreshShape DEF TypeOK, Underway
  <2>5. tree = Afresh(corpus, Nothing)
    BY <2>3, <2>4, Zenon DEF OnArtifacts
  <2> QED
    BY <2>1, <2>3, <2>4, <2>5
<1>2. CASE ~running /\ ~moved /\ UNCHANGED <<kind, wanted, status, page, tree, differ>>
  BY <1>2 DEF BuiltIsFresh
<1> QED
  BY <1>1, <1>2, Answered

\* A gate that ends has compared all it makes with what is made afresh.
LEMMA GreenStep ==
  ASSUME TypeOK, Underway, AsGated, GreenIsFresh, [Next]_vars PROVE GreenIsFresh'
<1> SUFFICES ASSUME ~running', kind' = "gate", ~moved', status' \in {0, 1} PROVE GreenIsFresh'
  BY DEF GreenIsFresh
<1>1. CASE status' = 1 /\ wanted' = {} /\ differ' = {}
  <2>1. wanted' # Artifacts
    BY <1>1 DEF Artifacts
  <2> QED
    BY <1>1, <2>1 DEF GreenIsFresh
<1>2. CASE End
  <2> DEFINE F == Afresh(page, Nothing)
  <2> DEFINE G == Afresh(page, tree)
  <2>1. /\ running /\ kind = "gate" /\ ~moved /\ left = {}
        /\ UNCHANGED <<page, tree, wanted, differ>> /\ corpus = page /\ page \in Pages
        /\ ~Stuck(corpus, wanted) /\ wanted \in SUBSET Artifacts
    BY <1>2 DEF End, Over, Underway, TypeOK
  <2>2. Begun = wanted
    BY <1>2, <2>1 DEF End, Stops, Begun
  <2>3. \A a \in wanted : a \in differ <=> (G[a] = None \/ G[a] # tree[a])
    BY <2>1, <2>2 DEF AsGated, Gating
  <2>4. status' = 0 <=> differ = {}
    BY <1>2, <2>1 DEF End, Answer
  <2>5. differ \subseteq wanted
    BY DEF TypeOK
  <2> HIDE DEF F, G
  <2>6. ASSUME wanted = Artifacts
        PROVE  status' = 0 <=> \A a \in Artifacts : tree[a] # None /\ tree[a] = F[a]
    <3>1. status' = 0 <=> \A a \in Artifacts : tree[a] # None /\ tree[a] = G[a]
      BY <2>3, <2>4, <2>5, <2>6
    <3>2. ASSUME \/ \A a \in Artifacts : tree[a] = G[a]
                 \/ \A a \in Artifacts : tree[a] = F[a]
          PROVE  \A a \in Artifacts : G[a] = F[a]
      BY <2>1, <2>6, <3>2, AfreshAgree DEF F, G
    <3> QED
      BY <3>1, <3>2
  <2> QED
    BY <2>1, <2>3, <2>6 DEF GreenIsFresh, F, G
<1>3. CASE ~running /\ ~moved /\ UNCHANGED <<kind, wanted, status, page, tree, differ>>
  BY <1>3 DEF GreenIsFresh
<1> QED
  BY <1>1, <1>2, <1>3, Answered

(***************************************************************************)
(* The theorems                                                            *)
(***************************************************************************)

\* The inductive invariant.
Inv == TypeOK /\ Underway /\ AsBuilt /\ AsGated /\ BuiltIsFresh /\ GreenIsFresh

\* It holds of every run of builds and gates.
LEMMA Invariant == Spec => []Inv
<1>1. Init => Inv
  <2> SUFFICES ASSUME Init PROVE Inv
    OBVIOUS
  <2>1. AsBuilt /\ AsGated
    BY DEF Init, AsBuilt, Building, AsGated, Gating
  <2>2. BuiltIsFresh /\ GreenIsFresh
    BY BuildAssumption DEF Init, BuiltIsFresh, GreenIsFresh
  <2> QED
    BY <2>1, <2>2, InitShape DEF Inv
<1>2. Inv /\ [Next]_vars => Inv'
  BY ShapeStep, BuiltStep, GatedStep, BuiltFreshStep, GreenStep DEF Inv
<1> QED
  BY <1>1, <1>2, PTL DEF Spec

\* The variables keep their types: what is left, marked or said to differ is
\* always of what the run makes, and no run has more waves than artifacts.
THEOREM TypeCorrect == Spec => []TypeOK
  BY Invariant, PTL DEF Inv

\* A build of everything that answers 0 (run, in src/src/tools/build.rs)
\* leaves the tree a build in an empty tree makes, whatever files, stale,
\* edited or half written, it started from.
THEOREM BuildsAreFresh == Spec => []BuiltIsFresh
  BY Invariant, PTL DEF Inv

\* Whatever a build of everything has made, even where it failed on the way,
\* is what a build in an empty tree makes: the waves after a failure are not
\* begun (run, in src/src/tools/build.rs), so no old file of what failed is read.
THEOREM NeverMadeOfStale == Spec => []NeverStale
<1>1. Inv => NeverStale
  <2> SUFFICES ASSUME Inv, kind = "build", wanted = Artifacts, ~moved, NEW a \in Artifacts
               PROVE  made[a] \in {None, Afresh(page, Nothing)[a]}
    BY DEF NeverStale
  <2>1. CASE running
    BY <2>1 DEF Inv, AsBuilt, Building, Underway
  <2>2. CASE ~running
    BY <2>2 DEF Inv, Underway, Nothing
  <2> QED
    BY <2>1, <2>2 DEF Inv, TypeOK
<1> QED
  BY <1>1, Invariant, PTL

\* The gate (built_as, in src/src/tools/gate.rs) is green exactly over a tree
\* a build in an empty tree makes, and what it says of an artifact after an
\* edit, making only what the edit reaches (reached_by), is what it says
\* making everything.
THEOREM GreenMeansFresh == Spec => []GreenIsFresh
  BY Invariant, PTL DEF Inv

=============================================================================
