---------------------------- MODULE BuilderProofs ----------------------------
(***************************************************************************)
(* Proofs about Builder and Library.                                       *)
(*                                                                         *)
(* Builder: for any labels and signatures, however addresses are freed and *)
(* taken again, what is kept of a step is what the step says, and `fault`  *)
(* says a fault of a proof exactly where there is one.  The argument: a    *)
(* step is made after its parts, so that walking from a step to its parts  *)
(* comes to an end within as many parts as steps were made; and a step     *)
(* made later than anything kept of its address is not the step that is    *)
(* kept.                                                                   *)
(*                                                                         *)
(* Library: for any variables and statements, each assertion is read with  *)
(* its frame.  The argument: the lowest d scopes of the stack, put         *)
(* together, are what the statements in force of blocks fewer than d deep  *)
(* say, for each d; a block closed uncovers such a part of the stack.      *)
(***************************************************************************)
EXTENDS Builder, Library, Induction

\* Each step in a heap is one there may be, and its parts are steps there,
\* made before it.
Grounded(h) ==
  /\ h \in [Addresses -> Steps \cup {None}]
  /\ \A a \in At(h) : \A k \in Range(h[a].kids) : k \in At(h) /\ h[k].born < h[a].born

\* What a step in a heap is.
LEMMA StepShape ==
  ASSUME NEW h, Grounded(h), NEW a \in At(h)
  PROVE  /\ a \in Addresses /\ h[a] \in Steps
         /\ h[a].label \in Labels /\ h[a].kids \in [1..Arity(h[a].label) -> Addresses]
         /\ h[a].born \in 1..MaxBorn
<1>1. a \in Addresses /\ h[a] \in Steps
  BY DEF Grounded, At
<1>2. PICK l \in Labels : h[a] \in [label : {l}, kids : [1..Arity(l) -> Addresses], born : 1..MaxBorn]
  BY <1>1 DEF Steps
<1>3. h[a].label = l /\ h[a].kids \in [1..Arity(l) -> Addresses] /\ h[a].born \in 1..MaxBorn
  BY <1>2
<1> QED
  BY <1>1, <1>3

(***************************************************************************)
(* Walking from steps to their parts                                       *)
(***************************************************************************)

\* The walk, unrolled.
LEMMA ThroughUnrolled ==
  ASSUME NEW h, NEW among, NEW roots
  PROVE  /\ Through(h, among, roots)[0] = roots \cap among
         /\ \A n \in 1..MaxBorn :
              Through(h, among, roots)[n] =
                Through(h, among, roots)[n - 1]
                  \cup (among \cap UNION {Range(h[a].kids) : a \in Through(h, among, roots)[n - 1]})
<1> DEFINE Deeper(d) == d \cup (among \cap UNION {Range(h[a].kids) : a \in d})
<1> DEFINE Body(f, i) == IF i = 0 THEN roots \cap among ELSE Deeper(f[i - 1])
<1>1. MaxBorn \in Nat
  BY BuilderAssumption
<1> DEFINE T == {n \in Nat : \E f : f = [i \in 0..n |-> Body(f, i)]}
<1>2. 0 \in T
  <2>1. [i \in 0..0 |-> roots \cap among] = [i \in 0..0 |-> Body([j \in 0..0 |-> roots \cap among], i)]
    OBVIOUS
  <2> QED
    BY <2>1
<1>3. ASSUME NEW n \in Nat, n \in T PROVE n + 1 \in T
  <2>1. PICK f : f = [i \in 0..n |-> Body(f, i)]
    BY <1>3
  <2> HIDE DEF Deeper
  <2>2. \A i \in 0..n : f[i] = Body(f, i)
    BY <2>1
  <2> DEFINE g == [i \in 0..(n + 1) |-> IF i <= n THEN f[i] ELSE Deeper(f[n])]
  <2>3. \A i \in 0..n : g[i] = f[i]
    OBVIOUS
  <2>4. g[n + 1] = Deeper(f[n])
    OBVIOUS
  <2>5. g = [i \in 0..(n + 1) |-> g[i]]
    OBVIOUS
  <2> HIDE DEF g
  <2>6. ASSUME NEW i \in 0..(n + 1) PROVE g[i] = Body(g, i)
    <3>1. CASE i = 0
      BY <2>2, <2>3, <3>1
    <3>2. CASE i \in 1..n
      <4>1. g[i] = f[i] /\ g[i - 1] = f[i - 1] /\ f[i] = Body(f, i)
        BY <2>2, <2>3, <3>2
      <4> QED
        BY <3>2, <4>1
    <3>3. CASE i = n + 1
      <4>1. g[i - 1] = f[n] /\ i # 0
        BY <2>3, <3>3
      <4> QED
        BY <2>4, <3>3, <4>1
    <3> QED
      BY <3>1, <3>2, <3>3
  <2>7. g = [i \in 0..(n + 1) |-> Body(g, i)]
    BY <2>5, <2>6, Zenon
  <2>8. g = [i \in 0..(n + 1) |-> IF i = 0 THEN roots \cap among ELSE Deeper(g[i - 1])]
    BY <2>7
  <2> QED
    BY <2>8 DEF Deeper
<1>4. MaxBorn \in T
  <2> HIDE DEF T
  <2> QED
    BY <1>1, <1>2, <1>3, SetInduction
<1> DEFINE W == Through(h, among, roots)
<1>5. W = [i \in 0..MaxBorn |-> Body(W, i)]
  BY <1>4, Zenon DEF Through
<1> HIDE DEF Deeper, W
<1>6. \A i \in 0..MaxBorn : W[i] = Body(W, i)
  BY <1>5, Zenon
<1>7. W[0] = roots \cap among
  BY <1>1, <1>6
<1>8. \A n \in 1..MaxBorn : W[n] = Deeper(W[n - 1])
  BY <1>1, <1>6
<1> QED
  BY <1>7, <1>8 DEF W, Deeper

\* The walk holds its roots and stays among the steps given, and whatever part
\* of a step come to is among these is come to: each part was made before.
LEMMA ThroughClosed ==
  ASSUME NEW h, Grounded(h), NEW among \in SUBSET At(h), NEW roots
  PROVE  /\ Through(h, among, roots)[MaxBorn] \subseteq among
         /\ roots \cap among \subseteq Through(h, among, roots)[MaxBorn]
         /\ \A a \in Through(h, among, roots)[MaxBorn] :
              Range(h[a].kids) \cap among \subseteq Through(h, among, roots)[MaxBorn]
<1> DEFINE W == Through(h, among, roots)
<1> DEFINE Late(n) == \A a \in W[n] : \/ Range(h[a].kids) \cap among \subseteq W[n]
                                      \/ h[a].born + n <= MaxBorn
<1> DEFINE Good(n) == /\ W[n] \subseteq among /\ roots \cap among \subseteq W[n]
                      /\ Late(n)
<1> DEFINE T == {n \in Nat : n <= MaxBorn => Good(n)}
<1>1. MaxBorn \in Nat
  BY BuilderAssumption
<1>2. /\ W[0] = roots \cap among
      /\ \A n \in 1..MaxBorn : W[n] = W[n - 1] \cup (among \cap UNION {Range(h[a].kids) : a \in W[n - 1]})
  BY ThroughUnrolled
<1> HIDE DEF W
<1>3. \A a \in among : h[a].born \in 1..MaxBorn
  BY StepShape
<1>4. \A a \in among : \A k \in Range(h[a].kids) \cap among : h[k].born < h[a].born
  BY DEF Grounded
<1>5. 0 \in T
  BY <1>1, <1>2, <1>3
<1>6. ASSUME NEW n \in Nat, n \in T PROVE n + 1 \in T
  <2> SUFFICES ASSUME n + 1 <= MaxBorn PROVE Good(n + 1)
    OBVIOUS
  <2>1. Good(n)
    BY <1>1, <1>6
  <2>2. W[n + 1] = W[n] \cup (among \cap UNION {Range(h[a].kids) : a \in W[n]})
    <3>1. n + 1 \in 1..MaxBorn /\ (n + 1) - 1 = n
      BY <1>1
    <3> QED
      BY <1>2, <3>1
  <2>3. W[n + 1] \subseteq among /\ roots \cap among \subseteq W[n + 1]
    BY <2>1, <2>2
  <2>4. ASSUME NEW a \in W[n + 1]
        PROVE  \/ Range(h[a].kids) \cap among \subseteq W[n + 1]
               \/ h[a].born + (n + 1) <= MaxBorn
    <3>1. CASE a \in W[n]
      BY <2>2, <3>1
    <3>2. CASE a \notin W[n]
      <4>1. PICK c \in W[n] : a \in Range(h[c].kids) \cap among
        BY <2>2, <3>2
      <4>2. h[c].born + n <= MaxBorn
        BY <2>1, <3>2, <4>1
      <4>3. h[a].born < h[c].born /\ h[a].born \in Nat /\ h[c].born \in Nat
        BY <1>3, <1>4, <2>1, <4>1
      <4> QED
        BY <1>1, <4>2, <4>3
    <3> QED
      BY <3>1, <3>2
  <2> QED
    BY <2>3, <2>4
<1>7. Good(MaxBorn)
  <2> HIDE DEF T
  <2>1. MaxBorn \in T
    BY <1>1, <1>5, <1>6, SetInduction
  <2> QED
    BY <1>1, <2>1 DEF T
<1>8. ASSUME NEW a \in W[MaxBorn] PROVE Range(h[a].kids) \cap among \subseteq W[MaxBorn]
  <2>1. h[a].born \in 1..MaxBorn
    BY <1>3, <1>7
  <2> QED
    BY <1>1, <1>7, <2>1
<1> QED
  BY <1>7, <1>8 DEF W

\* It comes to nothing more.
LEMMA ThroughLeast ==
  ASSUME NEW h, NEW among, NEW roots, NEW D,
         roots \cap among \subseteq D,
         \A a \in D : Range(h[a].kids) \cap among \subseteq D
  PROVE  Through(h, among, roots)[MaxBorn] \subseteq D
<1> DEFINE W == Through(h, among, roots)
<1> DEFINE T == {n \in Nat : n <= MaxBorn => W[n] \subseteq D}
<1>1. MaxBorn \in Nat
  BY BuilderAssumption
<1>2. /\ W[0] = roots \cap among
      /\ \A n \in 1..MaxBorn : W[n] = W[n - 1] \cup (among \cap UNION {Range(h[a].kids) : a \in W[n - 1]})
  BY ThroughUnrolled
<1> HIDE DEF W
<1>3. 0 \in T
  BY <1>2
<1>4. ASSUME NEW n \in Nat, n \in T PROVE n + 1 \in T
  <2> SUFFICES ASSUME n + 1 <= MaxBorn PROVE W[n + 1] \subseteq D
    OBVIOUS
  <2>1. n + 1 \in 1..MaxBorn /\ (n + 1) - 1 = n /\ n <= MaxBorn
    BY <1>1
  <2>2. W[n + 1] = W[n] \cup (among \cap UNION {Range(h[a].kids) : a \in W[n]})
    BY <1>2, <2>1
  <2>3. W[n] \subseteq D
    BY <1>4, <2>1
  <2> QED
    BY <2>2, <2>3
<1>5. MaxBorn \in T
  <2> HIDE DEF T
  <2> QED
    BY <1>1, <1>3, <1>4, SetInduction
<1> QED
  BY <1>1, <1>5 DEF W

\* Two heaps that are alike on steps and all their parts.
Alike(g, h, D) ==
  /\ D \subseteq At(g) \cap At(h)
  /\ \A a \in D : g[a] = h[a] /\ Range(g[a].kids) \subseteq D

\* So what a step rests on there is the same in both.
LEMMA UnderAlike ==
  ASSUME NEW g, NEW h, NEW D, Grounded(g), Grounded(h), Alike(g, h, D),
         NEW roots \in SUBSET D
  PROVE  Under(g, roots) = Under(h, roots) /\ Under(g, roots) \subseteq D
<1>1. ASSUME NEW p, NEW q, Grounded(p), Grounded(q), Alike(p, q, D)
      PROVE  Under(p, roots) \subseteq D /\ Under(p, roots) \subseteq Under(q, roots)
  <2> DEFINE X == Under(q, roots)
  <2>1. X = Through(q, At(q), roots)[MaxBorn]
    BY DEF Under
  <2> HIDE DEF X
  <2>2. roots \subseteq X /\ \A a \in X : Range(q[a].kids) \cap At(q) \subseteq X
    <3>1. At(q) \in SUBSET At(q) /\ roots \subseteq At(q)
      BY <1>1 DEF Alike
    <3>2. roots \cap At(q) \subseteq X /\ \A a \in X : Range(q[a].kids) \cap At(q) \subseteq X
      BY <1>1, <2>1, ThroughClosed
    <3> QED
      BY <3>1, <3>2
  <2>3. \A a \in X \cap D : Range(p[a].kids) \cap At(p) \subseteq X \cap D
    BY <1>1, <2>2 DEF Alike
  <2>4. roots \cap At(p) \subseteq X \cap D
    BY <2>2
  <2>5. Through(p, At(p), roots)[MaxBorn] \subseteq X \cap D
    BY <2>3, <2>4, ThroughLeast
  <2> QED
    BY <2>5 DEF Under, X
<1>2. Alike(h, g, D)
  BY DEF Alike
<1> QED
  BY <1>1, <1>2

\* Under a step of a heap is the step, and with each step all its parts.
LEMMA UnderClosed ==
  ASSUME NEW h, Grounded(h), NEW roots \in SUBSET At(h)
  PROVE  /\ roots \subseteq Under(h, roots)
         /\ Under(h, roots) \subseteq At(h)
         /\ \A a \in Under(h, roots) : Range(h[a].kids) \subseteq Under(h, roots)
<1> DEFINE X == Under(h, roots)
<1>1. X = Through(h, At(h), roots)[MaxBorn]
  BY DEF Under
<1> HIDE DEF X
<1>2. At(h) \in SUBSET At(h) /\ roots \cap At(h) = roots
  OBVIOUS
<1>3. /\ X \subseteq At(h) /\ roots \cap At(h) \subseteq X
      /\ \A a \in X : Range(h[a].kids) \cap At(h) \subseteq X
  BY <1>1, ThroughClosed
<1>4. \A a \in X : Range(h[a].kids) \subseteq At(h)
  BY <1>3 DEF Grounded
<1> QED
  BY <1>2, <1>3, <1>4 DEF X

(***************************************************************************)
(* What steps say                                                          *)
(***************************************************************************)

\* What each step says, unrolled: a step's parts were made before it.
LEMMA SaysUnrolled ==
  ASSUME NEW h, Grounded(h), NEW kept, NEW afresh, NEW a \in At(h)
  PROVE  SaysWith(h, kept, afresh)[a] =
           IF a \in afresh \/ a \notin DOMAIN kept
           THEN Applied(h[a].label, KidsSay(h, SaysWith(h, kept, afresh), a))
           ELSE kept[a].says
<1> DEFINE Body(f, b) ==
      IF b \in afresh \/ b \notin DOMAIN kept THEN Applied(h[b].label, KidsSay(h, f, b))
      ELSE kept[b].says
<1> DEFINE Old(n) == {b \in At(h) : h[b].born <= n}
<1> DEFINE T == {n \in Nat : \E f : f = [b \in Old(n) |-> Body(f, b)]}
<1>1. MaxBorn \in Nat
  BY BuilderAssumption
<1>2. \A b \in At(h) : h[b].born \in 1..MaxBorn
  BY StepShape
<1>3. 0 \in T
  <2>1. Old(0) = {}
    BY <1>2
  <2>2. [b \in {} |-> 0] = [b \in Old(0) |-> Body([c \in {} |-> 0], b)]
    BY <2>1
  <2> QED
    BY <2>2
<1>4. ASSUME NEW n \in Nat, n \in T PROVE n + 1 \in T
  <2>1. PICK f : f = [b \in Old(n) |-> Body(f, b)]
    BY <1>4
  <2>2. \A b \in Old(n) : f[b] = Body(f, b)
    BY <2>1
  <2> DEFINE g == [b \in Old(n + 1) |-> IF b \in Old(n) THEN f[b] ELSE Body(f, b)]
  <2>3. \A b \in Old(n) : b \in Old(n + 1)
    BY <1>2
  <2>4. \A b \in Old(n + 1) : g[b] = Body(f, b)
    BY <2>2
  <2>5. \A b \in Old(n) : g[b] = f[b]
    BY <2>3
  <2>6. g = [b \in Old(n + 1) |-> g[b]]
    OBVIOUS
  <2>7. ASSUME NEW b \in Old(n + 1) PROVE KidsSay(h, g, b) = KidsSay(h, f, b)
    <3>1. \A k \in Range(h[b].kids) : k \in Old(n)
      <4> TAKE k \in Range(h[b].kids)
      <4>1. k \in At(h) /\ h[k].born < h[b].born
        BY DEF Grounded
      <4>2. h[k].born \in Nat /\ h[b].born \in Nat /\ h[b].born <= n + 1
        BY <1>2, <4>1
      <4> QED
        BY <4>1, <4>2
    <3>2. \A i \in DOMAIN h[b].kids : g[h[b].kids[i]] = f[h[b].kids[i]]
      <4> HIDE DEF g, Old
      <4> QED
        BY <2>5, <3>1 DEF Range
    <3> HIDE DEF g
    <3> QED
      BY <3>2 DEF KidsSay
  <2> HIDE DEF g, Old
  <2>8. \A b \in Old(n + 1) : g[b] = Body(g, b)
    BY <2>4, <2>7
  <2>9. g = [b \in Old(n + 1) |-> Body(g, b)]
    BY <2>6, <2>8, Zenon
  <2> QED
    BY <2>9
<1>5. MaxBorn \in T
  <2> HIDE DEF T
  <2> QED
    BY <1>1, <1>3, <1>4, SetInduction
<1>6. Old(MaxBorn) = At(h)
  BY <1>2
<1>7. \E f : f = [b \in At(h) |-> Body(f, b)]
  <2> HIDE DEF Old, Body
  <2> QED
    BY <1>5, <1>6
<1> DEFINE S == SaysWith(h, kept, afresh)
<1>8. S = [b \in At(h) |-> Body(S, b)]
  BY <1>7, Zenon DEF SaysWith
<1> HIDE DEF S
<1>9. S[a] = Body(S, a)
  BY <1>8, Zenon
<1> QED
  BY <1>9 DEF S

\* Two ways of working out what steps say, in two heaps: each step is worked
\* out both ways, as are its parts, or says the same both ways.
Agreed(g, k, E, h, m, F, D) ==
  /\ D \subseteq At(g) \cap At(h)
  /\ \A a \in D : /\ g[a] = h[a]
                  /\ \/ a \in E /\ a \in F /\ Range(g[a].kids) \subseteq D
                     \/ SaysWith(g, k, E)[a] = SaysWith(h, m, F)[a]

\* Then the steps say the same both ways.
LEMMA SaysAlike ==
  ASSUME NEW g, NEW h, NEW k, NEW m, NEW E, NEW F, NEW D, Grounded(g), Grounded(h),
         Agreed(g, k, E, h, m, F, D)
  PROVE  \A a \in D : SaysWith(g, k, E)[a] = SaysWith(h, m, F)[a]
<1> DEFINE P == SaysWith(g, k, E)
<1> DEFINE Q == SaysWith(h, m, F)
<1>1. \A a \in At(g) : P[a] = IF a \in E \/ a \notin DOMAIN k THEN Applied(g[a].label, KidsSay(g, P, a))
                               ELSE k[a].says
  BY SaysUnrolled
<1>2. \A a \in At(h) : Q[a] = IF a \in F \/ a \notin DOMAIN m THEN Applied(h[a].label, KidsSay(h, Q, a))
                               ELSE m[a].says
  BY SaysUnrolled
<1>3. /\ D \subseteq At(g) \cap At(h) /\ \A a \in D : g[a] = h[a]
      /\ \A a \in D : (a \in E /\ a \in F /\ Range(g[a].kids) \subseteq D) \/ P[a] = Q[a]
  BY DEF Agreed
<1> HIDE DEF P, Q
<1> DEFINE T == {n \in Nat : \A a \in D : g[a].born <= n => P[a] = Q[a]}
<1>4. \A a \in D : g[a].born \in 1..MaxBorn
  BY <1>3, StepShape
<1>5. MaxBorn \in Nat
  BY BuilderAssumption
<1>6. 0 \in T
  BY <1>4, <1>5
<1>7. ASSUME NEW n \in Nat, n \in T PROVE n + 1 \in T
  <2> SUFFICES ASSUME NEW a \in D, g[a].born <= n + 1, P[a] # Q[a] PROVE FALSE
    OBVIOUS
  <2>1. a \in E /\ a \in F /\ Range(g[a].kids) \subseteq D
    BY <1>3
  <2>2. \A c \in Range(g[a].kids) : g[c].born <= n
    <3> TAKE c \in Range(g[a].kids)
    <3>1. g[c].born < g[a].born /\ g[c].born \in Nat /\ g[a].born \in Nat
      BY <1>3, <1>4, <2>1 DEF Grounded
    <3> QED
      BY <3>1
  <2>3. \A i \in DOMAIN g[a].kids : P[g[a].kids[i]] = Q[g[a].kids[i]]
    BY <1>7, <2>1, <2>2 DEF Range
  <2>4. KidsSay(g, P, a) = KidsSay(h, Q, a)
    BY <1>3, <2>3 DEF KidsSay
  <2>5. a \in At(g) /\ a \in At(h) /\ g[a] = h[a]
    BY <1>3
  <2> QED
    BY <1>1, <1>2, <2>1, <2>4, <2>5
<1>8. MaxBorn \in T
  <2> HIDE DEF T
  <2> QED
    BY <1>5, <1>6, <1>7, SetInduction
<1> QED
  BY <1>4, <1>8 DEF P, Q

\* Where two heaps are alike, a step is applied as its label says in one where
\* it is in the other.
LEMMA SoundAlike ==
  ASSUME NEW g, NEW h, NEW D, Grounded(g), Grounded(h), Alike(g, h, D),
         NEW a \in D, NEW kids
  PROVE  Sound(g, a, kids) = Sound(h, a, kids)
<1>1. a \in At(g) /\ g[a] = h[a] /\ Range(g[a].kids) \subseteq D
  BY DEF Alike
<1>2. /\ g[a].label \in Labels /\ g[a].kids \in [1..Arity(g[a].label) -> Addresses]
  BY <1>1, StepShape
<1>3. ASSUME NEW x \in D PROVE Variables(g, x) = Variables(h, x)
  <2>1. Under(g, {x}) = Under(h, {x}) /\ Under(g, {x}) \subseteq D
    BY UnderAlike
  <2>2. \A b \in Under(g, {x}) : g[b] = h[b]
    BY <2>1 DEF Alike
  <2> QED
    BY <2>1, <2>2 DEF Variables
<1> DEFINE sig == Sigs[g[a].label]
<1>4. \A pair \in sig.apart : g[a].kids[pair[1]] \in D /\ g[a].kids[pair[2]] \in D
  <2> TAKE pair \in sig.apart
  <2> DEFINE n == Len(sig.floats)
  <2>1. pair \in (1..n) \X (1..n) /\ n \in Nat /\ Len(sig.essentials) \in Nat
    BY <1>2, BuilderAssumption
  <2>2. pair[1] \in 1..n /\ pair[2] \in 1..n
    BY <2>1
  <2>3. Arity(g[a].label) = n + Len(sig.essentials)
    BY DEF Arity
  <2>4. pair[1] \in 1..Arity(g[a].label) /\ pair[2] \in 1..Arity(g[a].label)
    <3> HIDE DEF n, sig
    <3> QED
      BY <2>1, <2>2, <2>3
  <2>5. DOMAIN g[a].kids = 1..Arity(g[a].label)
    BY <1>2
  <2> QED
    BY <1>1, <2>4, <2>5 DEF Range
<1>5. \A pair \in sig.apart :
        /\ Variables(g, g[a].kids[pair[1]]) = Variables(h, h[a].kids[pair[1]])
        /\ Variables(g, g[a].kids[pair[2]]) = Variables(h, h[a].kids[pair[2]])
  BY <1>1, <1>3, <1>4
<1> QED
  BY <1>1, <1>5 DEF Sound

(***************************************************************************)
(* The invariant                                                           *)
(***************************************************************************)

\* The heap is grounded, and what names a step names one that is there.
TypeOK ==
  /\ Grounded(heap)
  /\ born \in 0..MaxBorn /\ held \subseteq Live
  /\ \A k \in DOMAIN terms : terms[k] \in Live
  /\ DOMAIN said \subseteq Addresses
  /\ stopped \in BOOLEAN /\ answer \in BOOLEAN /\ asked \in Live \cup {None}

\* A step, and what is kept of one, is of a step already made.
Births ==
  /\ \A a \in Live : heap[a].born <= born
  /\ \A a \in DOMAIN said : said[a].born \in 1..born

\* Whatever a known step rests on is known, and until a fault is said a known
\* step is applied as its label says.
Settled ==
  \A a \in Live : Known(a) =>
    /\ \A k \in Range(heap[a].kids) : Known(k)
    /\ ~stopped => Sound(heap, a, KidsSay(heap, Saying, a))

\* The two parts of KnownIsTrue.
KeptIsSaid == \A a \in Live : Known(a) => said[a].says = Saying[a]
TermsStand == \A k \in DOMAIN terms : LET at == heap[terms[k]] IN at # None /\ <<at.label, at.kids>> = k

Inv == TypeOK /\ Births /\ Settled /\ KeptIsSaid /\ TermsStand /\ FaultExact

\* It holds of a builder that has made nothing.
LEMMA InvInit == ASSUME Init PROVE Inv
<1>1. MaxBorn \in Nat /\ None \notin Addresses
  BY BuilderAssumption
<1>2. Live = {} /\ DOMAIN terms = {} /\ DOMAIN said = {} /\ asked = None
  BY DEF Init, Live, At
<1>3. Grounded(heap)
  BY DEF Init, Grounded, At
<1>4. born \in 0..MaxBorn
  BY <1>1 DEF Init
<1>5. held = {} /\ stopped \in BOOLEAN /\ answer \in BOOLEAN
  BY Zenon DEF Init
<1>6. TypeOK /\ Births
  BY <1>2, <1>3, <1>4, <1>5 DEF TypeOK, Births
<1> QED
  BY <1>2, <1>6 DEF Inv, Settled, KeptIsSaid, TermsStand, FaultExact

\* Whether something is kept of a step is a matter of that step and of what is
\* kept: steps that were there and are there still are known as they were, and
\* say what they said, so that with no other step known all that was so of
\* known steps is.
LEMMA LaterHeap ==
  ASSUME Inv, Grounded(heap'), UNCHANGED <<said, stopped>>,
         \A b \in Live \cap Live' : heap'[b] = heap[b],
         \A b \in Live' \ Live : ~Known(b)'
  PROVE  Settled' /\ KeptIsSaid'
<1> DEFINE D == Live \cap Live'
<1>1. Live = At(heap) /\ Live' = At(heap') /\ Grounded(heap)
  BY DEF Live, Inv, TypeOK
<1>2. Alike(heap, heap', D)
  <2>1. \A b \in D : Range(heap[b].kids) \subseteq D
    BY <1>1 DEF Grounded
  <2> QED
    BY <1>1, <2>1 DEF Alike
<1>3. \A b \in D : Known(b)' <=> Known(b)
  BY DEF Known
<1>4. \A b \in D : Saying'[b] = Saying[b]
  <2>1. Saying = SaysWith(heap, said, Live) /\ Saying' = SaysWith(heap', said', Live')
    BY DEF Saying
  <2>2. D \subseteq At(heap) \cap At(heap') /\ \A b \in D : heap[b] = heap'[b]
    BY <1>1
  <2>3. \A b \in D : b \in Live /\ b \in Live' /\ Range(heap[b].kids) \subseteq D
    BY <1>2 DEF Alike
  <2>4. Agreed(heap, said, Live, heap', said', Live', D)
    BY <2>2, <2>3 DEF Agreed
  <2> HIDE DEF D
  <2>5. \A b \in D : SaysWith(heap, said, Live)[b] = SaysWith(heap', said', Live')[b]
    BY <1>1, <2>4, SaysAlike
  <2> QED
    BY <2>1, <2>5
<1>5. KeptIsSaid'
  BY <1>3, <1>4 DEF KeptIsSaid, Inv
<1>6. ASSUME NEW b \in D, Known(b)
      PROVE  /\ \A k \in Range(heap'[b].kids) : Known(k)'
             /\ ~stopped' => Sound(heap', b, KidsSay(heap', Saying', b))
  <2>1. heap'[b] = heap[b] /\ Range(heap[b].kids) \subseteq D
    BY <1>2 DEF Alike
  <2>2. \A k \in Range(heap[b].kids) : Known(k)
    BY <1>6 DEF Inv, Settled
  <2>3. KidsSay(heap', Saying', b) = KidsSay(heap, Saying, b)
    <3>1. \A i \in DOMAIN heap[b].kids : Saying'[heap[b].kids[i]] = Saying[heap[b].kids[i]]
      BY <1>4, <2>1 DEF Range
    <3> QED
      BY <2>1, <3>1 DEF KidsSay
  <2>4. ~stopped => Sound(heap, b, KidsSay(heap, Saying, b))
    BY <1>6 DEF Inv, Settled
  <2>5. Sound(heap, b, KidsSay(heap, Saying, b)) = Sound(heap', b, KidsSay(heap, Saying, b))
    BY <1>1, <1>2, SoundAlike
  <2> QED
    BY <1>3, <2>1, <2>2, <2>3, <2>4, <2>5
<1>7. Settled'
  BY <1>3, <1>6 DEF Settled
<1> QED
  BY <1>5, <1>7

(***************************************************************************)
(* The steps                                                               *)
(***************************************************************************)

\* A step made is of parts made before it, and later than anything kept.
LEMMA MakeKeeps ==
  ASSUME Inv, NEW label \in Labels, NEW kids \in Parts(label), Make(label, kids) PROVE Inv'
<1>1. /\ born \in Nat /\ born + 1 \in 1..MaxBorn /\ MaxBorn \in Nat /\ born' = born + 1
      /\ asked' = None /\ answer' = FALSE /\ UNCHANGED <<said, stopped>>
  BY BuilderAssumption DEF Make, Inv, TypeOK
<1>2. PICK a \in Addresses :
        /\ heap[a] = None
        /\ heap' = [heap EXCEPT ![a] = [label |-> label, kids |-> kids, born |-> born + 1]]
        /\ terms' = IF IsTerm(label)
                    THEN [k \in DOMAIN terms \cup {<<label, kids>>} |->
                            IF k = <<label, kids>> THEN a ELSE terms[k]]
                    ELSE terms
        /\ held' = IF IsTerm(label) THEN held ELSE held \cup {a}
  BY DEF Make
<1> DEFINE new == [label |-> label, kids |-> kids, born |-> born + 1]
<1>3. kids \in [1..Arity(label) -> Live]
  BY DEF Parts, Arity
<1>4. new \in Steps /\ new # None
  <2>1. new \in [label : {label}, kids : [1..Arity(label) -> Addresses], born : 1..MaxBorn]
    BY <1>1, <1>3 DEF Live, At
  <2> QED
    BY <2>1, BuilderAssumption DEF Steps
<1>5. Range(new.kids) \subseteq Live /\ new.born = born + 1 /\ new.label = label /\ new.kids = kids
  BY <1>3 DEF Range
<1> HIDE DEF new
<1>6. heap \in [Addresses -> Steps \cup {None}] /\ a \notin Live
  BY <1>2 DEF Inv, TypeOK, Grounded, Live, At
<1>7. heap' = [heap EXCEPT ![a] = new]
  BY <1>2 DEF new
<1>8. heap'[a] = new /\ \A b \in Addresses : b # a => heap'[b] = heap[b]
  BY <1>6, <1>7
<1>9. Live' = Live \cup {a}
  BY <1>2, <1>4, <1>8 DEF Live, At
<1>10. \A b \in Live : heap'[b] = heap[b] /\ heap[b].born \in Nat /\ heap[b].born <= born
  <2>1. \A b \in Live : heap[b].born \in 1..MaxBorn
    BY StepShape DEF Inv, TypeOK, Live
  <2> QED
    BY <1>1, <1>6, <1>8, <2>1 DEF Inv, Births, Live, At
<1>11. Grounded(heap')
  <2>1. heap' \in [Addresses -> Steps \cup {None}]
    BY <1>4, <1>6, <1>7
  <2>2. ASSUME NEW b \in At(heap'), NEW k \in Range(heap'[b].kids)
        PROVE  k \in At(heap') /\ heap'[k].born < heap'[b].born
    <3>1. CASE b = a
      <4>1. k \in Live /\ heap'[b].born = born + 1
        BY <1>5, <1>8, <2>2, <3>1
      <4> QED
        BY <1>1, <1>9, <1>10, <4>1 DEF Live
    <3>2. CASE b # a
      <4>1. b \in Live /\ heap'[b] = heap[b]
        BY <1>9, <1>10, <3>2 DEF Live
      <4>2. k \in Live /\ heap[k].born < heap[b].born
        BY <2>2, <4>1 DEF Inv, TypeOK, Grounded, Live
      <4> QED
        BY <1>9, <1>10, <4>1, <4>2 DEF Live
    <3> QED
      BY <3>1, <3>2
  <2> QED
    BY <2>1, <2>2 DEF Grounded
<1>12. Births'
  <2>1. \A b \in Live' : heap'[b].born <= born'
    BY <1>1, <1>5, <1>8, <1>9, <1>10
  <2>2. \A b \in DOMAIN said' : said'[b].born \in 1..born'
    BY <1>1 DEF Inv, Births
  <2> QED
    BY <2>1, <2>2 DEF Births
<1>13. Settled' /\ KeptIsSaid'
  <2>1. ~Known(a)'
    BY <1>1, <1>5, <1>8 DEF Inv, Births, Known
  <2>2. \A b \in Live' \ Live : ~Known(b)'
    BY <1>9, <2>1
  <2>3. \A b \in Live \cap Live' : heap'[b] = heap[b]
    BY <1>10
  <2> QED
    BY <1>1, <1>11, <2>2, <2>3, LaterHeap
<1>14. \A k \in DOMAIN terms' : terms'[k] \in Live' /\ LET at == heap'[terms'[k]] IN <<at.label, at.kids>> = k
  <2>1. \A k \in DOMAIN terms : terms[k] \in Live /\ <<heap[terms[k]].label, heap[terms[k]].kids>> = k
    BY DEF Inv, TypeOK, TermsStand
  <2>2. \A k \in DOMAIN terms : terms[k] \in Live' /\ <<heap'[terms[k]].label, heap'[terms[k]].kids>> = k
    BY <1>9, <1>10, <2>1
  <2>3. CASE ~IsTerm(label)
    BY <1>2, <2>2, <2>3
  <2>4. CASE IsTerm(label)
    <3>1. terms' = [k \in DOMAIN terms \cup {<<label, kids>>} |->
                      IF k = <<label, kids>> THEN a ELSE terms[k]]
      BY <1>2, <2>4
    <3>2. a \in Live' /\ <<heap'[a].label, heap'[a].kids>> = <<label, kids>>
      BY <1>5, <1>8, <1>9
    <3> QED
      BY <2>2, <3>1, <3>2
  <2> QED
    BY <2>3, <2>4
<1>15. TermsStand'
  BY <1>14 DEF TermsStand, Live, At
<1>16. TypeOK'
  <2>1. held' \subseteq Live'
    BY <1>2, <1>9 DEF Inv, TypeOK
  <2>2. born' \in 0..MaxBorn
    BY <1>1
  <2>3. answer' \in BOOLEAN /\ stopped' \in BOOLEAN /\ DOMAIN said' \subseteq Addresses
    BY <1>1, Zenon DEF Inv, TypeOK
  <2> QED
    BY <1>1, <1>11, <1>14, <2>1, <2>2, <2>3, Zenon DEF TypeOK
<1> QED
  BY <1>1, <1>12, <1>13, <1>15, <1>16 DEF Inv, FaultExact

\* What a dropped proof leaves is closed, and holds what is held and every term.
LEMMA DropKeeps == ASSUME Inv, NEW a \in Addresses, Drop(a) PROVE Inv'
<1> DEFINE X == Under(heap, Roots(held \ {a}))
<1>1. /\ held' = held \ {a} /\ asked' = None /\ answer' = FALSE
      /\ heap' = [b \in Addresses |-> IF b \in X THEN heap[b] ELSE None]
      /\ UNCHANGED <<born, terms, said, stopped>>
  BY DEF Drop
<1>2. Grounded(heap) /\ heap \in [Addresses -> Steps \cup {None}]
  BY DEF Inv, TypeOK, Grounded
<1>3. /\ Roots(held \ {a}) \subseteq X /\ X \subseteq Live
      /\ \A b \in X : Range(heap[b].kids) \subseteq X
  <2>1. Roots(held \ {a}) \in SUBSET At(heap)
    BY DEF Inv, TypeOK, Roots, Live
  <2> QED
    BY <1>2, <2>1, UnderClosed DEF Live
<1> HIDE DEF X
<1>4. X \subseteq Addresses /\ \A b \in X : heap[b] # None
  BY <1>3 DEF Live, At
<1>5. Live' = X /\ \A b \in X : heap'[b] = heap[b]
  BY <1>1, <1>4 DEF Live, At
<1>6. Grounded(heap')
  <2>1. heap' \in [Addresses -> Steps \cup {None}]
    BY <1>1, <1>2
  <2>2. \A b \in X : \A k \in Range(heap'[b].kids) : k \in X /\ heap'[k].born < heap'[b].born
    BY <1>2, <1>3, <1>5 DEF Grounded, Live
  <2> QED
    BY <1>5, <2>1, <2>2 DEF Grounded, Live
<1>7. Births'
  BY <1>1, <1>3, <1>5 DEF Inv, Births
<1>8. Settled' /\ KeptIsSaid'
  <2>1. \A b \in Live' \ Live : ~Known(b)'
    BY <1>3, <1>5
  <2>2. \A b \in Live \cap Live' : heap'[b] = heap[b]
    BY <1>5
  <2> QED
    BY <1>1, <1>6, <2>1, <2>2, LaterHeap
<1>9. \A k \in DOMAIN terms' : terms'[k] \in Live'
  BY <1>1, <1>3, <1>5 DEF Roots
<1>10. TermsStand'
  BY <1>1, <1>4, <1>5, <1>9 DEF Inv, TermsStand
<1>11. TypeOK'
  <2>1. held' \subseteq Live'
    BY <1>1, <1>3, <1>5 DEF Roots
  <2>2. /\ answer' \in BOOLEAN /\ stopped' \in BOOLEAN /\ DOMAIN said' \subseteq Addresses
        /\ born' \in 0..MaxBorn
    BY <1>1, Zenon DEF Inv, TypeOK
  <2> QED
    BY <1>1, <1>6, <1>9, <2>1, <2>2, Zenon DEF TypeOK
<1> QED
  BY <1>1, <1>7, <1>8, <1>10, <1>11 DEF Inv, FaultExact

\* The steps worked out are those nothing is kept of, reached through others
\* of them; what they rest on besides is known, and what is kept of it is what
\* it says.  So what is worked out is what the steps say, and a step under the
\* proof that is not applied as its label says is one of them.
LEMMA FaultKeeps == ASSUME Inv, NEW a \in Addresses, Fault(a) PROVE Inv'
<1> DEFINE among == {b \in Live : ~Known(b)}
<1> DEFINE fresh == Unknown(a)
<1> DEFINE says == SaysWith(heap, said, fresh)
<1> DEFINE refused == \E b \in fresh : ~Sound(heap, b, KidsSay(heap, says, b))
<1>1. /\ ~stopped /\ a \in held
      /\ said' = [b \in DOMAIN said \cup fresh |->
                    IF b \in fresh THEN [born |-> heap[b].born, says |-> says[b]] ELSE said[b]]
      /\ (answer' = refused) /\ (stopped' = refused) /\ asked' = a
      /\ UNCHANGED <<heap, born, held, terms>>
  BY DEF Fault
<1>2. /\ Grounded(heap) /\ Live = At(heap) /\ Live' = Live /\ a \in Live
      /\ \A b \in Live : Range(heap[b].kids) \subseteq Live
  BY <1>1 DEF Inv, TypeOK, Grounded, Live
<1>3. /\ fresh \subseteq among /\ {a} \cap among \subseteq fresh
      /\ \A b \in fresh : Range(heap[b].kids) \cap among \subseteq fresh
  <2>1. among \in SUBSET At(heap)
    BY <1>2
  <2> HIDE DEF among
  <2>2. Grounded(heap)
    BY <1>2
  <2> QED
    BY <2>1, <2>2, ThroughClosed DEF Unknown, among
<1> DEFINE D == {b \in Live : Known(b)} \cup fresh
<1>4. D \subseteq Live /\ \A b \in D : Range(heap[b].kids) \subseteq D
  <2>1. ASSUME NEW b \in Live, Known(b) PROVE Range(heap[b].kids) \subseteq D
    BY <1>2, <2>1 DEF Inv, Settled
  <2>2. ASSUME NEW b \in fresh PROVE Range(heap[b].kids) \subseteq D
    BY <1>2, <1>3
  <2> QED
    BY <1>3, <2>1, <2>2
<1> HIDE DEF fresh
<1>5. \A b \in D : says[b] = Saying[b]
  <2>1. ASSUME NEW b \in Live, Known(b) PROVE says[b] = Saying[b]
    <3>1. b \notin fresh /\ b \in DOMAIN said
      BY <1>3, <2>1 DEF Known
    <3>2. says[b] = said[b].says
      BY <1>2, <3>1, SaysUnrolled
    <3> QED
      BY <2>1, <3>2 DEF Inv, KeptIsSaid
  <2>2. \A b \in fresh : b \in fresh /\ b \in Live /\ Range(heap[b].kids) \subseteq D
    BY <1>4
  <2>3. Saying = SaysWith(heap, said, Live)
    BY DEF Saying
  <2>4. Agreed(heap, said, fresh, heap, said, Live, D)
    BY <1>2, <1>4, <2>1, <2>2, <2>3 DEF Agreed
  <2> HIDE DEF D, says
  <2>5. \A b \in D : SaysWith(heap, said, fresh)[b] = SaysWith(heap, said, Live)[b]
    BY <1>2, <2>4, SaysAlike
  <2> QED
    BY <2>3, <2>5 DEF says
<1> HIDE DEF says
<1>6. \A b \in fresh : KidsSay(heap, says, b) = KidsSay(heap, Saying, b)
  <2> TAKE b \in fresh
  <2>1. Range(heap[b].kids) \subseteq D
    BY <1>4
  <2>2. \A i \in DOMAIN heap[b].kids : says[heap[b].kids[i]] = Saying[heap[b].kids[i]]
    BY <1>5, <2>1 DEF Range
  <2> QED
    BY <2>2 DEF KidsSay
<1>7. refused <=> \E b \in fresh : ~Sound(heap, b, KidsSay(heap, Saying, b))
  BY <1>6
<1> HIDE DEF refused
<1>8. \A b \in Live : Saying'[b] = Saying[b]
  <2>1. Saying = SaysWith(heap, said, Live) /\ Saying' = SaysWith(heap, said', Live)
    BY <1>1, <1>2 DEF Saying
  <2>2. Agreed(heap, said, Live, heap, said', Live, Live)
    BY <1>2 DEF Agreed
  <2>3. \A b \in Live : SaysWith(heap, said, Live)[b] = SaysWith(heap, said', Live)[b]
    BY <1>2, <2>2, SaysAlike
  <2> QED
    BY <2>1, <2>3
<1>9. \A b \in Live : KidsSay(heap, Saying', b) = KidsSay(heap, Saying, b)
  <2> TAKE b \in Live
  <2>1. \A i \in DOMAIN heap[b].kids : Saying'[heap[b].kids[i]] = Saying[heap[b].kids[i]]
    BY <1>2, <1>8 DEF Range
  <2> QED
    BY <2>1 DEF KidsSay
<1>10. \A b \in Live : Known(b)' <=> b \in D
  <2> TAKE b \in Live
  <2>1. heap[b] # None
    BY DEF Live, At
  <2>2. CASE b \in fresh
    <3>1. b \in DOMAIN said' /\ said'[b].born = heap[b].born
      BY <1>1, <2>2
    <3> QED
      BY <1>1, <2>1, <2>2, <3>1 DEF Known
  <2>3. CASE b \notin fresh
    <3>1. (b \in DOMAIN said' <=> b \in DOMAIN said) /\ (b \in DOMAIN said => said'[b] = said[b])
      BY <1>1, <2>3
    <3> QED
      BY <1>1, <2>3, <3>1 DEF Known
  <2> QED
    BY <2>2, <2>3
<1>11. KeptIsSaid'
  <2> SUFFICES ASSUME NEW b \in Live, b \in D PROVE said'[b].says = Saying[b]
    BY <1>2, <1>8, <1>10 DEF KeptIsSaid
  <2>1. CASE b \in fresh
    BY <1>1, <1>5, <2>1
  <2>2. CASE b \notin fresh
    <3>1. Known(b) /\ b \in DOMAIN said
      BY <2>2 DEF Known
    <3> QED
      BY <1>1, <2>2, <3>1 DEF Inv, KeptIsSaid
  <2> QED
    BY <2>1, <2>2
<1>12. ASSUME NEW b \in D, ~Sound(heap, b, KidsSay(heap, Saying, b)) PROVE b \in fresh
  BY <1>1, <1>12 DEF Inv, Settled
<1>13. Settled'
  <2> SUFFICES ASSUME NEW b \in Live, b \in D
               PROVE  /\ \A k \in Range(heap[b].kids) : Known(k)'
                      /\ ~stopped' => Sound(heap, b, KidsSay(heap, Saying, b))
    BY <1>1, <1>2, <1>9, <1>10 DEF Settled
  <2>1. \A k \in Range(heap[b].kids) : Known(k)'
    BY <1>4, <1>10
  <2>2. ~stopped' => Sound(heap, b, KidsSay(heap, Saying, b))
    BY <1>1, <1>7, <1>12
  <2> QED
    BY <2>1, <2>2
<1>14. fresh \subseteq Under(heap, {a})
  <2> DEFINE X == Under(heap, {a})
  <2>1. {a} \subseteq X /\ \A b \in X : Range(heap[b].kids) \subseteq X
    <3>1. {a} \in SUBSET At(heap)
      BY <1>2
    <3> QED
      BY <1>2, <3>1, UnderClosed
  <2> HIDE DEF X, among
  <2>2. {a} \cap among \subseteq X /\ \A b \in X : Range(heap[b].kids) \cap among \subseteq X
    BY <2>1
  <2>3. Through(heap, among, {a})[MaxBorn] \subseteq X
    BY <2>2, ThroughLeast
  <2> QED
    BY <2>3 DEF X, fresh, Unknown, among
<1>15. Under(heap, {a}) \subseteq D
  <2>1. {a} \cap At(heap) \subseteq D
    BY <1>2, <1>3
  <2> HIDE DEF D
  <2>2. \A b \in D : Range(heap[b].kids) \cap At(heap) \subseteq D
    BY <1>4
  <2>3. Through(heap, At(heap), {a})[MaxBorn] \subseteq D
    BY <2>1, <2>2, ThroughLeast
  <2> QED
    BY <2>3 DEF Under
<1>16. FaultExact'
  <2>1. \A b \in Under(heap, {a}) : KidsSay(heap, Saying', b) = KidsSay(heap, Saying, b)
    BY <1>4, <1>9, <1>15
  <2>2. answer' <=> \E b \in Under(heap, {a}) : ~Sound(heap, b, KidsSay(heap, Saying, b))
    BY <1>1, <1>7, <1>12, <1>14, <1>15
  <2>3. answer' <=> \E b \in Under(heap, {a}) : ~Sound(heap, b, KidsSay(heap, Saying', b))
    BY <2>1, <2>2
  <2> QED
    BY <1>1, <2>3 DEF FaultExact
<1>17. Births'
  <2>1. \A b \in fresh : heap[b].born \in 1..born
    <3>1. \A b \in Live : heap[b].born \in 1..MaxBorn /\ heap[b].born <= born
      BY <1>2, StepShape DEF Inv, Births
    <3>2. born \in Nat
      BY BuilderAssumption DEF Inv, TypeOK
    <3> QED
      BY <1>3, <3>1, <3>2, BuilderAssumption
  <2>2. \A b \in DOMAIN said' : said'[b].born \in 1..born'
    BY <1>1, <2>1 DEF Inv, Births
  <2> QED
    BY <1>1, <1>2, <2>2 DEF Inv, Births
<1>18. TypeOK' /\ TermsStand'
  <2>1. answer' \in BOOLEAN /\ stopped' \in BOOLEAN
    BY <1>1, Zenon DEF refused
  <2>2. DOMAIN said' \subseteq Addresses
    BY <1>1, <1>2, <1>3 DEF Inv, TypeOK, At
  <2>3. asked' \in Live'
    BY <1>1, <1>2
  <2>4. born' \in 0..MaxBorn /\ held' \subseteq Live' /\ \A k \in DOMAIN terms' : terms'[k] \in Live'
    BY <1>1, <1>2, Zenon DEF Inv, TypeOK
  <2>5. TypeOK'
    BY <1>1, <1>2, <2>1, <2>2, <2>3, <2>4, Zenon DEF TypeOK
  <2>6. TermsStand'
    BY <1>1 DEF Inv, TermsStand
  <2> QED
    BY <2>5, <2>6
<1> QED
  BY <1>11, <1>13, <1>16, <1>17, <1>18 DEF Inv

\* Every step of the builder keeps the invariant.
LEMMA InvStep == ASSUME Inv, [Next]_vars PROVE Inv'
<1>1. CASE UNCHANGED vars
  <2>1. UNCHANGED <<heap, born, held, terms, said, stopped, asked, answer>>
    BY <1>1 DEF vars
  <2> QED
    BY <2>1 DEF Inv, TypeOK, Births, Settled, KeptIsSaid, TermsStand, FaultExact, Known, Live, Saying
<1>2. CASE Next
  BY <1>2, MakeKeeps, DropKeeps, FaultKeeps DEF Next
<1> QED
  BY <1>1, <1>2

\* The invariant holds throughout.
LEMMA Invariant == Spec => []Inv
<1>1. Init => Inv
  BY InvInit
<1>2. Inv /\ [Next]_vars => Inv'
  BY InvStep
<1> QED
  BY <1>1, <1>2, PTL DEF Spec

(***************************************************************************)
(* The theorems                                                            *)
(***************************************************************************)

\* What the builder holds, has made or asks about is a step that is there, and
\* the parts of a step are steps there made before it: no step is freed that
\* another rests on.
THEOREM TypeCorrect == Spec => []TypeOK
  BY Invariant, PTL DEF Inv

\* What Builder::says keeps of an address is what the step there says, however
\* often the address was freed and taken again; and a term is found by its
\* label and parts only as itself.
THEOREM KeptIsTrue == Spec => []KnownIsTrue
<1>1. Inv => KnownIsTrue
  BY DEF Inv, KnownIsTrue, KeptIsSaid, TermsStand
<1> QED
  BY <1>1, Invariant, PTL

\* Builder::fault says a fault of a proof exactly where a step under it is not
\* applied as its label says, whatever was asked before and whatever was
\* dropped since.
THEOREM FaultsAreExact == Spec => []FaultExact
  BY Invariant, PTL DEF Inv

(***************************************************************************)
(* Library: what is in force, block by block                               *)
(***************************************************************************)

\* The keywords a statement read may have, and those of them that open and
\* close a block.
Keys == {"block", "end", "v", "d", "f", "e", "a"}
Marks == {"block", "end"}
\* What a statement may write.
Names == Symbols \cup {"class"} \cup UNION {Range(body) : body \in Bodies}
\* A statement as it is kept, and a scope of the stack.
Statement == [key : Keys, body : Seq(Names)]
ScopeSet ==
  [variables : SUBSET Names, floats : Seq(Seq(Names)), essentials : Seq(Seq(Names)),
   disjoint : SUBSET SUBSET Names]

\* However many statements were read, the blocks open are so many.
LEMMA DepthInt ==
  ASSUME NEW k \in Nat
  PROVE  Depth(k) \in Int
<1> DEFINE In == {j \in 1..k : stream[j].key = "block"}
           Out == {j \in 1..k : stream[j].key = "end"}
<1>1. IsFiniteSet(1..k)
  BY FS_Interval
<1>2. IsFiniteSet(In) /\ IsFiniteSet(Out)
  <2>1. In \subseteq 1..k /\ Out \subseteq 1..k
    OBVIOUS
  <2> HIDE DEF In, Out
  <2> QED
    BY <1>1, <2>1, FS_Subset
<1>4. Depth(k) = Cardinality(In) - Cardinality(Out)
  BY DEF Depth
<1> HIDE DEF In, Out
<1>3. Cardinality(In) \in Nat /\ Cardinality(Out) \in Nat
  BY <1>2, FS_CardinalityType
<1> QED
  BY <1>3, <1>4

\* What was read stays, and what is read comes after it.
Comes(key, body) ==
  /\ stream \in Seq(Statement) /\ key \in Keys /\ body \in Seq(Names)
  /\ stream' = Append(stream, [key |-> key, body |-> body])

\* A statement comes at the end, and what was read stays where it was.
LEMMA ComesAfter ==
  ASSUME NEW key, NEW body, Comes(key, body)
  PROVE  /\ stream' \in Seq(Statement) /\ Len(stream') = Len(stream) + 1 /\ Len(stream) \in Nat
         /\ \A j \in 1..Len(stream) : stream'[j] = stream[j]
         /\ stream'[Len(stream) + 1].key = key /\ stream'[Len(stream) + 1].body = body
<1> DEFINE s == [key |-> key, body |-> body]
<1>1. s \in Statement
  BY DEF Comes, Statement
<1>2. s.key = key /\ s.body = body
  OBVIOUS
<1> HIDE DEF s
<1>3. stream' = Append(stream, s)
  BY DEF Comes, s
<1> QED
  BY <1>1, <1>2, <1>3 DEF Comes

\* How many blocks were open after what was read is not changed by what is
\* read later.
LEMMA DepthStays ==
  ASSUME NEW key, NEW body, Comes(key, body), NEW k \in 0..Len(stream)
  PROVE  Depth(k)' = Depth(k)
<1>1. \A j \in 1..k : stream'[j] = stream[j]
  BY ComesAfter
<1>2. {j \in 1..k : stream'[j].key = "block"} = {j \in 1..k : stream[j].key = "block"}
  BY <1>1
<1>3. {j \in 1..k : stream'[j].key = "end"} = {j \in 1..k : stream[j].key = "end"}
  BY <1>1
<1> QED
  BY <1>2, <1>3 DEF Depth

\* `${` opens one block more, `$}` closes one, and nothing else does either.
LEMMA DepthNext ==
  ASSUME NEW key, NEW body, Comes(key, body), NEW n \in Nat, n = Len(stream)
  PROVE  /\ key = "block" => Depth(n + 1)' = Depth(n) + 1
         /\ key = "end" => Depth(n + 1)' = Depth(n) - 1
         /\ key \notin Marks => Depth(n + 1)' = Depth(n)
         /\ Depth(n + 1)' \in Int
<1> DEFINE In == {j \in 1..n : stream[j].key = "block"}
           Out == {j \in 1..n : stream[j].key = "end"}
           In1 == {j \in 1..(n + 1) : stream'[j].key = "block"}
           Out1 == {j \in 1..(n + 1) : stream'[j].key = "end"}
<1>1. /\ n \in Nat /\ \A j \in 1..n : stream'[j] = stream[j]
      /\ stream'[n + 1].key = key
  BY ComesAfter
<1>2. IsFiniteSet(In) /\ IsFiniteSet(Out) /\ n + 1 \notin In /\ n + 1 \notin Out
  <2>1. IsFiniteSet(1..n)
    BY <1>1, FS_Interval
  <2>2. In \subseteq 1..n /\ Out \subseteq 1..n
    OBVIOUS
  <2>3. n + 1 \notin 1..n
    OBVIOUS
  <2> HIDE DEF In, Out
  <2> QED
    BY <2>1, <2>2, <2>3, FS_Subset
<1>3. 1..(n + 1) = (1..n) \cup {n + 1}
  BY <1>1
<1>4. In1 = IF key = "block" THEN In \cup {n + 1} ELSE In
  BY <1>1, <1>3
<1>5. Out1 = IF key = "end" THEN Out \cup {n + 1} ELSE Out
  BY <1>1, <1>3
<1>8. Depth(n) = Cardinality(In) - Cardinality(Out)
  BY DEF Depth
<1>9. Depth(n + 1)' = Cardinality(In1) - Cardinality(Out1)
  BY DEF Depth
<1> HIDE DEF In, Out, In1, Out1
<1>6. Cardinality(In \cup {n + 1}) = Cardinality(In) + 1 /\ Cardinality(In) \in Nat
  BY <1>2, FS_AddElement, FS_CardinalityType
<1>7. Cardinality(Out \cup {n + 1}) = Cardinality(Out) + 1 /\ Cardinality(Out) \in Nat
  BY <1>2, FS_AddElement, FS_CardinalityType
<1> QED
  <2> DEFINE a == Cardinality(In)
             b == Cardinality(Out)
  <2>0. a \in Nat /\ b \in Nat /\ Depth(n) = a - b
    BY <1>6, <1>7, <1>8
  <2>1. CASE key = "block"
    <3>1. In1 = In \cup {n + 1} /\ Out1 = Out
      BY <1>4, <1>5, <2>1 DEF Marks
    <3>2. Cardinality(In1) = a + 1 /\ Cardinality(Out1) = b
      BY <3>1, <1>6, <1>7
    <3>3. Depth(n + 1)' = (a + 1) - (b)
      BY <3>2, <1>9
    <3> HIDE DEF a, b
    <3>4. Depth(n + 1)' = Depth(n) + 1
      BY <2>0, <3>3
    <3>5. Depth(n + 1)' \in Int
      BY <2>0, <3>3
    <3> QED
      BY <3>4, <3>5, <2>1 DEF Marks
  <2>2. CASE key = "end"
    <3>1. In1 = In /\ Out1 = Out \cup {n + 1}
      BY <1>4, <1>5, <2>2 DEF Marks
    <3>2. Cardinality(In1) = a /\ Cardinality(Out1) = b + 1
      BY <3>1, <1>6, <1>7
    <3>3. Depth(n + 1)' = (a) - (b + 1)
      BY <3>2, <1>9
    <3> HIDE DEF a, b
    <3>4. Depth(n + 1)' = Depth(n) - 1
      BY <2>0, <3>3
    <3>5. Depth(n + 1)' \in Int
      BY <2>0, <3>3
    <3> QED
      BY <3>4, <3>5, <2>2 DEF Marks
  <2>3. CASE key \notin Marks
    <3>1. In1 = In /\ Out1 = Out
      BY <1>4, <1>5, <2>3 DEF Marks
    <3>2. Cardinality(In1) = a /\ Cardinality(Out1) = b
      BY <3>1, <1>6, <1>7
    <3>3. Depth(n + 1)' = (a) - (b)
      BY <3>2, <1>9
    <3> HIDE DEF a, b
    <3>4. Depth(n + 1)' = Depth(n)
      BY <2>0, <3>3
    <3>5. Depth(n + 1)' \in Int
      BY <2>0, <3>3
    <3> QED
      BY <3>4, <3>5, <2>3 DEF Marks
  <2> QED
    BY <2>1, <2>2, <2>3 DEF Marks

\* The statements of a keyword in force now, of blocks that fewer than d hold.
Below(key, d) == {j \in Standing(key, Len(stream)) : Depth(j) < d}

\* What was in force where a statement was read is told by what came before it.
LEMMA StandingStays ==
  ASSUME NEW key, NEW body, Comes(key, body), NEW k \in 1..Len(stream), NEW kind
  PROVE  Standing(kind, k)' = Standing(kind, k)
<1>1. \A j \in 1..Len(stream) : Depth(j)' = Depth(j)
  BY DepthStays, ComesAfter
<1>2. \A j \in 1..k : stream'[j] = stream[j] /\ j \in 1..Len(stream)
  BY ComesAfter
<1>3. \A j \in 1..k : InForce(j, k)' <=> InForce(j, k)
  <2> TAKE j \in 1..k
  <2>1. \A i \in j..k : i \in 1..Len(stream)
    BY ComesAfter
  <2> QED
    BY <1>1, <1>2, <2>1 DEF InForce
<1> QED
  BY <1>2, <1>3 DEF Standing

\* Of the blocks under the one a statement is read in, the statement leaves in
\* force what was; and a block closed ends what was said in it.
LEMMA BelowStep ==
  ASSUME NEW key, NEW body, Comes(key, body), NEW n \in Nat, n = Len(stream),
         NEW D, D = Depth(n + 1)', NEW kind, NEW d \in Int, d <= D + 1
  PROVE  Below(kind, d)' = Below(kind, d) \cup {j \in {n + 1} : key = kind /\ D < d}
<1>1. n \in Nat /\ Len(stream') = n + 1 /\ (\A j \in 1..n : stream'[j] = stream[j]) /\ stream'[n + 1].key = key
  BY ComesAfter
<1>2. \A j \in 1..n : Depth(j)' = Depth(j)
  BY <1>1, DepthStays
<1>3. D \in Int /\ \A j \in 1..n : Depth(j) \in Int
  <2>1. \A j \in Nat : Depth(j) \in Int
    BY DepthInt
  <2>2. D \in Int
    BY DepthNext
  <2> QED
    BY <1>1, <2>1, <2>2
<1>4. \A j \in 1..n : InForce(j, n + 1)' <=> InForce(j, n) /\ D >= Depth(j)
  <2> TAKE j \in 1..n
  <2>1. j..(n + 1) = (j..n) \cup {n + 1} /\ \A i \in j..n : i \in 1..n
    BY <1>1
  <2> QED
    BY <1>2, <2>1 DEF InForce
<1>5. InForce(n + 1, n + 1)'
  BY <1>1, <1>3 DEF InForce
<1>6. 1..(n + 1) = (1..n) \cup {n + 1}
  BY <1>1
<1>7. Below(kind, d)' = {j \in 1..(n + 1) : stream'[j].key = kind /\ InForce(j, n + 1)' /\ Depth(j)' < d}
  BY <1>1 DEF Below, Standing
<1>8. Below(kind, d) = {j \in 1..n : stream[j].key = kind /\ InForce(j, n) /\ Depth(j) < d}
  BY DEF Below, Standing
<1>9. \A j \in 1..n : j \in Below(kind, d)' <=> j \in Below(kind, d)
  BY <1>1, <1>2, <1>3, <1>4, <1>6, <1>7, <1>8
<1>10. n + 1 \in Below(kind, d)' <=> key = kind /\ D < d
  BY <1>1, <1>5, <1>6, <1>7
<1>11. Below(kind, d) \subseteq 1..n /\ Below(kind, d)' \subseteq (1..n) \cup {n + 1}
  BY <1>6, <1>7, <1>8
<1> QED
  BY <1>9, <1>10, <1>11

\* In force now is what is in force of blocks fewer than are open and one.
LEMMA BelowAll ==
  ASSUME Len(stream) \in Nat, NEW kind, NEW d \in Int, d > Depth(Len(stream))
  PROVE  Below(kind, d) = Standing(kind, Len(stream))
<1>1. \A j \in Nat : Depth(j) \in Int
  BY DepthInt
<1>2. \A j \in 1..Len(stream) : Len(stream) \in j..Len(stream)
  OBVIOUS
<1> QED
  BY <1>1, <1>2 DEF Below, Standing, InForce

\* What the statements of a keyword in force now say, of blocks that fewer
\* than d hold: in order, and as a set.
Told(kind, d) == Bodied(Sift([j \in 1..Len(stream) |-> j], Below(kind, d)))
Saids(kind, d) == {stream[j].body : j \in Below(kind, d)}

\* What statements in force say is a list of what may be written.
LEMMA ToldIs ==
  ASSUME stream \in Seq(Statement), NEW kind, NEW d
  PROVE  Told(kind, d) \in Seq(Seq(Names))
<1>1. PICK n \in Nat : n = Len(stream)
  OBVIOUS
<1>2. [j \in 1..n |-> j] \in Seq(1..n)
  OBVIOUS
<1>3. PICK P : P = Sift([j \in 1..n |-> j], Below(kind, d))
  OBVIOUS
<1>4. P \in Seq(1..n)
  BY <1>2, <1>3, SiftIs
<1>5. \A j \in 1..n : stream[j].body \in Seq(Names)
  <2>1. \A j \in 1..n : stream[j] \in Statement
    BY <1>1
  <2> QED
    BY <2>1 DEF Statement
<1>6. Told(kind, d) = [i \in DOMAIN P |-> stream[P[i]].body]
  BY <1>1, <1>3 DEF Told, Bodied
<1>7. DOMAIN P = 1..Len(P) /\ Len(P) \in Nat /\ \A i \in 1..Len(P) : P[i] \in 1..n
  BY <1>4
<1>8. \A i \in 1..Len(P) : stream[P[i]].body \in Seq(Names)
  BY <1>5, <1>7
<1> QED
  BY <1>6, <1>7, <1>8

\* What was told of some blocks is told still, and a statement in one of them
\* is told after it.
LEMMA ToldStep ==
  ASSUME NEW key, NEW body, Comes(key, body), NEW n \in Nat, n = Len(stream),
         NEW D, D = Depth(n + 1)', NEW kind, NEW d \in Int, d <= D + 1
  PROVE  /\ Told(kind, d)' = IF key = kind /\ D < d THEN Append(Told(kind, d), body)
                             ELSE Told(kind, d)
         /\ Saids(kind, d)' = IF key = kind /\ D < d THEN Saids(kind, d) \cup {body} ELSE Saids(kind, d)
<1> DEFINE s == [j \in 1..n |-> j]
           s1 == [j \in 1..(n + 1) |-> j]
           B == Below(kind, d)
<1>1. PICK B1 : B1 = Below(kind, d)'
  OBVIOUS
<1>2. B1 = B \cup {j \in {n + 1} : key = kind /\ D < d}
  BY <1>1, BelowStep
<1>3. B \subseteq 1..n
  BY DEF Below, Standing
<1>4. /\ Len(stream') = n + 1 /\ \A j \in 1..n : stream'[j] = stream[j]
      /\ stream'[n + 1].key = key /\ stream'[n + 1].body = body
      /\ stream \in Seq(Statement)
  BY ComesAfter DEF Comes
<1> HIDE DEF B
<1>5. s \in Seq(1..n) /\ s \in Seq(Nat) /\ s1 = Append(s, n + 1)
  OBVIOUS
<1>6. PICK P : P = Sift(s, B)
  OBVIOUS
<1>7. P \in Seq(1..n)
  <2> HIDE DEF s
  <2> QED
    BY <1>5, <1>6, SiftIs
<1>8. Sift(s, B1) = P
  <2>1. B1 \cap (1..n) = B \cap (1..n)
    BY <1>2, <1>3
  <2> HIDE DEF s
  <2>2. Sift(s, B1) = Sift(s, B)
    BY <1>5, <2>1, SiftSame, SMTT(30)
  <2> QED
    BY <1>6, <2>2
<1>9. n + 1 \in B1 <=> key = kind /\ D < d
  BY <1>2, <1>3
<1>10. Sift(s1, B1) = IF key = kind /\ D < d THEN Append(P, n + 1) ELSE P
  <2>1. Sift(Append(s, n + 1), B1) = IF n + 1 \in B1 THEN Append(Sift(s, B1), n + 1) ELSE Sift(s, B1)
    <3>1. PICK e \in Nat : e = n + 1
      OBVIOUS
    <3>2. s \in Seq(Nat)
      BY <1>5
    <3> HIDE DEF s
    <3>3. Sift(Append(s, e), B1) = IF e \in B1 THEN Append(Sift(s, B1), e) ELSE Sift(s, B1)
      BY <3>2, SiftAppend
    <3> QED
      BY <3>1, <3>3
  <2> HIDE DEF s, s1
  <2> QED
    BY <1>5, <1>8, <1>9, <2>1
<1>11. DOMAIN P = 1..Len(P) /\ Len(P) \in Nat /\ \A i \in 1..Len(P) : P[i] \in 1..n
  BY <1>7
<1>12. Told(kind, d) = [i \in 1..Len(P) |-> stream[P[i]].body]
  BY <1>6, <1>11 DEF Told, Bodied, B
<1>13. PICK P1 : P1 = Sift(s1, B1)
  OBVIOUS
<1>14. Told(kind, d)' = [i \in DOMAIN P1 |-> stream'[P1[i]].body]
  BY <1>1, <1>4, <1>13 DEF Told, Bodied
<1> HIDE DEF s1
<1>15. CASE key = kind /\ D < d
  <2>1. P1 = Append(P, n + 1)
    BY <1>10, <1>13, <1>15
  <2>2. DOMAIN P1 = 1..(Len(P) + 1) /\ P1[Len(P) + 1] = n + 1
        /\ \A i \in 1..Len(P) : P1[i] = P[i]
    BY <1>7, <2>1
  <2>3. \A i \in 1..Len(P) : stream'[P1[i]] = stream[P[i]]
    BY <1>4, <1>11, <2>2
  <2>4. stream'[P1[Len(P) + 1]].body = body
    BY <1>4, <2>2
  <2>5. Told(kind, d)' = [i \in 1..(Len(P) + 1) |-> IF i = Len(P) + 1 THEN body ELSE stream[P[i]].body]
    BY <1>11, <1>14, <2>2, <2>3, <2>4
  <2>6. Told(kind, d)' = Append(Told(kind, d), body)
    BY <1>11, <1>12, <2>5
  <2>7. \A j \in 1..n : j \in B1 <=> j \in B
    BY <1>2
  <2>8. Saids(kind, d)' = {stream'[j].body : j \in B1}
    BY <1>1 DEF Saids
  <2>9. Saids(kind, d) = {stream[j].body : j \in B}
    BY DEF Saids, B
  <2>10. {stream'[j].body : j \in B1} = {stream[j].body : j \in B} \cup {body}
    BY <1>2, <1>3, <1>4, <1>15
  <2> QED
    BY <1>15, <2>6, <2>8, <2>9, <2>10
<1>16. CASE ~(key = kind /\ D < d)
  <2>1. P1 = P /\ B1 = B
    BY <1>2, <1>10, <1>13, <1>16
  <2>2. \A i \in 1..Len(P) : stream'[P1[i]] = stream[P[i]]
    BY <1>4, <1>11, <2>1
  <2>3. Told(kind, d)' = Told(kind, d)
    BY <1>11, <1>12, <1>14, <2>1, <2>2
  <2>8. Saids(kind, d)' = {stream'[j].body : j \in B1}
    BY <1>1 DEF Saids
  <2>9. Saids(kind, d) = {stream[j].body : j \in B}
    BY DEF Saids, B
  <2>10. {stream'[j].body : j \in B1} = {stream[j].body : j \in B}
    BY <1>3, <1>4, <2>1
  <2> QED
    BY <1>16, <2>3, <2>8, <2>9, <2>10
<1> QED
  BY <1>15, <1>16

\* Scopes put together are the lower ones put together, then the top one.
LEMMA JoinedFront ==
  ASSUME NEW S, NEW m \in Nat \ {0}, NEW f \in [1..m -> Seq(S)]
  PROVE  /\ Joined(f) = Joined([s \in 1..(m - 1) |-> f[s]]) \o f[m]
         /\ Joined([s \in 1..(m - 1) |-> f[s]]) \in Seq(S)
<1> DEFINE g == [s \in 1..(m - 1) |-> f[s]]
<1>1. g \in Seq(Seq(S)) /\ f[m] \in Seq(S)
  <2>1. m - 1 \in Nat /\ \A s \in 1..(m - 1) : f[s] \in Seq(S)
    OBVIOUS
  <2> QED
    BY <2>1
<1>2. f = Append(g, f[m])
  <2>1. Len(g) = m - 1 /\ \A s \in 1..(m - 1) : g[s] = f[s]
    OBVIOUS
  <2>2. Append(g, f[m]) = [s \in 1..m |-> IF s = m THEN f[m] ELSE g[s]]
    BY <1>1, <2>1
  <2> QED
    BY <2>1, <2>2
<1> HIDE DEF g
<1>3. Joined(Append(g, f[m])) = Joined(g) \o f[m]
  BY <1>1, JoinedAppend
<1>4. Joined(g) \in Seq(S)
  BY <1>1, JoinedIs
<1> QED
  BY <1>2, <1>3, <1>4 DEF g

\* The last of sequences has one more: what they make put together has.
LEMMA JoinedPut ==
  ASSUME NEW S, NEW m \in Nat \ {0}
  PROVE  \A f \in [1..m -> Seq(S)], g \in [1..m -> Seq(S)], x \in S :
           g[m] = Append(f[m], x) /\ (\A s \in 1..(m - 1) : g[s] = f[s]) =>
             Joined(g) = Append(Joined(f), x)
<1> SUFFICES ASSUME NEW f \in [1..m -> Seq(S)], NEW g \in [1..m -> Seq(S)], NEW x \in S,
                    g[m] = Append(f[m], x), \A s \in 1..(m - 1) : g[s] = f[s]
             PROVE  Joined(g) = Append(Joined(f), x)
  OBVIOUS
<1> DEFINE h == [s \in 1..(m - 1) |-> f[s]]
<1>1. h = [s \in 1..(m - 1) |-> g[s]]
  OBVIOUS
<1>2. Joined(f) = Joined(h) \o f[m] /\ Joined(h) \in Seq(S)
  BY JoinedFront
<1>3. Joined(g) = Joined([s \in 1..(m - 1) |-> g[s]]) \o g[m]
  BY JoinedFront
<1>4. f[m] \in Seq(S)
  OBVIOUS
<1> HIDE DEF h
<1>5. Joined(h) \o Append(f[m], x) = Append(Joined(h) \o f[m], x)
  BY <1>2, <1>4, ConcatAppend
<1> QED
  BY <1>1, <1>2, <1>3, <1>5

\* An empty one more makes nothing more.
LEMMA JoinedEmpty ==
  ASSUME NEW S, NEW m \in Nat \ {0}, NEW f \in [1..m -> Seq(S)], f[m] = <<>>
  PROVE  Joined(f) = Joined([s \in 1..(m - 1) |-> f[s]])
<1>1. Joined([s \in 1..(m - 1) |-> f[s]]) \in Seq(S)
  BY JoinedFront
<1>2. Joined(f) = Joined([s \in 1..(m - 1) |-> f[s]]) \o <<>>
  BY JoinedFront
<1> QED
  BY <1>1, <1>2

\* What the lowest d scopes hold is what the statements in force say of blocks
\* fewer than d: `$f` and `$e` in order, and of `$v`, `$d` and `$e` what there is.
FloatsHeld(d) == Joined([s \in 1..d |-> scopes[s].floats]) = Told("f", d)
EssentialsHeld(d) ==
  /\ Joined([s \in 1..d |-> scopes[s].essentials]) = Told("e", d)
  /\ \A e : (\E s \in 1..d : e \in Range(scopes[s].essentials)) <=> e \in Saids("e", d)
VariablesHeld(d) ==
  \A x : (\E s \in 1..d : x \in scopes[s].variables) <=> \E body \in Saids("v", d) : x \in Range(body)
DisjointHeld(d) ==
  \A p : (\E s \in 1..d : p \in scopes[s].disjoint) <=> \E body \in Saids("d", d) : p \in Apart(Range(body))
Held(d) == FloatsHeld(d) /\ EssentialsHeld(d) /\ VariablesHeld(d) /\ DisjointHeld(d)

\* The stack is as deep as blocks are open, and only what was read has a
\* signature.
StackShape ==
  /\ stream \in Seq(Statement) /\ scopes \in Seq(ScopeSet) /\ scopes # <<>>
  /\ Depth(Len(stream)) = Len(scopes) - 1
  /\ DOMAIN sigs \subseteq 1..Len(stream)
\* Each part of the stack, from the bottom up, holds what is in force of it; and
\* each assertion read has its frame.  A block closed uncovers such a part: the
\* invariant speaks of all of them, not only of the stack as it is.
StackHeld == \A d \in 1..Len(scopes) : Held(d)
LibraryInv == StackShape /\ StackHeld /\ (\A k \in DOMAIN sigs : stream[k].key = "a" => sigs[k] = Frame(k))

\* What a step leaves of the stack: the lowest d scopes as they were, and
\* nothing said for them.
LEMMA HeldStays ==
  ASSUME NEW key, NEW body, Comes(key, body), NEW n \in Nat, n = Len(stream),
         NEW D, D = Depth(n + 1)', NEW d \in Int, d <= D + 1,
         \A s \in 1..d : scopes'[s] = scopes[s]
  PROVE  /\ FloatsHeld(d) /\ ~(key = "f" /\ D < d) => FloatsHeld(d)'
         /\ EssentialsHeld(d) /\ ~(key = "e" /\ D < d) => EssentialsHeld(d)'
         /\ VariablesHeld(d) /\ ~(key = "v" /\ D < d) => VariablesHeld(d)'
         /\ DisjointHeld(d) /\ ~(key = "d" /\ D < d) => DisjointHeld(d)'
<1>1. \A kind \in {"f", "e", "v", "d"} : ~(key = kind /\ D < d) =>
         Told(kind, d)' = Told(kind, d) /\ Saids(kind, d)' = Saids(kind, d)
  <2> TAKE kind \in {"f", "e", "v", "d"}
  <2>1. /\ Told(kind, d)' = IF key = kind /\ D < d THEN Append(Told(kind, d), body)
                             ELSE Told(kind, d)
        /\ Saids(kind, d)' = IF key = kind /\ D < d THEN Saids(kind, d) \cup {body} ELSE Saids(kind, d)
    BY ToldStep
  <2> QED
    BY <2>1
<1>2. [s \in 1..d |-> scopes'[s].floats] = [s \in 1..d |-> scopes[s].floats]
  OBVIOUS
<1>3. [s \in 1..d |-> scopes'[s].essentials] = [s \in 1..d |-> scopes[s].essentials]
  OBVIOUS
<1>4. FloatsHeld(d) /\ ~(key = "f" /\ D < d) => FloatsHeld(d)'
  BY <1>1, <1>2 DEF FloatsHeld
<1>5. EssentialsHeld(d) /\ ~(key = "e" /\ D < d) => EssentialsHeld(d)'
  BY <1>1, <1>3 DEF EssentialsHeld
<1>6. VariablesHeld(d) /\ ~(key = "v" /\ D < d) => VariablesHeld(d)'
  BY <1>1 DEF VariablesHeld
<1>7. DisjointHeld(d) /\ ~(key = "d" /\ D < d) => DisjointHeld(d)'
  BY <1>1 DEF DisjointHeld
<1> QED
  BY <1>4, <1>5, <1>6, <1>7

\* What is put on the top scope leaves the others.
LEMMA PutIs ==
  ASSUME scopes \in Seq(ScopeSet), scopes # <<>>, NEW scope \in ScopeSet, Put(scope)
  PROVE  /\ scopes' \in Seq(ScopeSet) /\ scopes' # <<>> /\ Len(scopes') = Len(scopes)
         /\ Len(scopes) \in Nat \ {0}
         /\ scopes'[Len(scopes)] = scope /\ Top = scopes[Len(scopes)] /\ Top \in ScopeSet
         /\ \A s \in 1..(Len(scopes) - 1) : scopes'[s] = scopes[s]
<1>1. Len(scopes) \in Nat \ {0}
  OBVIOUS
<1>2. Front(scopes) \in Seq(ScopeSet) /\ Len(Front(scopes)) = Len(scopes) - 1
      /\ \A s \in 1..(Len(scopes) - 1) : Front(scopes)[s] = scopes[s]
  BY <1>1, SMTT(30) DEF Front
<1>3. scopes' = Append(Front(scopes), scope)
  BY DEF Put
<1>4. Top = scopes[Len(scopes)] /\ Top \in ScopeSet
  BY <1>1 DEF Top, Last
<1> QED
  BY <1>1, <1>2, <1>3, <1>4

\* What a step that adds to the top scope, or reads an assertion, keeps.
Reads(key, body) ==
  /\ Comes(key, body) /\ StackShape /\ StackHeld /\ key \notin Marks
  /\ scopes' \in Seq(ScopeSet) /\ Len(scopes') = Len(scopes)
  /\ \A s \in 1..(Len(scopes) - 1) : scopes'[s] = scopes[s]

\* What is read in a block is read at the depth of the stack.
LEMMA ReadsDepth ==
  ASSUME NEW key, NEW body, Reads(key, body), NEW n \in Nat, n = Len(stream)
  PROVE  /\ Depth(n + 1)' = Len(scopes) - 1 /\ Len(scopes) \in Nat \ {0}
         /\ Len(stream') = n + 1
<1>1. Depth(n) = Len(scopes) - 1 /\ Len(scopes) \in Nat \ {0} /\ Comes(key, body) /\ key \notin Marks
  BY DEF Reads, StackShape
<1> QED
  BY <1>1, DepthNext, ComesAfter

\* The scopes under the top one hold what they held.
LEMMA ReadsUnder ==
  ASSUME NEW key, NEW body, Reads(key, body), NEW d \in 1..(Len(scopes) - 1)
  PROVE  Held(d)'
<1>1. PICK n \in Nat : n = Len(stream)
  BY DEF Reads, StackShape
<1>2. /\ Depth(n + 1)' = Len(scopes) - 1 /\ Len(scopes) \in Nat \ {0} /\ d \in 1..Len(scopes)
      /\ Comes(key, body) /\ \A s \in 1..d : scopes'[s] = scopes[s]
  BY <1>1, ReadsDepth DEF Reads
<1>3. PICK D \in Int : D = Depth(n + 1)'
  BY <1>2
<1>4. d \in Int /\ d <= D + 1 /\ ~(D < d)
  BY <1>2, <1>3
<1>5. Held(d)
  BY <1>2 DEF Reads, StackHeld
<1>6. \A s \in 1..d : scopes'[s] = scopes[s]
  BY <1>2
<1>7. FloatsHeld(d)' /\ EssentialsHeld(d)'
  <2>1. FloatsHeld(d) /\ EssentialsHeld(d)
    BY <1>5 DEF Held
  <2> QED
    BY <1>1, <1>2, <1>3, <1>4, <1>6, <2>1, HeldStays
<1>8. VariablesHeld(d)' /\ DisjointHeld(d)'
  <2>1. VariablesHeld(d) /\ DisjointHeld(d)
    BY <1>5 DEF Held
  <2> QED
    BY <1>1, <1>2, <1>3, <1>4, <1>6, <2>1, HeldStays
<1> QED
  BY <1>7, <1>8 DEF Held

\* What a step that adds to the top scope finds there and in what was said.
LEMMA ReadsTop ==
  ASSUME NEW key, NEW body, Reads(key, body), NEW m \in Nat \ {0}, m = Len(scopes), NEW kind
  PROVE  /\ Told(kind, m)' = IF key = kind THEN Append(Told(kind, m), body) ELSE Told(kind, m)
         /\ Saids(kind, m)' = IF key = kind THEN Saids(kind, m) \cup {body} ELSE Saids(kind, m)
         /\ Held(m) /\ m \in 1..Len(scopes')
         /\ body \in Seq(Names) /\ scopes \in Seq(ScopeSet) /\ scopes' \in Seq(ScopeSet)
         /\ \A s \in 1..(m - 1) : scopes'[s] = scopes[s]
         /\ \A s \in 1..m : scopes[s] \in ScopeSet /\ scopes'[s] \in ScopeSet
<1>1. PICK n \in Nat : n = Len(stream)
  BY DEF Reads, StackShape
<1>2. Depth(n + 1)' = m - 1 /\ Comes(key, body)
  BY <1>1, ReadsDepth DEF Reads
<1>3. PICK D \in Int : D = Depth(n + 1)' /\ D = m - 1
  BY <1>2
<1>4. m <= D + 1 /\ D < m /\ m \in Int
  BY <1>3
<1>5. /\ Told(kind, m)' = IF key = kind /\ D < m THEN Append(Told(kind, m), body) ELSE Told(kind, m)
      /\ Saids(kind, m)' = IF key = kind /\ D < m THEN Saids(kind, m) \cup {body} ELSE Saids(kind, m)
  BY <1>1, <1>2, <1>3, <1>4, ToldStep
<1>6. Held(m) /\ m \in 1..Len(scopes')
  BY DEF Reads, StackHeld
<1>7. \A s \in 1..m : scopes[s] \in ScopeSet /\ scopes'[s] \in ScopeSet
  BY DEF Reads, StackShape
<1> QED
  BY <1>4, <1>5, <1>6, <1>7 DEF Reads, Comes, StackShape

\* The part of the top scope the statement is no part of stays.
LEMMA TopStays ==
  ASSUME NEW key, NEW body, Reads(key, body), NEW m \in Nat \ {0}, m = Len(scopes)
  PROVE  /\ key # "f" /\ scopes'[m].floats = scopes[m].floats => FloatsHeld(m)'
         /\ key # "e" /\ scopes'[m].essentials = scopes[m].essentials => EssentialsHeld(m)'
         /\ key # "v" /\ scopes'[m].variables = scopes[m].variables => VariablesHeld(m)'
         /\ key # "d" /\ scopes'[m].disjoint = scopes[m].disjoint => DisjointHeld(m)'
<1>1. \A kind \in {"f", "e", "v", "d"} : key # kind =>
         Told(kind, m)' = Told(kind, m) /\ Saids(kind, m)' = Saids(kind, m)
  <2> TAKE kind \in {"f", "e", "v", "d"}
  <2>1. /\ Told(kind, m)' = IF key = kind THEN Append(Told(kind, m), body) ELSE Told(kind, m)
        /\ Saids(kind, m)' = IF key = kind THEN Saids(kind, m) \cup {body} ELSE Saids(kind, m)
    BY ReadsTop
  <2> QED
    BY <2>1
<1>2. Held(m) /\ \A s \in 1..(m - 1) : scopes'[s] = scopes[s]
  BY ReadsTop
<1>3. ASSUME key # "f", scopes'[m].floats = scopes[m].floats PROVE FloatsHeld(m)'
  <2>1. [s \in 1..m |-> scopes'[s].floats] = [s \in 1..m |-> scopes[s].floats]
    BY <1>2, <1>3
  <2> QED
    BY <1>1, <1>2, <1>3, <2>1 DEF Held, FloatsHeld
<1>4. ASSUME key # "e", scopes'[m].essentials = scopes[m].essentials PROVE EssentialsHeld(m)'
  <2>1. [s \in 1..m |-> scopes'[s].essentials] = [s \in 1..m |-> scopes[s].essentials]
    BY <1>2, <1>4
  <2>2. \A s \in 1..m : scopes'[s].essentials = scopes[s].essentials
    BY <1>2, <1>4
  <2> QED
    BY <1>1, <1>2, <1>4, <2>1, <2>2 DEF Held, EssentialsHeld
<1>5. ASSUME key # "v", scopes'[m].variables = scopes[m].variables PROVE VariablesHeld(m)'
  <2>1. \A s \in 1..m : scopes'[s].variables = scopes[s].variables
    BY <1>2, <1>5
  <2> QED
    BY <1>1, <1>2, <1>5, <2>1 DEF Held, VariablesHeld
<1>6. ASSUME key # "d", scopes'[m].disjoint = scopes[m].disjoint PROVE DisjointHeld(m)'
  <2>1. \A s \in 1..m : scopes'[s].disjoint = scopes[s].disjoint
    BY <1>2, <1>6
  <2> QED
    BY <1>1, <1>2, <1>6, <2>1 DEF Held, DisjointHeld
<1> QED
  BY <1>3, <1>4, <1>5, <1>6

\* What a list writes that has one more, is what it did and the one.
LEMMA RangeAppend ==
  ASSUME NEW S, NEW s \in Seq(S), NEW x \in S
  PROVE  Range(Append(s, x)) = Range(s) \cup {x}
<1>1. PICK n \in Nat : n = Len(s) /\ DOMAIN s = 1..n
  OBVIOUS
<1>2. DOMAIN Append(s, x) = 1..(n + 1) /\ Append(s, x)[n + 1] = x /\ \A i \in 1..n : Append(s, x)[i] = s[i]
  BY <1>1
<1>3. 1..(n + 1) = (1..n) \cup {n + 1}
  OBVIOUS
<1>4. PICK t : t = Append(s, x)
  OBVIOUS
<1>5. {t[i] : i \in 1..(n + 1)} = {s[i] : i \in 1..n} \cup {x}
  BY <1>2, <1>3, <1>4
<1> QED
  BY <1>1, <1>2, <1>4, <1>5 DEF Range

\* A list of statements put on the top scope comes last of all.
LEMMA ListedPut ==
  ASSUME NEW m \in Nat \ {0}
  PROVE  \A f \in [1..m -> Seq(Seq(Names))], g \in [1..m -> Seq(Seq(Names))], x \in Seq(Names) :
           g[m] = Append(f[m], x) /\ (\A s \in 1..(m - 1) : g[s] = f[s]) =>
             Joined(g) = Append(Joined(f), x)
  BY JoinedPut

\* A `$f` put on the top scope is in force there, after those before it.
LEMMA FloatsRead ==
  ASSUME NEW body, Reads("f", body), NEW m \in Nat \ {0}, m = Len(scopes),
         scopes'[m].floats = Append(scopes[m].floats, body)
  PROVE  FloatsHeld(m)'
<1> DEFINE S == Seq(Names)
           f == [s \in 1..m |-> scopes[s].floats]
           g == [s \in 1..m |-> scopes'[s].floats]
<1>1. /\ Told("f", m)' = Append(Told("f", m), body)
      /\ Held(m) /\ body \in S
      /\ \A s \in 1..(m - 1) : scopes'[s] = scopes[s]
      /\ \A s \in 1..m : scopes[s] \in ScopeSet /\ scopes'[s] \in ScopeSet
  BY ReadsTop
<1>2. f \in [1..m -> Seq(S)] /\ g \in [1..m -> Seq(S)]
  BY <1>1 DEF ScopeSet
<1>3. g[m] = Append(f[m], body) /\ \A s \in 1..(m - 1) : g[s] = f[s]
  BY <1>1
<1>4. Joined(f) = Told("f", m)
  BY <1>1 DEF Held, FloatsHeld
<1>5. FloatsHeld(m)' <=> Joined(g) = Told("f", m)'
  BY DEF FloatsHeld
<1> HIDE DEF f, g, S
<1>6. Joined(g) = Append(Joined(f), body)
  BY <1>1, <1>2, <1>3, JoinedPut, ZenonT(60)
<1> QED
  BY <1>1, <1>4, <1>5, <1>6

\* A `$e` put on the top scope is in force there, after those before it.
LEMMA EssentialsRead ==
  ASSUME NEW body, Reads("e", body), NEW m \in Nat \ {0}, m = Len(scopes),
         scopes'[m].essentials = Append(scopes[m].essentials, body)
  PROVE  EssentialsHeld(m)'
<1> DEFINE S == Seq(Names)
           f == [s \in 1..m |-> scopes[s].essentials]
           g == [s \in 1..m |-> scopes'[s].essentials]
<1>0. Saids("e", m)' = Saids("e", m) \cup {body}
  BY ReadsTop
<1>1. /\ Told("e", m)' = Append(Told("e", m), body)
      /\ Held(m) /\ body \in S
      /\ \A s \in 1..(m - 1) : scopes'[s] = scopes[s]
      /\ \A s \in 1..m : scopes[s] \in ScopeSet /\ scopes'[s] \in ScopeSet
  BY ReadsTop
<1>2. f \in [1..m -> Seq(S)] /\ g \in [1..m -> Seq(S)]
  BY <1>1 DEF ScopeSet
<1>3. g[m] = Append(f[m], body) /\ \A s \in 1..(m - 1) : g[s] = f[s]
  BY <1>1
<1>4. Joined(f) = Told("e", m)
  BY <1>1 DEF Held, EssentialsHeld
<1>5. \A e : (\E s \in 1..m : e \in Range(scopes'[s].essentials)) <=> e \in Saids("e", m)'
  <2>1. scopes[m].essentials \in Seq(S) /\ m \in 1..m
    BY <1>1 DEF ScopeSet
  <2>2. Range(Append(scopes[m].essentials, body)) = Range(scopes[m].essentials) \cup {body}
    BY <1>1, <2>1, RangeAppend
  <2>3. \A e : (\E s \in 1..m : e \in Range(scopes[s].essentials)) <=> e \in Saids("e", m)
    BY <1>1 DEF Held, EssentialsHeld
  <2>4. \A s \in 1..m : s = m \/ s \in 1..(m - 1)
    OBVIOUS
  <2>5. Range(scopes'[m].essentials) = Range(scopes[m].essentials) \cup {body}
    BY <2>2
  <2>6. \A s \in 1..(m - 1) : Range(scopes'[s].essentials) = Range(scopes[s].essentials)
    BY <1>1
  <2> QED
    BY <1>0, <2>1, <2>3, <2>4, <2>5, <2>6
<1>7. body \in S
  BY <1>1
<1>8. Joined(g) = Append(Joined(f), body)
  <2> HIDE DEF f, g, S
  <2> QED
    BY <1>2, <1>3, <1>7, ListedPut DEF S
<1> HIDE DEF f, g, S
<1>9. EssentialsHeld(m)' <=>
        /\ Joined(g) = Told("e", m)'
        /\ \A e : (\E s \in 1..m : e \in Range(scopes'[s].essentials)) <=> e \in Saids("e", m)'
  BY DEF EssentialsHeld, g
<1> QED
  BY <1>1, <1>4, <1>5, <1>8, <1>9

\* What a `$v` adds to the top scope is what it declares.
LEMMA VariablesRead ==
  ASSUME NEW body, Reads("v", body), NEW m \in Nat \ {0}, m = Len(scopes),
         scopes'[m].variables = scopes[m].variables \cup Range(body)
  PROVE  VariablesHeld(m)'
<1>0. Saids("v", m)' = Saids("v", m) \cup {body}
  BY ReadsTop
<1>1. Held(m) /\ \A s \in 1..(m - 1) : scopes'[s] = scopes[s]
  BY ReadsTop
<1>2. m \in 1..m /\ \A s \in 1..m : s = m \/ s \in 1..(m - 1)
  OBVIOUS
<1>3. VariablesHeld(m)
  BY <1>1 DEF Held
<1> QED
  BY <1>0, <1>1, <1>2, <1>3 DEF VariablesHeld

\* Of two names one pair is kept apart.
LEMMA ApartPair ==
  ASSUME NEW x, NEW y, x # y
  PROVE  Apart(Range(<<x, y>>)) = {{x, y}}
<1>1. Range(<<x, y>>) = {x, y}
  BY DEF Range
<1>2. {pair \in {x, y} \X {x, y} : pair[1] # pair[2]} = {<<x, y>>, <<y, x>>}
  OBVIOUS
<1>3. {{pair[1], pair[2]} : pair \in {<<x, y>>, <<y, x>>}} = {{x, y}}
  OBVIOUS
<1> QED
  BY <1>1, <1>2, <1>3 DEF Apart

\* What a `$d` adds to the top scope is the pair it names.
LEMMA DisjointRead ==
  ASSUME NEW x, NEW y, x # y, Reads("d", <<x, y>>), NEW m \in Nat \ {0}, m = Len(scopes),
         scopes'[m].disjoint = scopes[m].disjoint \cup {{x, y}}
  PROVE  DisjointHeld(m)'
<1> DEFINE body == <<x, y>>
<1>0. Saids("d", m)' = Saids("d", m) \cup {body}
  BY ReadsTop
<1>1. Held(m) /\ \A s \in 1..(m - 1) : scopes'[s] = scopes[s]
  BY ReadsTop
<1>2. m \in 1..m /\ \A s \in 1..m : s = m \/ s \in 1..(m - 1)
  OBVIOUS
<1>3. DisjointHeld(m)
  BY <1>1 DEF Held
<1>4. Apart(Range(body)) = {{x, y}}
  BY ApartPair
<1> HIDE DEF body
<1> QED
  BY <1>0, <1>1, <1>2, <1>3, <1>4 DEF DisjointHeld

\* What each action reads is a statement.
LEMMA BodiesNamed ==
  /\ \A body \in Bodies : body \in Seq(Names) /\ Range(body) \subseteq Names
  /\ \A x \in Symbols, y \in Symbols : <<x, y>> \in Seq(Names) /\ {x, y} \subseteq Names
  /\ \A x \in Symbols : <<"class", x>> \in Seq(Names)
  /\ <<>> \in Seq(Names)
<1>1. \A body \in Bodies : body \in Seq(Range(body)) /\ Range(body) \subseteq Names
  BY LibraryAssumption DEF Names
<1>2. \A body \in Bodies : body \in Seq(Names)
  <2> TAKE body \in Bodies
  <2>1. body \in Seq(Range(body)) /\ Range(body) \subseteq Names
    BY <1>1
  <2> QED
    BY <2>1
<1>3. \A x \in Symbols : x \in Names
  BY DEF Names
<1>4. "class" \in Names
  BY DEF Names
<1>5. \A x \in Symbols, y \in Symbols : <<x, y>> \in Seq(Names)
  BY <1>3
<1>6. \A x \in Symbols : <<"class", x>> \in Seq(Names)
  BY <1>3, <1>4
<1> QED
  BY <1>1, <1>2, <1>3, <1>5, <1>6

\* A block opened has nothing yet, and the others hold what they held.
LEMMA OpenHeld ==
  ASSUME LibraryInv, OpenScope
  PROVE  StackHeld' /\ stream' \in Seq(Statement) /\ scopes' \in Seq(ScopeSet) /\ scopes' # <<>>
         /\ (Depth(Len(stream)) = Len(scopes) - 1)' /\ Comes("block", <<>>)
<1>1. Comes("block", <<>>)
  <2>1. stream' = Append(stream, [key |-> "block", body |-> <<>>])
    BY DEF OpenScope, Says
  <2>2. stream \in Seq(Statement)
    BY DEF LibraryInv, StackShape
  <2>3. <<>> \in Seq(Names)
    OBVIOUS
  <2>4. "block" \in Keys
    BY DEF Keys
  <2> QED
    BY <2>1, <2>2, <2>3, <2>4 DEF Comes
<1>2. PICK n \in Nat : n = Len(stream)
  BY DEF LibraryInv, StackShape
<1>3. PICK m \in Nat \ {0} : m = Len(scopes) /\ Depth(n) = m - 1
  BY <1>2 DEF LibraryInv, StackShape
<1>4. Depth(n + 1)' = m
  BY <1>1, <1>2, <1>3, DepthNext
<1>5. scopes' = Append(scopes, Scope) /\ scopes \in Seq(ScopeSet) /\ Scope \in ScopeSet
  BY DEF OpenScope, LibraryInv, StackShape, Scope, ScopeSet
<1>6. /\ Len(scopes') = m + 1 /\ scopes' \in Seq(ScopeSet) /\ scopes'[m + 1] = Scope
      /\ \A s \in 1..m : scopes'[s] = scopes[s]
  BY <1>3, <1>5
<1>7. \A d \in 1..m : Held(d)'
  <2> TAKE d \in 1..m
  <2>1. PICK D \in Int : D = Depth(n + 1)' /\ D = m
    BY <1>4
  <2>2. d \in Int /\ d <= D + 1 /\ Held(d) /\ \A s \in 1..d : scopes'[s] = scopes[s]
    BY <1>3, <1>6, <2>1 DEF LibraryInv, StackHeld
  <2> QED
    BY <1>1, <1>2, <2>1, <2>2, HeldStays DEF Held
<1>8. \A kind \in {"f", "e", "v", "d"} :
         Told(kind, m + 1)' = Told(kind, m)' /\ Saids(kind, m + 1)' = Saids(kind, m)'
  <2> TAKE kind \in {"f", "e", "v", "d"}
  <2>1. PICK D \in Int : D = Depth(n + 1)' /\ D = m
    BY <1>4
  <2>2. Told(kind, m + 1)' = Told(kind, m + 1) /\ Saids(kind, m + 1)' = Saids(kind, m + 1)
    <3>1. m + 1 \in Int /\ m + 1 <= D + 1 /\ kind # "block"
      BY <2>1
    <3> QED
      BY <1>1, <1>2, <2>1, <3>1, ToldStep
  <2>3. Told(kind, m)' = Told(kind, m) /\ Saids(kind, m)' = Saids(kind, m)
    <3>1. m \in Int /\ m <= D + 1 /\ kind # "block"
      BY <2>1
    <3> QED
      BY <1>1, <1>2, <2>1, <3>1, ToldStep
  <2>4. Below(kind, m + 1) = Below(kind, m)
    <3>1. Len(stream) \in Nat /\ m \in Int /\ m + 1 \in Int /\ m > Depth(Len(stream)) /\ m + 1 > Depth(Len(stream))
      BY <1>2, <1>3
    <3> QED
      BY <3>1, BelowAll
  <2>5. Told(kind, m + 1) = Told(kind, m) /\ Saids(kind, m + 1) = Saids(kind, m)
    BY <2>4 DEF Told, Saids
  <2> QED
    BY <2>2, <2>3, <2>5
<1>9. Held(m)'
  BY <1>3, <1>7
<1>10. m + 1 \in Nat \ {0} /\ (m + 1) - 1 = m
  OBVIOUS
<1>11. FloatsHeld(m + 1)'
  <2> DEFINE f == [s \in 1..(m + 1) |-> scopes'[s].floats]
             S == Seq(Names)
  <2>a. \A s \in 1..(m + 1) : scopes'[s] \in ScopeSet
    BY <1>6
  <2>b. \A s \in 1..(m + 1) : scopes'[s].floats \in Seq(S)
    BY <2>a DEF ScopeSet
  <2>c. scopes'[m + 1].floats = <<>>
    BY <1>6 DEF Scope
  <2>1. f \in [1..(m + 1) -> Seq(S)] /\ f[m + 1] = <<>>
    BY <2>b, <2>c
  <2>2. [s \in 1..m |-> f[s]] = [s \in 1..m |-> scopes'[s].floats]
    OBVIOUS
  <2> HIDE DEF f, S
  <2>3. Joined(f) = Joined([s \in 1..m |-> f[s]])
    <3>1. PICK M \in Nat \ {0} : M = m + 1 /\ M - 1 = m
      BY <1>10
    <3>2. f \in [1..M -> Seq(S)] /\ f[M] = <<>>
      BY <2>1, <3>1
    <3>3. Joined(f) = Joined([s \in 1..(M - 1) |-> f[s]])
      BY <3>2, JoinedEmpty
    <3> QED
      BY <3>1, <3>3
  <2>4. FloatsHeld(m)' /\ FloatsHeld(m)' <=> Joined([s \in 1..m |-> scopes'[s].floats]) = Told("f", m)'
    BY <1>9 DEF FloatsHeld, Held
  <2> QED
    BY <1>8, <1>9, <2>2, <2>3 DEF FloatsHeld, f, Held
<1>12. EssentialsHeld(m + 1)'
  <2> DEFINE f == [s \in 1..(m + 1) |-> scopes'[s].essentials]
             S == Seq(Names)
  <2>a. \A s \in 1..(m + 1) : scopes'[s] \in ScopeSet
    BY <1>6
  <2>b. \A s \in 1..(m + 1) : scopes'[s].essentials \in Seq(S)
    BY <2>a DEF ScopeSet
  <2>c. scopes'[m + 1].essentials = <<>>
    BY <1>6 DEF Scope
  <2>1. f \in [1..(m + 1) -> Seq(S)] /\ f[m + 1] = <<>>
    BY <2>b, <2>c
  <2>2. [s \in 1..m |-> f[s]] = [s \in 1..m |-> scopes'[s].essentials]
    OBVIOUS
  <2> HIDE DEF f, S
  <2>3. Joined(f) = Joined([s \in 1..m |-> f[s]])
    <3>1. PICK M \in Nat \ {0} : M = m + 1 /\ M - 1 = m
      BY <1>10
    <3>2. f \in [1..M -> Seq(S)] /\ f[M] = <<>>
      BY <2>1, <3>1
    <3>3. Joined(f) = Joined([s \in 1..(M - 1) |-> f[s]])
      BY <3>2, JoinedEmpty
    <3> QED
      BY <3>1, <3>3
  <2>4. Range(scopes'[m + 1].essentials) = {}
    BY <1>6 DEF Scope, Range
  <2>5. 1..(m + 1) = (1..m) \cup {m + 1}
    OBVIOUS
  <2> QED
    BY <1>8, <1>9, <2>2, <2>3, <2>4, <2>5 DEF EssentialsHeld, f, Held
<1>13. VariablesHeld(m + 1)'
  <2>1. scopes'[m + 1].variables = {}
    BY <1>6 DEF Scope
  <2>2. 1..(m + 1) = (1..m) \cup {m + 1}
    OBVIOUS
  <2> QED
    BY <1>8, <1>9, <2>1, <2>2 DEF VariablesHeld, Held
<1>14. DisjointHeld(m + 1)'
  <2>1. scopes'[m + 1].disjoint = {}
    BY <1>6 DEF Scope
  <2>2. 1..(m + 1) = (1..m) \cup {m + 1}
    OBVIOUS
  <2> QED
    BY <1>8, <1>9, <2>1, <2>2 DEF DisjointHeld, Held
<1>15. Held(m + 1)'
  BY <1>11, <1>12, <1>13, <1>14 DEF Held
<1>16. \A d \in 1..Len(scopes') : Held(d)'
  <2>1. \A d \in 1..Len(scopes') : d \in 1..m \/ d = m + 1
    BY <1>6
  <2> QED
    BY <1>7, <1>15, <2>1
<1>17. stream' \in Seq(Statement) /\ Len(stream') = n + 1
  BY <1>1, <1>2, ComesAfter
<1>18. (Depth(Len(stream)) = Len(scopes) - 1)'
  BY <1>4, <1>6, <1>17
<1> QED
  BY <1>1, <1>6, <1>16, <1>17, <1>18 DEF StackHeld

\* A block closed leaves what the scopes under it held.
LEMMA CloseHeld ==
  ASSUME LibraryInv, CloseScope
  PROVE  StackHeld' /\ stream' \in Seq(Statement) /\ scopes' \in Seq(ScopeSet) /\ scopes' # <<>>
         /\ (Depth(Len(stream)) = Len(scopes) - 1)' /\ Comes("end", <<>>)
<1>1. Comes("end", <<>>)
  <2>1. stream' = Append(stream, [key |-> "end", body |-> <<>>])
    BY DEF CloseScope, Says
  <2>2. stream \in Seq(Statement)
    BY DEF LibraryInv, StackShape
  <2>3. <<>> \in Seq(Names)
    OBVIOUS
  <2>4. "end" \in Keys
    BY DEF Keys
  <2> QED
    BY <2>1, <2>2, <2>3, <2>4 DEF Comes
<1>2. PICK n \in Nat : n = Len(stream)
  BY DEF LibraryInv, StackShape
<1>3. PICK m \in Nat \ {0} : m = Len(scopes) /\ Depth(n) = m - 1 /\ m > 1
  BY <1>2 DEF LibraryInv, StackShape, CloseScope
<1>4. Depth(n + 1)' = m - 2
  BY <1>1, <1>2, <1>3, DepthNext
<1>5. scopes' = Front(scopes) /\ scopes \in Seq(ScopeSet)
  BY DEF CloseScope, LibraryInv, StackShape, Closed
<1>6. /\ Len(scopes') = m - 1 /\ scopes' \in Seq(ScopeSet) /\ scopes' # <<>>
      /\ \A s \in 1..(m - 1) : scopes'[s] = scopes[s]
  <2>1. scopes' = SubSeq(scopes, 1, m - 1) /\ m - 1 \in Nat /\ m - 1 <= Len(scopes) /\ m - 1 >= 1
    BY <1>3, <1>5 DEF Front
  <2>2. Len(scopes') = m - 1 /\ \A s \in 1..(m - 1) : scopes'[s] = scopes[s]
    BY <1>5, <2>1
  <2>3. scopes' \in Seq(ScopeSet)
    BY <1>5, <2>1
  <2>4. scopes' # <<>>
    BY <2>1, <2>2
  <2> QED
    BY <2>2, <2>3, <2>4
<1>7. \A d \in 1..(m - 1) : Held(d)'
  <2> TAKE d \in 1..(m - 1)
  <2>1. PICK D \in Int : D = Depth(n + 1)' /\ D = m - 2
    BY <1>4
  <2>2. d \in Int /\ d <= D + 1 /\ Held(d) /\ \A s \in 1..d : scopes'[s] = scopes[s]
    BY <1>3, <1>6, <2>1 DEF LibraryInv, StackHeld
  <2> QED
    BY <1>1, <1>2, <2>1, <2>2, HeldStays DEF Held
<1>8. stream' \in Seq(Statement) /\ Len(stream') = n + 1
  BY <1>1, <1>2, ComesAfter
<1>9. (Depth(Len(stream)) = Len(scopes) - 1)'
  BY <1>3, <1>4, <1>6, <1>8
<1>10. \A d \in 1..Len(scopes') : Held(d)'
  BY <1>6, <1>7
<1> QED
  BY <1>1, <1>6, <1>8, <1>9, <1>10 DEF StackHeld

\* A statement read in a block leaves in force what was, and is itself.
LEMMA StandingNext ==
  ASSUME NEW key, NEW body, Comes(key, body), NEW n \in Nat, n = Len(stream),
         key \notin Marks, NEW kind, kind # key
  PROVE  Standing(kind, n + 1)' = Standing(kind, n)
<1>1. Len(stream') = n + 1 /\ (\A j \in 1..n : stream'[j] = stream[j]) /\ stream'[n + 1].key = key
  BY ComesAfter
<1>2. \A j \in 1..n : Depth(j)' = Depth(j)
  BY DepthStays
<1>3. PICK D \in Int : D = Depth(n + 1)' /\ D = Depth(n)
  BY DepthNext
<1>4. \A j \in 1..n : InForce(j, n + 1)' <=> InForce(j, n)
  <2> TAKE j \in 1..n
  <2>1. j..(n + 1) = (j..n) \cup {n + 1} /\ n \in j..n /\ \A i \in j..n : i \in 1..n
    OBVIOUS
  <2> QED
    BY <1>2, <1>3, <2>1 DEF InForce
<1>5. 1..(n + 1) = (1..n) \cup {n + 1}
  OBVIOUS
<1>6. Standing(kind, n + 1)' = {j \in 1..(n + 1) : stream'[j].key = kind /\ InForce(j, n + 1)'}
  BY DEF Standing
<1>7. Standing(kind, n) = {j \in 1..n : stream[j].key = kind /\ InForce(j, n)}
  BY DEF Standing
<1> QED
  BY <1>1, <1>4, <1>5, <1>6, <1>7

\* A frame, of what is declared, written, kept apart, supposed and typed.
FrameOf(declared, written, apart, essentials, floats, body) ==
  LET names == declared \cap UNION {Range(says) : says \in written} IN
  [statement |-> body, essentials |-> essentials,
   floats |-> Sift(floats, {"class"} \X names),
   disjoint |-> {p \in UNION apart : p \subseteq names}]

\* The frame of an assertion read before stays what it was.
LEMMA FrameStays ==
  ASSUME NEW key, NEW body, Comes(key, body), NEW k \in 1..Len(stream)
  PROVE  Frame(k)' = Frame(k) /\ stream'[k] = stream[k]
<1>1. \A kind : Standing(kind, k)' = Standing(kind, k)
  BY StandingStays
<1>2. \A j \in 1..k : stream'[j] = stream[j]
  BY ComesAfter
<1>3. k \in Nat /\ k \in 1..k /\ stream'[k] = stream[k]
  BY ComesAfter
<1>4. \A kind : Standing(kind, k) \subseteq 1..k
  BY DEF Standing
<1>5. Declared(k)' = Declared(k)
  BY <1>1, <1>2, <1>4 DEF Declared
<1>6. \A kind : Bodied(Active(kind, k))' = Bodied(Active(kind, k))
  <2> TAKE kind
  <2>1. PICK s, B : s = [j \in 1..k |-> j] /\ B = Standing(kind, k)
    OBVIOUS
  <2>2. PICK P : P = Sift(s, B)
    OBVIOUS
  <2>3. s \in Seq(1..k)
    BY <1>3, <2>1
  <2>4. P \in Seq(1..k)
    BY <2>2, <2>3, SiftIs
  <2>5. Active(kind, k) = P /\ Active(kind, k)' = P
    BY <1>1, <2>1, <2>2 DEF Active
  <2>6. \A i \in DOMAIN P : P[i] \in 1..k
    BY <2>4
  <2>7. Bodied(Active(kind, k)) = [i \in DOMAIN P |-> stream[P[i]].body]
    BY <2>5 DEF Bodied
  <2>8. Bodied(Active(kind, k))' = [i \in DOMAIN P |-> stream'[P[i]].body]
    BY <2>5 DEF Bodied
  <2> QED
    BY <1>2, <2>6, <2>7, <2>8
<1>7. {stream'[j].body : j \in Standing("e", k) \cup {k}} = {stream[j].body : j \in Standing("e", k) \cup {k}}
  BY <1>2, <1>3, <1>4
<1>8. {Apart(Range(stream'[j].body)) : j \in Standing("d", k)} = {Apart(Range(stream[j].body)) : j \in Standing("d", k)}
  BY <1>2, <1>4
<1>9. PICK declared : declared = Declared(k) /\ declared = Declared(k)'
  BY <1>5
<1>10. PICK es, fs : /\ es = Bodied(Active("e", k)) /\ es = Bodied(Active("e", k))'
                    /\ fs = Bodied(Active("f", k)) /\ fs = Bodied(Active("f", k))'
  BY <1>6
<1>11. PICK written : /\ written = {stream[j].body : j \in Standing("e", k) \cup {k}}
                     /\ written = {stream'[j].body : j \in Standing("e", k)' \cup {k}}
  BY <1>1, <1>7
<1>12. PICK apart : /\ apart = {Apart(Range(stream[j].body)) : j \in Standing("d", k)}
                   /\ apart = {Apart(Range(stream'[j].body)) : j \in Standing("d", k)'}
  BY <1>1, <1>8
<1>13. Frame(k) = FrameOf(declared, written, apart, es, fs, stream[k].body)
  BY <1>9, <1>10, <1>11, <1>12 DEF Frame, FrameOf
<1>14. Frame(k)' = FrameOf(declared, written, apart, es, fs, stream'[k].body)
  BY <1>9, <1>10, <1>11, <1>12 DEF Frame, FrameOf
<1> QED
  BY <1>3, <1>13, <1>14

\* What is read in a block is held where the top scope holds it.
LEMMA ReadsHeld ==
  ASSUME NEW key, NEW body, Reads(key, body), NEW m \in Nat \ {0}, m = Len(scopes), Held(m)'
  PROVE  /\ StackHeld' /\ stream' \in Seq(Statement) /\ scopes' \in Seq(ScopeSet) /\ scopes' # <<>>
         /\ (Depth(Len(stream)) = Len(scopes) - 1)' /\ Comes(key, body)
<1>1. PICK n \in Nat : n = Len(stream)
  BY DEF Reads, StackShape
<1>2. Depth(n + 1)' = m - 1 /\ Len(stream') = n + 1
  BY <1>1, ReadsDepth
<1>3. Comes(key, body) /\ scopes' \in Seq(ScopeSet) /\ Len(scopes') = m
  BY DEF Reads
<1>4. (Depth(Len(stream)) = Len(scopes) - 1)'
  BY <1>2, <1>3
<1>5. \A d \in 1..Len(scopes') : Held(d)'
  <2> TAKE d \in 1..Len(scopes')
  <2>1. d = m \/ d \in 1..(Len(scopes) - 1)
    BY <1>3
  <2> QED
    BY <2>1, ReadsUnder
<1>6. stream' \in Seq(Statement) /\ scopes' # <<>>
  BY <1>3, ComesAfter
<1> QED
  BY <1>3, <1>4, <1>5, <1>6 DEF StackHeld

\* A statement put on the top scope is one read in a block.
LEMMA PutReads ==
  ASSUME LibraryInv, NEW key, NEW body, Says(key, body), key \in Keys \ Marks, body \in Seq(Names),
         NEW scope \in ScopeSet, Put(scope)
  PROVE  /\ Reads(key, body) /\ scopes'[Len(scopes)] = scope /\ Len(scopes) \in Nat \ {0}
         /\ Top = scopes[Len(scopes)]
<1>1. scopes \in Seq(ScopeSet) /\ scopes # <<>> /\ stream \in Seq(Statement) /\ StackShape /\ StackHeld
  BY DEF LibraryInv, StackShape
<1>2. /\ scopes' \in Seq(ScopeSet) /\ scopes' # <<>> /\ Len(scopes') = Len(scopes)
      /\ Len(scopes) \in Nat \ {0}
      /\ scopes'[Len(scopes)] = scope /\ Top = scopes[Len(scopes)]
      /\ \A s \in 1..(Len(scopes) - 1) : scopes'[s] = scopes[s]
  BY <1>1, PutIs
<1>3. Comes(key, body)
  BY <1>1 DEF Says, Comes
<1> QED
  BY <1>1, <1>2, <1>3 DEF Reads

\* The stack is never empty: what is read has a scope to go into.
LEMMA TopIs ==
  ASSUME LibraryInv
  PROVE  Top \in ScopeSet
  BY DEF LibraryInv, StackShape, Top, Last

\* What a statement read leaves true of the stack.
ReadOn(key, body) ==
  /\ StackHeld' /\ stream' \in Seq(Statement) /\ scopes' \in Seq(ScopeSet) /\ scopes' # <<>>
  /\ (Depth(Len(stream)) = Len(scopes) - 1)' /\ Comes(key, body)

\* A `$v` read leaves the stack holding what is in force.
LEMMA DeclaresHeld ==
  ASSUME LibraryInv, NEW body \in Bodies, Declares(body)
  PROVE  ReadOn("v", body)
<1>1. body \in Seq(Names) /\ Range(body) \subseteq Names
  BY BodiesNamed
<1>2. PICK scope : scope = [Top EXCEPT !.variables = @ \cup Range(body)]
  OBVIOUS
<1>3. Top \in ScopeSet
  BY TopIs
<1>4. /\ scope \in ScopeSet /\ scope.variables = Top.variables \cup Range(body)
      /\ scope.floats = Top.floats /\ scope.essentials = Top.essentials /\ scope.disjoint = Top.disjoint
  BY <1>1, <1>2, <1>3 DEF ScopeSet
<1>5. Says("v", body) /\ Put(scope)
  BY <1>2 DEF Declares
<1>6. "v" \in Keys \ Marks
  BY DEF Keys, Marks
<1>7. PICK m \in Nat \ {0} : m = Len(scopes) /\ Reads("v", body) /\ scopes'[m] = scope /\ Top = scopes[m]
  BY <1>1, <1>4, <1>5, <1>6, PutReads
<1>8. FloatsHeld(m)' /\ EssentialsHeld(m)' /\ DisjointHeld(m)'
  BY <1>4, <1>7, TopStays
<1>9. VariablesHeld(m)'
  BY <1>4, <1>7, VariablesRead
<1>10. Held(m)'
  BY <1>8, <1>9 DEF Held
<1> QED
  BY <1>7, <1>10, ReadsHeld DEF ReadOn

\* A `$d` read leaves the stack holding what is in force.
LEMMA DisjointHeldAfter ==
  ASSUME LibraryInv, NEW x \in Symbols, NEW y \in Symbols, Disjoint(x, y)
  PROVE  ReadOn("d", <<x, y>>)
<1>1. <<x, y>> \in Seq(Names) /\ {x, y} \subseteq Names
  BY BodiesNamed
<1>2. PICK scope : scope = [Top EXCEPT !.disjoint = @ \cup {{x, y}}]
  OBVIOUS
<1>3. Top \in ScopeSet
  BY TopIs
<1>4. /\ scope \in ScopeSet /\ scope.disjoint = Top.disjoint \cup {{x, y}}
      /\ scope.floats = Top.floats /\ scope.essentials = Top.essentials /\ scope.variables = Top.variables
  BY <1>1, <1>2, <1>3 DEF ScopeSet
<1>5. Says("d", <<x, y>>) /\ Put(scope) /\ x # y
  BY <1>2 DEF Disjoint
<1>6. "d" \in Keys \ Marks
  BY DEF Keys, Marks
<1>7. PICK m \in Nat \ {0} : m = Len(scopes) /\ Reads("d", <<x, y>>) /\ scopes'[m] = scope /\ Top = scopes[m]
  BY <1>1, <1>4, <1>5, <1>6, PutReads
<1>8. FloatsHeld(m)' /\ EssentialsHeld(m)' /\ VariablesHeld(m)'
  BY <1>4, <1>7, TopStays
<1>9. DisjointHeld(m)'
  <2>1. scopes'[m].disjoint = scopes[m].disjoint \cup {{x, y}}
    BY <1>4, <1>7
  <2> QED
    BY <1>5, <1>7, <2>1, DisjointRead
<1>10. Held(m)'
  BY <1>8, <1>9 DEF Held
<1> QED
  BY <1>7, <1>10, ReadsHeld DEF ReadOn

\* A `$f` read leaves the stack holding what is in force.
LEMMA FloatHeldAfter ==
  ASSUME LibraryInv, NEW x \in Symbols, Float(x)
  PROVE  ReadOn("f", <<"class", x>>)
<1>1. <<"class", x>> \in Seq(Names)
  BY BodiesNamed
<1>2. PICK scope : scope = [Top EXCEPT !.floats = Append(@, <<"class", x>>)]
  OBVIOUS
<1>3. Top \in ScopeSet
  BY TopIs
<1>4. /\ scope \in ScopeSet /\ scope.floats = Append(Top.floats, <<"class", x>>)
      /\ scope.disjoint = Top.disjoint /\ scope.essentials = Top.essentials /\ scope.variables = Top.variables
  <2>1. Top.floats \in Seq(Seq(Names))
    BY <1>3 DEF ScopeSet
  <2>0. \A all \in Seq(Seq(Names)), one \in Seq(Names) : Append(all, one) \in Seq(Seq(Names))
    <3> DEFINE N == Seq(Names)
    <3>1. \A all \in Seq(N), one \in N : Append(all, one) \in Seq(N)
      <4> HIDE DEF N
      <4> QED
        OBVIOUS
    <3> QED
      BY <3>1
  <2>a. Append(Top.floats, <<"class", x>>) \in Seq(Seq(Names))
    BY <1>1, <2>0, <2>1
  <2>2. PICK more \in Seq(Seq(Names)) : more = Append(Top.floats, <<"class", x>>)
    BY <2>a
  <2>3. scope = [Top EXCEPT !.floats = more]
    BY <1>2, <2>2
  <2>4. scope \in ScopeSet
    BY <1>3, <2>2, <2>3 DEF ScopeSet
  <2>5. \A f \in {"variables", "floats", "essentials", "disjoint"} : f \in DOMAIN Top
    BY <1>3 DEF ScopeSet
  <2> QED
    BY <1>3, <2>2, <2>3, <2>4, <2>5 DEF ScopeSet
<1>5. Says("f", <<"class", x>>) /\ Put(scope)
  BY <1>2 DEF Float
<1>6. "f" \in Keys \ Marks
  BY DEF Keys, Marks
<1>7. PICK m \in Nat \ {0} : m = Len(scopes) /\ Reads("f", <<"class", x>>) /\ scopes'[m] = scope /\ Top = scopes[m]
  BY <1>1, <1>4, <1>5, <1>6, PutReads
<1>8. DisjointHeld(m)' /\ EssentialsHeld(m)' /\ VariablesHeld(m)'
  BY <1>4, <1>7, TopStays
<1>9. FloatsHeld(m)'
  BY <1>4, <1>7, FloatsRead
<1>10. Held(m)'
  BY <1>8, <1>9 DEF Held
<1> QED
  BY <1>7, <1>10, ReadsHeld DEF ReadOn

\* A `$e` read leaves the stack holding what is in force.
LEMMA EssentialHeldAfter ==
  ASSUME LibraryInv, NEW body \in Bodies, Essential(body)
  PROVE  ReadOn("e", body)
<1>1. body \in Seq(Names)
  BY BodiesNamed
<1>2. PICK scope : scope = [Top EXCEPT !.essentials = Append(@, body)]
  OBVIOUS
<1>3. Top \in ScopeSet
  BY TopIs
<1>4. /\ scope \in ScopeSet /\ scope.essentials = Append(Top.essentials, body)
      /\ scope.disjoint = Top.disjoint /\ scope.floats = Top.floats /\ scope.variables = Top.variables
  <2>1. Top.essentials \in Seq(Seq(Names))
    BY <1>3 DEF ScopeSet
  <2>0. \A all \in Seq(Seq(Names)), one \in Seq(Names) : Append(all, one) \in Seq(Seq(Names))
    <3> DEFINE N == Seq(Names)
    <3>1. \A all \in Seq(N), one \in N : Append(all, one) \in Seq(N)
      <4> HIDE DEF N
      <4> QED
        OBVIOUS
    <3> QED
      BY <3>1
  <2>a. Append(Top.essentials, body) \in Seq(Seq(Names))
    BY <1>1, <2>0, <2>1
  <2>2. PICK more \in Seq(Seq(Names)) : more = Append(Top.essentials, body)
    BY <2>a
  <2>3. scope = [Top EXCEPT !.essentials = more]
    BY <1>2, <2>2
  <2>4. scope \in ScopeSet
    BY <1>3, <2>2, <2>3 DEF ScopeSet
  <2>5. \A f \in {"variables", "floats", "essentials", "disjoint"} : f \in DOMAIN Top
    BY <1>3 DEF ScopeSet
  <2> QED
    BY <1>3, <2>2, <2>3, <2>4, <2>5 DEF ScopeSet
<1>5. Says("e", body) /\ Put(scope)
  BY <1>2 DEF Essential
<1>6. "e" \in Keys \ Marks
  BY DEF Keys, Marks
<1>7. PICK m \in Nat \ {0} : m = Len(scopes) /\ Reads("e", body) /\ scopes'[m] = scope /\ Top = scopes[m]
  BY <1>1, <1>4, <1>5, <1>6, PutReads
<1>8. DisjointHeld(m)' /\ FloatsHeld(m)' /\ VariablesHeld(m)'
  BY <1>4, <1>7, TopStays
<1>9. EssentialsHeld(m)'
  BY <1>4, <1>7, EssentialsRead
<1>10. Held(m)'
  BY <1>8, <1>9 DEF Held
<1> QED
  BY <1>7, <1>10, ReadsHeld DEF ReadOn

\* An assertion read leaves the stack as it is, holding what is in force.
LEMMA AssertionHeldAfter ==
  ASSUME LibraryInv, NEW body \in Bodies, AssertionRead(body)
  PROVE  ReadOn("a", body) /\ Reads("a", body)
<1>1. body \in Seq(Names) /\ "a" \in Keys \ Marks
  BY BodiesNamed DEF Keys, Marks
<1>2. scopes \in Seq(ScopeSet) /\ scopes # <<>> /\ stream \in Seq(Statement) /\ StackShape /\ StackHeld
  BY DEF LibraryInv, StackShape
<1>3. scopes' = scopes /\ Says("a", body)
  BY DEF AssertionRead
<1>4. Comes("a", body)
  BY <1>1, <1>2, <1>3 DEF Says, Comes
<1>5. Reads("a", body)
  BY <1>1, <1>2, <1>3, <1>4 DEF Reads
<1>6. PICK m \in Nat \ {0} : m = Len(scopes)
  BY <1>2
<1>7. scopes'[m] = scopes[m]
  BY <1>3
<1>8. Held(m)'
  BY <1>5, <1>6, <1>7, TopStays DEF Held
<1> QED
  BY <1>5, <1>6, <1>8, ReadsHeld DEF ReadOn

\* What the stack holds is what is in force.
LEMMA HeldIsStanding ==
  ASSUME LibraryInv, NEW m \in Nat \ {0}, m = Len(scopes), NEW n \in Nat, n = Len(stream), NEW kind
  PROVE  Below(kind, m) = Standing(kind, n)
<1>1. Len(stream) \in Nat /\ m \in Int /\ m > Depth(Len(stream))
  BY DEF LibraryInv, StackShape
<1> QED
  BY <1>1, BelowAll

\* The signature gathered over the stack is the frame.
LEMMA AssertionIsFrame ==
  ASSUME LibraryInv, NEW body \in Bodies, AssertionRead(body), NEW n \in Nat, n = Len(stream)
  PROVE  Frame(n + 1)' = Assertion(body)
<1>1. Comes("a", body)
  BY AssertionHeldAfter DEF ReadOn
<1>2. "a" \notin Marks
  BY DEF Marks
<1>3. \A kind \in {"v", "d", "e", "f"} : Standing(kind, n + 1)' = Standing(kind, n)
  BY <1>1, <1>2, StandingNext
<1>4. PICK m \in Nat \ {0} : m = Len(scopes)
  BY DEF LibraryInv, StackShape
<1>5. \A kind : Standing(kind, n) = Below(kind, m) /\ Standing(kind, n) \subseteq 1..n
  BY <1>4, HeldIsStanding DEF Standing
<1>6. Len(stream') = n + 1 /\ (\A j \in 1..n : stream'[j] = stream[j]) /\ stream'[n + 1].body = body
  BY <1>1, ComesAfter
<1>7. Held(m) /\ DOMAIN scopes = 1..m
  BY <1>4 DEF LibraryInv, StackHeld, StackShape
<1>8. \A kind \in {"e", "f"} : Bodied(Active(kind, n + 1))' = Told(kind, m)
  <2> TAKE kind \in {"e", "f"}
  <2>1. PICK s, s1 : s = [j \in 1..n |-> j] /\ s1 = [j \in 1..(n + 1) |-> j]
    OBVIOUS
  <2>2. PICK B : B = Standing(kind, n)
    OBVIOUS
  <2>3. B \subseteq 1..n
    BY <1>5, <2>2
  <2>4. s \in Seq(1..n) /\ s \in Seq(Nat) /\ s1 = Append(s, n + 1) /\ n + 1 \in Nat /\ n + 1 \notin B
    BY <2>1, <2>3
  <2>5. Sift(s1, B) = Sift(s, B)
    <3>1. PICK e \in Nat : e = n + 1
      OBVIOUS
    <3>2. Sift(Append(s, e), B) = IF e \in B THEN Append(Sift(s, B), e) ELSE Sift(s, B)
      BY <2>4, SiftAppend
    <3> QED
      BY <2>4, <3>1, <3>2
  <2>6. PICK P : P = Sift(s, B)
    OBVIOUS
  <2>7. P \in Seq(1..n)
    BY <2>4, <2>6, SiftIs
  <2>8. \A i \in DOMAIN P : P[i] \in 1..n
    BY <2>7
  <2>9. Active(kind, n + 1)' = P
    BY <1>3, <2>1, <2>2, <2>5, <2>6 DEF Active
  <2>10. Bodied(Active(kind, n + 1))' = [i \in DOMAIN P |-> stream'[P[i]].body]
    BY <2>9 DEF Bodied
  <2>11. Told(kind, m) = [i \in DOMAIN P |-> stream[P[i]].body]
    BY <1>5, <2>1, <2>2, <2>6 DEF Told, Bodied
  <2> QED
    BY <1>6, <2>8, <2>10, <2>11
<1>9. \A kind \in {"v", "d", "e", "f"} : \A b : b \in Saids(kind, m) <=> \E j \in Standing(kind, n + 1)' : b = stream'[j].body
  <2> TAKE kind \in {"v", "d", "e", "f"}
  <2>1. PICK B : B = Standing(kind, n)
    OBVIOUS
  <2>2. B = Below(kind, m) /\ B = Standing(kind, n + 1)' /\ B \subseteq 1..n
    BY <1>3, <1>5, <2>1
  <2>3. \A j \in B : stream'[j].body = stream[j].body
    BY <1>6, <2>2
  <2>4. Saids(kind, m) = {stream[j].body : j \in B}
    BY <2>2 DEF Saids
  <2> QED
    BY <2>2, <2>3, <2>4
<1> DEFINE written == {stream'[j].body : j \in Standing("e", n + 1)' \cup {n + 1}}
           apart == {Apart(Range(stream'[j].body)) : j \in Standing("d", n + 1)'}
           active == UNION {scopes[s].variables : s \in DOMAIN scopes}
           kept == UNION {scopes[s].disjoint : s \in DOMAIN scopes}
<1>10. Frame(n + 1)' = FrameOf(Declared(n + 1)', written, apart,
                              Bodied(Active("e", n + 1))', Bodied(Active("f", n + 1))', body)
  BY <1>6 DEF Frame, FrameOf
<1>11. Declared(n + 1)' = active
  <2>1. Declared(n + 1)' = UNION {Range(stream'[j].body) : j \in Standing("v", n + 1)'}
    BY DEF Declared
  <2>2. \A x : x \in Declared(n + 1)' <=> \E b \in Saids("v", m) : x \in Range(b)
    BY <1>9, <2>1
  <2>3. \A x : x \in active <=> \E s \in 1..m : x \in scopes[s].variables
    BY <1>7
  <2> QED
    BY <1>7, <2>2, <2>3 DEF Held, VariablesHeld
<1>12. UNION {Range(says) : says \in written} = Mandatory(body)
  <2>1. \A b : b \in written <=> b \in Saids("e", m) \/ b = body
    BY <1>6, <1>9
  <2>2. \A b : b \in Saids("e", m) <=> \E s \in 1..m : b \in Range(scopes[s].essentials)
    BY <1>7 DEF Held, EssentialsHeld
  <2>3. \A x : x \in UNION {Range(says) : says \in written} <=> \E b \in written : x \in Range(b)
    OBVIOUS
  <2>4. \A x : x \in Mandatory(body) <=> x \in Range(body) \/ \E s \in 1..m : \E b \in Range(scopes[s].essentials) : x \in Range(b)
    BY <1>7 DEF Mandatory
  <2> HIDE DEF written
  <2> QED
    BY <2>1, <2>2, <2>3, <2>4
<1>13. UNION apart = kept
  <2>1. \A p : p \in UNION apart <=> \E b \in Saids("d", m) : p \in Apart(Range(b))
    BY <1>9
  <2>2. \A p : p \in kept <=> \E s \in 1..m : p \in scopes[s].disjoint
    BY <1>7
  <2> QED
    BY <1>7, <2>1, <2>2 DEF Held, DisjointHeld
<1>14. /\ Joined([s \in DOMAIN scopes |-> scopes[s].floats]) = Told("f", m)
       /\ Joined([s \in DOMAIN scopes |-> scopes[s].essentials]) = Told("e", m)
  BY <1>7 DEF Held, FloatsHeld, EssentialsHeld
<1>15. Assertion(body) =
         [statement |-> body, essentials |-> Told("e", m),
          floats |-> Sift(Told("f", m), {"class"} \X (Mandatory(body) \cap active)),
          disjoint |-> {p \in kept : p \subseteq Mandatory(body) \cap active}]
  BY <1>14 DEF Assertion
<1> HIDE DEF written, apart, active, kept
<1>16. active \cap Mandatory(body) = Mandatory(body) \cap active
  OBVIOUS
<1> QED
  BY <1>8, <1>10, <1>11, <1>12, <1>13, <1>15, <1>16 DEF FrameOf

\* The invariant is kept by every statement read, and by the sharing after.
THEOREM LibraryKept == SpecLibrary => []LibraryInv
<1>1. InitLibrary => LibraryInv
  <2> SUFFICES ASSUME InitLibrary PROVE LibraryInv
    OBVIOUS
  <2>1. stream = <<>> /\ scopes = <<Scope>> /\ DOMAIN sigs = {} /\ Len(stream) = 0 /\ Len(scopes) = 1
    BY DEF InitLibrary
  <2>2. stream \in Seq(Statement) /\ Scope \in ScopeSet
    BY <2>1 DEF Scope, ScopeSet
  <2>3. scopes \in Seq(ScopeSet) /\ scopes # <<>>
    BY <2>1, <2>2
  <2>4. Depth(0) = 0
    <3>1. {j \in 1..0 : stream[j].key = "block"} = {} /\ {j \in 1..0 : stream[j].key = "end"} = {}
      OBVIOUS
    <3>2. Cardinality({}) = 0
      BY FS_EmptySet
    <3> QED
      BY <3>1, <3>2 DEF Depth
  <2>5. StackShape
    BY <2>1, <2>2, <2>3, <2>4 DEF StackShape
  <2>6. Held(1)
    <3>1. \A kind : Below(kind, 1) = {}
      BY <2>1 DEF Below, Standing
    <3>2. \A kind : Saids(kind, 1) = {}
      BY <3>1 DEF Saids
    <3>3. \A kind : Told(kind, 1) = <<>>
      <4> TAKE kind
      <4>1. [j \in 1..Len(stream) |-> j] = <<>>
        BY <2>1
      <4>2. Told(kind, 1) = Bodied(<<>>)
        BY <4>1, SiftNone DEF Told
      <4> QED
        BY <4>2 DEF Bodied
    <3>4. \A f : f \in [1..1 -> Seq(Seq(Names))] /\ f[1] = <<>> => Joined(f) = <<>>
      <4> TAKE f
      <4> HAVE f \in [1..1 -> Seq(Seq(Names))] /\ f[1] = <<>>
      <4>1. PICK m \in Nat \ {0} : m = 1
        OBVIOUS
      <4>0. f \in [1..m -> Seq(Seq(Names))] /\ f[m] = <<>>
        BY <4>1
      <4>2. Joined(f) = Joined([s \in 1..(m - 1) |-> f[s]])
        BY <4>0, JoinedEmpty, ZenonT(60)
      <4>3. [s \in 1..(m - 1) |-> f[s]] = <<>>
        BY <4>1
      <4> QED
        BY <4>2, <4>3, JoinedNone
    <3>5. scopes[1] = Scope /\ \A s \in 1..1 : s = 1
      BY <2>1
    <3>6. FloatsHeld(1)
      <4> DEFINE f == [s \in 1..1 |-> scopes[s].floats]
      <4>0. \A s \in 1..1 : scopes[s].floats = <<>>
        BY <3>5 DEF Scope
      <4>a. <<>> \in Seq(Seq(Names))
        OBVIOUS
      <4>b. PICK T : T = Seq(Seq(Names))
        OBVIOUS
      <4>c. <<>> \in T
        BY <4>a, <4>b
      <4>d. f \in [1..1 -> T] /\ f[1] = <<>>
        BY <4>0, <4>c
      <4>1. f \in [1..1 -> Seq(Seq(Names))] /\ f[1] = <<>>
        <5> HIDE DEF f
        <5> QED
          BY <4>b, <4>d
      <4>2. Joined(f) = <<>>
        BY <3>4, <4>1
      <4> QED
        BY <3>3, <4>2 DEF FloatsHeld
    <3>7. EssentialsHeld(1)
      <4> DEFINE f == [s \in 1..1 |-> scopes[s].essentials]
      <4>0. \A s \in 1..1 : scopes[s].essentials = <<>>
        BY <3>5 DEF Scope
      <4>a. <<>> \in Seq(Seq(Names))
        OBVIOUS
      <4>b. PICK T : T = Seq(Seq(Names))
        OBVIOUS
      <4>c. <<>> \in T
        BY <4>a, <4>b
      <4>d. f \in [1..1 -> T] /\ f[1] = <<>>
        BY <4>0, <4>c
      <4>1. f \in [1..1 -> Seq(Seq(Names))] /\ f[1] = <<>>
        <5> HIDE DEF f
        <5> QED
          BY <4>b, <4>d
      <4>2. Joined(f) = <<>>
        BY <3>4, <4>1
      <4>3. \A s \in 1..1 : Range(scopes[s].essentials) = {}
        BY <3>5 DEF Scope, Range
      <4> QED
        BY <3>2, <3>3, <4>2, <4>3 DEF EssentialsHeld
    <3>8. VariablesHeld(1) /\ DisjointHeld(1)
      BY <3>2, <3>5 DEF VariablesHeld, DisjointHeld, Scope
    <3> QED
      BY <3>6, <3>7, <3>8 DEF Held
  <2>7. StackHeld
    BY <2>1, <2>6 DEF StackHeld
  <2> QED
    BY <2>1, <2>5, <2>7 DEF LibraryInv
<1>2. LibraryInv /\ [NextLibrary]_libraryVars => LibraryInv'
  <2> SUFFICES ASSUME LibraryInv, [NextLibrary]_libraryVars PROVE LibraryInv'
    OBVIOUS
  <2>1. ASSUME NEW key, NEW body, ReadOn(key, body), sigs' = sigs PROVE LibraryInv'
    <3>1. Comes(key, body) /\ DOMAIN sigs \subseteq 1..Len(stream)
      BY <2>1 DEF ReadOn, LibraryInv, StackShape
    <3>2. DOMAIN sigs' \subseteq 1..Len(stream')
      BY <2>1, <3>1, ComesAfter
    <3>3. \A k \in DOMAIN sigs : Frame(k)' = Frame(k) /\ stream'[k] = stream[k]
      BY <3>1, FrameStays
    <3>4. \A k \in DOMAIN sigs' : stream'[k].key = "a" => sigs'[k] = Frame(k)'
      BY <2>1, <3>3 DEF LibraryInv
    <3> QED
      BY <2>1, <3>2, <3>4 DEF ReadOn, LibraryInv, StackShape
  <2>2. CASE OpenScope
    BY <2>1, <2>2, OpenHeld DEF ReadOn, OpenScope
  <2>3. CASE CloseScope
    BY <2>1, <2>3, CloseHeld DEF ReadOn, CloseScope
  <2>4. ASSUME NEW body \in Bodies, Declares(body) PROVE LibraryInv'
    BY <2>1, <2>4, DeclaresHeld DEF Declares
  <2>5. ASSUME NEW x \in Symbols, NEW y \in Symbols, Disjoint(x, y) PROVE LibraryInv'
    BY <2>1, <2>5, DisjointHeldAfter DEF Disjoint
  <2>6. ASSUME NEW body \in Bodies, Essential(body) PROVE LibraryInv'
    BY <2>1, <2>6, EssentialHeldAfter DEF Essential
  <2>0. PICK n \in Nat : n = Len(stream)
    BY DEF LibraryInv, StackShape
  <2>7. ASSUME NEW key, NEW body, ReadOn(key, body), NEW sig, Keep(sig),
               key = "a" => sig = Frame(n + 1)'
        PROVE  LibraryInv'
    <3>1. n = Len(stream) /\ n + 1 = Here
      BY <2>0 DEF Here
    <3>2. Comes(key, body) /\ DOMAIN sigs \subseteq 1..n
      BY <2>7, <3>1 DEF ReadOn, LibraryInv, StackShape
    <3>3. DOMAIN sigs' = DOMAIN sigs \cup {n + 1} /\ sigs'[n + 1] = sig
          /\ \A k \in DOMAIN sigs : sigs'[k] = sigs[k]
      BY <2>7, <3>1, <3>2 DEF Keep
    <3>4. Len(stream') = n + 1 /\ stream'[n + 1].key = key
      BY <3>1, <3>2, ComesAfter
    <3>5. \A k \in DOMAIN sigs : Frame(k)' = Frame(k) /\ stream'[k] = stream[k]
      BY <3>1, <3>2, FrameStays
    <3>6. \A k \in DOMAIN sigs : stream'[k].key = "a" => sigs'[k] = Frame(k)'
      BY <3>3, <3>5 DEF LibraryInv
    <3>7. \A k \in DOMAIN sigs' : stream'[k].key = "a" => sigs'[k] = Frame(k)'
      BY <2>7, <3>3, <3>4, <3>6
    <3>8. DOMAIN sigs' \subseteq 1..Len(stream')
      BY <3>2, <3>3, <3>4
    <3> QED
      BY <2>7, <3>7, <3>8 DEF ReadOn, LibraryInv, StackShape
  <2>8. ASSUME NEW x \in Symbols, Float(x) PROVE LibraryInv'
    <3>1. ReadOn("f", <<"class", x>>)
      BY <2>8, FloatHeldAfter
    <3>2. \E sig : Keep(sig)
      BY <2>8 DEF Float
    <3> QED
      BY <2>7, <3>1, <3>2
  <2>9. ASSUME NEW body \in Bodies, AssertionRead(body) PROVE LibraryInv'
    <3>1. ReadOn("a", body) /\ Frame(n + 1)' = Assertion(body)
      BY <2>0, <2>9, AssertionHeldAfter, AssertionIsFrame
    <3>2. Keep(Assertion(body))
      BY <2>9 DEF AssertionRead
    <3> QED
      BY <2>7, <3>1, <3>2
  <2>10. ASSUME stream' = stream, scopes' = scopes, sigs' = sigs PROVE LibraryInv'
    <3>1. \A k : Depth(k)' = Depth(k)
      BY <2>10 DEF Depth
    <3>2. \A kind, k : Standing(kind, k)' = Standing(kind, k)
      BY <2>10, <3>1 DEF Standing, InForce
    <3>3. \A kind, k : Bodied(Active(kind, k))' = Bodied(Active(kind, k))
      BY <2>10, <3>2 DEF Active, Bodied
    <3>4. \A k : Frame(k)' = Frame(k)
      <4> TAKE k
      <4>1. PICK declared : declared = Declared(k) /\ declared = Declared(k)'
        BY <2>10, <3>2 DEF Declared
      <4>2. PICK es, fs : /\ es = Bodied(Active("e", k)) /\ es = Bodied(Active("e", k))'
                         /\ fs = Bodied(Active("f", k)) /\ fs = Bodied(Active("f", k))'
        BY <3>3
      <4>3. PICK written : /\ written = {stream[j].body : j \in Standing("e", k) \cup {k}}
                          /\ written = {stream'[j].body : j \in Standing("e", k)' \cup {k}}
        BY <2>10, <3>2
      <4>4. PICK apart : /\ apart = {Apart(Range(stream[j].body)) : j \in Standing("d", k)}
                        /\ apart = {Apart(Range(stream'[j].body)) : j \in Standing("d", k)'}
        BY <2>10, <3>2
      <4>5. Frame(k) = FrameOf(declared, written, apart, es, fs, stream[k].body)
        BY <4>1, <4>2, <4>3, <4>4 DEF Frame, FrameOf
      <4>6. Frame(k)' = FrameOf(declared, written, apart, es, fs, stream'[k].body)
        BY <4>1, <4>2, <4>3, <4>4 DEF Frame, FrameOf
      <4> QED
        BY <2>10, <4>5, <4>6
    <3>5. \A kind, d : Below(kind, d)' = Below(kind, d)
      BY <2>10, <3>1, <3>2 DEF Below
    <3>6. \A kind, d : Told(kind, d)' = Told(kind, d) /\ Saids(kind, d)' = Saids(kind, d)
      BY <2>10, <3>5 DEF Told, Saids, Bodied
    <3>7. \A d : Held(d) => Held(d)'
      BY <2>10, <3>6 DEF Held, FloatsHeld, EssentialsHeld, VariablesHeld, DisjointHeld
    <3> QED
      BY <2>10, <3>1, <3>4, <3>7 DEF LibraryInv, StackShape, StackHeld
  <2>11. CASE Share
    BY <2>10, <2>11 DEF Share
  <2>12. ASSUME NEW t, NEW label, Insert(t, label) PROVE LibraryInv'
    BY <2>10, <2>12 DEF Insert
  <2>13. CASE UNCHANGED libraryVars
    BY <2>10, <2>13 DEF libraryVars
  <2> QED
    BY <2>2, <2>3, <2>4, <2>5, <2>6, <2>8, <2>9, <2>11, <2>12, <2>13 DEF NextLibrary
<1> QED
  BY <1>1, <1>2, PTL DEF SpecLibrary

\* Every assertion of the database is read with the frame Metamath gives it,
\* for any variables and statements, however deep the blocks around it and however
\* they were opened and closed.
THEOREM SignaturesAreFrames == SpecLibrary => []SignatureIsFrame
<1>1. LibraryInv => SignatureIsFrame
  BY DEF LibraryInv, SignatureIsFrame
<1> QED
  BY <1>1, LibraryKept, PTL
=============================================================================
