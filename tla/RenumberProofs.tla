--------------------------- MODULE RenumberProofs ---------------------------
(***************************************************************************)
(* Proofs about Renumber: for any theorem numbered as the checker asks,    *)
(* and any runs moved and steps lifted, each citation names the step it    *)
(* was written for, and the steps stay nested as they were.                *)
(*                                                                         *)
(* The argument: a step's ancestors are in the file, so that a step of a   *)
(* run landing on a step that stays would have its ancestor at the run's   *)
(* own depth land on one, which is looked for; and the steps lifted take   *)
(* no more places than the later steps are moved on by.                    *)
(***************************************************************************)
EXTENDS Renumber, SequenceTheorems, Induction

(***************************************************************************)
(* Numbers, index by index                                                 *)
(***************************************************************************)

\* The first parts of a number, so many of them.
LEMMA FirstOf ==
  ASSUME NEW S, NEW s \in Seq(S), NEW a \in 0..Len(s)
  PROVE  /\ SubSeq(s, 1, a) \in Seq(S) /\ Len(SubSeq(s, 1, a)) = a
         /\ \A i \in 1..a : SubSeq(s, 1, a)[i] = s[i]
  OBVIOUS

\* A number extends another where it is as long and begins with it.
LEMMA ExtendsAt ==
  ASSUME NEW n \in Seq(Nat), NEW m \in Seq(Nat)
  PROVE  Extends(n, m) <=> Len(m) <= Len(n) /\ \A i \in 1..Len(m) : n[i] = m[i]
<1>1. CASE Len(m) <= Len(n)
  <2> DEFINE p == SubSeq(m, 1, Len(m))
  <2> DEFINE q == SubSeq(n, 1, Len(m))
  <2>1. /\ p \in Seq(Nat) /\ Len(p) = Len(m) /\ \A i \in 1..Len(m) : p[i] = m[i]
        /\ q \in Seq(Nat) /\ Len(q) = Len(m) /\ \A i \in 1..Len(m) : q[i] = n[i]
    BY <1>1
  <2>2. p = q <=> \A i \in 1..Len(m) : p[i] = q[i]
    <3> HIDE DEF p, q
    <3> QED
      BY <2>1, SeqEqual
  <2> HIDE DEF p, q
  <2>3. p = q <=> \A i \in 1..Len(m) : n[i] = m[i]
    BY <2>1, <2>2
  <2> QED
    BY <1>1, <2>3 DEF Extends, IsPrefix, p, q
<1>2. CASE ~(Len(m) <= Len(n))
  BY <1>2 DEF Extends, IsPrefix
<1> QED
  BY <1>1, <1>2

\* A step is under another where its number is longer and begins with it.
LEMMA InsideAt ==
  ASSUME NEW n \in Seq(Nat), NEW m \in Seq(Nat)
  PROVE  Inside(n, m) <=> Len(m) < Len(n) /\ \A i \in 1..Len(m) : n[i] = m[i]
<1>1. Extends(n, m) <=> Len(m) <= Len(n) /\ \A i \in 1..Len(m) : n[i] = m[i]
  BY ExtendsAt
<1>2. ASSUME Len(m) = Len(n), \A i \in 1..Len(m) : n[i] = m[i] PROVE n = m
  BY <1>2, SeqEqual
<1>3. Len(m) \in Nat /\ Len(n) \in Nat
  OBVIOUS
<1>4. n = m => Len(m) = Len(n)
  OBVIOUS
<1> QED
  BY <1>1, <1>2, <1>3, <1>4 DEF Inside

\* The number of a step's ancestor at a depth.
LEMMA CutAt ==
  ASSUME NEW n \in Numbers, NEW a \in 1..Len(n)
  PROVE  /\ SubSeq(n, 1, a) \in Numbers /\ Len(SubSeq(n, 1, a)) = a
         /\ \A i \in 1..a : SubSeq(n, 1, a)[i] = n[i]
<1>1. n \in Seq(Nat \ {0}) /\ Len(n) \in Nat /\ a \in Nat \ {0} /\ a <= Len(n)
  BY DEF Numbers
<1> DEFINE s == SubSeq(n, 1, a)
<1>2. s \in Seq(Nat \ {0}) /\ Len(s) = a /\ \A i \in 1..a : s[i] = n[i]
  BY <1>1
<1> HIDE DEF s
<1>3. s # <<>>
  BY <1>1, <1>2
<1> QED
  BY <1>2, <1>3 DEF s, Numbers

\* Two numbers told apart: one is under the other, or one comes before the
\* other.
LEMMA Compared ==
  ASSUME NEW n \in Seq(Nat), NEW m \in Seq(Nat), n # m
  PROVE  Inside(n, m) \/ Inside(m, n) \/ Earlier(n, m) \/ Earlier(m, n)
<1> DEFINE Short == IF Len(n) <= Len(m) THEN Len(n) ELSE Len(m)
<1> DEFINE Agree(k) == \A i \in 1..k : n[i] = m[i]
<1>1. Len(n) \in Nat /\ Len(m) \in Nat /\ Short \in Nat /\ Short <= Len(n) /\ Short <= Len(m)
      /\ (Short = Len(n) \/ Short = Len(m))
  OBVIOUS
<1>2. CASE Agree(Short)
  <2>1. CASE Len(n) = Len(m)
    <3>1. n = m
      BY <1>1, <1>2, <2>1, SeqEqual
    <3> QED
      BY <3>1
  <2>2. CASE Len(n) < Len(m)
    BY <1>1, <1>2, <2>2, InsideAt
  <2>3. CASE Len(m) < Len(n)
    BY <1>1, <1>2, <2>3, InsideAt
  <2> QED
    BY <1>1, <2>1, <2>2, <2>3
<1>3. CASE ~Agree(Short)
  <2> DEFINE T == {k \in Nat : k <= Short => Agree(k)}
  <2>1. Short \notin T /\ 0 \in T
    BY <1>1, <1>3
  <2>2. \E k \in Nat : k \in T /\ k + 1 \notin T
    <3> HIDE DEF T
    <3> QED
      BY <1>1, <2>1, SetInduction
  <2>3. PICK k \in Nat : k \in T /\ k + 1 \notin T
    BY <2>2
  <2>4. k + 1 <= Short /\ Agree(k) /\ n[k + 1] # m[k + 1]
    BY <1>1, <2>3
  <2>5. k + 1 \in DOMAIN n \cap DOMAIN m
    BY <1>1, <2>4
  <2>6. n[k + 1] \in Nat /\ m[k + 1] \in Nat
    BY <2>5
  <2>7. SubSeq(n, 1, (k + 1) - 1) = SubSeq(m, 1, (k + 1) - 1)
    <3> DEFINE p == SubSeq(n, 1, k)
    <3> DEFINE q == SubSeq(m, 1, k)
    <3>1. k <= Len(n) /\ k <= Len(m)
      BY <1>1, <2>4
    <3>2. /\ p \in Seq(Nat) /\ Len(p) = k /\ \A i \in 1..k : p[i] = n[i]
          /\ q \in Seq(Nat) /\ Len(q) = k /\ \A i \in 1..k : q[i] = m[i]
      BY <3>1
    <3> HIDE DEF p, q
    <3>3. p = q
      BY <2>4, <3>2, SeqEqual
    <3> QED
      BY <3>3 DEF p, q
  <2>8. n[k + 1] < m[k + 1] \/ m[k + 1] < n[k + 1]
    BY <2>4, <2>6
  <2> QED
    BY <2>5, <2>7, <2>8 DEF Earlier
<1> QED
  BY <1>2, <1>3

\* A number comes before another where they first differ, index by index.
LEMMA EarlierAt ==
  ASSUME NEW n \in Seq(Nat), NEW m \in Seq(Nat)
  PROVE  Earlier(n, m) <=> \E k \in 1..Len(n) : /\ k <= Len(m) /\ n[k] < m[k]
                                               /\ \A i \in 1..(k - 1) : n[i] = m[i]
<1>1. ASSUME NEW k \in 1..Len(n), k <= Len(m)
      PROVE  SubSeq(n, 1, k - 1) = SubSeq(m, 1, k - 1) <=> \A i \in 1..(k - 1) : n[i] = m[i]
  <2> DEFINE p == SubSeq(n, 1, k - 1)
  <2> DEFINE q == SubSeq(m, 1, k - 1)
  <2>1. /\ p \in Seq(Nat) /\ Len(p) = k - 1 /\ \A i \in 1..(k - 1) : p[i] = n[i]
        /\ q \in Seq(Nat) /\ Len(q) = k - 1 /\ \A i \in 1..(k - 1) : q[i] = m[i]
    <3>1. k - 1 \in 0..Len(n) /\ k - 1 \in 0..Len(m)
      BY <1>1
    <3> QED
      BY <3>1, FirstOf
  <2> HIDE DEF p, q
  <2>2. p = q <=> \A i \in 1..(k - 1) : p[i] = q[i]
    BY <2>1, SeqEqual
  <2> QED
    BY <2>1, <2>2 DEF p, q
<1>2. \A k : k \in DOMAIN n \cap DOMAIN m <=> k \in 1..Len(n) /\ k <= Len(m)
  OBVIOUS
<1> QED
  BY <1>1, <1>2 DEF Earlier

\* Of two numbers at most one is under or before the other, and then they differ.
LEMMA ComparedOnce ==
  ASSUME NEW n \in Seq(Nat), NEW m \in Seq(Nat)
  PROVE  /\ ~(Inside(n, m) /\ (Inside(m, n) \/ Earlier(n, m) \/ Earlier(m, n)))
         /\ ~(Earlier(n, m) /\ Earlier(m, n))
         /\ Inside(n, m) \/ Earlier(n, m) => n # m
<1>1. Inside(n, m) <=> Len(m) < Len(n) /\ \A i \in 1..Len(m) : n[i] = m[i]
  BY InsideAt
<1>2. Inside(m, n) <=> Len(n) < Len(m) /\ \A i \in 1..Len(n) : m[i] = n[i]
  BY InsideAt
<1>3. Earlier(n, m) <=> \E k \in 1..Len(n) : /\ k <= Len(m) /\ n[k] < m[k]
                                             /\ \A i \in 1..(k - 1) : n[i] = m[i]
  BY EarlierAt
<1>4. Earlier(m, n) <=> \E k \in 1..Len(m) : /\ k <= Len(n) /\ m[k] < n[k]
                                             /\ \A i \in 1..(k - 1) : m[i] = n[i]
  BY EarlierAt
<1>5. \A k \in 1..Len(n) : k <= Len(m) => n[k] \in Nat /\ m[k] \in Nat /\ k \in 1..Len(m)
  OBVIOUS
<1>6. Len(n) \in Nat /\ Len(m) \in Nat
  OBVIOUS
<1>7. ~(Inside(n, m) /\ Inside(m, n)) /\ (Inside(n, m) => n # m)
  BY <1>1, <1>2, <1>6
<1>8. ~(Inside(n, m) /\ (Earlier(n, m) \/ Earlier(m, n)))
  BY <1>1, <1>3, <1>4, <1>5, <1>6
<1>9. ~(Earlier(n, m) /\ Earlier(m, n))
  <2> SUFFICES ASSUME Earlier(n, m), Earlier(m, n) PROVE FALSE
    OBVIOUS
  <2>1. PICK k \in 1..Len(n) : k <= Len(m) /\ n[k] < m[k] /\ \A i \in 1..(k - 1) : n[i] = m[i]
    BY <1>3
  <2>2. PICK l \in 1..Len(m) : l <= Len(n) /\ m[l] < n[l] /\ \A i \in 1..(l - 1) : m[i] = n[i]
    BY <1>4
  <2>3. n[k] \in Nat /\ m[k] \in Nat /\ n[l] \in Nat /\ m[l] \in Nat
    BY <1>5, <2>1, <2>2
  <2>4. CASE k < l
    BY <2>1, <2>2, <2>3, <2>4
  <2>5. CASE l < k
    BY <2>1, <2>2, <2>3, <2>5
  <2>6. CASE k = l
    BY <2>1, <2>2, <2>3, <2>6
  <2> QED
    BY <2>4, <2>5, <2>6
<1>10. Earlier(n, m) => n # m
  BY <1>3, <1>5
<1> QED
  BY <1>7, <1>8, <1>9, <1>10

(***************************************************************************)
(* The invariant                                                           *)
(***************************************************************************)

\* A line of a file.
ALine == [id : Nat, number : Numbers \cup {<<>>}, cites : Seq(Numbers)]

\* The file is lines of a theorem, and is written so many times at most.
TypeOK ==
  /\ file \in Seq(ALine)
  /\ writes \in 0..MaxWrites

\* Lines are told apart.
Identified == \A j, k \in DOMAIN file : file[j].id = file[k].id => j = k

Inv == TypeOK /\ Numbered(file) /\ Identified /\ CitesTheSame

\* The lines of a file, their numbers and what they cite.
LEMMA LineShape ==
  ASSUME Inv, NEW k \in DOMAIN file
  PROVE  /\ file[k] \in ALine
         /\ file[k].number \in Number \cup {<<>>}
         /\ Range(file[k].cites) \subseteq Number
<1>1. file[k] \in ALine
  BY DEF Inv, TypeOK
<1>2. file[k].number \in Number \cup {<<>>}
  BY DEF Number, NumbersOf
<1>3. Range(file[k].cites) \subseteq Number
  BY DEF Inv, Number, Numbered
<1> QED
  BY <1>1, <1>2, <1>3

\* What the numbers of a file are: finitely many, none of them empty.
LEMMA NumberShape ==
  ASSUME Inv
  PROVE  Number \subseteq Numbers /\ <<>> \notin Number /\ IsFiniteSet(Number)
<1> DEFINE D == {k \in DOMAIN file : file[k].number # <<>>}
<1> DEFINE f == [k \in D |-> file[k].number]
<1>1. Number = {file[k].number : k \in D}
  BY DEF Number, NumbersOf
<1>2. f \in Surjection(D, Number)
  <2>1. f \in [D -> Number]
    BY <1>1
  <2>2. \A n \in Number : \E k \in D : f[k] = n
    BY <1>1
  <2> QED
    BY <2>1, <2>2 DEF Surjection
<1>3. IsFiniteSet(D)
  <2>1. DOMAIN file = 1..Len(file) /\ Len(file) \in Nat
    BY DEF Inv, TypeOK
  <2>2. IsFiniteSet(1..Len(file))
    BY <2>1, FS_Interval
  <2> QED
    BY <2>1, <2>2, FS_Subset
<1>4. IsFiniteSet(Number)
  BY <1>2, <1>3, FS_Surjection
<1>5. ASSUME NEW n \in Number PROVE n \in Numbers /\ n # <<>>
  <2>1. PICK k \in DOMAIN file : file[k].number = n /\ n # <<>>
    BY <1>5 DEF Number, NumbersOf
  <2>2. file[k].number \in Numbers \cup {<<>>}
    BY LineShape DEF ALine
  <2> QED
    BY <2>1, <2>2
<1> QED
  BY <1>4, <1>5

\* With a step, every step it is under is in the file.
LEMMA Ancestors ==
  ASSUME Inv, NEW n \in Number, NEW a \in 1..Len(n)
  PROVE  SubSeq(n, 1, a) \in Number
<1>1. n \in Numbers /\ n \in Seq(Nat \ {0}) /\ Len(n) \in Nat
  BY NumberShape DEF Numbers
<1> DEFINE T == {d \in Nat : d < Len(n) => SubSeq(n, 1, Len(n) - d) \in Number}
<1>2. 0 \in T
  <2>1. SubSeq(n, 1, Len(n)) = n
    <3> DEFINE s == SubSeq(n, 1, Len(n))
    <3>1. s \in Seq(Nat \ {0}) /\ Len(s) = Len(n) /\ \A i \in 1..Len(n) : s[i] = n[i]
      BY <1>1, FirstOf
    <3> HIDE DEF s
    <3>2. s = n
      BY <1>1, <3>1, SeqEqual
    <3> QED
      BY <3>2 DEF s
  <2>2. SubSeq(n, 1, Len(n) - 0) = n
    BY <1>1, <2>1
  <2> QED
    BY <2>2
<1>3. ASSUME NEW d \in Nat, d \in T PROVE d + 1 \in T
  <2> SUFFICES ASSUME d + 1 < Len(n) PROVE SubSeq(n, 1, Len(n) - (d + 1)) \in Number
    OBVIOUS
  <2> DEFINE s == SubSeq(n, 1, Len(n) - d)
  <2>1. s \in Number
    BY <1>1, <1>3, d < Len(n)
  <2>2. Len(n) - d \in 1..Len(n) /\ Len(n) - (d + 1) \in 1..Len(n) /\ Len(n) - d > 1
    BY <1>1
  <2>3. s \in Numbers /\ Len(s) = Len(n) - d /\ \A i \in 1..(Len(n) - d) : s[i] = n[i]
    BY <1>1, <2>2, CutAt
  <2> HIDE DEF s
  <2>4. Front(s) \in Number
    BY <2>1, <2>2, <2>3 DEF Inv, Numbered, Number
  <2> DEFINE p == SubSeq(s, 1, Len(s) - 1)
  <2> DEFINE q == SubSeq(n, 1, Len(n) - (d + 1))
  <2>5. Len(s) - 1 \in 1..Len(s) /\ Len(s) - 1 = Len(n) - (d + 1)
    BY <1>1, <2>2, <2>3
  <2>6. /\ p \in Numbers /\ Len(p) = Len(s) - 1 /\ \A i \in 1..(Len(s) - 1) : p[i] = s[i]
    BY <2>3, <2>5, CutAt
  <2>7. /\ q \in Numbers /\ Len(q) = Len(s) - 1 /\ \A i \in 1..(Len(s) - 1) : q[i] = n[i]
    <3>1. /\ q \in Numbers /\ Len(q) = Len(n) - (d + 1) /\ \A i \in 1..(Len(n) - (d + 1)) : q[i] = n[i]
      BY <1>1, <2>2, CutAt
    <3> QED
      BY <2>5, <3>1
  <2> HIDE DEF p, q
  <2>8. \A i \in 1..(Len(s) - 1) : p[i] = q[i]
    BY <1>1, <2>2, <2>3, <2>6, <2>7
  <2>9. p = q
    BY <2>6, <2>7, <2>8, SeqEqual DEF Numbers
  <2> QED
    BY <2>4, <2>9 DEF p, q, Front
<1>4. \A d \in Nat : d \in T
  <2> HIDE DEF T
  <2> QED
    BY <1>2, <1>3, SetInduction
<1>5. Len(n) - a \in Nat /\ Len(n) - a < Len(n) /\ Len(n) - (Len(n) - a) = a
  BY <1>1
<1> QED
  BY <1>4, <1>5

(***************************************************************************)
(* A map of numbers                                                        *)
(***************************************************************************)

\* A map takes these numbers of the file to numbers, told apart, each still
\* under a step that is there.
Renames(map, numbers) ==
  /\ numbers \subseteq Number /\ <<>> \notin DOMAIN map
  /\ \A n \in numbers : As(map, n) \in Numbers
  /\ \A n, m \in numbers : As(map, n) = As(map, m) => n = m
  /\ \A n \in numbers : Len(As(map, n)) > 1 => \E m \in numbers : Front(As(map, n)) = As(map, m)

\* The file written is these lines of the file, with their numbers and
\* citations as the map says, and these are the numbers of the lines it has.
Rewritten(map, numbers, from) ==
  /\ file' \in Seq(ALine)
  /\ DOMAIN from = DOMAIN file' /\ \A j, k \in DOMAIN file' : from[j] = from[k] => j = k
  /\ \A j \in DOMAIN file' :
       LET old == file[from[j]] IN
       /\ from[j] \in DOMAIN file
       /\ file'[j].id = old.id /\ file'[j].number = As(map, old.number)
       /\ DOMAIN file'[j].cites = DOMAIN old.cites
       /\ \A c \in DOMAIN old.cites : old.cites[c] \in numbers /\ file'[j].cites[c] = As(map, old.cites[c])
       /\ old.number # <<>> => old.number \in numbers
  /\ \A n \in numbers : \E j \in DOMAIN file' : file[from[j]].number = n

\* Then the invariant holds of the file written.
LEMMA RenamedKeeps ==
  ASSUME Inv, UNCHANGED meant, NEW map, NEW numbers, NEW from,
         Renames(map, numbers), Rewritten(map, numbers, from)
  PROVE  Numbered(file') /\ Identified' /\ CitesTheSame'
<1> DEFINE old(j) == file[from[j]]
<1>1. \A j \in DOMAIN file' :
        /\ from[j] \in DOMAIN file
        /\ file'[j].id = old(j).id /\ file'[j].number = As(map, old(j).number)
        /\ DOMAIN file'[j].cites = DOMAIN old(j).cites
        /\ \A c \in DOMAIN old(j).cites :
             old(j).cites[c] \in numbers /\ file'[j].cites[c] = As(map, old(j).cites[c])
        /\ old(j).number # <<>> => old(j).number \in numbers
  BY DEF Rewritten
<1>2. /\ \A j, k \in DOMAIN file' : from[j] = from[k] => j = k
      /\ \A n \in numbers : \E j \in DOMAIN file' : old(j).number = n
  BY DEF Rewritten
<1>3. /\ As(map, <<>>) = <<>>
      /\ \A n \in numbers : As(map, n) \in Numbers /\ As(map, n) # <<>>
      /\ \A n, m \in numbers : As(map, n) = As(map, m) => n = m
      /\ \A n \in numbers : Len(As(map, n)) > 1 => \E m \in numbers : Front(As(map, n)) = As(map, m)
  BY DEF Renames, As, Numbers
<1> HIDE DEF old
<1>4. NumbersOf(file') = {As(map, n) : n \in numbers}
  <2>1. ASSUME NEW j \in DOMAIN file', file'[j].number # <<>>
        PROVE  file'[j].number \in {As(map, n) : n \in numbers}
    BY <1>1, <1>3, <2>1
  <2>2. ASSUME NEW n \in numbers PROVE As(map, n) \in NumbersOf(file')
    BY <1>1, <1>2, <1>3 DEF NumbersOf
  <2> QED
    BY <2>1, <2>2 DEF NumbersOf
<1>5. \A j, k \in DOMAIN file' : file'[j].number = file'[k].number => file'[k].number = <<>> \/ j = k
  <2> SUFFICES ASSUME NEW j \in DOMAIN file', NEW k \in DOMAIN file',
                      file'[j].number = file'[k].number, file'[k].number # <<>>
               PROVE  j = k
    OBVIOUS
  <2>1. old(j).number \in numbers /\ old(k).number \in numbers
    BY <1>1, <1>3
  <2>2. old(j).number = old(k).number /\ old(k).number # <<>>
    BY <1>1, <1>3, <2>1
  <2>3. from[j] = from[k]
    BY <1>1, <2>2 DEF Inv, Numbered, old
  <2> QED
    BY <1>2, <2>3
<1>6. \A n \in NumbersOf(file') : Len(n) > 1 => Front(n) \in NumbersOf(file')
  BY <1>3, <1>4
<1>7. \A k \in DOMAIN file' : Range(file'[k].cites) \subseteq NumbersOf(file')
  BY <1>1, <1>4 DEF Range
<1>8. Numbered(file')
  BY <1>5, <1>6, <1>7 DEF Numbered
<1>9. Identified'
  <2>1. \A j, k \in DOMAIN file' : file'[j].id = file'[k].id => from[j] = from[k]
    BY <1>1 DEF Inv, Identified, old
  <2> QED
    BY <1>2, <2>1 DEF Identified
<1>10. CitesTheSame'
  <2> SUFFICES ASSUME NEW k \in DOMAIN file', NEW c \in DOMAIN file'[k].cites, NEW j \in DOMAIN file'
               PROVE  (file'[j].number = file'[k].cites[c]) <=> (file'[j].id = meant[file'[k].id][c])
    BY DEF CitesTheSame
  <2>1. /\ c \in DOMAIN old(k).cites /\ old(k).cites[c] \in numbers
        /\ file'[k].cites[c] = As(map, old(k).cites[c]) /\ file'[k].id = old(k).id
        /\ file'[j].number = As(map, old(j).number) /\ file'[j].id = old(j).id
        /\ old(j).number # <<>> => old(j).number \in numbers
    BY <1>1
  <2>2. (old(j).number = old(k).cites[c]) <=> (old(j).id = meant[old(k).id][c])
    BY <1>1, <2>1 DEF Inv, CitesTheSame, old
  <2>3. file'[j].number = file'[k].cites[c] <=> old(j).number = old(k).cites[c]
    BY <1>3, <2>1
  <2> QED
    BY <2>1, <2>2, <2>3
<1> QED
  BY <1>8, <1>9, <1>10

(***************************************************************************)
(* A run shifted                                                           *)
(***************************************************************************)

\* What a run is.
LEMMA RunShape ==
  ASSUME Inv, NEW run \in Runs
  PROVE  run.parent \in Seq(Nat \ {0}) /\ run.first \in Nat /\ run.last \in Nat
<1>1. PICK n \in Number, last \in 0..MaxPart :
        run = [parent |-> Parent(n), first |-> n[Len(n)], last |-> last]
  BY DEF Runs
<1>2. n \in Seq(Nat \ {0}) /\ Len(n) \in Nat \ {0}
  BY NumberShape, EmptySeq DEF Numbers
<1>3. Parent(n) \in Seq(Nat \ {0})
  <2>1. Len(n) - 1 \in 0..Len(n)
    BY <1>2
  <2> QED
    BY <1>2, <2>1, FirstOf DEF Parent, Front
<1>4. n[Len(n)] \in Nat
  BY <1>2
<1> QED
  BY <1>1, <1>3, <1>4, RenumberAssumption

\* Whether a step is moved is for its ancestor at the depth of the run to say.
LEMMA MovesAlike ==
  ASSUME Inv, NEW run \in Runs, NEW n \in Numbers, NEW m \in Numbers,
         Len(run.parent) + 1 <= Len(n), Len(run.parent) + 1 <= Len(m),
         \A i \in 1..(Len(run.parent) + 1) : n[i] = m[i]
  PROVE  Moves(run, n) <=> Moves(run, m)
<1>1. run.parent \in Seq(Nat) /\ n \in Seq(Nat) /\ m \in Seq(Nat) /\ Len(run.parent) \in Nat
  BY RunShape DEF Numbers
<1>2. PICK parent \in Seq(Nat) : parent = run.parent
  BY <1>1
<1>3. Extends(n, parent) <=> Len(parent) <= Len(n) /\ \A i \in 1..Len(parent) : n[i] = parent[i]
  BY <1>1, ExtendsAt
<1>4. Extends(m, parent) <=> Len(parent) <= Len(m) /\ \A i \in 1..Len(parent) : m[i] = parent[i]
  BY <1>1, ExtendsAt
<1>5. Len(n) \in Nat /\ Len(m) \in Nat /\ Len(parent) \in Nat
      /\ Len(parent) + 1 <= Len(n) /\ Len(parent) + 1 <= Len(m)
      /\ \A i \in 1..(Len(parent) + 1) : n[i] = m[i]
  BY <1>1, <1>2
<1>6. Extends(n, parent) <=> Extends(m, parent)
  BY <1>3, <1>4, <1>5
<1>7. n[Len(parent) + 1] = m[Len(parent) + 1]
  BY <1>5
<1> QED
  BY <1>2, <1>5, <1>6, <1>7 DEF Moves, MovesAt

\* What a shift makes of a step's number: one part of it moved on.
LEMMA ShiftedAt ==
  ASSUME Inv, NEW run \in Runs, NEW by \in Shifts, ~Below1(run, by), NEW n \in Number
  PROVE  LET s == As(Shifted(run, by), n) IN
         /\ s \in Numbers /\ Len(s) = Len(n)
         /\ \A i \in 1..Len(n) :
              s[i] = IF i = Len(run.parent) + 1 /\ Moves(run, n) THEN n[i] + by ELSE n[i]
<1> DEFINE at == Len(run.parent) + 1
<1> DEFINE s == As(Shifted(run, by), n)
<1>1. at \in Nat \ {0} /\ by \in Int
  BY RunShape, RenumberAssumption
<1>2. n \in Numbers /\ n \in Seq(Nat \ {0}) /\ Len(n) \in Nat
  BY NumberShape DEF Numbers
<1>3. CASE Moves(run, n)
  <2>1. at <= Len(n)
    BY <1>3 DEF Moves, MovesAt
  <2>2. s = [n EXCEPT ![at] = @ + by]
    BY <1>3 DEF As, Shifted
  <2>3. n[at] + by \in Nat \ {0}
    <3>1. ~(n[at] + by < 1)
      BY <1>3 DEF Below1
    <3>2. n[at] \in Nat
      BY <1>1, <1>2, <2>1
    <3> QED
      BY <1>1, <3>1, <3>2
  <2> HIDE DEF s, at
  <2>4. at \in 1..Len(n)
    BY <1>1, <1>2, <2>1
  <2>5. s = [n EXCEPT ![at] = n[at] + by]
    BY <2>2
  <2>6. s \in Seq(Nat \ {0}) /\ Len(s) = Len(n) /\ \A i \in 1..Len(n) : s[i] = IF i = at THEN n[at] + by ELSE n[i]
    BY <1>2, <2>3, <2>4, <2>5, ExceptSeq
  <2>7. s # <<>>
    BY <2>4, <2>6
  <2> QED
    BY <1>3, <2>6, <2>7 DEF s, at, Numbers
<1>4. CASE ~Moves(run, n)
  <2>1. s = n
    BY <1>4 DEF As, Shifted
  <2> HIDE DEF s
  <2> QED
    BY <1>2, <1>4, <2>1 DEF s
<1> QED
  BY <1>3, <1>4

\* A step that is moved lands neither on a step that stays nor under one.
LEMMA LandsOnNone ==
  ASSUME Inv, NEW run \in Runs, NEW by \in Shifts, ~Below1(run, by), ~Lands(run, by),
         NEW n \in Number, NEW m \in Number, Moves(run, n), ~Moves(run, m),
         Len(run.parent) + 1 <= Len(m),
         \A i \in 1..(Len(run.parent) + 1) :
           As(Shifted(run, by), n)[i] = As(Shifted(run, by), m)[i]
  PROVE  FALSE
<1> DEFINE at == Len(run.parent) + 1
<1> DEFINE p == SubSeq(n, 1, at)
<1> DEFINE q == SubSeq(m, 1, at)
<1>1. at \in Nat \ {0} /\ at <= Len(n) /\ at <= Len(m)
  BY RunShape DEF Moves, MovesAt
<1>2. n \in Numbers /\ m \in Numbers /\ Len(n) \in Nat /\ Len(m) \in Nat
  BY NumberShape DEF Numbers
<1>3. /\ p \in Number /\ p \in Numbers /\ Len(p) = at /\ \A i \in 1..at : p[i] = n[i]
      /\ q \in Number /\ q \in Numbers /\ Len(q) = at /\ \A i \in 1..at : q[i] = m[i]
  <2>1. at \in 1..Len(n) /\ at \in 1..Len(m)
    BY <1>1, <1>2
  <2> HIDE DEF at
  <2> QED
    BY <1>2, <2>1, CutAt, Ancestors
<1> HIDE DEF p, q
<1>4. Moves(run, p) /\ ~Moves(run, q)
  <2>1. Moves(run, p) <=> Moves(run, n)
    BY <1>1, <1>2, <1>3, MovesAlike
  <2>2. Moves(run, q) <=> Moves(run, m)
    BY <1>1, <1>2, <1>3, MovesAlike
  <2> QED
    BY <2>1, <2>2
<1> DEFINE s == As(Shifted(run, by), p)
<1>5. s \in Numbers /\ Len(s) = at /\ \A i \in 1..at : s[i] = IF i = at THEN p[i] + by ELSE p[i]
  BY <1>3, <1>4, ShiftedAt
<1>6. \A i \in 1..at : As(Shifted(run, by), n)[i] = IF i = at THEN n[i] + by ELSE n[i]
  <2>1. \A i \in 1..Len(n) : As(Shifted(run, by), n)[i] = IF i = at THEN n[i] + by ELSE n[i]
    BY ShiftedAt
  <2> QED
    BY <1>1, <1>2, <2>1
<1>7. \A i \in 1..at : As(Shifted(run, by), m)[i] = m[i]
  <2>1. As(Shifted(run, by), m) = m
    BY DEF As, Shifted
  <2> QED
    BY <2>1
<1>8. \A i \in 1..at : s[i] = q[i]
  BY <1>3, <1>5, <1>6, <1>7
<1>9. s = q
  <2> HIDE DEF s, at
  <2> QED
    BY <1>3, <1>5, <1>8, SeqEqual DEF Numbers
<1>10. p \in DOMAIN Shifted(run, by) /\ Shifted(run, by)[p] = s /\ q \notin DOMAIN Shifted(run, by)
  BY <1>3, <1>4 DEF Shifted, As
<1>11. Lands(run, by)
  BY <1>3, <1>9, <1>10 DEF Lands
<1> QED
  BY <1>11

\* Two steps whose numbers begin alike once shifted began alike before.
LEMMA ShiftedBack ==
  ASSUME Inv, NEW run \in Runs, NEW by \in Shifts, ~Below1(run, by), ~Lands(run, by),
         NEW n \in Number, NEW m \in Number, Len(m) <= Len(n),
         \A i \in 1..Len(m) : As(Shifted(run, by), n)[i] = As(Shifted(run, by), m)[i]
  PROVE  \A i \in 1..Len(m) : n[i] = m[i]
<1> DEFINE at == Len(run.parent) + 1
<1>1. at \in Nat \ {0} /\ by \in Int
  BY RunShape, RenumberAssumption
<1>2. /\ n \in Seq(Nat) /\ m \in Seq(Nat) /\ Len(n) \in Nat /\ Len(m) \in Nat
      /\ \A i \in 1..Len(n) : n[i] \in Nat
      /\ \A i \in 1..Len(m) : m[i] \in Nat
  BY NumberShape DEF Numbers
<1>3. /\ \A i \in 1..Len(n) : As(Shifted(run, by), n)[i] = IF i = at /\ Moves(run, n) THEN n[i] + by ELSE n[i]
      /\ \A i \in 1..Len(m) : As(Shifted(run, by), m)[i] = IF i = at /\ Moves(run, m) THEN m[i] + by ELSE m[i]
  BY ShiftedAt
<1>4. at <= Len(m) => (Moves(run, n) <=> Moves(run, m))
  <2> SUFFICES ASSUME at <= Len(m) PROVE Moves(run, n) <=> Moves(run, m)
    OBVIOUS
  <2>1. \A i \in 1..at : As(Shifted(run, by), n)[i] = As(Shifted(run, by), m)[i]
    BY <1>1, <1>2
  <2>2. at <= Len(n)
    BY <1>1, <1>2
  <2>3. ~(Moves(run, n) /\ ~Moves(run, m))
    BY <2>1, LandsOnNone
  <2>4. ~(Moves(run, m) /\ ~Moves(run, n))
    BY <2>1, <2>2, LandsOnNone
  <2> QED
    BY <2>3, <2>4
<1> HIDE DEF at
<1>5. ASSUME NEW i \in 1..Len(m) PROVE n[i] = m[i]
  <2>1. i \in 1..Len(n) /\ n[i] \in Nat /\ m[i] \in Nat
    BY <1>2
  <2>2. As(Shifted(run, by), n)[i] = As(Shifted(run, by), m)[i]
    OBVIOUS
  <2>3. CASE i # at
    BY <1>3, <2>1, <2>2, <2>3
  <2>4. CASE i = at
    <3>1. at <= Len(m)
      BY <1>2, <2>4
    <3>2. Moves(run, n) <=> Moves(run, m)
      BY <1>4, <3>1
    <3> QED
      BY <1>1, <1>3, <2>1, <2>2, <2>4, <3>2
  <2> QED
    BY <2>3, <2>4
<1> QED
  BY <1>5

\* A shift takes a step's block along: a step is under another after it where
\* it was before.
LEMMA ShiftedNests ==
  ASSUME Inv, NEW run \in Runs, NEW by \in Shifts, ~Below1(run, by), ~Lands(run, by),
         NEW n \in Number, NEW m \in Number
  PROVE  Inside(As(Shifted(run, by), n), As(Shifted(run, by), m)) <=> Inside(n, m)
<1> DEFINE s == As(Shifted(run, by), n)
<1> DEFINE r == As(Shifted(run, by), m)
<1>1. n \in Numbers /\ m \in Numbers /\ n \in Seq(Nat) /\ m \in Seq(Nat) /\ Len(n) \in Nat /\ Len(m) \in Nat
  BY NumberShape DEF Numbers
<1>2. /\ s \in Numbers /\ Len(s) = Len(n)
      /\ \A i \in 1..Len(n) : s[i] = IF i = Len(run.parent) + 1 /\ Moves(run, n) THEN n[i] + by ELSE n[i]
      /\ r \in Numbers /\ Len(r) = Len(m)
      /\ \A i \in 1..Len(m) : r[i] = IF i = Len(run.parent) + 1 /\ Moves(run, m) THEN m[i] + by ELSE m[i]
  BY ShiftedAt
<1>3. Len(m) <= Len(n) /\ (\A i \in 1..Len(m) : s[i] = r[i]) => \A i \in 1..Len(m) : n[i] = m[i]
  BY ShiftedBack
<1> HIDE DEF s, r
<1>4. s \in Seq(Nat) /\ r \in Seq(Nat)
  BY <1>2 DEF Numbers
<1>5. Inside(s, r) <=> Len(m) < Len(n) /\ \A i \in 1..Len(m) : s[i] = r[i]
  BY <1>2, <1>4, InsideAt
<1>6. Inside(n, m) <=> Len(m) < Len(n) /\ \A i \in 1..Len(m) : n[i] = m[i]
  BY <1>1, InsideAt
<1>7. ASSUME Len(m) < Len(n), \A i \in 1..Len(m) : n[i] = m[i]
      PROVE  \A i \in 1..Len(m) : s[i] = r[i]
  <2>1. CASE Len(run.parent) + 1 <= Len(m)
    <3>1. Len(run.parent) + 1 \in Nat
      BY RunShape
    <3>2. \A i \in 1..(Len(run.parent) + 1) : n[i] = m[i]
      BY <1>1, <1>7, <2>1, <3>1
    <3>3. Moves(run, n) <=> Moves(run, m)
      BY <1>1, <1>7, <2>1, <3>1, <3>2, MovesAlike
    <3>4. ASSUME NEW i \in 1..Len(m) PROVE s[i] = r[i]
      <4>1. i \in 1..Len(n) /\ n[i] = m[i]
        BY <1>1, <1>7
      <4> QED
        BY <1>2, <3>3, <4>1
    <3> QED
      BY <3>4
  <2>2. CASE ~(Len(run.parent) + 1 <= Len(m))
    <3>1. Len(run.parent) + 1 \in Nat
      BY RunShape
    <3>2. \A i \in 1..Len(m) : i # Len(run.parent) + 1 /\ i \in 1..Len(n)
      BY <1>1, <1>7, <2>2, <3>1
    <3> QED
      BY <1>2, <1>7, <3>2
  <2> QED
    BY <2>1, <2>2
<1>8. Len(m) < Len(n) => Len(m) <= Len(n)
  BY <1>1
<1> QED
  BY <1>3, <1>5, <1>6, <1>7, <1>8 DEF s, r

\* A shift renames the numbers of the file.
LEMMA ShiftRenames ==
  ASSUME Inv, NEW run \in Runs, NEW by \in Shifts, ~Below1(run, by), ~Lands(run, by)
  PROVE  Renames(Shifted(run, by), Number)
<1> DEFINE r(n) == As(Shifted(run, by), n)
<1>1. <<>> \notin DOMAIN Shifted(run, by)
  BY NumberShape DEF Shifted
<1>2. \A n \in Number : r(n) \in Numbers
  BY ShiftedAt
<1>3. ASSUME NEW n \in Number, NEW m \in Number, r(n) = r(m) PROVE n = m
  <2>1. Len(r(n)) = Len(n) /\ Len(r(m)) = Len(m)
    BY ShiftedAt
  <2>2. Len(n) = Len(m)
    BY <1>3, <2>1
  <2>3. n \in Seq(Nat) /\ m \in Seq(Nat)
    BY NumberShape DEF Numbers
  <2>4. \A i \in 1..Len(m) : n[i] = m[i]
    BY <1>3, <2>2, <2>3, ShiftedBack
  <2> QED
    BY <2>2, <2>3, <2>4, SeqEqual
<1>4. ASSUME NEW n \in Number, Len(r(n)) > 1 PROVE \E m \in Number : Front(r(n)) = r(m)
  <2> DEFINE s == r(n)
  <2>1. n \in Numbers /\ Len(n) \in Nat
    BY NumberShape DEF Numbers
  <2>2. s \in Numbers /\ Len(s) = Len(n)
        /\ \A i \in 1..Len(n) : s[i] = IF i = Len(run.parent) + 1 /\ Moves(run, n) THEN n[i] + by ELSE n[i]
    BY ShiftedAt
  <2>3. Len(n) > 1
    BY <1>4, <2>2
  <2> DEFINE a == Len(n) - 1
  <2> DEFINE m == SubSeq(n, 1, a)
  <2>4. a \in 1..Len(n) /\ a + 1 = Len(n)
    BY <2>1, <2>3
  <2> HIDE DEF a
  <2>5. m \in Number /\ m \in Numbers /\ Len(m) = a /\ \A i \in 1..a : m[i] = n[i]
    BY <2>1, <2>4, CutAt, Ancestors
  <2> HIDE DEF m
  <2> DEFINE t == r(m)
  <2>6. t \in Numbers /\ Len(t) = a
        /\ \A i \in 1..a : t[i] = IF i = Len(run.parent) + 1 /\ Moves(run, m) THEN m[i] + by ELSE m[i]
    BY <2>5, ShiftedAt
  <2> DEFINE f == SubSeq(s, 1, a)
  <2>7. f \in Numbers /\ Len(f) = a /\ \A i \in 1..a : f[i] = s[i]
    <3> HIDE DEF s
    <3> QED
      BY <2>2, <2>4, CutAt
  <2>8. Front(s) = f
    <3> HIDE DEF s
    <3> QED
      BY <2>2 DEF Front, a
  <2> HIDE DEF s, t, f
  <2>9. Len(run.parent) + 1 <= a => (Moves(run, n) <=> Moves(run, m))
    <3> SUFFICES ASSUME Len(run.parent) + 1 <= a PROVE Moves(run, n) <=> Moves(run, m)
      OBVIOUS
    <3>1. Len(run.parent) + 1 \in Nat
      BY RunShape
    <3>2. Len(run.parent) + 1 <= Len(n) /\ Len(run.parent) + 1 <= Len(m)
      BY <2>1, <2>4, <2>5, <3>1
    <3>3. \A i \in 1..(Len(run.parent) + 1) : n[i] = m[i]
      BY <2>1, <2>4, <2>5, <3>1
    <3> QED
      BY <2>1, <2>5, <3>2, <3>3, MovesAlike
  <2>10. ASSUME NEW i \in 1..a PROVE f[i] = t[i]
    <3>1. i \in 1..Len(n) /\ m[i] = n[i] /\ f[i] = s[i] /\ i <= a
      BY <2>1, <2>4, <2>5, <2>7
    <3>2. s[i] = IF i = Len(run.parent) + 1 /\ Moves(run, n) THEN n[i] + by ELSE n[i]
      BY <2>2, <3>1
    <3>3. t[i] = IF i = Len(run.parent) + 1 /\ Moves(run, m) THEN n[i] + by ELSE n[i]
      BY <2>6, <3>1
    <3> QED
      BY <2>9, <3>1, <3>2, <3>3
  <2>11. f = t
    BY <2>6, <2>7, <2>10, SeqEqual DEF Numbers
  <2> QED
    BY <2>5, <2>8, <2>11 DEF s, t
<1> QED
  BY <1>1, <1>2, <1>3, <1>4 DEF Renames

\* The file renumbered: the lines it has, their numbers and citations mapped.
LEMMA RenumberedShape ==
  ASSUME Inv, NEW map, <<>> \notin DOMAIN map, \A n \in Number : As(map, n) \in Numbers
  PROVE  /\ Renumbered(map) \in Seq(ALine) /\ Len(Renumbered(map)) = Len(file)
         /\ \A k \in DOMAIN file :
              /\ Renumbered(map)[k].id = file[k].id
              /\ Renumbered(map)[k].number = As(map, file[k].number)
              /\ DOMAIN Renumbered(map)[k].cites = DOMAIN file[k].cites
              /\ \A c \in DOMAIN file[k].cites :
                   /\ file[k].cites[c] \in Number
                   /\ Renumbered(map)[k].cites[c] = As(map, file[k].cites[c])
<1> DEFINE lines == Renumbered(map)
<1>1. DOMAIN file = 1..Len(file) /\ Len(file) \in Nat /\ file \in Seq(ALine)
  BY DEF Inv, TypeOK
<1>2. ASSUME NEW k \in DOMAIN file
      PROVE  /\ lines[k] \in ALine
             /\ lines[k].id = file[k].id
             /\ lines[k].number = As(map, file[k].number)
             /\ DOMAIN lines[k].cites = DOMAIN file[k].cites
             /\ \A c \in DOMAIN file[k].cites :
                  file[k].cites[c] \in Number /\ lines[k].cites[c] = As(map, file[k].cites[c])
  <2> DEFINE old == file[k]
  <2> DEFINE cites == [c \in DOMAIN old.cites |-> As(map, old.cites[c])]
  <2>1. old \in ALine /\ old.number \in Number \cup {<<>>} /\ Range(old.cites) \subseteq Number
    BY LineShape
  <2>2. lines[k] = [old EXCEPT !.number = As(map, @), !.cites = [c \in DOMAIN @ |-> As(map, @[c])]]
    BY DEF Renumbered
  <2> HIDE DEF lines, old
  <2>3. lines[k] = [id |-> old.id, number |-> As(map, old.number), cites |-> cites]
    BY <2>1, <2>2 DEF ALine
  <2>4. As(map, old.number) \in Numbers \cup {<<>>}
    BY <2>1 DEF As
  <2>5. \A c \in DOMAIN old.cites : old.cites[c] \in Number
    BY <2>1 DEF Range
  <2>6. cites \in Seq(Numbers)
    <3>1. old.cites \in Seq(Numbers)
      BY <2>1 DEF ALine
    <3>2. DOMAIN old.cites = 1..Len(old.cites) /\ Len(old.cites) \in Nat
      BY <3>1
    <3>3. cites \in [1..Len(old.cites) -> Numbers]
      BY <2>5, <3>2
    <3> HIDE DEF cites
    <3> QED
      BY <3>2, <3>3, SeqDef
  <2>7. DOMAIN cites = DOMAIN old.cites /\ \A c \in DOMAIN old.cites : cites[c] = As(map, old.cites[c])
    OBVIOUS
  <2> HIDE DEF cites
  <2>8. lines[k] \in ALine /\ lines[k].id = old.id /\ lines[k].number = As(map, old.number)
        /\ lines[k].cites = cites
    BY <2>1, <2>3, <2>4, <2>6 DEF ALine
  <2> QED
    BY <2>5, <2>7, <2>8 DEF old
<1>3. lines \in Seq(ALine) /\ Len(lines) = Len(file)
  <2>1. DOMAIN lines = 1..Len(file)
    BY <1>1 DEF Renumbered
  <2>2. lines = [k \in 1..Len(file) |-> lines[k]]
    BY <1>1 DEF Renumbered
  <2> HIDE DEF lines
  <2>3. lines \in [1..Len(file) -> ALine]
    BY <1>1, <1>2, <2>2
  <2>4. lines \in Seq(ALine)
    BY <1>1, <2>3, SeqDef
  <2> QED
    BY <1>1, <2>1, <2>4
<1> QED
  BY <1>2, <1>3

\* A run shifted rewrites every line of the file.
LEMMA RunRewrites ==
  ASSUME Inv, NEW run \in Runs, NEW by \in Shifts, Run(run, by)
  PROVE  /\ Renames(Shifted(run, by), Number) /\ UNCHANGED meant /\ TypeOK'
         /\ Len(file') = Len(file)
         /\ Rewritten(Shifted(run, by), Number, [k \in DOMAIN file |-> k])
<1> DEFINE map == Shifted(run, by)
<1> DEFINE from == [k \in DOMAIN file |-> k]
<1>1. /\ writes < MaxWrites /\ ~Below1(run, by) /\ ~Lands(run, by)
      /\ file' = Renumbered(map) /\ writes' = writes + 1 /\ UNCHANGED meant
  BY DEF Run, Write
<1>2. Renames(map, Number)
  BY <1>1, ShiftRenames
<1> HIDE DEF map
<1>3. /\ file' \in Seq(ALine) /\ Len(file') = Len(file)
      /\ \A k \in DOMAIN file :
           /\ file'[k].id = file[k].id
           /\ file'[k].number = As(map, file[k].number)
           /\ DOMAIN file'[k].cites = DOMAIN file[k].cites
           /\ \A c \in DOMAIN file[k].cites :
                /\ file[k].cites[c] \in Number
                /\ file'[k].cites[c] = As(map, file[k].cites[c])
  <2>1. <<>> \notin DOMAIN map /\ \A n \in Number : As(map, n) \in Numbers
    BY <1>2 DEF Renames
  <2> QED
    BY <1>1, <2>1, RenumberedShape
<1>4. file \in Seq(ALine) /\ DOMAIN file' = DOMAIN file
  BY <1>3 DEF Inv, TypeOK
<1>5. Rewritten(map, Number, from)
  <2>1. DOMAIN from = DOMAIN file' /\ \A k \in DOMAIN file' : from[k] = k
    BY <1>4
  <2> HIDE DEF from
  <2>2. \A n \in Number : \E j \in DOMAIN file' : file[from[j]].number = n
    BY <1>4, <2>1 DEF Number, NumbersOf
  <2>3. \A k \in DOMAIN file : file[k].number # <<>> => file[k].number \in Number
    BY DEF Number, NumbersOf
  <2> QED
    BY <1>3, <1>4, <2>1, <2>2, <2>3 DEF Rewritten
<1>6. TypeOK'
  <2>1. writes \in 0..MaxWrites /\ MaxWrites \in Nat
    BY RenumberAssumption DEF Inv, TypeOK
  <2>2. writes' \in 0..MaxWrites
    BY <1>1, <2>1
  <2> QED
    BY <1>3, <2>2 DEF TypeOK
<1> QED
  BY <1>1, <1>2, <1>3, <1>5, <1>6 DEF map

(***************************************************************************)
(* The steps under one lifted                                              *)
(***************************************************************************)

\* A later step of the block of the step lifted, or one under such a step.
Past(t, n) ==
  /\ Len(n) >= Len(t) /\ \A i \in 1..(Len(t) - 1) : n[i] = t[i]
  /\ n[Len(t)] > t[Len(t)]

\* The steps under the step lifted take no more places than it has children.
Room(t) ==
  /\ Cardinality(Children(t)) \in Nat \ {0}
  /\ \A n \in Number : Inside(n, t) => n[Len(t) + 1] \in 1..Cardinality(Children(t))

\* They do where the numbers of its block leave no gap and there is something
\* to lift.
LEMMA LiftRoom ==
  ASSUME Inv, NEW t \in Number, NoGap(t), DOMAIN Lifted(t) # {}
  PROVE  Room(t)
<1> DEFINE c == Cardinality(Children(t))
<1> DEFINE at == Len(t)
<1>1. c \in Nat /\ IsFiniteSet(Children(t))
  <2>1. Children(t) \subseteq Number
    BY DEF Children
  <2> QED
    BY <2>1, NumberShape, FS_Subset, FS_CardinalityType
<1>2. t \in Numbers /\ t \in Seq(Nat) /\ at \in Nat \ {0}
  BY NumberShape, EmptySeq DEF Numbers
<1>3. ASSUME NEW n \in Number, Inside(n, t)
      PROVE  n[at + 1] \in 1..c /\ Children(t) # {}
  <2>1. n \in Numbers /\ n \in Seq(Nat) /\ n \in Seq(Nat \ {0})
    BY NumberShape DEF Numbers
  <2>2. at < Len(n) /\ \A i \in 1..at : n[i] = t[i]
    BY <1>2, <1>3, <2>1, InsideAt
  <2>3. at + 1 \in 1..Len(n)
    BY <1>2, <2>1, <2>2
  <2> DEFINE m == SubSeq(n, 1, at + 1)
  <2> HIDE DEF at
  <2>4. m \in Number /\ m \in Numbers /\ Len(m) = at + 1 /\ \A i \in 1..(at + 1) : m[i] = n[i]
    BY <2>1, <2>3, CutAt, Ancestors
  <2> HIDE DEF m
  <2>5. Inside(m, t)
    <3>1. m \in Seq(Nat)
      BY <2>4 DEF Numbers
    <3>2. Len(t) < Len(m) /\ \A i \in 1..Len(t) : m[i] = t[i]
      BY <1>2, <2>2, <2>4 DEF at
    <3> QED
      BY <1>2, <3>1, <3>2, InsideAt
  <2>6. m \in Children(t)
    BY <2>4, <2>5 DEF Children, at
  <2>7. m[Len(m)] <= c
    BY <2>6 DEF NoGap
  <2>8. m[at + 1] = n[at + 1] /\ n[at + 1] \in Nat \ {0}
    BY <1>2, <2>1, <2>3, <2>4
  <2> QED
    BY <1>1, <2>4, <2>6, <2>7, <2>8
<1>4. c # 0
  <2>1. PICK n \in DOMAIN Lifted(t) : TRUE
    OBVIOUS
  <2>2. CASE n \in Number /\ Inside(n, t)
    BY <1>1, <1>3, <2>2, FS_EmptySet
  <2>3. CASE c > 1
    BY <1>1, <2>3
  <2> QED
    BY <2>1, <2>2, <2>3 DEF Lifted
<1> QED
  BY <1>1, <1>3, <1>4 DEF Room

\* What a lift makes of a step's number: a step under the one lifted takes a
\* place from the lifted one's on, and a later step is moved on.
LEMMA LiftedAt ==
  ASSUME Inv, NEW t \in Number, Room(t), NEW n \in Number, n # t
  PROVE  LET at == Len(t)
             r == As(Lifted(t), n) IN
         /\ r \in Numbers
         /\ Inside(n, t) =>
              /\ Len(r) = Len(n) - 1
              /\ \A i \in 1..(at - 1) : r[i] = n[i]
              /\ r[at] = t[at] + n[at + 1] - 1
              /\ \A i \in (at + 1)..(Len(n) - 1) : r[i] = n[i + 1]
         /\ Past(t, n) =>
              /\ Len(r) = Len(n)
              /\ \A i \in 1..Len(n) : r[i] = IF i = at THEN n[i] + Cardinality(Children(t)) - 1 ELSE n[i]
         /\ ~Inside(n, t) /\ ~Past(t, n) => r = n
<1> DEFINE c == Cardinality(Children(t))
<1> DEFINE at == Len(t)
<1> DEFINE r == As(Lifted(t), n)
<1>1. c \in Nat \ {0} /\ (Inside(n, t) => n[at + 1] \in 1..c)
  BY DEF Room
<1>2. /\ t \in Numbers /\ t \in Seq(Nat) /\ t \in Seq(Nat \ {0}) /\ at \in Nat \ {0}
      /\ n \in Numbers /\ n \in Seq(Nat) /\ n \in Seq(Nat \ {0}) /\ Len(n) \in Nat \ {0}
  BY NumberShape, EmptySeq DEF Numbers
<1>3. Inside(n, t) <=> at < Len(n) /\ \A i \in 1..at : n[i] = t[i]
  BY <1>2, InsideAt
<1>4. at - 1 \in 0..Len(t)
  BY <1>2
<1>5. /\ Parent(t) \in Seq(Nat \ {0}) /\ Len(Parent(t)) = at - 1
      /\ \A i \in 1..(at - 1) : Parent(t)[i] = t[i]
  BY <1>2, <1>4, FirstOf DEF Parent, Front
<1>6. ASSUME Len(n) >= at
      PROVE  SubSeq(n, 1, at - 1) = Parent(t) <=> \A i \in 1..(at - 1) : n[i] = t[i]
  <2> DEFINE p == SubSeq(n, 1, at - 1)
  <2>1. at - 1 \in 0..Len(n)
    BY <1>2, <1>6
  <2>2. p \in Seq(Nat \ {0}) /\ Len(p) = at - 1 /\ \A i \in 1..(at - 1) : p[i] = n[i]
    BY <1>2, <2>1, FirstOf
  <2> HIDE DEF p, at
  <2>3. p = Parent(t) <=> \A i \in 1..(at - 1) : p[i] = Parent(t)[i]
    BY <1>5, <2>2, SeqEqual
  <2> QED
    BY <1>5, <2>2, <2>3 DEF p
<1>7. Past(t, n) <=> Len(n) >= at /\ SubSeq(n, 1, at - 1) = Parent(t) /\ n[at] > t[at]
  BY <1>6 DEF Past
<1>8. Past(t, n) => ~Inside(n, t)
  <2> SUFFICES ASSUME Past(t, n), Inside(n, t) PROVE FALSE
    OBVIOUS
  <2> HIDE DEF at
  <2>1. at \in 1..at /\ at \in 1..Len(t)
    BY <1>2 DEF at
  <2>2. t[at] \in Nat
    BY <1>2, <2>1
  <2>3. n[at] = t[at]
    BY <1>3, <2>1
  <2>4. n[at] > t[at]
    BY DEF Past, at
  <2> QED
    BY <2>2, <2>3, <2>4
<1>9. CASE Inside(n, t)
  <2> DEFINE first == Append(Parent(t), t[at] + n[at + 1] - 1)
  <2> DEFINE rest == SubSeq(n, at + 2, Len(n))
  <2>1. r = first \o rest
    <3>1. n \in DOMAIN Lifted(t) /\ Lifted(t)[n] = first \o rest
      BY <1>7, <1>8, <1>9 DEF Lifted
    <3> QED
      BY <3>1 DEF As
  <2>2. at < Len(n) /\ t[at] \in Nat \ {0} /\ n[at + 1] \in Nat \ {0} /\ \A i \in 1..at : n[i] = t[i]
    BY <1>1, <1>2, <1>3, <1>9
  <2>3. t[at] + n[at + 1] - 1 \in Nat \ {0}
    BY <2>2
  <2>4. /\ first \in Seq(Nat \ {0}) /\ Len(first) = at
        /\ \A i \in 1..(at - 1) : first[i] = t[i]
        /\ first[at] = t[at] + n[at + 1] - 1
    <3> HIDE DEF at
    <3>1. PICK p \in Seq(Nat \ {0}) : p = Parent(t)
      BY <1>5
    <3>2. PICK v \in Nat \ {0} : v = t[at] + n[at + 1] - 1
      BY <2>3
    <3>3. Append(p, v) \in Seq(Nat \ {0}) /\ Len(Append(p, v)) = Len(p) + 1
          /\ (\A i \in 1..Len(p) : Append(p, v)[i] = p[i]) /\ Append(p, v)[Len(p) + 1] = v
      OBVIOUS
    <3>4. first = Append(p, v) /\ Len(p) = at - 1 /\ Len(p) + 1 = at
      BY <1>2, <1>5, <3>1, <3>2
    <3>5. \A i \in 1..(at - 1) : p[i] = t[i]
      BY <1>5, <3>1 DEF at
    <3> HIDE DEF first
    <3> QED
      BY <3>2, <3>3, <3>4, <3>5
  <2>5. rest \in Seq(Nat \ {0}) /\ Len(rest) = Len(n) - at - 1
        /\ \A i \in 1..(Len(n) - at - 1) : rest[i] = n[at + 1 + i]
    <3> HIDE DEF at
    <3>1. at + 2 \in Int /\ Len(n) \in Int /\ \A i \in (at + 2)..Len(n) : n[i] \in Nat \ {0}
      BY <1>2, <2>2
    <3>2. /\ rest \in Seq(Nat \ {0})
          /\ Len(rest) = IF at + 2 <= Len(n) THEN Len(n) - (at + 2) + 1 ELSE 0
          /\ \A i \in 1..(Len(n) - (at + 2) + 1) : rest[i] = n[(at + 2) + i - 1]
      BY <1>2, <2>2, <3>1, SubSeqProperties
    <3> QED
      BY <1>2, <2>2, <3>2
  <2> HIDE DEF first, rest, r, at
  <2>6. r \in Seq(Nat \ {0}) /\ Len(r) = Len(n) - 1
        /\ \A i \in 1..(Len(n) - 1) : r[i] = IF i <= at THEN first[i] ELSE rest[i - at]
    <3>1. Len(first) + Len(rest) = Len(n) - 1 /\ Len(first) = at
      BY <1>2, <2>4, <2>5
    <3>2. r \in Seq(Nat \ {0}) /\ Len(r) = Len(first) + Len(rest)
          /\ \A i \in 1..(Len(first) + Len(rest)) :
               r[i] = IF i <= Len(first) THEN first[i] ELSE rest[i - Len(first)]
      BY <2>1, <2>4, <2>5, ConcatProperties
    <3> QED
      BY <3>1, <3>2
  <2>7. ASSUME NEW i \in 1..(at - 1) PROVE r[i] = n[i]
    <3>1. i \in 1..(Len(n) - 1) /\ i \in 1..at /\ i <= at
      BY <1>2, <2>2
    <3> QED
      BY <2>2, <2>4, <2>6, <3>1
  <2>8. r[at] = t[at] + n[at + 1] - 1
    <3>1. at \in 1..(Len(n) - 1) /\ at <= at
      BY <1>2, <2>2
    <3> QED
      BY <2>4, <2>6, <3>1
  <2>9. ASSUME NEW i \in (at + 1)..(Len(n) - 1) PROVE r[i] = n[i + 1]
    <3>1. i \in 1..(Len(n) - 1) /\ ~(i <= at) /\ i - at \in 1..(Len(n) - at - 1) /\ at + 1 + (i - at) = i + 1
      BY <1>2, <2>2
    <3> QED
      BY <2>5, <2>6, <3>1
  <2>10. r # <<>>
    BY <1>2, <2>2, <2>6
  <2> QED
    BY <1>8, <1>9, <2>6, <2>7, <2>8, <2>9, <2>10 DEF r, at, Numbers
<1>10. CASE Past(t, n)
  <2>1. r = IF c > 1 THEN [n EXCEPT ![at] = @ + c - 1] ELSE n
    BY <1>7, <1>8, <1>10 DEF As, Lifted
  <2>2. at \in 1..Len(n) /\ n[at] \in Nat \ {0}
    BY <1>2, <1>10 DEF Past
  <2> HIDE DEF r, at, c
  <2>3. n[at] + c - 1 \in Nat \ {0}
    BY <1>1, <2>2
  <2>4. r \in Seq(Nat \ {0}) /\ Len(r) = Len(n)
        /\ \A i \in 1..Len(n) : r[i] = IF i = at THEN n[at] + c - 1 ELSE n[i]
    <3>1. CASE c > 1
      <4>1. r = [n EXCEPT ![at] = n[at] + c - 1]
        BY <2>1, <3>1
      <4> QED
        BY <1>2, <2>2, <2>3, <4>1, ExceptSeq
    <3>2. CASE ~(c > 1)
      <4>1. c = 1 /\ r = n
        BY <1>1, <2>1, <3>2
      <4>2. n[at] + c - 1 = n[at]
        BY <2>2, <4>1
      <4> QED
        BY <1>2, <4>1, <4>2
    <3> QED
      BY <3>1, <3>2
  <2>5. r # <<>>
    BY <1>2, <2>4
  <2>6. \A i \in 1..Len(n) : r[i] = IF i = at THEN n[i] + c - 1 ELSE n[i]
    BY <2>4
  <2> QED
    BY <1>8, <1>10, <2>4, <2>5, <2>6 DEF r, at, c, Numbers
<1>11. CASE ~Inside(n, t) /\ ~Past(t, n)
  <2>1. r = n
    BY <1>7, <1>11 DEF As, Lifted
  <2> HIDE DEF r
  <2> QED
    BY <1>2, <1>11, <2>1 DEF r
<1> QED
  BY <1>9, <1>10, <1>11

\* What a lift makes of a step's number, of which kind the step is.
Lifting(t, n, r) ==
  /\ n \in Seq(Nat) /\ r \in Seq(Nat) /\ t \in Seq(Nat)
  /\ Len(t) \in Nat \ {0} /\ Len(n) \in Nat \ {0} /\ Cardinality(Children(t)) \in Nat \ {0}
  /\ \A i \in 1..Len(n) : n[i] \in Nat
  /\ \A i \in 1..Len(t) : t[i] \in Nat
  /\ Inside(n, t) => /\ n[Len(t) + 1] \in 1..Cardinality(Children(t))
                     /\ Len(r) = Len(n) - 1
                     /\ \A i \in 1..(Len(t) - 1) : r[i] = n[i]
                     /\ r[Len(t)] = t[Len(t)] + n[Len(t) + 1] - 1
                     /\ \A i \in (Len(t) + 1)..(Len(n) - 1) : r[i] = n[i + 1]
  /\ Past(t, n) => /\ Len(r) = Len(n)
                   /\ \A i \in 1..Len(n) :
                        r[i] = IF i = Len(t) THEN n[i] + Cardinality(Children(t)) - 1 ELSE n[i]
  /\ ~Inside(n, t) /\ ~Past(t, n) => r = n

\* So it is.
LEMMA LiftingIs ==
  ASSUME Inv, NEW t \in Number, Room(t), NEW n \in Number, n # t
  PROVE  Lifting(t, n, As(Lifted(t), n))
<1> DEFINE r == As(Lifted(t), n)
<1>1. /\ t \in Seq(Nat) /\ Len(t) \in Nat \ {0} /\ \A i \in 1..Len(t) : t[i] \in Nat
      /\ n \in Seq(Nat) /\ Len(n) \in Nat \ {0} /\ \A i \in 1..Len(n) : n[i] \in Nat
  BY NumberShape, EmptySeq DEF Numbers
<1>2. /\ Cardinality(Children(t)) \in Nat \ {0}
      /\ Inside(n, t) => n[Len(t) + 1] \in 1..Cardinality(Children(t))
  BY DEF Room
<1>3. /\ r \in Numbers
      /\ Inside(n, t) =>
           /\ Len(r) = Len(n) - 1
           /\ \A i \in 1..(Len(t) - 1) : r[i] = n[i]
           /\ r[Len(t)] = t[Len(t)] + n[Len(t) + 1] - 1
           /\ \A i \in (Len(t) + 1)..(Len(n) - 1) : r[i] = n[i + 1]
      /\ Past(t, n) =>
           /\ Len(r) = Len(n)
           /\ \A i \in 1..Len(n) :
                r[i] = IF i = Len(t) THEN n[i] + Cardinality(Children(t)) - 1 ELSE n[i]
      /\ ~Inside(n, t) /\ ~Past(t, n) => r = n
  BY LiftedAt
<1> HIDE DEF r
<1>4. r \in Seq(Nat)
  BY <1>3 DEF Numbers
<1> QED
  BY <1>1, <1>2, <1>3, <1>4 DEF Lifting, r

\* Above the step lifted every number keeps its parts, and none gets shorter
\* than the step lifted is.
LEMMA LiftingAbove ==
  ASSUME NEW t, NEW n, NEW r, Lifting(t, n, r)
  PROVE  /\ Len(r) <= Len(n) /\ (Len(n) >= Len(t) => Len(r) >= Len(t)) /\ (Len(n) < Len(t) => Len(r) = Len(n))
         /\ \A i \in 1..Len(n) : i < Len(t) => i \in 1..Len(r) /\ r[i] = n[i]
<1>1. /\ n \in Seq(Nat) /\ r \in Seq(Nat) /\ t \in Seq(Nat)
      /\ Len(t) \in Nat \ {0} /\ Len(n) \in Nat \ {0}
      /\ Inside(n, t) => Len(r) = Len(n) - 1 /\ \A i \in 1..(Len(t) - 1) : r[i] = n[i]
      /\ Past(t, n) => /\ Len(r) = Len(n)
                       /\ \A i \in 1..Len(n) :
                            r[i] = IF i = Len(t) THEN n[i] + Cardinality(Children(t)) - 1 ELSE n[i]
      /\ ~Inside(n, t) /\ ~Past(t, n) => r = n
  BY DEF Lifting
<1>2. Inside(n, t) <=> Len(t) < Len(n) /\ \A i \in 1..Len(t) : n[i] = t[i]
  BY <1>1, InsideAt
<1>3. CASE Inside(n, t)
  BY <1>1, <1>2, <1>3, SMTT(30)
<1>4. CASE Past(t, n)
  <2>1. Len(n) >= Len(t)
    BY <1>4 DEF Past
  <2> QED
    BY <1>1, <1>4, <2>1
<1>5. CASE ~Inside(n, t) /\ ~Past(t, n)
  BY <1>1, <1>5
<1> QED
  BY <1>3, <1>4, <1>5

\* Where two numbers agree up to the depth of the step lifted, they are of
\* one kind.
LEMMA OfOneKind ==
  ASSUME NEW t \in Seq(Nat), NEW n \in Seq(Nat), NEW m \in Seq(Nat),
         Len(t) \in Nat \ {0}, Len(n) > Len(t), Len(m) > Len(t),
         \A i \in 1..Len(t) : n[i] = m[i]
  PROVE  (Inside(n, t) <=> Inside(m, t)) /\ (Past(t, n) <=> Past(t, m))
<1>1. Inside(n, t) <=> Len(t) < Len(n) /\ \A i \in 1..Len(t) : n[i] = t[i]
  BY InsideAt
<1>2. Inside(m, t) <=> Len(t) < Len(m) /\ \A i \in 1..Len(t) : m[i] = t[i]
  BY InsideAt
<1>3. Inside(n, t) <=> Inside(m, t)
  BY <1>1, <1>2
<1>4. /\ \A i \in 1..(Len(t) - 1) : n[i] = m[i]
      /\ n[Len(t)] = m[Len(t)]
      /\ Len(n) >= Len(t) /\ Len(m) >= Len(t)
  OBVIOUS
<1>5. Past(t, n) <=> Past(t, m)
  <2>1. (\A i \in 1..(Len(t) - 1) : n[i] = t[i]) <=> \A i \in 1..(Len(t) - 1) : m[i] = t[i]
    BY <1>4
  <2> QED
    BY <1>4, <2>1, Zenon DEF Past
<1> QED
  BY <1>3, <1>5

\* A step is no later step and under the step lifted at once.
LEMMA PastIsOut ==
  ASSUME NEW t \in Seq(Nat), NEW n \in Seq(Nat), Len(t) \in Nat \ {0}, Past(t, n)
  PROVE  ~Inside(n, t)
<1> SUFFICES ASSUME Inside(n, t) PROVE FALSE
  OBVIOUS
<1>1. Len(t) \in 1..Len(t) /\ t[Len(t)] \in Nat
  OBVIOUS
<1>2. n[Len(t)] = t[Len(t)]
  BY <1>1, InsideAt
<1>3. n[Len(t)] > t[Len(t)]
  BY DEF Past
<1> QED
  BY <1>1, <1>2, <1>3

\* A step under another is under it when a step is lifted, unless that one is
\* the step lifted.
LEMMA LiftedNests ==
  ASSUME NEW t, NEW n, NEW m, NEW r, NEW s, Lifting(t, n, r), Lifting(t, m, s),
         m # t, Inside(n, m)
  PROVE  Inside(r, s)
<1> DEFINE at == Len(t)
<1> DEFINE c == Cardinality(Children(t))
<1>1. /\ n \in Seq(Nat) /\ r \in Seq(Nat) /\ t \in Seq(Nat) /\ m \in Seq(Nat) /\ s \in Seq(Nat)
      /\ at \in Nat \ {0} /\ Len(n) \in Nat \ {0} /\ Len(m) \in Nat \ {0} /\ c \in Nat \ {0}
  BY DEF Lifting
<1>2. Len(m) < Len(n) /\ \A i \in 1..Len(m) : n[i] = m[i]
  BY <1>1, InsideAt
<1>3. SUFFICES Len(s) < Len(r) /\ \A i \in 1..Len(s) : r[i] = s[i]
  BY <1>1, InsideAt
<1>4. /\ Len(r) <= Len(n) /\ (Len(n) >= at => Len(r) >= at) /\ (Len(n) < at => Len(r) = Len(n))
      /\ \A i \in 1..Len(n) : i < at => i \in 1..Len(r) /\ r[i] = n[i]
  BY LiftingAbove
<1>5. /\ Len(s) <= Len(m) /\ (Len(m) >= at => Len(s) >= at) /\ (Len(m) < at => Len(s) = Len(m))
      /\ \A i \in 1..Len(m) : i < at => i \in 1..Len(s) /\ s[i] = m[i]
  BY LiftingAbove
<1>6. Inside(n, t) <=> at < Len(n) /\ \A i \in 1..at : n[i] = t[i]
  BY <1>1, InsideAt
<1>7. Inside(m, t) <=> at < Len(m) /\ \A i \in 1..at : m[i] = t[i]
  BY <1>1, InsideAt
<1>8. CASE Len(m) < at
  <2>1. Len(s) = Len(m) /\ \A i \in 1..Len(m) : s[i] = m[i]
    BY <1>1, <1>5, <1>8
  <2>2. ASSUME NEW i \in 1..Len(m) PROVE r[i] = n[i]
    <3>1. i \in 1..Len(n) /\ i < at
      BY <1>1, <1>2, <1>8, SMTT(30)
    <3> QED
      BY <1>4, <3>1
  <2>3. Len(m) < Len(r)
    BY <1>1, <1>2, <1>4, <1>8
  <2> QED
    BY <1>2, <2>1, <2>2, <2>3
<1>9. CASE Inside(m, t)
  <2>1. Inside(n, t)
    BY <1>1, <1>2, <1>6, <1>7, <1>9
  <2>2. /\ Len(r) = Len(n) - 1
        /\ \A i \in 1..(at - 1) : r[i] = n[i]
        /\ r[at] = t[at] + n[at + 1] - 1
        /\ \A i \in (at + 1)..(Len(n) - 1) : r[i] = n[i + 1]
    BY <2>1 DEF Lifting
  <2>3. /\ Len(s) = Len(m) - 1
        /\ \A i \in 1..(at - 1) : s[i] = m[i]
        /\ s[at] = t[at] + m[at + 1] - 1
        /\ \A i \in (at + 1)..(Len(m) - 1) : s[i] = m[i + 1]
    BY <1>9 DEF Lifting
  <2>4. at < Len(m)
    BY <1>7, <1>9
  <2> HIDE DEF at
  <2>5. n[at + 1] = m[at + 1]
    BY <1>1, <1>2, <2>4
  <2>6. ASSUME NEW i \in 1..Len(s) PROVE r[i] = s[i]
    <3>1. CASE i < at
      <4>1. i \in 1..(at - 1) /\ i \in 1..Len(m)
        BY <1>1, <2>3, <2>4, <3>1
      <4> QED
        BY <1>2, <2>2, <2>3, <4>1
    <3>2. CASE i = at
      BY <2>2, <2>3, <2>5, <3>2
    <3>3. CASE i > at
      <4>1. i \in (at + 1)..(Len(m) - 1) /\ i \in (at + 1)..(Len(n) - 1) /\ i + 1 \in 1..Len(m)
        BY <1>1, <1>2, <2>3, <3>3
      <4> QED
        BY <1>2, <2>2, <2>3, <4>1
    <3> QED
      BY <1>1, <3>1, <3>2, <3>3
  <2> QED
    BY <1>1, <1>2, <2>2, <2>3, <2>6
<1>10. CASE Past(t, m)
  <2>1. Past(t, n)
    <3>1. Len(m) >= at /\ (\A i \in 1..(at - 1) : m[i] = t[i]) /\ m[at] > t[at]
      BY <1>10 DEF Past
    <3>2. Len(n) >= at /\ at \in 1..Len(m)
      BY <1>1, <1>2, <3>1
    <3>3. n[at] = m[at]
      BY <1>2, <3>2
    <3>4. ASSUME NEW i \in 1..(at - 1) PROVE n[i] = t[i]
      <4>1. i \in 1..Len(m)
        BY <1>1, <3>1
      <4> QED
        BY <1>2, <3>1, <4>1
    <3> QED
      BY <3>1, <3>2, <3>3, <3>4 DEF Past
  <2>2. Len(r) = Len(n) /\ \A i \in 1..Len(n) : r[i] = IF i = at THEN n[i] + c - 1 ELSE n[i]
    BY <2>1 DEF Lifting
  <2>3. Len(s) = Len(m) /\ \A i \in 1..Len(m) : s[i] = IF i = at THEN m[i] + c - 1 ELSE m[i]
    BY <1>10 DEF Lifting
  <2> HIDE DEF at, c
  <2>4. ASSUME NEW i \in 1..Len(s) PROVE r[i] = s[i]
    <3>1. i \in 1..Len(m) /\ i \in 1..Len(n)
      BY <1>1, <1>2, <2>3
    <3>2. n[i] = m[i]
      BY <1>2, <3>1
    <3> QED
      BY <2>2, <2>3, <3>1, <3>2
  <2> QED
    BY <1>2, <2>2, <2>3, <2>4
<1>11. CASE Len(m) >= at /\ ~Inside(m, t) /\ ~Past(t, m)
  <2>1. s = m
    BY <1>11 DEF Lifting
  <2>2. ~Inside(n, t)
    <3> SUFFICES ASSUME Inside(n, t) PROVE FALSE
      OBVIOUS
    <3>1. \A i \in 1..at : m[i] = t[i]
      BY <1>1, <1>2, <1>6, <1>11
    <3>2. Len(m) = at
      BY <1>1, <1>7, <1>11, <3>1
    <3>3. m = t
      BY <1>1, <3>1, <3>2, SeqEqual
    <3> QED
      BY <3>3
  <2>3. ~Past(t, n)
    <3> SUFFICES ASSUME Past(t, n) PROVE FALSE
      OBVIOUS
    <3>1. Len(n) >= at /\ (\A i \in 1..(at - 1) : n[i] = t[i]) /\ n[at] > t[at]
      BY DEF Past
    <3>2. (\A i \in 1..(at - 1) : m[i] = t[i]) /\ n[at] = m[at]
      BY <1>1, <1>2, <1>11, <3>1
    <3>3. Past(t, m)
      BY <1>11, <3>1, <3>2 DEF Past
    <3> QED
      BY <1>11, <3>3
  <2>4. r = n
    BY <2>2, <2>3 DEF Lifting
  <2> QED
    BY <1>2, <2>1, <2>4
<1> QED
  BY <1>1, <1>8, <1>9, <1>10, <1>11

\* A step before another is before it when a step is lifted: those lifted
\* take places from the lifted one's on, as many as the later ones leave.
LEMMA LiftedOrders ==
  ASSUME NEW t, NEW n, NEW m, NEW r, NEW s, Lifting(t, n, r), Lifting(t, m, s),
         n # t, m # t, Earlier(n, m)
  PROVE  Earlier(r, s)
<1> DEFINE at == Len(t)
<1> DEFINE c == Cardinality(Children(t))
<1>1. /\ n \in Seq(Nat) /\ r \in Seq(Nat) /\ t \in Seq(Nat) /\ m \in Seq(Nat) /\ s \in Seq(Nat)
      /\ at \in Nat \ {0} /\ Len(n) \in Nat \ {0} /\ Len(m) \in Nat \ {0} /\ c \in Nat \ {0}
      /\ Len(r) \in Nat /\ Len(s) \in Nat
  <2>1. /\ n \in Seq(Nat) /\ r \in Seq(Nat) /\ t \in Seq(Nat) /\ m \in Seq(Nat) /\ s \in Seq(Nat)
        /\ at \in Nat \ {0} /\ Len(n) \in Nat \ {0} /\ Len(m) \in Nat \ {0} /\ c \in Nat \ {0}
    BY DEF Lifting
  <2> QED
    BY <2>1
<1>2. PICK k \in 1..Len(n) : /\ k <= Len(m) /\ n[k] < m[k]
                             /\ \A i \in 1..(k - 1) : n[i] = m[i]
  BY <1>1, EarlierAt
<1>3. SUFFICES \E j \in 1..Len(r) : /\ j <= Len(s) /\ r[j] < s[j]
                                    /\ \A i \in 1..(j - 1) : r[i] = s[i]
  BY <1>1, EarlierAt
<1>4. /\ Len(r) <= Len(n) /\ (Len(n) >= at => Len(r) >= at) /\ (Len(n) < at => Len(r) = Len(n))
      /\ \A i \in 1..Len(n) : i < at => i \in 1..Len(r) /\ r[i] = n[i]
  BY LiftingAbove
<1>5. /\ Len(s) <= Len(m) /\ (Len(m) >= at => Len(s) >= at) /\ (Len(m) < at => Len(s) = Len(m))
      /\ \A i \in 1..Len(m) : i < at => i \in 1..Len(s) /\ s[i] = m[i]
  BY LiftingAbove
<1>6. Inside(n, t) <=> at < Len(n) /\ \A i \in 1..at : n[i] = t[i]
  BY <1>1, InsideAt
<1>7. Inside(m, t) <=> at < Len(m) /\ \A i \in 1..at : m[i] = t[i]
  BY <1>1, InsideAt
<1>8. /\ Inside(n, t) => /\ n[at + 1] \in 1..c
                         /\ Len(r) = Len(n) - 1
                         /\ r[at] = t[at] + n[at + 1] - 1
                         /\ \A i \in (at + 1)..(Len(n) - 1) : r[i] = n[i + 1]
      /\ Past(t, n) => Len(r) = Len(n) /\ \A i \in 1..Len(n) : r[i] = IF i = at THEN n[i] + c - 1 ELSE n[i]
      /\ ~Inside(n, t) /\ ~Past(t, n) => r = n
  BY DEF Lifting
<1>9. /\ Inside(m, t) => /\ m[at + 1] \in 1..c
                         /\ Len(s) = Len(m) - 1
                         /\ s[at] = t[at] + m[at + 1] - 1
                         /\ \A i \in (at + 1)..(Len(m) - 1) : s[i] = m[i + 1]
      /\ Past(t, m) => Len(s) = Len(m) /\ \A i \in 1..Len(m) : s[i] = IF i = at THEN m[i] + c - 1 ELSE m[i]
      /\ ~Inside(m, t) /\ ~Past(t, m) => s = m
  BY DEF Lifting
<1>10. /\ \A i \in 1..Len(n) : n[i] \in Nat
       /\ \A i \in 1..Len(m) : m[i] \in Nat
       /\ t[at] \in Nat
  <2>1. /\ \A i \in 1..Len(n) : n[i] \in Nat
        /\ \A i \in 1..Len(m) : m[i] \in Nat
        /\ \A i \in 1..at : t[i] \in Nat
    BY DEF Lifting
  <2>2. at \in 1..at
    BY <1>1
  <2> QED
    BY <2>1, <2>2
<1>11. Past(t, n) <=> Len(n) >= at /\ (\A i \in 1..(at - 1) : n[i] = t[i]) /\ n[at] > t[at]
  BY DEF Past
<1>12. Past(t, m) <=> Len(m) >= at /\ (\A i \in 1..(at - 1) : m[i] = t[i]) /\ m[at] > t[at]
  BY DEF Past
<1>13. k \in 1..Len(m) /\ k \in Nat \ {0} /\ k <= Len(n)
  BY <1>1, <1>2
<1> HIDE DEF at, c
<1>14. c \in Nat /\ c >= 1
  BY <1>1
\* They differ above the depth of the step lifted.
<1>15. CASE k < at
  <2>1. k \in 1..Len(r) /\ r[k] = n[k] /\ k \in 1..Len(s) /\ s[k] = m[k]
    BY <1>2, <1>4, <1>5, <1>13, <1>15
  <2>2. k <= Len(s)
    BY <1>1, <2>1
  <2>3. ASSUME NEW i \in 1..(k - 1) PROVE r[i] = s[i]
    <3>1. i \in 1..Len(n) /\ i \in 1..Len(m) /\ i < at
      BY <1>1, <1>13, <1>15
    <3> QED
      BY <1>2, <1>4, <1>5, <3>1
  <2>4. r[k] < s[k]
    BY <1>2, <2>1
  <2> QED
    BY <2>1, <2>2, <2>3, <2>4
\* They differ at the depth of the step lifted.
<1>16. CASE k = at
  <2>1. at \in 1..Len(r) /\ at <= Len(s) /\ at \in 1..Len(n) /\ at \in 1..Len(m) /\ at <= Len(n) /\ at <= Len(m)
    BY <1>1, <1>4, <1>5, <1>13, <1>16
  <2>2. ASSUME NEW i \in 1..(at - 1) PROVE r[i] = s[i]
    <3>1. i \in 1..Len(n) /\ i \in 1..Len(m) /\ i < at
      BY <1>1, <1>13, <1>16
    <3> QED
      BY <1>2, <1>4, <1>5, <1>16, <3>1
  <2>3. n[at] \in Nat /\ m[at] \in Nat /\ n[at] < m[at]
    BY <1>2, <1>10, <1>16, <2>1
  <2>4. \A i \in 1..(at - 1) : n[i] = m[i]
    BY <1>2, <1>16
  <2>5. r[at] < s[at]
    <3>1. CASE ~(\A i \in 1..(at - 1) : n[i] = t[i])
      <4>1. ~(\A i \in 1..(at - 1) : m[i] = t[i])
        BY <2>4, <3>1
      <4>2. \A i \in 1..(at - 1) : i \in 1..at
        BY <1>1
      <4>3. r = n /\ s = m
        BY <1>6, <1>7, <1>8, <1>9, <1>11, <1>12, <3>1, <4>1, <4>2
      <4> QED
        BY <2>3, <4>3
    <3>2. CASE \A i \in 1..(at - 1) : n[i] = t[i]
      <4>1. \A i \in 1..(at - 1) : m[i] = t[i]
        BY <2>4, <3>2
      <4>2. ASSUME NEW x \in {n, m}, x[at] = t[at], \A i \in 1..(at - 1) : x[i] = t[i]
            PROVE  Inside(x, t)
        <5>1. x \in Seq(Nat) /\ Len(x) >= at /\ x # t
          BY <1>1, <2>1 DEF Lifting
        <5>2. \A i \in 1..at : x[i] = t[i]
          BY <1>1, <4>2
        <5>3. Len(x) # at
          BY <1>1, <5>1, <5>2, SeqEqual DEF at
        <5>4. at < Len(x)
          BY <1>1, <5>1, <5>3
        <5> QED
          BY <1>1, <5>1, <5>2, <5>4, InsideAt DEF at
      <4>3. CASE n[at] < t[at]
        <5>1. r = n
          <6>1. ~Past(t, n)
            BY <1>10, <1>11, <2>3, <4>3
          <6>2. ~Inside(n, t)
            <7>1. at \in 1..at
              BY <1>1
            <7> QED
              BY <1>6, <1>10, <2>3, <4>3, <7>1
          <6> QED
            BY <1>8, <6>1, <6>2
        <5>2. CASE m[at] < t[at]
          <6>1. ~Past(t, m)
            BY <1>10, <1>12, <2>3, <5>2
          <6>2. ~Inside(m, t)
            <7>1. at \in 1..at
              BY <1>1
            <7> QED
              BY <1>7, <1>10, <2>3, <5>2, <7>1
          <6> QED
            BY <1>9, <2>3, <5>1, <6>1, <6>2
        <5>3. CASE m[at] = t[at]
          <6>1. Inside(m, t)
            BY <4>1, <4>2, <5>3
          <6>2. s[at] = t[at] + m[at + 1] - 1 /\ m[at + 1] \in 1..c
            BY <1>9, <6>1
          <6> QED
            BY <1>10, <1>14, <2>3, <4>3, <5>1, <6>2
        <5>4. CASE m[at] > t[at]
          <6>1. Past(t, m)
            BY <1>12, <2>1, <2>3, <4>1, <5>4
          <6>2. s[at] = m[at] + c - 1
            BY <1>9, <2>1, <6>1
          <6> QED
            BY <1>14, <2>3, <5>1, <6>2
        <5> QED
          BY <1>10, <2>3, <5>2, <5>3, <5>4
      <4>4. CASE n[at] = t[at]
        <5>1. Inside(n, t)
          BY <3>2, <4>2, <4>4
        <5>2. r[at] = t[at] + n[at + 1] - 1 /\ n[at + 1] \in 1..c
          BY <1>8, <5>1
        <5>3. Past(t, m)
          BY <1>10, <1>12, <2>1, <2>3, <4>1, <4>4
        <5>4. s[at] = m[at] + c - 1
          BY <1>9, <2>1, <5>3
        <5> QED
          BY <1>10, <1>14, <2>3, <4>4, <5>2, <5>4
      <4>5. CASE n[at] > t[at]
        <5>1. Past(t, n) /\ Past(t, m)
          BY <1>10, <1>11, <1>12, <2>1, <2>3, <3>2, <4>1, <4>5
        <5>2. r[at] = n[at] + c - 1 /\ s[at] = m[at] + c - 1
          BY <1>8, <1>9, <2>1, <5>1
        <5> QED
          BY <1>14, <2>3, <5>2
      <4> QED
        BY <1>10, <2>3, <4>3, <4>4, <4>5
    <3> QED
      BY <3>1, <3>2
  <2> QED
    BY <2>1, <2>2, <2>5
\* They differ below it, and are of one kind.
<1>17. CASE k > at
  <2>1. \A i \in 1..at : n[i] = m[i] /\ i \in 1..Len(n) /\ i \in 1..Len(m)
    BY <1>1, <1>2, <1>13, <1>17
  <2>2. Len(n) > at /\ Len(m) > at /\ at \in 1..at
    BY <1>1, <1>13, <1>17
  <2>3. (Inside(n, t) <=> Inside(m, t)) /\ (Past(t, n) <=> Past(t, m))
    BY <1>1, <2>1, <2>2, OfOneKind DEF at
  <2>4. n[k] \in Nat /\ m[k] \in Nat
    BY <1>10, <1>13
  <2>5. CASE Inside(n, t)
    <3>1. /\ Len(r) = Len(n) - 1 /\ r[at] = t[at] + n[at + 1] - 1
          /\ \A i \in (at + 1)..(Len(n) - 1) : r[i] = n[i + 1]
          /\ Len(s) = Len(m) - 1 /\ s[at] = t[at] + m[at + 1] - 1
          /\ \A i \in (at + 1)..(Len(m) - 1) : s[i] = m[i + 1]
      BY <1>8, <1>9, <2>3, <2>5
    <3>2. \A i \in 1..(k - 1) : n[i] = m[i]
      BY <1>2
    <3>3. k - 1 \in 1..Len(r) /\ k - 1 <= Len(s)
      BY <1>1, <1>13, <1>17, <3>1
    <3>4. r[k - 1] < s[k - 1]
      <4>1. CASE k = at + 1
        <5>1. k - 1 = at
          BY <1>1, <4>1
        <5> QED
          BY <1>2, <1>10, <2>4, <3>1, <4>1, <5>1
      <4>2. CASE k > at + 1
        <5>1. k - 1 \in (at + 1)..(Len(n) - 1) /\ k - 1 \in (at + 1)..(Len(m) - 1) /\ (k - 1) + 1 = k
          BY <1>1, <1>13, <4>2
        <5> QED
          BY <1>2, <3>1, <5>1
      <4> QED
        BY <1>1, <1>13, <1>17, <4>1, <4>2
    <3>5. ASSUME NEW i \in 1..((k - 1) - 1) PROVE r[i] = s[i]
      <4>1. CASE i < at
        <5>1. i \in 1..Len(n) /\ i \in 1..Len(m) /\ i \in 1..at
          BY <1>1, <1>13, <4>1
        <5> QED
          BY <1>4, <1>5, <2>1, <4>1, <5>1
      <4>2. CASE i = at
        <5>1. at + 1 \in 1..(k - 1)
          BY <1>1, <1>13, <4>2
        <5>2. n[at + 1] = m[at + 1]
          BY <3>2, <5>1
        <5> QED
          BY <3>1, <4>2, <5>2
      <4>3. CASE i > at
        <5>1. i + 1 \in 1..(k - 1) /\ i \in (at + 1)..(Len(n) - 1) /\ i \in (at + 1)..(Len(m) - 1)
          BY <1>1, <1>13, <4>3
        <5> QED
          BY <3>1, <3>2, <5>1
      <4> QED
        BY <1>1, <4>1, <4>2, <4>3
    <3> QED
      BY <3>3, <3>4, <3>5
  <2>6. CASE Past(t, n)
    <3>1. /\ Len(r) = Len(n) /\ \A i \in 1..Len(n) : r[i] = IF i = at THEN n[i] + c - 1 ELSE n[i]
      BY <1>8, <2>6
    <3>2. /\ Len(s) = Len(m) /\ \A i \in 1..Len(m) : s[i] = IF i = at THEN m[i] + c - 1 ELSE m[i]
      BY <1>9, <2>3, <2>6
    <3>3. k # at
      BY <1>1, <1>17
    <3>4. k \in 1..Len(r) /\ k <= Len(s) /\ r[k] < s[k]
      BY <1>2, <1>13, <3>1, <3>2, <3>3
    <3>5. ASSUME NEW i \in 1..(k - 1) PROVE r[i] = s[i]
      <4>1. i \in 1..Len(n) /\ i \in 1..Len(m) /\ n[i] = m[i]
        BY <1>1, <1>2, <1>13
      <4> QED
        BY <3>1, <3>2, <4>1
    <3> QED
      BY <3>4, <3>5
  <2>7. CASE ~Inside(n, t) /\ ~Past(t, n)
    <3>1. r = n /\ s = m
      BY <1>8, <1>9, <2>3, <2>7
    <3> QED
      BY <1>2, <3>1
  <2> QED
    BY <2>5, <2>6, <2>7
<1> QED
  BY <1>1, <1>13, <1>15, <1>16, <1>17

\* A lift tells the steps that stay apart, and leaves them nested and ordered
\* as they were.
LEMMA LiftedTells ==
  ASSUME Inv, NEW t \in Number, Room(t), NEW n \in Number \ {t}, NEW m \in Number \ {t}
  PROVE  LET r == As(Lifted(t), n)
             s == As(Lifted(t), m) IN
         /\ r = s => n = m
         /\ Inside(r, s) <=> Inside(n, m)
         /\ Earlier(r, s) <=> Earlier(n, m)
<1> DEFINE r == As(Lifted(t), n)
<1> DEFINE s == As(Lifted(t), m)
<1>1. Lifting(t, n, r) /\ Lifting(t, m, s)
  BY LiftingIs
<1> HIDE DEF r, s
<1>2. n \in Seq(Nat) /\ m \in Seq(Nat) /\ r \in Seq(Nat) /\ s \in Seq(Nat)
  BY <1>1 DEF Lifting
<1>3. /\ Inside(n, m) => Inside(r, s)
      /\ Inside(m, n) => Inside(s, r)
      /\ Earlier(n, m) => Earlier(r, s)
      /\ Earlier(m, n) => Earlier(s, r)
  BY <1>1, LiftedNests, LiftedOrders
<1>4. n # m => Inside(n, m) \/ Inside(m, n) \/ Earlier(n, m) \/ Earlier(m, n)
  BY <1>2, Compared
<1>5. /\ ~(Inside(r, s) /\ (Inside(s, r) \/ Earlier(r, s) \/ Earlier(s, r)))
      /\ ~(Earlier(r, s) /\ Earlier(s, r))
      /\ Inside(r, s) \/ Earlier(r, s) => r # s
  BY <1>2, ComparedOnce
<1>6. /\ ~(Inside(s, r) /\ (Inside(r, s) \/ Earlier(s, r) \/ Earlier(r, s)))
      /\ Inside(s, r) \/ Earlier(s, r) => s # r
  BY <1>2, ComparedOnce
<1>7. n = m => r = s
  BY DEF r, s
<1>8. r = s => n = m
  BY <1>3, <1>4, <1>5, <1>6
<1>9. Inside(r, s) <=> Inside(n, m)
  BY <1>3, <1>4, <1>5, <1>6, <1>7
<1>10. Earlier(r, s) <=> Earlier(n, m)
  BY <1>3, <1>4, <1>5, <1>6, <1>7
<1> QED
  BY <1>8, <1>9, <1>10 DEF r, s

\* A lift renames the steps that stay.
LEMMA LiftRenames ==
  ASSUME Inv, NEW t \in Number, Room(t)
  PROVE  Renames(Lifted(t), Number \ {t})
<1> DEFINE r(n) == As(Lifted(t), n)
<1> DEFINE stay == Number \ {t}
<1> DEFINE at == Len(t)
<1>1. <<>> \notin DOMAIN Lifted(t)
  BY NumberShape DEF Lifted
<1>2. \A n \in stay : r(n) \in Numbers
  BY LiftedAt
<1>3. \A n, m \in stay : r(n) = r(m) => n = m
  BY LiftedTells
<1>4. ASSUME NEW n \in stay, Len(r(n)) > 1 PROVE \E m \in stay : Front(r(n)) = r(m)
  <2> DEFINE s == r(n)
  <2>1. /\ n \in Numbers /\ n \in Seq(Nat) /\ Len(n) \in Nat
        /\ t \in Numbers /\ t \in Seq(Nat) /\ at \in Nat \ {0}
    BY NumberShape, EmptySeq DEF Numbers
  <2>2. s \in Numbers /\ s \in Seq(Nat) /\ Len(s) \in Nat
    BY <1>2 DEF Numbers
  <2>3. Lifting(t, n, s)
    BY LiftingIs
  <2>4. /\ Len(s) <= Len(n) /\ (Len(n) >= at => Len(s) >= at) /\ (Len(n) < at => Len(s) = Len(n))
        /\ \A i \in 1..Len(n) : i < at => i \in 1..Len(s) /\ s[i] = n[i]
    BY <2>3, LiftingAbove
  <2> DEFINE a == Len(s) - 1
  <2> DEFINE f == SubSeq(s, 1, a)
  <2>5. a \in 1..Len(s) /\ a + 1 = Len(s)
    BY <1>4, <2>2
  <2> HIDE DEF s, a
  <2>6. f \in Numbers /\ f \in Seq(Nat) /\ Len(f) = a /\ \A i \in 1..a : f[i] = s[i]
    BY <2>2, <2>5, CutAt DEF Numbers
  <2>7. Front(s) = f
    BY DEF Front, a
  <2> HIDE DEF f
  <2>8. ASSUME NEW b \in 1..Len(n)
        PROVE  \E m \in Number : m \in Seq(Nat) /\ Len(m) = b /\ \A i \in 1..b : m[i] = n[i]
    <3> DEFINE m == SubSeq(n, 1, b)
    <3>1. m \in Number /\ m \in Numbers /\ Len(m) = b /\ \A i \in 1..b : m[i] = n[i]
      BY <2>1, CutAt, Ancestors
    <3> HIDE DEF m
    <3> QED
      BY <3>1 DEF Numbers
  <2>9. at \in Nat /\ at >= 1 /\ Len(n) \in Nat
    BY <2>1
  <2>10. Inside(n, t) <=> at < Len(n) /\ \A i \in 1..at : n[i] = t[i]
    BY <2>1, InsideAt
  \* The parent of a child of the step lifted is now its parent's.
  <2>11. CASE Inside(n, t) /\ Len(n) = at + 1
    <3>1. Len(s) = at /\ a \in 1..Len(n) /\ a < at
      <4>1. Len(s) = Len(n) - 1
        BY <2>3, <2>11 DEF Lifting
      <4> HIDE DEF at
      <4> QED
        BY <2>5, <2>9, <2>11, <4>1
    <3>2. PICK m \in Number : m \in Seq(Nat) /\ Len(m) = a /\ \A i \in 1..a : m[i] = n[i]
      BY <2>8, <3>1
    <3>3. m # t /\ ~Inside(m, t) /\ ~Past(t, m)
      <4>1. m # t /\ ~(at < Len(m)) /\ ~(Len(m) >= at)
        BY <2>1, <3>1, <3>2
      <4>2. Inside(m, t) => at < Len(m)
        BY <2>1, <3>2, InsideAt
      <4> QED
        BY <4>1, <4>2 DEF Past
    <3>4. r(m) = m
      <4>1. Lifting(t, m, r(m))
        BY <3>2, <3>3, LiftingIs
      <4> QED
        BY <3>3, <4>1 DEF Lifting
    <3>5. \A i \in 1..a : f[i] = m[i]
      <4> SUFFICES ASSUME NEW i \in 1..a PROVE f[i] = m[i]
        OBVIOUS
      <4>1. i \in 1..Len(n) /\ i < at
        BY <2>1, <3>1
      <4> QED
        BY <2>4, <2>6, <3>2, <4>1
    <3>6. f = m
      BY <2>6, <3>2, <3>5, SeqEqual
    <3> QED
      BY <2>7, <3>2, <3>3, <3>4, <3>6 DEF s
  \* The parent of another step under it is its parent's image.
  <2>12. CASE Inside(n, t) /\ Len(n) # at + 1
    <3>1. at + 1 < Len(n) /\ \A i \in 1..at : n[i] = t[i]
      BY <2>1, <2>10, <2>12
    <3>2. /\ Len(s) = Len(n) - 1
          /\ \A i \in 1..(at - 1) : s[i] = n[i]
          /\ s[at] = t[at] + n[at + 1] - 1
          /\ \A i \in (at + 1)..(Len(n) - 1) : s[i] = n[i + 1]
      BY <2>3, <2>12 DEF Lifting
    <3>3. Len(n) - 1 \in 1..Len(n)
      <4> HIDE DEF at
      <4> QED
        BY <2>9, <3>1
    <3>4. PICK b \in 1..Len(n) : b = Len(n) - 1
      BY <3>3
    <3>5. PICK m \in Number : m \in Seq(Nat) /\ Len(m) = b /\ \A i \in 1..b : m[i] = n[i]
      BY <2>8
    <3>6. Inside(m, t) /\ m # t
      <4>1. at < Len(m)
        BY <2>1, <3>1, <3>4, <3>5
      <4>2. \A i \in 1..at : m[i] = t[i]
        BY <2>1, <3>1, <3>4, <3>5
      <4> QED
        BY <2>1, <3>5, <4>1, <4>2, InsideAt
    <3> DEFINE u == r(m)
    <3>7. Lifting(t, m, u)
      BY <3>5, <3>6, LiftingIs
    <3> HIDE DEF u, at
    <3>8. /\ Len(u) = b - 1 /\ u \in Seq(Nat)
          /\ \A i \in 1..(at - 1) : u[i] = m[i]
          /\ u[at] = t[at] + m[at + 1] - 1
          /\ \A i \in (at + 1)..(b - 1) : u[i] = m[i + 1]
      BY <3>5, <3>6, <3>7 DEF Lifting, at
    <3>9. a = b - 1 /\ at <= a /\ at + 1 \in 1..b
      BY <2>5, <2>9, <3>1, <3>2, <3>4
    <3>10. ASSUME NEW i \in 1..a PROVE f[i] = u[i]
      <4>1. f[i] = s[i]
        BY <2>6
      <4>2. CASE i < at
        <5>1. i \in 1..(at - 1) /\ i \in 1..b
          BY <2>1, <3>4, <3>9, <4>2
        <5> QED
          BY <3>2, <3>5, <3>8, <4>1, <5>1
      <4>3. CASE i = at
        <5>1. m[at + 1] = n[at + 1]
          BY <3>5, <3>9
        <5> QED
          BY <3>2, <3>8, <4>1, <4>3, <5>1
      <4>4. CASE i > at
        <5>1. i \in (at + 1)..(Len(n) - 1) /\ i \in (at + 1)..(b - 1) /\ i + 1 \in 1..b
          BY <2>1, <3>4, <3>9, <4>4
        <5> QED
          BY <3>2, <3>5, <3>8, <4>1, <5>1
      <4> QED
        BY <2>1, <4>2, <4>3, <4>4
    <3>11. f = u
      BY <2>6, <3>8, <3>9, <3>10, SeqEqual
    <3> QED
      BY <2>7, <3>5, <3>6, <3>11 DEF s, u
  \* The parent of any other step is its parent's image, moved or not as it is.
  <2>13. CASE ~Inside(n, t)
    <3>1. Len(s) = Len(n)
      BY <2>3, <2>13 DEF Lifting
    <3>2. a \in 1..Len(n) /\ a + 1 = Len(n)
      BY <2>5, <3>1
    <3>3. PICK m \in Number : m \in Seq(Nat) /\ Len(m) = a /\ \A i \in 1..a : m[i] = n[i]
      BY <2>8, <3>2
    <3>4. m # t /\ ~Inside(m, t)
      <4>1. m = t => Inside(n, t)
        BY <2>10, <3>2, <3>3
      <4>2. ASSUME Inside(m, t) PROVE Inside(n, t)
        <5>1. at < Len(m) /\ \A i \in 1..at : m[i] = t[i]
          BY <2>1, <3>3, <4>2, InsideAt
        <5>2. \A i \in 1..at : n[i] = t[i]
          BY <2>1, <3>3, <5>1
        <5> QED
          BY <2>1, <2>10, <3>2, <3>3, <5>1, <5>2
      <4> QED
        BY <2>13, <4>1, <4>2
    <3> DEFINE u == r(m)
    <3>5. Lifting(t, m, u)
      BY <3>3, <3>4, LiftingIs
    <3> HIDE DEF u
    <3>6. u \in Seq(Nat) /\ Len(u) = a
      BY <3>3, <3>4, <3>5 DEF Lifting
    <3>7. CASE Past(t, m)
      <4>1. Len(m) >= at /\ (\A i \in 1..(at - 1) : m[i] = t[i]) /\ m[at] > t[at]
        BY <3>7 DEF Past
      <4>2. Len(n) >= at /\ at \in 1..a
        BY <2>1, <3>2, <3>3, <4>1
      <4>3. ASSUME NEW i \in 1..(at - 1) PROVE n[i] = t[i]
        <5>1. i \in 1..a
          BY <2>9, <3>2, <4>2
        <5> QED
          BY <3>3, <4>1, <5>1
      <4>4. Past(t, n)
        BY <3>3, <4>1, <4>2, <4>3 DEF Past
      <4>5. \A i \in 1..Len(n) : s[i] = IF i = at THEN n[i] + Cardinality(Children(t)) - 1 ELSE n[i]
        BY <2>3, <4>4 DEF Lifting
      <4>6. \A i \in 1..a : u[i] = IF i = at THEN m[i] + Cardinality(Children(t)) - 1 ELSE m[i]
        BY <3>3, <3>5, <3>7 DEF Lifting
      <4>7. ASSUME NEW i \in 1..a PROVE f[i] = u[i]
        <5>1. i \in 1..Len(n) /\ m[i] = n[i] /\ f[i] = s[i]
          BY <2>6, <3>2, <3>3
        <5> QED
          BY <4>5, <4>6, <5>1
      <4>8. f = u
        BY <2>6, <3>6, <4>7, SeqEqual
      <4> QED
        BY <2>7, <3>3, <3>4, <4>8 DEF s, u
    <3>8. CASE ~Past(t, m)
      <4>1. u = m
        BY <3>4, <3>5, <3>8 DEF Lifting
      <4>2. ASSUME NEW i \in 1..a PROVE f[i] = m[i]
        <5>1. i \in 1..Len(n) /\ m[i] = n[i] /\ f[i] = s[i]
          BY <2>6, <3>2, <3>3
        <5>2. CASE Past(t, n)
          <6>1. s[i] = IF i = at THEN n[i] + Cardinality(Children(t)) - 1 ELSE n[i]
            BY <2>3, <5>1, <5>2 DEF Lifting
          <6>2. i # at
            <7> SUFFICES ASSUME i = at PROVE FALSE
              OBVIOUS
            <7>1. (\A j \in 1..(at - 1) : n[j] = t[j]) /\ n[at] > t[at]
              BY <5>2 DEF Past
            <7>2. Len(m) >= at /\ m[at] > t[at]
              BY <2>1, <3>2, <3>3, <5>1, <7>1
            <7>3. ASSUME NEW j \in 1..(at - 1) PROVE m[j] = t[j]
              <8>1. j \in 1..a
                BY <2>1, <3>2
              <8> QED
                BY <3>3, <7>1, <8>1
            <7> QED
              BY <3>8, <7>2, <7>3 DEF Past
          <6> QED
            BY <5>1, <6>1, <6>2
        <5>3. CASE ~Past(t, n)
          <6>1. s = n
            BY <2>3, <2>13, <5>3 DEF Lifting
          <6> QED
            BY <5>1, <6>1
        <5> QED
          BY <5>2, <5>3
      <4>3. f = m
        BY <2>6, <3>3, <4>2, SeqEqual
      <4> QED
        BY <2>7, <3>3, <3>4, <4>1, <4>3 DEF s, u
    <3> QED
      BY <3>7, <3>8
  <2> QED
    BY <2>11, <2>12, <2>13
<1> QED
  BY <1>1, <1>2, <1>3, <1>4 DEF Renames

\* A sequence with one element removed.
LEMMA RemovedAt ==
  ASSUME NEW S, NEW s \in Seq(S), NEW k \in 1..Len(s)
  PROVE  /\ RemoveAt(s, k) \in Seq(S) /\ Len(RemoveAt(s, k)) = Len(s) - 1
         /\ \A j \in 1..(Len(s) - 1) : RemoveAt(s, k)[j] = s[IF j < k THEN j ELSE j + 1]
<1> DEFINE p == SubSeq(s, 1, k - 1)
<1> DEFINE q == SubSeq(s, k + 1, Len(s))
<1>1. p \in Seq(S) /\ Len(p) = k - 1 /\ \A i \in 1..(k - 1) : p[i] = s[i]
  <2>1. k - 1 \in 0..Len(s)
    OBVIOUS
  <2> QED
    BY <2>1, FirstOf
<1>2. q \in Seq(S) /\ Len(q) = Len(s) - k /\ \A i \in 1..(Len(s) - k) : q[i] = s[k + i]
  <2>1. k + 1 \in Int /\ Len(s) \in Int /\ \A i \in (k + 1)..Len(s) : s[i] \in S
    OBVIOUS
  <2>2. /\ q \in Seq(S)
        /\ Len(q) = IF k + 1 <= Len(s) THEN Len(s) - (k + 1) + 1 ELSE 0
        /\ \A i \in 1..(Len(s) - (k + 1) + 1) : q[i] = s[(k + 1) + i - 1]
    BY <2>1, SubSeqProperties
  <2> HIDE DEF q
  <2> QED
    BY <2>2
<1> HIDE DEF p, q
<1>3. /\ p \o q \in Seq(S) /\ Len(p \o q) = Len(p) + Len(q)
      /\ \A i \in 1..(Len(p) + Len(q)) : (p \o q)[i] = IF i <= Len(p) THEN p[i] ELSE q[i - Len(p)]
  BY <1>1, <1>2, ConcatProperties
<1>4. PICK r \in Seq(S) : r = p \o q
  BY <1>3
<1>5. k \in Nat \ {0} /\ Len(s) \in Nat /\ k <= Len(s) /\ Len(p) + Len(q) = Len(s) - 1
  BY <1>1, <1>2
<1>6. ASSUME NEW j \in 1..(Len(s) - 1) PROVE r[j] = s[IF j < k THEN j ELSE j + 1]
  <2>1. r[j] = IF j <= Len(p) THEN p[j] ELSE q[j - Len(p)]
    BY <1>3, <1>4, <1>5
  <2>2. CASE j < k
    <3>1. j <= Len(p) /\ j \in 1..(k - 1)
      BY <1>1, <1>5, <2>2
    <3> QED
      BY <1>1, <2>1, <2>2, <3>1
  <2>3. CASE ~(j < k)
    <3>1. ~(j <= Len(p)) /\ j - Len(p) \in 1..(Len(s) - k) /\ k + (j - Len(p)) = j + 1
      BY <1>1, <1>5, <2>3
    <3> QED
      BY <1>2, <2>1, <2>3, <3>1
  <2> QED
    BY <2>2, <2>3
<1> QED
  BY <1>3, <1>4, <1>5, <1>6 DEF RemoveAt, p, q

\* A step lifted rewrites every line of the file but its own, which goes.
LEMMA LiftRewrites ==
  ASSUME Inv, GapsFilled, NEW t \in Number, Lift(t)
  PROVE  /\ Room(t) /\ Renames(Lifted(t), Number \ {t}) /\ UNCHANGED meant /\ TypeOK'
         /\ \E from : Rewritten(Lifted(t), Number \ {t}, from)
<1> DEFINE map == Lifted(t)
<1>1. /\ writes < MaxWrites /\ NoGap(t) /\ ~CitedElsewhere(t) /\ DOMAIN map # {}
      /\ \E k \in Lines(t) : /\ file' = RemoveAt(Renumbered(map), k)
                             /\ writes' = writes + 1 /\ UNCHANGED meant
  BY DEF Lift, Write, Without
<1>2. Room(t)
  BY <1>1, LiftRoom
<1>3. Renames(map, Number \ {t})
  BY <1>2, LiftRenames
<1>4. As(map, t) \in Numbers
  <2>1. t \in Numbers /\ t \in Seq(Nat) /\ Len(t) \in 1..Len(t) /\ t[Len(t)] \in Nat
    BY NumberShape, EmptySeq DEF Numbers
  <2>2. t \notin DOMAIN map
    BY <2>1 DEF Lifted, Inside
  <2> QED
    BY <2>1, <2>2 DEF As
<1> HIDE DEF map
<1>5. PICK k \in Lines(t) : /\ file' = RemoveAt(Renumbered(map), k)
                            /\ writes' = writes + 1 /\ UNCHANGED meant
  BY <1>1
<1>6. file \in Seq(ALine) /\ DOMAIN file = 1..Len(file) /\ Len(file) \in Nat
      /\ k \in 1..Len(file) /\ file[k].number = t
  BY DEF Inv, TypeOK, Lines
<1>7. /\ Renumbered(map) \in Seq(ALine) /\ Len(Renumbered(map)) = Len(file)
      /\ \A j \in DOMAIN file :
           /\ Renumbered(map)[j].id = file[j].id
           /\ Renumbered(map)[j].number = As(map, file[j].number)
           /\ DOMAIN Renumbered(map)[j].cites = DOMAIN file[j].cites
           /\ \A c \in DOMAIN file[j].cites :
                /\ file[j].cites[c] \in Number
                /\ Renumbered(map)[j].cites[c] = As(map, file[j].cites[c])
  <2>1. <<>> \notin DOMAIN map /\ \A n \in Number : As(map, n) \in Numbers
    BY <1>3, <1>4 DEF Renames
  <2> QED
    BY <2>1, RenumberedShape
<1>8. PICK lines \in Seq(ALine) : lines = Renumbered(map)
  BY <1>7
<1> DEFINE from == [j \in 1..(Len(file) - 1) |-> IF j < k THEN j ELSE j + 1]
<1>9. /\ file' \in Seq(ALine) /\ Len(file') = Len(file) - 1
      /\ \A j \in 1..(Len(file) - 1) : file'[j] = lines[IF j < k THEN j ELSE j + 1]
  <2>1. k \in 1..Len(lines) /\ Len(lines) = Len(file) /\ file' = RemoveAt(lines, k)
    BY <1>5, <1>6, <1>7, <1>8
  <2> QED
    BY <2>1, RemovedAt
<1>10. /\ DOMAIN from = DOMAIN file'
       /\ \A j \in DOMAIN file' : /\ from[j] \in DOMAIN file /\ from[j] # k
                                  /\ file'[j] = lines[from[j]]
       /\ \A i, j \in DOMAIN file' : from[i] = from[j] => i = j
       /\ \A i \in DOMAIN file : i # k => \E j \in DOMAIN file' : from[j] = i
  <2>1. DOMAIN file' = 1..(Len(file) - 1) /\ DOMAIN from = 1..(Len(file) - 1)
    BY <1>6, <1>9
  <2>2. \A j \in 1..(Len(file) - 1) : from[j] = IF j < k THEN j ELSE j + 1
    OBVIOUS
  <2> HIDE DEF from
  <2>3. \A j \in DOMAIN file' : from[j] \in DOMAIN file /\ from[j] # k /\ file'[j] = lines[from[j]]
    BY <1>6, <1>9, <2>1, <2>2
  <2>4. \A i, j \in DOMAIN file' : from[i] = from[j] => i = j
    BY <1>6, <2>1, <2>2
  <2>5. ASSUME NEW i \in DOMAIN file, i # k PROVE \E j \in DOMAIN file' : from[j] = i
    <3>1. CASE i < k
      <4>1. i \in 1..(Len(file) - 1)
        BY <1>6, <3>1
      <4> QED
        BY <2>1, <2>2, <3>1, <4>1
    <3>2. CASE i > k
      <4>1. i - 1 \in 1..(Len(file) - 1) /\ ~(i - 1 < k) /\ (i - 1) + 1 = i
        BY <1>6, <3>2
      <4> QED
        BY <2>1, <2>2, <4>1
    <3> QED
      BY <1>6, <2>5, <3>1, <3>2
  <2> QED
    BY <2>1, <2>3, <2>4, <2>5
<1> HIDE DEF from
<1>11. Rewritten(map, Number \ {t}, from)
  <2>1. ASSUME NEW j \in DOMAIN file', file[from[j]].number # <<>>
        PROVE  file[from[j]].number \in Number \ {t}
    <3>1. file[from[j]].number \in Number
      BY <1>10, <2>1 DEF Number, NumbersOf
    <3>2. file[from[j]].number # t
      <4>1. from[j] \in DOMAIN file /\ k \in DOMAIN file /\ from[j] # k
        BY <1>6, <1>10
      <4> QED
        BY <1>6, <2>1, <4>1 DEF Inv, Numbered
    <3> QED
      BY <3>1, <3>2
  <2>2. ASSUME NEW j \in DOMAIN file', NEW c \in DOMAIN file[from[j]].cites
        PROVE  file[from[j]].cites[c] \in Number \ {t}
    <3>1. from[j] \in DOMAIN file
      BY <1>10
    <3>2. file[from[j]].cites[c] \in Number
      BY <1>7, <3>1
    <3>3. file[from[j]].cites[c] # t
      BY <1>1, <3>1 DEF CitedElsewhere, Range
    <3> QED
      BY <3>2, <3>3
  <2>3. ASSUME NEW n \in Number \ {t} PROVE \E j \in DOMAIN file' : file[from[j]].number = n
    <3>1. PICK i \in DOMAIN file : file[i].number = n
      BY DEF Number, NumbersOf
    <3>2. i # k
      BY <1>6, <3>1
    <3> QED
      BY <1>10, <3>1, <3>2
  <2>4. \A j \in DOMAIN file' :
          /\ from[j] \in DOMAIN file
          /\ file'[j].id = file[from[j]].id
          /\ file'[j].number = As(map, file[from[j]].number)
          /\ DOMAIN file'[j].cites = DOMAIN file[from[j]].cites
          /\ \A c \in DOMAIN file[from[j]].cites : file'[j].cites[c] = As(map, file[from[j]].cites[c])
    BY <1>7, <1>8, <1>10
  <2> QED
    BY <1>9, <1>10, <2>1, <2>2, <2>3, <2>4 DEF Rewritten
<1>12. TypeOK'
  <2>1. writes \in 0..MaxWrites /\ MaxWrites \in Nat
    BY RenumberAssumption DEF Inv, TypeOK
  <2>2. writes' \in 0..MaxWrites
    BY <1>1, <1>5, <2>1
  <2> QED
    BY <1>9, <2>2 DEF TypeOK
<1> QED
  BY <1>2, <1>3, <1>5, <1>11, <1>12 DEF map

(***************************************************************************)
(* The invariant holds                                                     *)
(***************************************************************************)

\* A theorem as it is to begin with: its citations name what they name.
LEMMA InvInit == ASSUME InitFile PROVE Inv
<1>1. PICK thm \in Theorems :
        /\ file = [k \in DOMAIN thm |-> [id |-> k, number |-> thm[k].number, cites |-> thm[k].cites]]
        /\ meant = [k \in DOMAIN thm |->
                      [c \in DOMAIN thm[k].cites |->
                         CHOOSE j \in DOMAIN thm : thm[j].number = thm[k].cites[c]]]
        /\ writes = 0
  BY DEF InitFile
<1> DEFINE ARead == [number : Numbers \cup {<<>>}, cites : Seq(Numbers)]
<1>2. thm \in Seq(ARead) /\ Numbered(thm) /\ MaxWrites \in Nat
  BY RenumberAssumption
<1>3. DOMAIN thm = 1..Len(thm) /\ Len(thm) \in Nat /\ \A k \in DOMAIN thm : thm[k] \in ARead
  <2> HIDE DEF ARead
  <2> QED
    BY <1>2
<1>4. /\ DOMAIN file = DOMAIN thm
      /\ \A k \in DOMAIN thm :
           /\ file[k] = [id |-> k, number |-> thm[k].number, cites |-> thm[k].cites]
           /\ file[k].id = k /\ file[k].number = thm[k].number /\ file[k].cites = thm[k].cites
  BY <1>1
<1>5. TypeOK
  <2>1. \A k \in DOMAIN thm : file[k] \in ALine
    BY <1>3, <1>4 DEF ALine
  <2>2. file \in [1..Len(thm) -> ALine]
    <3>1. file = [k \in DOMAIN thm |-> file[k]]
      BY <1>1
    <3> QED
      BY <1>3, <2>1, <3>1
  <2>3. file \in Seq(ALine)
    BY <1>3, <2>2, SeqDef
  <2> QED
    BY <1>1, <1>2, <2>3 DEF TypeOK
<1>6. NumbersOf(file) = NumbersOf(thm)
  BY <1>4 DEF NumbersOf
<1>7. Numbered(file)
  BY <1>2, <1>4, <1>6 DEF Numbered
<1>8. Identified
  BY <1>4 DEF Identified
<1>9. CitesTheSame
  <2> SUFFICES ASSUME NEW k \in DOMAIN file, NEW c \in DOMAIN file[k].cites, NEW j \in DOMAIN file
               PROVE  (file[j].number = file[k].cites[c]) <=> (file[j].id = meant[file[k].id][c])
    BY DEF CitesTheSame
  <2> DEFINE cited == thm[k].cites[c]
  <2> DEFINE named == CHOOSE i \in DOMAIN thm : thm[i].number = cited
  <2>1. k \in DOMAIN thm /\ c \in DOMAIN thm[k].cites /\ j \in DOMAIN thm
    BY <1>4
  <2>2. meant[file[k].id][c] = named
    BY <1>1, <1>4, <2>1
  <2>3. cited \in NumbersOf(thm)
    BY <1>2, <2>1 DEF Numbered, Range
  <2> HIDE DEF cited
  <2>4. cited # <<>> /\ \E i \in DOMAIN thm : thm[i].number = cited
    BY <2>3 DEF NumbersOf
  <2>5. named \in DOMAIN thm /\ thm[named].number = cited
    BY <2>4
  <2> HIDE DEF named
  <2>6. thm[j].number = cited <=> j = named
    BY <1>2, <2>1, <2>4, <2>5 DEF Numbered
  <2> QED
    BY <1>4, <2>1, <2>2, <2>6 DEF cited
<1> QED
  BY <1>5, <1>7, <1>8, <1>9 DEF Inv

\* A run shifted and a step lifted keep it; lifting only where the block has
\* no gap.
LEMMA InvStep == ASSUME GapsFilled, Inv, [NextFile]_fileVars PROVE Inv'
<1>1. CASE NextFile
  <2>1. ASSUME NEW run \in Runs, NEW by \in Shifts, Run(run, by) PROVE Inv'
    <3>1. /\ Renames(Shifted(run, by), Number) /\ UNCHANGED meant /\ TypeOK'
          /\ Rewritten(Shifted(run, by), Number, [k \in DOMAIN file |-> k])
      BY <2>1, RunRewrites
    <3>2. Numbered(file') /\ Identified' /\ CitesTheSame'
      BY <3>1, RenamedKeeps
    <3> QED
      BY <3>1, <3>2 DEF Inv
  <2>2. ASSUME NEW t \in Number, Lift(t) PROVE Inv'
    <3>1. /\ Renames(Lifted(t), Number \ {t}) /\ UNCHANGED meant /\ TypeOK'
          /\ \E from : Rewritten(Lifted(t), Number \ {t}, from)
      BY <2>2, LiftRewrites
    <3>2. PICK from : Rewritten(Lifted(t), Number \ {t}, from)
      BY <3>1
    <3>3. Numbered(file') /\ Identified' /\ CitesTheSame'
      BY <3>1, <3>2, RenamedKeeps
    <3> QED
      BY <3>1, <3>3 DEF Inv
  <2> QED
    BY <1>1, <2>1, <2>2 DEF NextFile
<1>2. CASE UNCHANGED fileVars
  <2>1. file' = file /\ meant' = meant /\ writes' = writes
    BY <1>2 DEF fileVars
  <2> QED
    BY <2>1 DEF Inv, TypeOK, Identified, CitesTheSame
<1> QED
  BY <1>1, <1>2

\* In a file rewritten, a step's number is what the map makes of the number
\* it had.
LEMMA NumberOfStep ==
  ASSUME Inv, NEW map, NEW numbers, NEW from, <<>> \notin DOMAIN map,
         Rewritten(map, numbers, from), Identified', NEW i \in StepIds(file')
  PROVE  /\ file[LineOf(file, i)].number \in numbers
         /\ file'[LineOf(file', i)].number = As(map, file[LineOf(file, i)].number)
<1>1. PICK j \in DOMAIN file' : file'[j].number # <<>> /\ file'[j].id = i
  BY DEF StepIds
<1>2. /\ from[j] \in DOMAIN file
      /\ file'[j].id = file[from[j]].id /\ file'[j].number = As(map, file[from[j]].number)
      /\ file[from[j]].number # <<>> => file[from[j]].number \in numbers
  BY DEF Rewritten
<1>3. LineOf(file', i) = j
  BY <1>1 DEF LineOf, Identified
<1>4. LineOf(file, i) = from[j]
  BY <1>1, <1>2 DEF LineOf, Inv, Identified
<1>5. file[from[j]].number # <<>>
  BY <1>1, <1>2 DEF As
<1> QED
  BY <1>2, <1>3, <1>4, <1>5

\* A run shifted and a step lifted leave the steps nested as they were, and a
\* step lifted leaves them in the order they had.
LEMMA StepNests == ASSUME GapsFilled, Inv, Inv', NextFile PROVE NestedStep
<1> DEFINE was(i) == file[LineOf(file, i)].number
<1> DEFINE is(i) == file'[LineOf(file', i)].number
<1>1. SUFFICES ASSUME NEW i \in StepIds(file'), NEW j \in StepIds(file')
               PROVE  /\ Inside(is(i), is(j)) <=> Inside(was(i), was(j))
                      /\ Len(file') < Len(file) => (Earlier(is(i), is(j)) <=> Earlier(was(i), was(j)))
  BY DEF NestedStep
<1>2. Identified'
  BY DEF Inv
<1>3. ASSUME NEW run \in Runs, NEW by \in Shifts, Run(run, by)
      PROVE  /\ Inside(is(i), is(j)) <=> Inside(was(i), was(j))
             /\ ~(Len(file') < Len(file))
  <2> DEFINE map == Shifted(run, by)
  <2>1. /\ Renames(map, Number) /\ Len(file') = Len(file)
        /\ Rewritten(map, Number, [k \in DOMAIN file |-> k])
    BY <1>3, RunRewrites
  <2>2. <<>> \notin DOMAIN map
    BY <2>1 DEF Renames
  <2>3. ~Below1(run, by) /\ ~Lands(run, by)
    BY <1>3 DEF Run
  <2> HIDE DEF map
  <2>4. was(i) \in Number /\ is(i) = As(map, was(i)) /\ was(j) \in Number /\ is(j) = As(map, was(j))
    BY <1>2, <2>1, <2>2, NumberOfStep
  <2> HIDE DEF was, is
  <2>5. Inside(As(map, was(i)), As(map, was(j))) <=> Inside(was(i), was(j))
    BY <2>3, <2>4, ShiftedNests DEF map
  <2>6. Len(file) \in Nat
    BY DEF Inv, TypeOK
  <2> QED
    BY <2>1, <2>4, <2>5, <2>6
<1>4. ASSUME NEW t \in Number, Lift(t)
      PROVE  /\ Inside(is(i), is(j)) <=> Inside(was(i), was(j))
             /\ Earlier(is(i), is(j)) <=> Earlier(was(i), was(j))
  <2> DEFINE map == Lifted(t)
  <2>1. /\ Room(t) /\ Renames(map, Number \ {t})
        /\ \E from : Rewritten(map, Number \ {t}, from)
    BY <1>4, LiftRewrites
  <2>2. <<>> \notin DOMAIN map
    BY <2>1 DEF Renames
  <2> HIDE DEF map
  <2>3. PICK from : Rewritten(map, Number \ {t}, from)
    BY <2>1
  <2>4. /\ was(i) \in Number \ {t} /\ is(i) = As(map, was(i))
        /\ was(j) \in Number \ {t} /\ is(j) = As(map, was(j))
    BY <1>2, <2>2, <2>3, NumberOfStep
  <2> HIDE DEF was, is
  <2>5. /\ Inside(As(map, was(i)), As(map, was(j))) <=> Inside(was(i), was(j))
        /\ Earlier(As(map, was(i)), As(map, was(j))) <=> Earlier(was(i), was(j))
    BY <2>1, <2>4, LiftedTells DEF map
  <2> QED
    BY <2>4, <2>5
<1> HIDE DEF was, is
<1> QED
  BY <1>3, <1>4 DEF NextFile

(***************************************************************************)
(* The theorems                                                            *)
(***************************************************************************)

\* The invariant holds of every file written.
LEMMA Invariant == ASSUME GapsFilled PROVE SpecFile => []Inv
<1>1. InitFile => Inv
  BY InvInit
<1>2. Inv /\ [NextFile]_fileVars => Inv'
  BY InvStep
<1> QED
  BY <1>1, <1>2, PTL DEF SpecFile

\* However often steps are shifted and lifted, the theorem stays numbered as
\* the checker asks: no number is two steps', a step under another is under
\* one that is there, and what a line cites is a step.
THEOREM StaysNumbered == ASSUME GapsFilled PROVE SpecFile => []Numbered(file)
<1>1. Inv => Numbered(file)
  BY DEF Inv
<1> QED
  BY <1>1, Invariant, PTL

\* Renumbering moves no citation to another step: whatever run is shifted and
\* whatever step is lifted, each citation names the step it was written for,
\* and that one alone.
THEOREM CitationsKept == ASSUME GapsFilled PROVE SpecFile => []CitesTheSame
<1>1. Inv => CitesTheSame
  BY DEF Inv
<1> QED
  BY <1>1, Invariant, PTL

\* A step shifted takes the steps under it along and goes under no other, and
\* one lifted leaves the others nested and in order as they were.
THEOREM NestingKept == ASSUME GapsFilled PROVE SpecFile => NestedAsBefore
<1>1. Inv /\ Inv' /\ [NextFile]_fileVars => [NestedStep]_file
  <2>1. CASE NextFile
    BY <2>1, StepNests
  <2>2. CASE UNCHANGED fileVars
    BY <2>2 DEF fileVars
  <2> QED
    BY <2>1, <2>2
<1> QED
  BY <1>1, Invariant, PTL DEF SpecFile, NestedAsBefore
=============================================================================
