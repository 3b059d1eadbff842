---------------------------- MODULE SurplusProofs ----------------------------
(***************************************************************************)
(* Theorems about Surplus, for any number of lines and whatever the checks *)
(* find with each set of them.                                             *)
(***************************************************************************)
EXTENDS Surplus, TLAPS

(***************************************************************************)
(* The inductive invariant.  What is kept is the lines not said; with them *)
(* nothing new is found; and, where taking lines away never mends, a line  *)
(* that was asked and is kept does work, and stays needed as others go.    *)
(***************************************************************************)
Needed(l) == ~(found[kept \ {l}] \subseteq found[Lines])

Greedy ==
  /\ kept = Lines \ said
  /\ \A l \in said : l < at
  /\ found[kept] \subseteq found[Lines]
  /\ Antitone /\ ~reported => \A l \in kept \ exempt : l < at => Needed(l)

\* Every step of either loop keeps the type invariant.
THEOREM TypeCorrect == Spec => []TypeOK
<1>1. Init => TypeOK
  BY LinesAssumption DEF Init, TypeOK
<1>2. TypeOK /\ [Next]_vars => TypeOK'
  <2> SUFFICES ASSUME TypeOK, [Next]_vars PROVE TypeOK'
    OBVIOUS
  <2> USE LinesAssumption DEF TypeOK, Lines
  <2>1. CASE AskNothing
    BY <2>1 DEF AskNothing
  <2>2. CASE PassExempt
    BY <2>2 DEF PassExempt
  <2>3. CASE Ask
    <3>1. at' \in 1..(N + 1) /\ at \in 1..N /\ UNCHANGED <<found, exempt, reported>>
      BY <2>3 DEF Ask, AskFrom
    <3>2. kept' \subseteq Lines /\ said' \subseteq Lines
      BY <2>3, <3>1 DEF Ask, AskFrom
    <3>3. QED
      BY <3>1, <3>2
  <2>4. CASE UNCHANGED vars
    BY <2>4 DEF vars
  <2>5. QED
    BY <2>1, <2>2, <2>3, <2>4 DEF Next
<1>3. QED
  BY <1>1, <1>2, PTL DEF Spec

(***************************************************************************)
(* A line found needed is needed still once another is taken away, where   *)
(* taking lines away never mends anything.                                 *)
(***************************************************************************)
LEMMA StaysNeeded ==
  ASSUME TypeOK, Antitone, NEW l \in Lines, NEW m \in Lines, Needed(l)
  PROVE  ~(found[(kept \ {m}) \ {l}] \subseteq found[Lines])
<1>1. found[kept \ {l}] \subseteq found[(kept \ {m}) \ {l}]
  BY DEF TypeOK, Antitone
<1>2. QED
  BY <1>1 DEF Needed

\* Every step of either loop keeps Greedy.
LEMMA GreedyInvariant == Spec => []Greedy
<1>1. Init => Greedy
  BY LinesAssumption DEF Init, Greedy, Lines
<1>2. TypeOK /\ Greedy /\ [Next]_vars => Greedy'
  <2> SUFFICES ASSUME TypeOK, Greedy, [Next]_vars PROVE Greedy'
    OBVIOUS
  <2>1. CASE AskNothing
    <3>1. at < at' /\ at \in Nat /\ at' \in Nat /\ reported'
      BY <2>1, LinesAssumption DEF AskNothing, TypeOK
    <3>2. \A l \in said' : l < at'
      BY <2>1, <3>1 DEF AskNothing, Greedy, TypeOK, Lines
    <3>3. QED
      BY <2>1, <3>1, <3>2 DEF AskNothing, Greedy
  <2>2. CASE PassExempt
    <3>1. at' = at + 1 /\ at \in exempt /\ at \in Nat
      BY <2>2 DEF PassExempt, TypeOK
    <3>2. UNCHANGED <<found, exempt, reported, kept, said>> /\ Antitone' = Antitone
      BY <2>2 DEF PassExempt, Antitone
    <3>3. \A l \in kept \ exempt : l < at' => l < at
      BY <3>1 DEF TypeOK, Lines
    <3>4. \A l \in said' : l < at'
      BY <3>1, <3>2 DEF Greedy, TypeOK, Lines
    <3>5. QED
      BY <3>2, <3>3, <3>4 DEF Greedy, Needed
  <2>3. CASE Ask
    <3> USE <2>3, LinesAssumption
    <3>1. at \in Lines /\ at' = at + 1
      BY DEF Ask, AskFrom, TypeOK, Lines
    <3>2. UNCHANGED <<found, exempt, reported>> /\ Antitone' = Antitone
      BY DEF Ask, AskFrom, Antitone
    <3>3. CASE found[kept \ {at}] \subseteq found[Lines]
      <4>1. kept' = kept \ {at} /\ said' = said \cup {at}
        BY <3>3 DEF Ask, AskFrom
      <4>2. ASSUME Antitone, ~reported, NEW l \in kept' \ exempt, l < at'
            PROVE  Needed(l)'
        <5>1. l \in kept \ exempt /\ l \in Lines /\ l < at
          BY <3>1, <4>1, <4>2 DEF TypeOK, Lines
        <5>2. Needed(l)
          BY <4>2, <5>1 DEF Greedy
        <5>3. QED
          BY <3>1, <3>2, <4>1, <4>2, <5>1, <5>2, StaysNeeded DEF Needed
      <4>3. kept' = Lines \ said' /\ found'[kept'] \subseteq found'[Lines]
        BY <3>2, <3>3, <4>1 DEF Greedy
      <4>4. \A l \in said' : l < at'
        BY <3>1, <4>1 DEF Greedy, TypeOK, Lines
      <4>5. QED
        BY <3>2, <4>2, <4>3, <4>4 DEF Greedy
    <3>4. CASE ~(found[kept \ {at}] \subseteq found[Lines])
      <4>1. UNCHANGED <<kept, said>>
        BY <3>4 DEF Ask, AskFrom
      <4>2. ASSUME Antitone, ~reported, NEW l \in kept \ exempt, l < at'
            PROVE  Needed(l)'
        <5>1. l < at \/ l = at
          BY <3>1, <4>2 DEF TypeOK, Lines
        <5>2. Needed(l)
          BY <3>4, <4>2, <5>1 DEF Greedy, Needed
        <5>3. QED
          BY <3>2, <4>1, <5>2 DEF Needed
      <4>3. kept' = Lines \ said' /\ found'[kept'] \subseteq found'[Lines]
        BY <3>2, <4>1 DEF Greedy
      <4>4. \A l \in said' : l < at'
        BY <3>1, <4>1 DEF Greedy, TypeOK, Lines
      <4>5. QED
        BY <3>2, <4>1, <4>2, <4>3, <4>4 DEF Greedy
    <3>5. QED
      BY <3>3, <3>4
  <2>4. CASE UNCHANGED vars
    BY <2>4 DEF vars, Greedy, Needed, Antitone
  <2>5. QED
    BY <2>1, <2>2, <2>3, <2>4 DEF Next
<1>3. QED
  BY <1>1, <1>2, TypeCorrect, PTL DEF Spec

(***************************************************************************)
(* The lines said to be surplus can all be taken away at once.             *)
(***************************************************************************)
THEOREM TakingAllAway == Spec => []RemovableTogether
<1>1. Greedy => RemovableTogether
  BY DEF Greedy, RemovableTogether
<1>2. QED
  BY <1>1, GreedyInvariant, PTL

(***************************************************************************)
(* One pass in order is enough: each line left was needed when it was      *)
(* asked, and is needed at the end.                                        *)
(***************************************************************************)
THEOREM OnePassIsEnough == Spec => []RestWorks
<1>1. Greedy => RestWorks
  BY DEF Greedy, RestWorks, Needed
<1>2. QED
  BY <1>1, GreedyInvariant, PTL
=============================================================================
