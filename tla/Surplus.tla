------------------------------- MODULE Surplus -------------------------------
(***************************************************************************)
(* src/src/checker/mod.rs: check_requires_work and check_pairs_needed.     *)
(* A requires line of a step, and a pair naming a letter for itself, must  *)
(* do work: taken away, the checks find something they do not find with it *)
(* there.  Both loops ask each line in turn, of what is left once the      *)
(* lines already said to be surplus are taken away.                        *)
(*                                                                         *)
(* Lines are 1..N in the order they are asked.  found[S] is what the       *)
(* checks find with exactly the lines S there: found_alone of the step for *)
(* a requires line; for a pair, the problems of the whole theorem, which   *)
(* is asked only where found[1..N] is empty, so that "the theorem holds"   *)
(* is "nothing is found that was not".                                     *)
(***************************************************************************)
EXTENDS Naturals

CONSTANTS
  N,      \* how many lines are asked
  Founds  \* what the checks may find, a set of functions of the lines there

Lines == 1..N

ASSUME LinesAssumption == N \in Nat
ASSUME FoundsAssumption == \A f \in Founds : DOMAIN f = SUBSET Lines

VARIABLES
  found,    \* what the checks find with each set of lines
  exempt,   \* lines saying a function is applied inside its domain
  reported, \* whether something is reported of the step already
  at,       \* the line asked next
  kept,     \* the step with the lines found surplus taken away
  said      \* the lines said to be surplus

vars == <<found, exempt, reported, at, kept, said>>

TypeOK ==
  /\ found \in Founds
  /\ exempt \subseteq Lines
  /\ reported \in BOOLEAN
  /\ at \in 1..(N + 1)
  /\ kept \subseteq Lines
  /\ said \subseteq Lines

Init ==
  /\ found \in Founds
  /\ exempt \in SUBSET Lines
  /\ reported \in BOOLEAN
  /\ at = 1
  /\ kept = Lines
  /\ said = {}

\* A step the checks already find something wrong with is asked nothing
\* (and a theorem with any problem has no pair asked of it).
AskNothing ==
  /\ reported /\ at <= N
  /\ at' = N + 1
  /\ UNCHANGED <<found, exempt, reported, kept, said>>

\* A line saying a function is applied inside its domain does work.
PassExempt ==
  /\ ~reported /\ at <= N /\ at \in exempt
  /\ at' = at + 1
  /\ UNCHANGED <<found, exempt, reported, kept, said>>

\* The line at "at", taken away from the lines "from".
AskFrom(from) ==
  /\ ~reported /\ at <= N /\ at \notin exempt
  /\ IF found[from \ {at}] \subseteq found[Lines]
     THEN kept' = from \ {at} /\ said' = said \cup {at}
     ELSE UNCHANGED <<kept, said>>
  /\ at' = at + 1
  /\ UNCHANGED <<found, exempt, reported>>

\* Mutants of Ask: each line is asked of the step as written; and a line is
\* surplus only where nothing at all is found without it.
AskOfAll == AskFrom(Lines)
AskForClean ==
  /\ ~reported /\ at <= N /\ at \notin exempt
  /\ IF found[kept \ {at}] = {}
     THEN kept' = kept \ {at} /\ said' = said \cup {at}
     ELSE UNCHANGED <<kept, said>>
  /\ at' = at + 1
  /\ UNCHANGED <<found, exempt, reported>>

\* One line asked of what is kept.
Ask == AskFrom(kept)

Next == AskNothing \/ PassExempt \/ Ask

Spec == Init /\ [][Next]_vars

(***************************************************************************)
(* Properties                                                              *)
(***************************************************************************)

\* Every line said to be surplus can be taken away at once, and the checks
\* find nothing they did not find: following the report never breaks a step.
RemovableTogether == found[Lines \ said] \subseteq found[Lines]

\* Taking a line away never makes the checks find less.
Antitone == \A S, T \in SUBSET Lines : S \subseteq T => found[T] \subseteq found[S]

\* Once the step was asked, where taking lines away never mends anything, each
\* line left does work: one pass in order is enough.
RestWorks ==
  Antitone /\ ~reported =>
    \A l \in Lines : l < at /\ l \notin said \cup exempt =>
      ~(found[(Lines \ said) \ {l}] \subseteq found[Lines])

=============================================================================
