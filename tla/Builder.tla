------------------------------- MODULE Builder -------------------------------
(***************************************************************************)
(* src/src/mm/spell.rs, Builder: proofs are built as steps held by         *)
(* reference and freed when nothing holds them; a step that builds a term  *)
(* is made once and shared; what a step says is worked out once and kept   *)
(* by the step's address; and `fault` says of a proof whether the kernel   *)
(* would refuse a step of it.                                              *)
(*                                                                         *)
(* An address may be taken again as soon as no step is there, whether or   *)
(* not something kept still names it.  A signature is a record of the      *)
(* variables it takes, its hypotheses, its statement and the pairs it      *)
(* keeps apart; an expression is a sequence of tokens.                     *)
(***************************************************************************)
EXTENDS Naturals, Sequences, SequencesExt, FiniteSets

CONSTANTS
  Addresses,  \* where a step may be
  Labels,     \* the labels
  Sigs,       \* their signatures: [kind, floats, essentials, statement, apart]
  MaxBorn,    \* how many steps are made in all
  None        \* no step

\* How many parts a label takes, and the steps there may be.
Arity(label) == Len(Sigs[label].floats) + Len(Sigs[label].essentials)
Steps ==
  UNION {[label : {l}, kids : [1..Arity(l) -> Addresses], born : 1..MaxBorn] : l \in Labels}

\* A label takes so many parts, and keeps apart parts that are terms.
ASSUME BuilderAssumption ==
  /\ MaxBorn \in Nat /\ None \notin Addresses /\ None \notin Steps
  /\ \A l \in Labels :
       LET terms == 1..Len(Sigs[l].floats) IN
       /\ Len(Sigs[l].floats) \in Nat /\ Len(Sigs[l].essentials) \in Nat
       /\ Sigs[l].apart \subseteq terms \X terms

VARIABLES
  heap,    \* the step at each address: its label, its parts, when it was made
  born,    \* how many steps were made
  held,    \* the proofs the elaborator holds
  terms,   \* the terms made: the address of each label and parts
  said,    \* what is kept of an address: of which step, and what it says
  stopped, \* a fault was said, and the elaboration is over
  asked,   \* the proof last asked about, None once anything else is done
  answer   \* whether a fault was said of it

vars == <<heap, born, held, terms, said, stopped, asked, answer>>

At(h) == {a \in Addresses : h[a] # None}
Live == At(heap)
IsTerm(label) == Sigs[label].kind # "proof"

\* A mutant of Roots: the terms made are named and not held.
RootsHeld(hold) == hold

\* What holds steps: every term made, and the proofs held.
Roots(hold) == hold \cup {terms[k] : k \in DOMAIN terms}

\* The steps of "among" that roots rest on, with them, each reached through
\* others of "among", so many parts down.
Through(h, among, roots) ==
  LET T[n \in 0..MaxBorn] ==
        IF n = 0 THEN roots \cap among
        ELSE T[n - 1] \cup (among \cap UNION {Range(h[a].kids) : a \in T[n - 1]})
  IN T

\* The steps a set of steps rests on, with them.
Under(h, roots) == Through(h, At(h), roots)[MaxBorn]

(***************************************************************************)
(* What a step says                                                        *)
(***************************************************************************)

\* Tokens with what is put for the variables a signature takes.
Filled(sig, put, tokens) ==
  FlattenSeq([i \in DOMAIN tokens |->
                IF tokens[i] \in Range(sig.floats)
                THEN put[CHOOSE n \in DOMAIN sig.floats : sig.floats[n] = tokens[i]]
                ELSE <<tokens[i]>>])

\* What a label applied to what its parts say says.
Applied(label, kids) == Filled(Sigs[label], kids, Sigs[label].statement)

\* The floats a term rests on, which are the variables it writes.
Variables(h, a) == {h[b].label : b \in {c \in Under(h, {a}) : Sigs[h[c].label].kind = "float"}}

\* A step is applied as its label says: each hypothesis is handed what it
\* asks, and what is kept apart shares no variable.
Sound(h, a, kids) ==
  LET sig == Sigs[h[a].label]
      n == Len(sig.floats) IN
  /\ \A i \in DOMAIN sig.essentials : kids[n + i] = Filled(sig, kids, sig.essentials[i])
  /\ \A pair \in sig.apart :
       Variables(h, h[a].kids[pair[1]]) \cap Variables(h, h[a].kids[pair[2]]) = {}

\* What the parts of a step say.
KidsSay(h, says, a) == [i \in DOMAIN h[a].kids |-> says[h[a].kids[i]]]

\* What each step says: those of "afresh" worked out from what their parts
\* say, and the others as they are kept, where anything is.
SaysWith(h, kept, afresh) ==
  LET S[a \in At(h)] ==
        IF a \in afresh \/ a \notin DOMAIN kept
        THEN Applied(h[a].label, KidsSay(h, S, a)) ELSE kept[a].says
  IN S

\* What every live step says, worked out from nothing kept.
Saying == SaysWith(heap, said, Live)

\* A mutant of Known: what is kept is taken for the step now there.
KnownAnyway(a) == a \in DOMAIN said

\* Something is kept of the very step there.
Known(a) == a \in DOMAIN said /\ heap[a] # None /\ said[a].born = heap[a].born

Init ==
  /\ heap = [a \in Addresses |-> None]
  /\ born = 0 /\ held = {}
  /\ terms = <<>> /\ said = <<>>
  /\ stopped = FALSE /\ asked = None /\ answer = FALSE

(***************************************************************************)
(* The operations                                                          *)
(***************************************************************************)

\* The parts a label takes: a term for each variable, then proofs held.
Parts(label) ==
  LET n == Len(Sigs[label].floats)
      m == Len(Sigs[label].essentials) IN
  {kids \in [1..(n + m) -> Live] :
     \A i \in 1..(n + m) : IF i <= n THEN IsTerm(heap[kids[i]].label) ELSE kids[i] \in held}

\* A label applied to its parts: a term made before is the step it was made
\* as, anything else a step of its own.
Make(label, kids) ==
  /\ ~stopped /\ born < MaxBorn
  /\ IsTerm(label) => <<label, kids>> \notin DOMAIN terms
  /\ \E a \in Addresses :
       /\ heap[a] = None
       /\ heap' = [heap EXCEPT ![a] = [label |-> label, kids |-> kids, born |-> born + 1]]
       /\ terms' = IF IsTerm(label)
                   THEN [k \in DOMAIN terms \cup {<<label, kids>>} |->
                           IF k = <<label, kids>> THEN a ELSE terms[k]]
                   ELSE terms
       /\ held' = IF IsTerm(label) THEN held ELSE held \cup {a}
  /\ born' = born + 1
  /\ asked' = None /\ answer' = FALSE
  /\ UNCHANGED <<said, stopped>>

\* A route drops a proof; what nothing holds any more is freed.
Drop(a) ==
  /\ ~stopped /\ a \in held
  /\ held' = held \ {a}
  /\ heap' = [b \in Addresses |-> IF b \in Under(heap, Roots(held \ {a})) THEN heap[b] ELSE None]
  /\ asked' = None /\ answer' = FALSE
  /\ UNCHANGED <<born, terms, said, stopped>>

\* A mutant of Unknown: a step is worked out afresh only with its own parts.
UnknownNear(a) == {b \in {a} \cup Range(heap[a].kids) : ~Known(b)}

\* The steps of a proof that are worked out: those nothing is kept of, each
\* reached through others of them.
Unknown(a) == Through(heap, {b \in Live : ~Known(b)}, {a})[MaxBorn]

\* Is a step of the proof one the kernel would refuse?  What is worked out
\* is kept, and the first fault found ends the elaboration.
Fault(a) ==
  /\ ~stopped /\ a \in held
  /\ LET fresh == Unknown(a)
         says == SaysWith(heap, said, fresh)
         refused == \E b \in fresh : ~Sound(heap, b, KidsSay(heap, says, b)) IN
     /\ said' = [b \in DOMAIN said \cup fresh |->
                   IF b \in fresh THEN [born |-> heap[b].born, says |-> says[b]] ELSE said[b]]
     /\ answer' = refused
     /\ stopped' = refused
  /\ asked' = a
  /\ UNCHANGED <<heap, born, held, terms>>

Next ==
  \/ \E label \in Labels : \E kids \in Parts(label) : Make(label, kids)
  \/ \E a \in Addresses : Drop(a) \/ Fault(a)

Spec == Init /\ [][Next]_vars

(***************************************************************************)
(* Properties                                                              *)
(***************************************************************************)

\* What is kept of a step is what the step says, and what is kept under a
\* term's label and parts is that term, though the address held another
\* before.
KnownIsTrue ==
  /\ \A a \in Live : Known(a) => said[a].says = Saying[a]
  /\ \A k \in DOMAIN terms : LET at == heap[terms[k]] IN at # None /\ <<at.label, at.kids>> = k

\* `fault` says a fault of a proof exactly where a step of it, anywhere
\* under it, is not applied as its label says, whatever was asked before and
\* whatever was dropped.
FaultExact ==
  asked # None =>
    (answer <=> \E b \in Under(heap, {asked}) : ~Sound(heap, b, KidsSay(heap, Saying, b)))
=============================================================================
