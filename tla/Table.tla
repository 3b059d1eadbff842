--------------------------------- MODULE Table ---------------------------------
(***************************************************************************)
(* What a table shared among threads promises those who ask it: a text has *)
(* at most one id, two texts of a kind never have the same, a text keeps   *)
(* its id for the life of the process, and the answer to an ask is the id  *)
(* of the text asked for.                                                  *)
(***************************************************************************)
EXTENDS Naturals

CONSTANTS Threads, Texts, Kind, None

VARIABLES
  table,  \* the id of each text, 0 where it has none yet
  asked,  \* what each thread asks for
  aside,  \* what it asked for first, while it asks for a part of that
  got     \* what each thread was last answered

vars == <<table, asked, aside, got>>

\* Two texts of one kind have ids of their own.
Apart(ids) ==
  \A x, y \in Texts : x # y /\ Kind[x] = Kind[y] /\ ids[x] # 0 => ids[x] # ids[y]

Init ==
  /\ table \in [Texts -> Nat] /\ Apart(table)
  /\ asked = [t \in Threads |-> None]
  /\ aside = [t \in Threads |-> None]
  /\ got = [t \in Threads |-> 0]

Ask(t) ==
  /\ asked[t] = None
  /\ \E x \in Texts : asked' = [asked EXCEPT ![t] = x]
  /\ UNCHANGED <<table, aside, got>>

\* A part of what is asked for is asked for first.
AskPart(t) ==
  /\ asked[t] # None /\ aside[t] = None
  /\ aside' = [aside EXCEPT ![t] = asked[t]]
  /\ \E x \in Texts : asked' = [asked EXCEPT ![t] = x]
  /\ UNCHANGED <<table, got>>

\* The text's id, given it now where it has none.
Answer(t) ==
  /\ asked[t] # None
  /\ asked' = [asked EXCEPT ![t] = aside[t]]
  /\ aside' = [aside EXCEPT ![t] = None]
  /\ \/ table[asked[t]] # 0 /\ UNCHANGED table
     \/ /\ table[asked[t]] = 0
        /\ table' \in [Texts -> Nat] /\ Apart(table')
        /\ \A x \in Texts : table'[x] # table[x] <=> x = asked[t]
  /\ got' = [got EXCEPT ![t] = table'[asked[t]]]

Next == \E t \in Threads : Ask(t) \/ AskPart(t) \/ Answer(t)

Spec == Init /\ [][Next]_vars
=============================================================================
