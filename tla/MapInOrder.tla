----------------------------- MODULE MapInOrder -----------------------------
(***************************************************************************)
(* What in_order (src/src/threads.rs) promises: the call runs, and then in *)
(* one step gives back the answers in the items' order, or panics where    *)
(* an item's run may panic.  Nothing of the sharing is seen.               *)
(***************************************************************************)
EXTENDS Naturals

CONSTANTS N, Answer, Nothing, Panicked, CanPanic

VARIABLE outcome

Init == outcome = Nothing

Return == outcome = Nothing /\ outcome' = [i \in 1..N |-> Answer[i]]

Panic == outcome = Nothing /\ CanPanic # {} /\ outcome' = Panicked

Next == Return \/ Panic

Spec == Init /\ [][Next]_outcome
=============================================================================
