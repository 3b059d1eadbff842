-------------------------------- MODULE Sifts --------------------------------
(***************************************************************************)
(* What is kept of a sequence, and what sequences make put one after       *)
(* another, each gathered from its first element on: recursive functions,  *)
(* so that what they make can be proved.                                   *)
(***************************************************************************)
EXTENDS Naturals, Sequences

\* What of a sequence is in a set, in the sequence's order.
Sift(s, kept) ==
  LET Kept[k \in 0..Len(s)] ==
        IF k = 0 THEN <<>>
        ELSE IF s[k] \in kept THEN Append(Kept[k - 1], s[k]) ELSE Kept[k - 1]
  IN  Kept[Len(s)]

\* The sequences of a sequence, one after another.
Joined(parts) ==
  LET All[k \in 0..Len(parts)] == IF k = 0 THEN <<>> ELSE All[k - 1] \o parts[k]
  IN  All[Len(parts)]
=============================================================================
