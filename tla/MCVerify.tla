------------------------------- MODULE MCVerify -------------------------------
(***************************************************************************)
(* Two theorems: u cites t, and its second page cites nothing; the second  *)
(* version of t's page cites u, so that pages citing one another round,    *)
(* which the checker refuses, and files including one another round, left  *)
(* by building one at a time, both happen.  The records and the worksheets *)
(* may each be something their recipe refuses.                             *)
(***************************************************************************)
EXTENDS Verify

MCTheorems == {"t", "u"}
MCVersions ==
  [s \in {"records", "worksheets"} \cup MCTheorems |->
     CASE s = "t" -> {"1", "2", "3"}
       [] s = "worksheets" -> {"1", "2", "bad"}
       [] s = "u" -> {"1", "2"}
       [] OTHER -> {"1", "bad"}]
MCCites ==
  [x \in MCTheorems |->
     [v \in MCVersions[x] |->
        IF x = "u" THEN IF v = "2" THEN {} ELSE {"t"}
        ELSE IF v = "2" THEN {"u"} ELSE {}]]
MCIncludes == [c \in {"c"} |-> {}]
=============================================================================
