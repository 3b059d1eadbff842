-------------------------------- MODULE Cycles --------------------------------
(***************************************************************************)
(* src/src/checker/structure.rs: the citations of one file's theorems      *)
(* followed for cycles (check_citation_cycles, cycles_from).               *)
(*                                                                         *)
(* A theorem is its place in the file.  The recursion of cycles_from is a  *)
(* stack of frames, each a theorem and the place of the citation read      *)
(* next; the theorems of the frames are the trail.                         *)
(***************************************************************************)
EXTENDS Naturals, Sequences, SequencesExt, FiniteSets

CONSTANTS Files \* a file: what each of its theorems cites, in order

\* A theorem cites items, and those of its own file by their places.
ASSUME FilesAssumption == Files \subseteq Seq(Seq(Nat))

VARIABLES
  cites,    \* what each theorem cites
  next,     \* the theorem next gone through from the top
  stack,    \* the frames of cycles_from
  done,     \* the theorems all of whose citations have been followed
  reported  \* the cycles reported, in order: the trail from the theorem cited

vars == <<cites, next, stack, done, reported>>

Ours == DOMAIN cites

\* A mutant of Counted: a theorem's citation of itself is passed over.
CountedOthers(thm, edge) ==
  /\ cites[thm][edge] \in Ours \ {thm}
  /\ \A earlier \in 1..(edge - 1) : cites[thm][earlier] # cites[thm][edge]

\* The citations followed are those of a theorem of the same file, where the
\* theorem first cites it.
Counted(thm, edge) ==
  /\ cites[thm][edge] \in Ours
  /\ \A earlier \in 1..(edge - 1) : cites[thm][earlier] # cites[thm][edge]

Trail == [k \in DOMAIN stack |-> stack[k].thm]
Top == stack[Len(stack)]
Below == SubSeq(stack, 1, Len(stack) - 1)
Frame(thm) == [thm |-> thm, edge |-> 1]
Finished == next > Len(cites) /\ stack = <<>>

TypeOK ==
  /\ cites \in Seq(Seq(Nat))
  /\ next \in 1..(Len(cites) + 1)
  /\ stack \in Seq([thm : Ours, edge : Nat \ {0}])
  /\ \A k \in DOMAIN stack : stack[k].edge <= Len(cites[stack[k].thm]) + 1
  /\ IsInjective(Trail)
  /\ done \subseteq Ours
  /\ reported \in Seq(Seq(Ours) \ {<<>>})

Init ==
  /\ cites \in Files
  /\ next = 1 /\ stack = <<>> /\ done = {} /\ reported = <<>>

\* Each theorem of the file from the top, unless it was come to before.
Begin ==
  /\ stack = <<>> /\ next <= Len(cites)
  /\ stack' = IF next \in done THEN <<>> ELSE <<Frame(next)>>
  /\ next' = next + 1
  /\ UNCHANGED <<cites, done, reported>>

\* A mutant of OnTrail: only the theorem itself and the one above it.
OnTrailNear(cited) == cited \in {stack[k].thm : k \in {j \in DOMAIN stack : j + 1 >= Len(stack)}}

\* Whether a theorem cited is on the trail.
OnTrail(cited) == cited \in Range(Trail)

\* A mutant of Closing: from the top of the trail.
ClosingAll(cited) == Trail

\* The trail from the theorem cited.
Closing(cited) ==
  SubSeq(Trail, CHOOSE k \in DOMAIN stack : stack[k].thm = cited, Len(stack))

\* The next citation of the theorem gone through is passed over, or closes a
\* cycle, and is reported, or leads to a theorem not done, or to one that is.
Follow ==
  /\ stack # <<>> /\ Top.edge <= Len(cites[Top.thm])
  /\ LET cited == cites[Top.thm][Top.edge]
         read == Append(Below, [Top EXCEPT !.edge = @ + 1])
     IN \/ /\ ~Counted(Top.thm, Top.edge)
           /\ stack' = read
           /\ UNCHANGED reported
        \/ /\ Counted(Top.thm, Top.edge) /\ OnTrail(cited)
           /\ stack' = read
           /\ reported' = Append(reported, Closing(cited))
        \/ /\ Counted(Top.thm, Top.edge) /\ ~OnTrail(cited)
           /\ stack' = IF cited \in done THEN read ELSE Append(read, Frame(cited))
           /\ UNCHANGED reported
  /\ UNCHANGED <<cites, next, done>>

\* What is done once all of a theorem's citations are followed.
Settled(thm) == {thm}

Leave ==
  /\ stack # <<>> /\ Top.edge > Len(cites[Top.thm])
  /\ stack' = Below
  /\ done' = done \cup Settled(Top.thm)
  /\ UNCHANGED <<cites, next, reported>>

Next == Begin \/ Follow \/ Leave

Spec == Init /\ [][Next]_vars

(***************************************************************************)
(* Properties                                                              *)
(***************************************************************************)

Cited == {e \in Ours \X Ours : e[2] \in Range(cites[e[1]])}

\* The citation a cycle is reported at: of its first theorem, by its last.
ReportedAt(cycle) == <<cycle[Len(cycle)], cycle[1]>>

Reports == {ReportedAt(cycle) : cycle \in Range(reported)}

\* What is reported is a cycle of citations, each theorem citing the next,
\* and a citation is reported once, however many theorems lead to it.
ReportsAreCycles ==
  /\ \A cycle \in Range(reported) :
       /\ ReportedAt(cycle) \in Cited
       /\ \A k \in 1..(Len(cycle) - 1) : <<cycle[k], cycle[k + 1]>> \in Cited
  /\ \A j, k \in DOMAIN reported : ReportedAt(reported[j]) = ReportedAt(reported[k]) => j = k

\* A file with no report has no theorem that rests on itself, and with one,
\* what is left when the citations reported are taken out has none: of any
\* of the theorems, some one cites none of them.
RestRestsOnNothing ==
  Finished =>
    \A thms \in (SUBSET Ours) \ {{}} :
      \E thm \in thms : \A other \in thms : <<thm, other>> \notin Cited \ Reports

=============================================================================
