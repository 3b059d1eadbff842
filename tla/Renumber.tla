------------------------------- MODULE Renumber -------------------------------
(***************************************************************************)
(* src/src/tools/renumber.rs: a run of one theorem's steps shifted, and    *)
(* the steps under one lifted into its place, each writing the file.       *)
(*                                                                         *)
(* A line of the file is a step's, with its number and the steps its       *)
(* justification cites, or an opener's, which has no number and cites a    *)
(* step where it is an induction hypothesis.  id tells the lines apart and *)
(* is not in the file; meant is, for each line, the step each of its       *)
(* citations was written for.  Widths, columns and blank lines are left    *)
(* out, as are notes, which are reported and never changed.                *)
(***************************************************************************)
EXTENDS Integers, Sequences, SequencesExt, FiniteSets

CONSTANTS
  Theorems,  \* the theorems to begin with
  Shifts,    \* the shifts asked for
  MaxPart,   \* the highest part of a number asked of
  MaxWrites, \* how many times the file is written
  GapsFilled \* whether a step is lifted only where its block has no gap

Numbers == Seq(Nat \ {0}) \ {<<>>}
NumbersOf(lines) == {lines[k].number : k \in DOMAIN lines} \ {<<>>}

\* A theorem to begin with is numbered as the checker asks: a number is one
\* step's, a step under another is in that step's block, and what a line
\* cites is a step.
Numbered(lines) ==
  /\ \A j, k \in DOMAIN lines : lines[j].number = lines[k].number => lines[k].number = <<>> \/ j = k
  /\ \A n \in NumbersOf(lines) : Len(n) > 1 => Front(n) \in NumbersOf(lines)
  /\ \A k \in DOMAIN lines : Range(lines[k].cites) \subseteq NumbersOf(lines)

ASSUME RenumberAssumption ==
  /\ Shifts \subseteq Int /\ MaxPart \in Nat /\ MaxWrites \in Nat /\ GapsFilled \in BOOLEAN
  /\ \A thm \in Theorems :
       thm \in Seq([number : Numbers \cup {<<>>}, cites : Seq(Numbers)]) /\ Numbered(thm)

VARIABLES
  file,   \* the theorem's lines, as written
  meant,  \* of each line, by id: the step each citation is of, by id
  writes  \* how many times the file was written

fileVars == <<file, meant, writes>>

Number == NumbersOf(file)
Parent(n) == Front(n)
Extends(n, m) == IsPrefix(m, n)
Inside(n, m) == Extends(n, m) /\ n # m

\* Whether a run moves the step n, and then at which part: the depth of the
\* run.  last is 0 where the run goes to the end of the block.
MovesAt(run, n) ==
  LET at == Len(run.parent) + 1 IN
  /\ Len(n) >= at
  /\ Extends(n, run.parent)
  /\ n[at] >= run.first
  /\ run.last = 0 \/ n[at] <= run.last

\* A mutant of Moves: a step's sub-steps stay where they are.
MovesAlone(run, n) == MovesAt(run, n) /\ Len(n) = Len(run.parent) + 1

Moves(run, n) == MovesAt(run, n)

\* What a run is written as: one step, a run with an end, or one without.
Runs ==
  {[parent |-> Parent(n), first |-> n[Len(n)], last |-> last] :
     n \in {m \in Number : m[Len(m)] <= MaxPart}, last \in 0..MaxPart}

Shifted(run, by) ==
  LET at == Len(run.parent) + 1 IN
  [n \in {m \in Number : Moves(run, m)} |-> [n EXCEPT ![at] = @ + by]]

Below1(run, by) == \E n \in Number : Moves(run, n) /\ n[Len(run.parent) + 1] + by < 1

\* A mutant of Lands: only the first step of the run is looked at.
LandsFirst(run, by) ==
  \E n \in Number : ~Moves(run, n) /\ n = Append(run.parent, run.first + by)

\* A step of the run, not a sub-step of one, landing on a step that stays.
Lands(run, by) ==
  LET map == Shifted(run, by) IN
  \E n \in DOMAIN map :
    /\ Len(n) = Len(run.parent) + 1
    /\ map[n] \in Number \ DOMAIN map

As(map, n) == IF n \in DOMAIN map THEN map[n] ELSE n

\* Each number and citation the reader placed, as the map says.
Renumbered(map) ==
  [k \in DOMAIN file |->
     [file[k] EXCEPT !.number = As(map, @), !.cites = [c \in DOMAIN @ |-> As(map, @[c])]]]

\* The file is written in one call, unless the run is dry.
Write(lines) == file' = lines /\ writes' = writes + 1 /\ UNCHANGED meant

Run(run, by) ==
  /\ writes < MaxWrites
  /\ run.last = 0 \/ run.first <= run.last
  /\ ~Below1(run, by)
  /\ ~Lands(run, by)
  /\ Write(Renumbered(Shifted(run, by)))

Lines(n) == {k \in DOMAIN file : file[k].number = n}

\* A citation of the step, anywhere but on its own line.
CitedElsewhere(target) ==
  \E k \in DOMAIN file : target \in Range(file[k].cites)

Children(target) == {n \in Number : Inside(n, target) /\ Len(n) = Len(target) + 1}

\* A mutant of Lifted: the steps after the step lifted stay where they are.
LiftedOver(target) ==
  [n \in {m \in Number : Inside(m, target)} |->
     Append(Parent(target), target[Len(target)] + n[Len(target) + 1] - 1)
       \o SubSeq(n, Len(target) + 2, Len(n))]

\* A step under the target loses the target's place; a later step of the
\* block, with its sub-steps, moves on by one less than the steps lifted.
Lifted(target) ==
  LET at == Len(target)
      place == target[at]
      later == {n \in Number : /\ Len(n) >= at
                               /\ SubSeq(n, 1, at - 1) = Parent(target)
                               /\ n[at] > place
                               /\ Cardinality(Children(target)) > 1}
  IN [n \in {m \in Number : Inside(m, target)} \cup later |->
        IF n \in later THEN [n EXCEPT ![at] = @ + Cardinality(Children(target)) - 1]
        ELSE Append(Parent(target), place + n[at + 1] - 1) \o SubSeq(n, at + 2, Len(n))]

\* The step's own lines go; its openers stay, with what they cite.
Without(lines, k) == RemoveAt(lines, k)

NoGap(target) == \A n \in Children(target) : n[Len(n)] <= Cardinality(Children(target))

Lift(target) ==
  /\ writes < MaxWrites
  /\ GapsFilled => NoGap(target)
  /\ ~CitedElsewhere(target)
  /\ DOMAIN Lifted(target) # {}
  /\ \E k \in Lines(target) : Write(Without(Renumbered(Lifted(target)), k))

InitFile ==
  \E thm \in Theorems :
    /\ file = [k \in DOMAIN thm |-> [id |-> k, number |-> thm[k].number, cites |-> thm[k].cites]]
    /\ meant = [k \in DOMAIN thm |->
                  [c \in DOMAIN thm[k].cites |->
                     CHOOSE j \in DOMAIN thm : thm[j].number = thm[k].cites[c]]]
    /\ writes = 0

NextFile ==
  \/ \E run \in Runs, by \in Shifts : Run(run, by)
  \/ \E target \in Number : Lift(target)

SpecFile == InitFile /\ [][NextFile]_fileVars

(***************************************************************************)
(* Properties                                                              *)
(***************************************************************************)

\* However often steps are moved and lifted, each citation still names the
\* step it was written for, and no other step has that number.
CitesTheSame ==
  \A k \in DOMAIN file : \A c \in DOMAIN file[k].cites :
    \A j \in DOMAIN file :
      (file[j].number = file[k].cites[c]) <=> (file[j].id = meant[file[k].id][c])

LineOf(lines, id) == CHOOSE k \in DOMAIN lines : lines[k].id = id

StepIds(lines) == {lines[k].id : k \in {j \in DOMAIN lines : lines[j].number # <<>>}}

\* A is written before B where their numbers first differ.
Earlier(n, m) ==
  \E k \in DOMAIN n \cap DOMAIN m :
    SubSeq(n, 1, k - 1) = SubSeq(m, 1, k - 1) /\ n[k] < m[k]

NestedStep ==
  \A i, j \in StepIds(file') :
    LET n(lines, id) == lines[LineOf(lines, id)].number IN
    /\ Inside(n(file', i), n(file', j)) <=> Inside(n(file, i), n(file, j))
    /\ Len(file') < Len(file) =>
         (Earlier(n(file', i), n(file', j)) <=> Earlier(n(file, i), n(file, j)))

\* A step moved takes the steps under it along and goes under no other; and
\* a step lifted leaves the others nested and ordered as they were.
NestedAsBefore == [][NestedStep]_file

=============================================================================
