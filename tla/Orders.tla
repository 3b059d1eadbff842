---- MODULE Orders ----
(***************************************************************************)
(* A plain `inequalities` step: what the checker accepts                   *)
(* (methods/inequalities.rs), which cited lines it says are surplus        *)
(* (check_method_cites_used, checker/formulas.rs), and whether the         *)
(* elaborator then writes its proof (prove_order, elab/calculators.rs).    *)
(*                                                                         *)
(* A step cites lines and claims one sentence or two.  A line is one       *)
(* sentence, or several joined by "and"; a sentence relates two            *)
(* expressions (Linear), or says that a term is in N, which implies three  *)
(* more.  The checker reads a line of several sentences as the whole and   *)
(* then each of them; the elaborator reads each sentence once.             *)
(***************************************************************************)
EXTENDS Linear

CONSTANTS
  Asks,      \* the steps asked about, [lines |-> ..., claim |-> ...]
  Grid       \* the numbers a sentence is tried at, for what is true of it

VARIABLES ask, stage, told, surplus, written

vars == <<ask, stage, told, surplus, written>>

Relation(rel, neg, left, right) ==
  [rel |-> rel, neg |-> neg, left |-> left, right |-> right]

\* What "k is in N" implies: 1 <= k, 0 < k, and k is not 0.
ImpliedFacts(s) ==
  IF s.rel # "in" THEN <<>>
  ELSE LET zero == Scaled(s.left, 0)
           one == [zero EXCEPT ![0] = 1]
       IN << Relation("<=", FALSE, one, s.left), Relation("<", FALSE, zero, s.left),
             Relation("=", TRUE, s.left, zero) >>

IsRelation(s) == s.rel # "in"
Flat(seqs) == FoldLeft(LAMBDA all, seq : all \o seq, <<>>, seqs)
Said(lines) == Flat(lines)

----
(***************************************************************************)
(* What the checker decides.                                               *)
(***************************************************************************)
\* What a cited line says, a group for each: the whole of it, and where it
\* is several sentences joined, each of them, said once.
Says(line) ==
  IF Len(line) = 1 THEN <<line>>
  ELSE <<line>> \o FoldLeft(LAMBDA said, s : IF Contains(said, <<s>>) THEN said
                                              ELSE Append(said, <<s>>), <<>>, line)

\* Facts in groups, those of one group under one number, and after them the
\* bounds a membership implies, under none; a disequality a membership
\* implies is kept apart.
Cited(groups) ==
  Flat([g \in DOMAIN groups |-> [i \in DOMAIN groups[g] |->
         [said |-> groups[g][i], line |-> g, cited |-> TRUE]]])
Implied(line, sentences) ==
  LET more == Flat([i \in DOMAIN sentences |-> ImpliedFacts(sentences[i])])
  IN [i \in DOMAIN more |-> [said |-> more[i], line |-> line, cited |-> FALSE]]
Bounding(read) ==
  SelectSeq(read, LAMBDA f : IsRelation(f.said) /\ (f.cited \/ Fact(f.said).how # "#"))
Numbered(read) ==
  [i \in DOMAIN read |-> Fact(read[i].said) @@ read[i] @@ [id |-> i]]

Given(groups, lines) == Numbered(Bounding(Cited(groups) \o Implied(0, Said(lines))))
ApartImplied(lines) ==
  {f \in {Fact(i.said) : i \in ToSet(Implied(0, Said(lines)))} : f.how = "#"}

WithDenial(facts, claim) ==
  Append(facts, [id |-> 0, line |-> 0, said |-> claim, cited |-> FALSE]
                  @@ Opposite(Fact(claim)))

\* Whether the facts used add to the claim as they stand: as strict as it
\* is, equations from equations, side to side.
AsStrict(how, added) ==
  /\ how = "<=" => \A f \in added : f.how # "<"
  /\ how = "=" => \A f \in added : f.how \notin {"<", "<="}
SidesOf(facts) == [i \in DOMAIN facts |-> Sides(facts[i].said)]
SumsTo(claim, facts, used) ==
  LET added == {f \in ToSet(facts) : f.cited /\ f.id \in used}
  IN added = {} \/ ( /\ AsStrict(Fact(claim).how, added)
                    /\ SumsSides(Sides(claim), SidesOf(SelectSeq(facts,
                         LAMBDA f : f.id \in used /\ f.how # "#"))) )

\* The facts a claim that is no disequality adds: the first combination
\* whose sum it is; where a disequality is among the facts or is the denial,
\* the one UsedFacts takes.  None where there is none.
OneWhole(claim, facts, used) == IF SumsTo(claim, facts, used) THEN used ELSE {}
FirstSum(claim, facts, all) ==
  LET sums == {c \in AlikeCombinations(all) : SumsTo(claim, facts, IdsOf(all, c))}
  IN UNION {IdsOf(all, c) : c \in {d \in sums : \A e \in sums \ {d} : Before(all, d, e)}}
AcceptedOf(claim, facts, all) ==
  IF ApartIn(all) = {} THEN FirstSum(claim, facts, all)
  ELSE OneWhole(claim, facts, UsedFacts(all))
Accepted(claim, facts) == AcceptedOf(claim, facts, WithDenial(facts, claim))

Restates(f, claim) ==
  f.how = "#" /\ (IsZero(Minus(f.side, claim.side)) \/ IsZero(Plus(f.side, claim.side)))

Added(claim, facts, apart) ==
  IF Fact(claim).how = "#"
  THEN \E f \in ToSet(facts) \cup apart : Restates(f, Fact(claim))
  ELSE Accepted(claim, facts) # {}

CheckerReads(lines) == Given(Flat([i \in DOMAIN lines |-> Says(lines[i])]), lines)

\* decide
AllAdded(claim, facts, apart) == \A i \in DOMAIN claim : Added(claim[i], facts, apart)
Holds(claim, lines) == AllAdded(claim, CheckerReads(lines), ApartImplied(lines))

\* Whether a claim follows by any combination; a disequality, where either
\* order does.
FollowsLinearly(claim, facts) ==
  LET f == Fact(claim)
      Reached(by) == Refutes(WithDenial(facts, Relation("<", FALSE,
                       Scaled(f.side, by), Scaled(f.side, 0))))
  IN IF f.how = "#" THEN Reached(1) \/ Reached(-1)
     ELSE Refutes(WithDenial(facts, claim))

\* What a step refused is told.
RefusalFrom(claim, facts) ==
  IF \E i \in DOMAIN claim : ~ FollowsLinearly(claim[i], facts) THEN "not so"
  ELSE IF \E i \in DOMAIN claim : Fact(claim[i]).how = "#" THEN "a weakening"
  ELSE "another move"
Refusal(claim, lines) == RefusalFrom(claim, CheckerReads(lines))

\* The lines a step that holds does as well without.
Surplus(claim, lines) ==
  {i \in DOMAIN lines : Holds(claim, RemoveAt(lines, i))}

----
(***************************************************************************)
(* What the elaborator writes.                                             *)
(***************************************************************************)
\* The sentences of the cited lines outside the combination the step was
\* decided by, to be left out; "unreached" where no combination is found.
ElabReads(lines) == Given(lines, lines)

RestatedApart(claim, facts) == UsedFacts(WithDenial(facts, claim))

Combined(claim, facts) ==
  [i \in DOMAIN claim |-> IF Fact(claim[i]).how = "#"
                          THEN RestatedApart(claim[i], facts)
                          ELSE Accepted(claim[i], facts)]

OutOfLast(facts, used) ==
  IF \E i \in DOMAIN used : used[i] = {} THEN [reached |-> FALSE, out |-> {}]
  ELSE [reached |-> TRUE,
        out |-> {f.said : f \in {g \in ToSet(facts) :
                   g.cited /\ g.id \notin used[Len(used)]}}]
OutOf(facts, used) ==
  IF \E i \in DOMAIN used : used[i] = {} THEN [reached |-> FALSE, out |-> {}]
  ELSE [reached |-> TRUE,
        out |-> {f.said : f \in {g \in ToSet(facts) :
                   g.cited /\ \A i \in DOMAIN used : g.id \notin used[i]}}]
CombinedOut(claim, facts) == OutOf(facts, Combined(claim, facts))
NotCombined(claim, lines) == CombinedOut(claim, ElabReads(lines))

\* The facts of the lines, but for the sentences left out.
Kept(line, skip) == SelectSeq(line, LAMBDA s : s \notin skip)
KeptLines(lines, skip) == [i \in DOMAIN lines |-> Kept(lines[i], skip)]
FactsOf(lines) ==
  Numbered(Bounding(Cited(lines)
                    \o Flat([g \in DOMAIN lines |-> Implied(g, lines[g])])))
Offered(lines, skip) == FactsOf(KeptLines(lines, skip))

Strict(a, b) == Relation("<", FALSE, a, b)
AtMost(a, b) == Relation("<=", FALSE, a, b)
Holding(lines) == ToSet(Said(lines))

\* What is left to prove of a claim, but for what the lines say themselves.
Goal(claim, lines, skip) == [claim |-> claim, lines |-> lines, skip |-> skip]
Left(goals) == {g \in goals : g.claim \notin Holding(g.lines)}

\* Each way prove_order has of proving a goal, as what is then left to prove:
\* an equation by its two bounds; a claim by a combination of the facts
\* offered, where it is a denied order by the order turned round, and where
\* it is a disequality by an order; with a disequality cited, on each side
\* of it, where the side may contradict the facts instead; and where the
\* facts refute each other, by denying one of them.
BothBounds(g) ==
  {Goal(AtMost(g.claim.left, g.claim.right), g.lines, g.skip),
   Goal(AtMost(g.claim.right, g.claim.left), g.lines, g.skip)}

OneWay(g, f, low, high) ==
  LET inside == Append(g.lines, <<Strict(low, high)>>)
      skip == g.skip \cup {f}
  IN { Left({Goal(g.claim, inside, skip)}),
       IF AtMost(high, low) \in Holding(inside) THEN {}
       ELSE {Goal(AtMost(high, low), g.lines, skip)} }

EitherWay(g, f) ==
  {below \cup above : below \in OneWay(g, f, f.left, f.right),
                      above \in OneWay(g, f, f.right, f.left)}

ByCombination(g) ==
  CASE g.claim.rel = "=" /\ g.claim.neg ->
         {{Goal(Strict(g.claim.right, g.claim.left), g.lines, g.skip)},
          {Goal(Strict(g.claim.left, g.claim.right), g.lines, g.skip)}}
    [] g.claim.rel # "=" /\ g.claim.neg ->
         {Left({Goal(Relation(Fact(g.claim).how, FALSE, g.claim.right, g.claim.left),
                     g.lines, g.skip)})}
    [] g.claim.rel # "=" /\ ~ g.claim.neg -> {{}}
    [] OTHER -> {}

\* The claim denied was not used: one cited fact is denied from the others, here
\* the first as the facts are given, in the code the first of its map.
ByDenial(g, cited) ==
  LET f == CHOOSE f \in cited : \A d \in cited : f.id <= d.id
  IN IF cited = {} \/ f.said.neg THEN {}
     ELSE {{Goal([f.said EXCEPT !.neg = TRUE], g.lines, g.skip \cup {f.said})}}

IsEquation(s) == s.rel = "=" /\ ~ s.neg
WaysBy(g, found, used) ==
  CASE found.kind = "none" -> {}
    [] found.kind = "either" /\ found.ids = {0} ->
         IF IsEquation(g.claim) THEN {Left(BothBounds(g))} ELSE {}
    [] found.kind = "either" /\ found.ids # {0} ->
         UNION {EitherWay(g, f.said) : f \in used}
    [] found.kind = "sum" /\ 0 \in found.ids -> ByCombination(g)
    [] found.kind = "sum" /\ 0 \notin found.ids -> ByDenial(g, {f \in used : f.cited})
WaysFrom(g, facts, found) ==
  WaysBy(g, found, {f \in ToSet(facts) : f.id \in found.ids})
WaysWith(g, facts) == WaysFrom(g, facts, Certificate(WithDenial(facts, g.claim)))
WaysOf(g) ==
  IF IsEquation(g.claim) /\ Left(BothBounds(g)) = {} THEN {{}}
  ELSE WaysWith(g, Offered(g.lines, g.skip))

\* prove_order
RECURSIVE Proves(_)
Proves(g) == \E way \in WaysOf(g) : \A left \in way : Proves(left)

\* a <= b from a line that says a < b.
WeakenedLine(claim, lines) ==
  /\ Len(claim) = 1 /\ claim[1].rel = "<=" /\ ~ claim[1].neg
  /\ Strict(claim[1].left, claim[1].right) \in Holding(lines)

Writes(claim, lines) ==
  \/ WeakenedLine(claim, lines)
  \/ \E left \in {NotCombined(claim, lines)} :
       left.reached /\ \A i \in DOMAIN claim : Proves(Goal(claim[i], lines, left.out))

----
Init ==
  /\ ask \in Asks
  /\ stage = "read" /\ told = "" /\ surplus = {} /\ written = FALSE

Decide ==
  /\ stage = "read"
  /\ told' = IF Holds(ask.claim, ask.lines) THEN "holds" ELSE Refusal(ask.claim, ask.lines)
  /\ stage' = IF told' = "holds" THEN "decided" ELSE "refused"
  /\ UNCHANGED <<ask, surplus, written>>

CheckCites ==
  /\ stage = "decided"
  /\ surplus' = Surplus(ask.claim, ask.lines)
  /\ stage' = IF surplus' = {} THEN "checked" ELSE "refused"
  /\ UNCHANGED <<ask, told, written>>

Write ==
  /\ stage = "checked"
  /\ written' = Writes(ask.claim, ask.lines)
  /\ stage' = "built"
  /\ UNCHANGED <<ask, told, surplus>>

Next == Decide \/ CheckCites \/ Write
Spec == Init /\ [][Next]_vars

----
(***************************************************************************)
(* What the step must do.                                                  *)
(***************************************************************************)
Valuations ==
  IF ask.claim = <<>> THEN {} ELSE [DOMAIN ask.claim[1].left \ {0} -> Grid]
At(e, v) == FoldSet(LAMBDA k, sum : sum + e[k] * v[k], e[0], DOMAIN v)
TrueAt(s, v) ==
  IF s.rel = "in" THEN At(s.left, v) >= 1
  ELSE LET l == At(s.left, v) r == At(s.right, v)
       IN (CASE s.rel = "=" -> l = r [] s.rel = "<" -> l < r [] s.rel = "<=" -> l <= r) # s.neg
Refuting ==
  {v \in Valuations : /\ \A s \in Holding(ask.lines) : TrueAt(s, v)
                      /\ \E i \in DOMAIN ask.claim : ~ TrueAt(ask.claim[i], v)}

\* A step the checker accepts is true wherever the lines it cites are
\* (decide, methods/inequalities.rs).
AcceptedFollows == told = "holds" => Refuting = {}

\* A step that claims no disequality and is told it does not follow from
\* what it cites does not: somewhere the lines are true and the claim is
\* not (refusal: "Only one that does not follow at all is told so").
RefusedForCause ==
  told = "not so" /\ (\A i \in DOMAIN ask.claim : Fact(ask.claim[i]).how # "#")
    => Refuting # {}

\* Lines that say each thing once: no two sentences of a line have the same
\* difference of sides, and no two lines have a sentence in common.
SaidOnce(lines) ==
  /\ \A i \in DOMAIN lines : \A s, t \in ToSet(SelectSeq(lines[i], IsRelation)) :
       s # t => Fact(s).side # Fact(t).side
  /\ \A i, j \in DOMAIN lines :
       i # j => ToSet(lines[i]) \cap ToSet(lines[j]) = {}

\* Of lines that say each thing once, a step the checker accepts with none
\* of them surplus is one the elaborator writes the proof of (inequalities,
\* elab/calculators.rs: "a step that does not follow is refused").
AcceptedIsWritten == stage = "built" /\ SaidOnce(ask.lines) => written

=============================================================================
