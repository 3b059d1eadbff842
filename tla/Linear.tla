---- MODULE Linear ----
(***************************************************************************)
(* Linear arithmetic over an ordered field (methods/linear.rs).            *)
(*                                                                         *)
(* An expression is a function on 0 .. K: its constant at 0, and at each   *)
(* other place the weight of one atom.  Weights are whole.  A sentence     *)
(* relates two expressions, denied or not; a fact is a sentence with       *)
(* everything on one side.  Facts come in a sequence, each with the line   *)
(* it is of, or 0 for a fact of no line, and with an id of its own.        *)
(***************************************************************************)
EXTENDS Integers, FiniteSets, Sequences, FiniteSetsExt, SequencesExt

Plus(a, b) == [k \in DOMAIN a |-> a[k] + b[k]]
Scaled(a, by) == [k \in DOMAIN a |-> by * a[k]]
Minus(a, b) == Plus(a, Scaled(b, -1))
ConstantOnly(e) == \A k \in DOMAIN e \ {0} : e[k] = 0
IsZero(e) == \A k \in DOMAIN e : e[k] = 0

\* A denied relation is turned: not (a < b) is b <= a.  A denied equation
\* is carried as one fact, "#".
Fact(s) ==
  IF s.rel = "=" THEN
    [side |-> Minus(s.left, s.right), how |-> IF s.neg THEN "#" ELSE "="]
  ELSE IF s.neg THEN
    [side |-> Minus(s.right, s.left), how |-> IF s.rel = "<" THEN "<=" ELSE "<"]
  ELSE [side |-> Minus(s.left, s.right), how |-> s.rel]

\* A relation's two sides, the smaller first.
Sides(s) ==
  IF s.neg THEN [low |-> s.right, high |-> s.left, equation |-> FALSE]
  ELSE [low |-> s.left, high |-> s.right, equation |-> s.rel = "="]

\* The fact that denies this one.
Opposite(f) ==
  CASE f.how = "=" -> [f EXCEPT !.how = "#"]
    [] f.how = "#" -> [f EXCEPT !.how = "="]
    [] f.how = "<" -> [f EXCEPT !.how = "<=", !.side = Scaled(f.side, -1)]
    [] f.how = "<=" -> [f EXCEPT !.how = "<", !.side = Scaled(f.side, -1)]

\* Whether the claim's smaller side is the sum of the facts' smaller sides
\* and its larger the sum of their larger, but for a number each: equations
\* add to an equation, each facing either way, and orders to an order.
Facing(added, turned) ==
  [i \in DOMAIN added |-> IF i \in turned
                          THEN [low |-> added[i].high, high |-> added[i].low]
                          ELSE [low |-> added[i].low, high |-> added[i].high]]
AddTo(claim, facing) ==
  \A side \in {"low", "high"} :
    ConstantOnly(FoldLeft(LAMBDA rest, f : Minus(rest, f[side]), claim[side], facing))
SumsSides(claim, added) ==
  /\ \A i \in DOMAIN added : added[i].equation = claim.equation
  /\ \E turned \in IF claim.equation THEN SUBSET DOMAIN added ELSE {{}} :
       AddTo(claim, Facing(added, turned))

----
\* A combination takes some of the facts, each once as it stands, and of
\* those turns some of the equations round.

\* The facts searched: one that a line gives twice is taken once, and the
\* last fact, the claim denied, is met first.
Repeats(facts, i, j) ==
  /\ facts[i].side = facts[j].side
  /\ facts[i].how = facts[j].how
  /\ facts[i].line = facts[j].line
Searched(facts) ==
  {i \in DOMAIN facts :
     \/ i = Len(facts)
     \/ \A j \in DOMAIN facts : j < i \/ j = Len(facts) => ~ Repeats(facts, i, j)}

CombinationSide(facts, c) ==
  FoldSet(LAMBDA i, sum :
            Plus(sum, Scaled(facts[i].side, IF i \in c.turned THEN -1 ELSE 1)),
          Scaled(facts[1].side, 0), c.taken)

NoNumberIsOrZero(side, strict) == ConstantOnly(side) /\ side[0] >= 0
NoNumberIs(side, strict) ==
  ConstantOnly(side) /\ IF strict THEN side[0] >= 0 ELSE side[0] > 0
Contradicts(facts, c) ==
  NoNumberIs(CombinationSide(facts, c), \E i \in c.taken : facts[i].how = "<")

Found(facts) ==
  {c \in {[taken |-> s, turned |-> t] :
            s \in (SUBSET Searched(facts)) \ {{}},
            t \in SUBSET {i \in DOMAIN facts : facts[i].how = "="}} :
     c.turned \subseteq c.taken /\ Contradicts(facts, c)}

Inside(small, large) ==
  /\ small.taken \subseteq large.taken /\ small.taken # large.taken
  /\ small.turned = large.turned \cap small.taken

\* Every combination that contradicts with none inside it that does.
Smallest(found) == {c \in found : ~ \E d \in found : Inside(d, c)}
AlikeCombinations(facts) == IF facts = <<>> THEN {} ELSE Smallest(Found(facts))

LinesUsed(facts, c) == Cardinality({facts[i].line : i \in c.taken} \ {0})

Rank(c, i) == IF i \notin c.taken THEN 2 ELSE IF i \in c.turned THEN 1 ELSE 0

\* Those resting on the most lines first, and of those the first in the
\* order the facts are given.
Earlier(facts, c, d) ==
  \E i \in DOMAIN facts :
    Rank(c, i) < Rank(d, i) /\ \A j \in 1 .. i - 1 : Rank(c, j) = Rank(d, j)
Before(facts, c, d) ==
  \/ LinesUsed(facts, c) > LinesUsed(facts, d)
  \/ LinesUsed(facts, c) = LinesUsed(facts, d) /\ Earlier(facts, c, d)

First(facts, cs) == CHOOSE c \in cs : \A d \in cs \ {c} : Before(facts, c, d)

IdsOf(facts, c) == {facts[i].id : i \in c.taken}

----
\* A disequality taken both ways: put last, read as "<" and as ">".
Readings(facts, at) ==
  {Append(RemoveAt(facts, at), [facts[at] EXCEPT !.how = "<",
                                !.side = Scaled(facts[at].side, by)]) : by \in {1, -1}}

ApartIn(facts) == {i \in DOMAIN facts : facts[i].how = "#"}
WithoutApart(facts) == SelectSeq(facts, LAMBDA f : f.how # "#")

\* The facts as they stand that make these contradict; or where they do not
\* without a disequality, the first disequality, taken both ways, if both
\* readings contradict.
NoCertificate == [kind |-> "none", ids |-> {}]
RECURSIVE Certificate(_)
EitherOf(facts, at) ==
  IF \E r \in Readings(facts, at) : Certificate(r) = NoCertificate
  THEN NoCertificate ELSE [kind |-> "either", ids |-> {facts[at].id}]
SumOr(fewer, sums, facts) ==
  IF sums # {} THEN [kind |-> "sum", ids |-> IdsOf(fewer, First(fewer, sums))]
  ELSE IF fewer = facts THEN NoCertificate
  ELSE EitherOf(facts, Min(ApartIn(facts)))
CertificateOf(facts, fewer) == SumOr(fewer, AlikeCombinations(fewer), facts)
Certificate(facts) == CertificateOf(facts, WithoutApart(facts))

\* The ids of the facts a contradiction among these uses; none where they
\* do not contradict.
RECURSIVE UsedFacts(_)
UsedBy(found, facts) ==
  IF found.kind # "either" THEN found.ids
  ELSE UNION {UsedFacts(r) : r \in Readings(facts, Min(ApartIn(facts)))}
UsedFacts(facts) == UsedBy(Certificate(facts), facts)

----
\* Whether facts contradict by any combination, each taken any number of
\* times: one atom at a time is eliminated by adding every lower bound to
\* every upper bound, and a disequality is taken both ways.
Bounds(facts) ==
  {[side |-> f.side, strict |-> f.how = "<"] : f \in ToSet(facts)}
    \cup {[side |-> Scaled(f.side, -1), strict |-> FALSE] :
            f \in {g \in ToSet(facts) : g.how = "="}}

EliminatedLoose(bounds, atom) ==
  {b \in bounds : b.side[atom] = 0}
    \cup {[side |-> Plus(Scaled(over.side, - under.side[atom]),
                         Scaled(under.side, over.side[atom])),
           strict |-> over.strict /\ under.strict] :
            over \in {b \in bounds : b.side[atom] > 0},
            under \in {b \in bounds : b.side[atom] < 0}}
Eliminated(bounds, atom) ==
  {b \in bounds : b.side[atom] = 0}
    \cup {[side |-> Plus(Scaled(over.side, - under.side[atom]),
                         Scaled(under.side, over.side[atom])),
           strict |-> over.strict \/ under.strict] :
            over \in {b \in bounds : b.side[atom] > 0},
            under \in {b \in bounds : b.side[atom] < 0}}

LeftOf(facts) ==
  FoldSet(LAMBDA atom, bounds : Eliminated(bounds, atom), Bounds(facts),
          IF facts = <<>> THEN {} ELSE DOMAIN facts[1].side \ {0})

RECURSIVE Refutes(_)
Refutes(facts) ==
  \/ \E b \in LeftOf(WithoutApart(facts)) : NoNumberIs(b.side, b.strict)
  \/ /\ ApartIn(facts) # {}
     /\ \A r \in Readings(facts, Min(ApartIn(facts))) : Refutes(r)

====
