-------------------------------- MODULE Blocks --------------------------------
(***************************************************************************)
(* What the blocks of a proof must open with and end on                    *)
(* (src/checker/structure.rs and src/checker/formulas.rs), and whether     *)
(* what a block claims follows from what its parts show.                   *)
(*                                                                         *)
(* A step that opens a block is read with the block: its openers, before   *)
(* and after a `by` line, and the last step of each part, which is all the *)
(* checker asks of the steps.  Every step is taken to show what it claims  *)
(* from the openers it stands under.  A block the checker reports anything *)
(* in is not built, so nothing is written after a problem.                 *)
(*                                                                         *)
(* A formula is [op, at, of]: an atom "p" or "q", a fact of numerals alone *)
(* ("true" or "false"), "P" of the term `at`, "in" of the set `at`, or a   *)
(* connective over the formulas `of`.  The letter of a block is k.  A term *)
(* is "k", "next" (k + 1) or a numeral.  A claim is a sequence of          *)
(* sentences.                                                              *)
(***************************************************************************)
EXTENDS Integers, Sequences, SequencesExt, FiniteSets

CONSTANTS
  Claims,   \* of each method, the claims its blocks are written for
  Splits,   \* the lines a cases block cites
  Said,     \* what an opener says
  Endings,  \* what a part's last step says: [claim, against, impossible]
  Strays    \* how a page departs from the openers docs/GRAMMAR.md gives:
            \* "opens" twice where it gives one, "says" two sentences under
            \* `by contradiction`, "lets" of another set than the claim's

Methods == {"contradiction", "proof", "cases", "both", "induction"}
Top == 2       \* the numbers a letter is tried at run from 0 to Top

VARIABLES
  block,    \* the step: [by, claim, cites, start], or Unwritten
  parts,    \* its parts as written
  refused,  \* whether the checker has reported anything
  closed    \* whether the block is read to its end

vars == <<block, parts, refused, closed>>

Unwritten == [by |-> "none"]
NoLine == [op |-> "none", at |-> "", of |-> <<>>]

----
(***************************************************************************)
(* Formulas.                                                               *)
(***************************************************************************)
Made(op, of) == [op |-> op, at |-> "", of |-> of]
Atom(op) == Made(op, <<>>)
Of(op, at) == [op |-> op, at |-> at, of |-> <<>>]
Every(set, body) == [op |-> "all", at |-> set, of |-> <<body>>]

\* The formula with a value in the letter's place.
RECURSIVE Put(_, _)
Put(f, value) ==
  [f EXCEPT !.at = IF f.op = "P" /\ @ = "k" THEN value ELSE @,
            !.of = [i \in DOMAIN @ |-> Put(@[i], value)]]

Joined(op, said) == FoldLeft(LAMBDA whole, s : Made(op, <<whole, s>>), Head(said), Tail(said))
Whole(said) == Joined("and", said)

\* The sentences a formula says, an "and" taken apart, in order.
RECURSIVE Conjuncts(_)
Conjuncts(f) ==
  IF f.op = "and" THEN FlattenSeq([i \in DOMAIN f.of |-> Conjuncts(f.of[i])]) ELSE <<f>>
Sentences(said) == FlattenSeq([i \in DOMAIN said |-> Conjuncts(said[i])])

Negates(a, b) == a.op = "not" /\ a.of[1] = b
Opposite(a, b) == Negates(a, b) \/ Negates(b, a)

----
(***************************************************************************)
(* What a part opens with.                                                 *)
(***************************************************************************)
Opener(kind, said) == [kind |-> kind, said |-> said]
Of1(opens, kinds) == SelectSeq(opens, LAMBDA o : o.kind \in kinds)

\* The method whose block a part ends: its `by` method, or the step's own.
Closing(b, part) == IF part.by = "none" THEN b.by ELSE part.by

\* A supposition is what is owed negated, or what is owed is it negated.
Supposes(opens, owed) ==
  LET supposed == Of1(opens, {"suppose"})
  IN supposed # <<>> /\ Opposite(Whole(supposed[1].said), Whole(owed))

\* The claim left once a let has taken its "for all" off and an assume its
\* "if"; NoLine where the claim has no such layer.
Peel(opens, claim) ==
  LET Taken(rest, o) ==
        IF o.kind = "let" /\ rest.op = "all" THEN rest.of[1]
        ELSE IF o.kind = "assume" /\ rest.op = "if" /\ Whole(o.said) = rest.of[1] THEN rest.of[2]
        ELSE NoLine
  IN FoldLeft(Taken, claim, opens)

OpensProof(opens) == Of1(opens, {"let", "assume"}) # <<>>

\* The base part of an induction opens with nothing, and its step part lets
\* k of the claim's set and takes the claim at k.
OpensInduction(b, part) ==
  part.own = IF part.marker = "base" THEN <<>>
             ELSE << Opener("let", <<Of("in", b.claim[1].at)>>),
                     Opener("hypothesis", <<b.claim[1].of[1]>>) >>

\* What a part opens with, before any `by` line.
OpensAs(b, part) ==
  CASE b.by = "contradiction" -> Supposes(part.own, b.claim)
    [] b.by = "proof"         -> OpensProof(part.own) /\ Len(b.claim) = 1
    [] b.by \in {"cases", "both"} -> Of1(part.own, {"assume"}) # <<>>
    [] OTHER -> OpensInduction(b, part)

----
(***************************************************************************)
(* What a part owes, and what it ends on.                                  *)
(***************************************************************************)
\* The part of an induction ends on the statement at its start or at k + 1.
InductionOwes(b, part) ==
  <<Put(b.claim[1].of[1], IF part.marker = "base" THEN b.start ELSE "next")>>

Owes(b, part) ==
  CASE b.by = "induction" -> InductionOwes(b, part)
    [] b.by = "proof"     -> <<Peel(part.own, b.claim[1])>>
    [] b.by = "both"      -> <<b.claim[1].of[3 - part.no]>>
    [] OTHER              -> b.claim

\* What a part's `by` line makes of what it owes, and whether it opens so.  A
\* part that owes several sentences, or supposes several, is not compared.
ByOpens(part, owed) ==
  CASE part.by = "none"  -> TRUE
    [] part.by = "proof" -> Len(owed) = 1 /\ OpensProof(part.inner)
    [] OTHER -> /\ part.inner # <<>> /\ part.inner[1].kind = "suppose"
                /\ (Len(part.inner[1].said) = 1 /\ Len(owed) = 1) =>
                      Opposite(part.inner[1].said[1], owed[1])

EndsOn(part, owed) ==
  IF part.by = "proof" /\ NoLine \notin ToSet(owed) THEN <<Peel(part.inner, owed[1])>> ELSE owed

\* A last step that says which line it contradicts, or that its claim of
\* numerals alone is impossible.
Opposes(part) ==
  /\ part.end.against # NoLine
  /\ \E s \in {Whole(<<part.end.against>>)} \cup ToSet(Conjuncts(part.end.against)) :
       Opposite(Whole(part.end.claim), s)
Impossible(part) == part.end.impossible /\ Whole(part.end.claim).op = "false"

Contradicts(part) == part.end.against # NoLine \/ part.end.impossible

\* Only the last step of a contradiction block, a case or a proof block may.
MayContradict(b, part) == Closing(b, part) \in {"contradiction", "proof", "cases"}

EndsAsOwed(b, part, owed) ==
  IF Contradicts(part)
  THEN /\ MayContradict(b, part)
       /\ part.end.against # NoLine => Opposes(part)
       /\ part.end.impossible => part.end.against = NoLine /\ Impossible(part)
  ELSE /\ Closing(b, part) # "contradiction"
       /\ Sentences(part.end.claim) = Sentences(EndsOn(part, owed))

\* A case that says it is the claim assumes what its block claims, and has no
\* steps; any other part has one.
ClaimedCase(b, part) == b.by = "cases" /\ part.own[1].said = b.claim /\ part.by = "none"

PartChecks(b, part) ==
  /\ OpensAs(b, part)
  /\ IF part.isClaim THEN ClaimedCase(b, part)
     ELSE /\ NoLine \notin ToSet(EndsOn(part, Owes(b, part)))
          /\ ByOpens(part, Owes(b, part))
          /\ EndsAsOwed(b, part, Owes(b, part))

----
(***************************************************************************)
(* What the whole block must be.                                           *)
(***************************************************************************)
Assumed(ps) == FlattenSeq([i \in DOMAIN ps |-> Of1(ps[i].own, {"assume"})])

\* As it would be with a line that says the first case's assumption and more.
CasesCitedFirst(b, ps) ==
  /\ Len(ps) >= 2 /\ b.cites.op = "or" /\ b.cites.of[1] = Whole(Assumed(ps)[1].said)

\* A cases block cites a line that is its assumptions joined by "or", in the
\* order its parts take them.
CasesCited(b, ps) ==
  /\ Len(ps) >= 2
  /\ b.cites = Joined("or", [i \in DOMAIN Assumed(ps) |-> Whole(Assumed(ps)[i].said)])

BothDirections(b, ps) ==
  /\ Len(ps) = 2 /\ Len(Assumed(ps)) = 2
  /\ \A n \in 1 .. 2 : Whole(Assumed(ps)[n].said) = b.claim[1].of[n]

First(set) == IF set = "N" THEN "1" ELSE "0"
InductionRuns(b, ps) ==
  /\ {ps[i].marker : i \in DOMAIN ps} = {"base", "step"}
  /\ b.start = First(b.claim[1].at)

BlockChecks(b, ps) ==
  CASE b.by = "cases"     -> CasesCited(b, ps)
    [] b.by = "both"      -> BothDirections(b, ps)
    [] b.by = "induction" -> InductionRuns(b, ps)
    [] OTHER              -> TRUE

----
(***************************************************************************)
(* A block read: its step, each part, and its end.                         *)
(***************************************************************************)
Init ==
  /\ block = Unwritten /\ parts = <<>> /\ refused = FALSE /\ closed = FALSE

ClaimReads(by, claim) ==
  CASE by = "both"      -> Len(claim) = 1 /\ claim[1].op = "iff"
    [] by = "induction" -> Len(claim) = 1 /\ claim[1].op = "all"
    [] OTHER            -> TRUE

Open ==
  /\ block = Unwritten
  /\ \E by \in Methods : \E claim \in Claims[by] :
     \E cites \in (IF by = "cases" THEN Splits ELSE {NoLine}),
        start \in (IF by = "induction" THEN {"0", "1"} ELSE {""}) :
       /\ block' = [by |-> by, claim |-> claim, cites |-> cites, start |-> start]
       /\ refused' = ~ClaimReads(by, claim)
  /\ UNCHANGED <<parts, closed>>

Markers(b) == IF b.by = "induction" THEN {"base", "step"} ELSE {b.by}
MostParts(b) == IF b.by \in {"contradiction", "proof"} THEN 1 ELSE 2

\* What a page may open with: one line for each the method's form gives, and
\* more where it strays.
Says(kind) == {Opener(kind, said) : said \in Said}
LetsOf(b) ==
  LET sets == IF "lets" \in Strays THEN {"N", "N0"} ELSE {b.claim[1].at}
  IN {Opener("let", <<Of("in", s)>>) : s \in sets}
OneOrTwo(openers) ==
  {<<o>> : o \in openers}
    \cup (IF "opens" \in Strays THEN {<<o, p>> : o \in openers, p \in Says("assume")} ELSE {})
ProofOpeners(b) ==
  {<<o>> : o \in Says("assume")}
    \cup (IF b.claim[1].op = "all"
          THEN {<<o>> : o \in LetsOf(b)} \cup {<<o, p>> : o \in LetsOf(b), p \in Says("assume")}
          ELSE {})
Owns(b, marker) ==
  CASE b.by = "contradiction" -> OneOrTwo(Says("suppose"))
    [] b.by = "proof"         -> ProofOpeners(b)
    [] b.by \in {"cases", "both"} -> OneOrTwo(Says("assume"))
    [] marker = "base"        -> {<<>>}
    [] OTHER -> { << Opener("let", <<Of("in", s)>>), Opener("hypothesis", <<b.claim[1].of[1]>>) >> :
                  s \in {"N", "N0"} }
Inners(b, by) ==
  CASE by = "none"  -> {<<>>}
    [] by = "proof" -> {<<o>> : o \in Says("assume")}
    [] OTHER        -> {<<o>> : o \in {s \in Says("suppose") :
                                         "says" \in Strays \/ Len(s.said) = 1}}
Bys(b) ==
  CASE b.by = "contradiction" -> {"none"}
    [] b.by = "proof"         -> {"none", "contradiction"}
    [] OTHER                  -> {"none", "proof", "contradiction"}

\* A case may be the claim, with no step of its own.
Claimed(b, by) == IF b.by = "cases" /\ by = "none" THEN BOOLEAN ELSE {FALSE}

Part ==
  /\ block # Unwritten /\ ~refused /\ ~closed /\ Len(parts) < MostParts(block)
  /\ \E marker \in Markers(block), by \in Bys(block) :
     \E own \in Owns(block, marker), inner \in Inners(block, by),
        end \in Endings, isClaim \in Claimed(block, by) :
       LET part == [marker |-> marker, no |-> Len(parts) + 1, by |-> by, own |-> own,
                    inner |-> inner, end |-> end, isClaim |-> isClaim]
       IN /\ "says" \in Strays \/ by # "contradiction" \/ Len(Owes(block, part)) = 1
          /\ refused' = ~PartChecks(block, part)
          /\ parts' = IF PartChecks(block, part) THEN Append(parts, part) ELSE parts
  /\ UNCHANGED <<block, closed>>

Close ==
  /\ parts # <<>> /\ ~refused /\ ~closed
  /\ refused' = ~BlockChecks(block, parts) /\ closed' = TRUE
  /\ UNCHANGED <<block, parts>>

Next == Open \/ Part \/ Close
Spec == Init /\ [][Next]_vars

----
(***************************************************************************)
(* What the formulas mean.                                                 *)
(***************************************************************************)
Valuations == [p : BOOLEAN, q : BOOLEAN, P : SUBSET (0 .. Top + 1)]
Value(term, k) == CASE term = "0" -> 0 [] term = "1" -> 1 [] term = "k" -> k [] OTHER -> k + 1
In(n, set) == n >= Value(First(set), n)

\* A formula with parts, from what its parts say at each number.
Compound(f, v, k, says) ==
  CASE f.op = "p" -> v.p
    [] f.op = "q" -> v.q
    [] f.op = "true"  -> TRUE
    [] f.op = "false" -> FALSE
    [] f.op = "P"   -> Value(f.at, k) \in v.P
    [] f.op = "in"  -> In(k, f.at)
    [] f.op = "not" -> ~says[1][k]
    [] f.op = "and" -> says[1][k] /\ says[2][k]
    [] f.op = "or"  -> says[1][k] \/ says[2][k]
    [] f.op = "if"  -> says[1][k] => says[2][k]
    [] f.op = "iff" -> says[1][k] = says[2][k]
    [] OTHER -> \A n \in {m \in 0 .. Top : In(m, f.at)} : says[1][n]

RECURSIVE Holds(_, _, _)
Holds(f, v, k) ==
  Compound(f, v, k, [i \in DOMAIN f.of |-> [n \in 0 .. Top |-> Holds(f.of[i], v, n)]])

AllHold(said, v, k) == \A i \in DOMAIN said : Holds(said[i], v, k)

\* What a part's last step shows: its claim, and the line it contradicts,
\* wherever what the part opens with holds.
Shown(part, v) ==
  part.isClaim \/
  \A k \in 0 .. Top :
    (\A i \in DOMAIN (part.own \o part.inner) : AllHold((part.own \o part.inner)[i].said, v, k))
      => AllHold(part.end.claim, v, k) /\ (part.end.against # NoLine => Holds(part.end.against, v, k))

\* A block the checker says nothing of proves its claim: wherever its parts
\* show what their last steps claim, and the line it splits holds, so does
\* the claim (check_blocks, check_block_ends, check_contradiction,
\* check_contradicting, check_cases_cited, check_both_directions).
BlockFollows ==
  closed /\ ~refused =>
    \A v \in Valuations :
      /\ \A i \in DOMAIN parts : Shown(parts[i], v)
      /\ block.by = "cases" => Holds(block.cites, v, 0)
      => AllHold(block.claim, v, 0)

=============================================================================
