------------------------------ MODULE Inspection ------------------------------
(***************************************************************************)
(* An `inspection` step, a claim about sets listed in full: how the        *)
(* checker decides it from the lines the step cites                        *)
(* (methods/inspection.rs), which of the lines it does without             *)
(* (check_method_cites_used, checker/formulas.rs), and whether the         *)
(* elaborator then writes its proof (elab/inspection.rs).                  *)
(*                                                                         *)
(* The two read the lines by procedures of their own.  The checker follows *)
(* facts into facts, to a depth, and compares elements by what they are    *)
(* worth; the elaborator reads a set only where a line lists it as         *)
(* written, and most elements only as they are spelt.                      *)
(*                                                                         *)
(* A term is [op, args, is].  An answer that may be wanting is a set, with *)
(* the answer in it or nothing.  Ranges past RANGE_LISTED and primes past  *)
(* PRIMES_SETTLED, which both refuse, are not asked about.                 *)
(***************************************************************************)
EXTENDS Integers, FiniteSetsExt, SequencesExt

CONSTANTS
  Asks,      \* the steps asked about, [lines |-> ..., claim |-> ...]
  Depth,     \* DEPTH: how far the checker follows facts into facts
  Things     \* the numbers a name may stand for, for what is true of it

VARIABLES ask, stage, verdict, surplus, written

vars == <<ask, stage, verdict, surplus, written>>

\* "num", "name", "set name", "function", "set function" (as what gives an
\* edge its ends) and "letter" are named by `is`; "sum", "at" (a function at a term), "pair", "set" (up to three things in
\* braces), "cup", "upto" (a range), "such" (a property, its letter and the
\* set it is over) and "size" are terms of their arguments; and "eq", "in",
\* "not", "or", "all" (a sentence, its letter and a set), "odd" and "prime"
\* are sentences.
Term(op, args) == [op |-> op, args |-> args, is |-> 0]
Atom(op, is) == [op |-> op, args |-> <<>>, is |-> is]
Num(n) == Atom("num", n)
EqOf(a, b) == Term("eq", <<a, b>>)
InOf(a, set) == Term("in", <<a, set>>)
NotOf(s) == Term("not", <<s>>)

Said(lines) == FlattenSeq(lines)
FirstIn(seq) == IF seq = <<>> THEN {} ELSE {Head(seq)}
Flipped(option) == {~ b : b \in option}

----
(***************************************************************************)
(* What both read of a term.                                               *)
(***************************************************************************)
\* closed_value, of a term of numerals alone.
RECURSIVE Closed(_)
Closed(t) ==
  CASE t.op = "num" -> {t.is}
    [] t.op = "sum" -> {a + b : a \in Closed(t.args[1]), b \in Closed(t.args[2])}
    [] OTHER -> {}

RECURSIVE Put(_, _, _)
Put(t, letter, value) ==
  IF t = letter THEN value
  ELSE [t EXCEPT !.args = [i \in DOMAIN t.args |-> Put(t.args[i], letter, value)]]

\* range_elements: none where the top is below the bottom.
RangeOf(low, high) == [i \in 1 .. Max({0, high - low + 1}) |-> Num(low + i - 1)]
Ranged(t) ==
  {RangeOf(low, high) : low \in Closed(t.args[1]), high \in Closed(t.args[2])}

RECURSIVE Disjuncts(_)
Disjuncts(s) ==
  IF s.op = "or" THEN Disjuncts(s.args[1]) \o Disjuncts(s.args[2]) ELSE <<s>>

\* What an equation says t is: its other side.
NamedBy(s, t) ==
  CASE s.op = "eq" /\ s.args[1] = t -> {s.args[2]}
    [] s.op = "eq" /\ s.args[1] # t /\ s.args[2] = t -> {s.args[1]}
    [] OTHER -> {}
AllName(claim, t) == \A i \in DOMAIN Disjuncts(claim) : NamedBy(Disjuncts(claim)[i], t) # {}
NamesGiven(claim, t) ==
  [i \in DOMAIN Disjuncts(claim) |-> CHOOSE n \in NamedBy(Disjuncts(claim)[i], t) : TRUE]

IsPair(s) == s.op = "eq" /\ s.args[1].op = "pair" /\ s.args[2].op = "pair"
Coordinate(s, i) == EqOf(s.args[1].args[i], s.args[2].args[i])
IsPrime(n) == n >= 2 /\ \A d \in 2 .. n - 1 : n % d # 0

----
(***************************************************************************)
(* What the cited lines say, as the checker sorts them (Facts::of).        *)
(***************************************************************************)
Listing(t) == t.op \in {"set", "cup"} \/ (t.op = "upto" /\ Ranged(t) # {})
Listed(said) ==
  LET lists == SelectSeq(said, LAMBDA s : s.op = "eq" /\ \E i \in {1, 2} : Listing(s.args[i]))
  IN [i \in DOMAIN lists |-> IF Listing(lists[i].args[2]) THEN lists[i].args
                             ELSE Reverse(lists[i].args)]
Worth(said) ==
  LET gives == SelectSeq(said, LAMBDA s :
                 /\ s.op = "eq" /\ \A i \in {1, 2} : ~ Listing(s.args[i])
                 /\ \E i \in {1, 2} : Closed(s.args[i]) # {})
  IN [i \in DOMAIN gives |-> IF Closed(gives[i].args[2]) # {} THEN gives[i].args
                             ELSE Reverse(gives[i].args)]
Every(said) == SelectSeq(said, LAMBDA s : s.op = "all" /\ s.args[1].op = "eq")
SaidApart(a, b, said) ==
  {NotOf(EqOf(a, b)), NotOf(EqOf(b, a))} \cap ToSet(said) # {}
Denied(claim, said) ==
  \/ NotOf(claim) \in ToSet(said)
  \/ claim.op = "not" /\ claim.args[1] \in ToSet(said)
Giving(given, t) == FirstIn(SelectSeq(given, LAMBDA g : g[1] = t))

----
(***************************************************************************)
(* What the checker decides.                                               *)
(***************************************************************************)
\* Whether two elements are one, or are two, where the facts settle it.
RECURSIVE Equal(_, _, _)
Both(one, other) ==
  IF FALSE \in one \cup other THEN {FALSE} ELSE one \cap other
Differing(a, b, said) == IF SaidApart(a, b, said) THEN {FALSE} ELSE {}
Equal(a, b, said) ==
  CASE a = b -> {TRUE}
    [] a # b /\ a.op = "pair" /\ b.op = "pair" ->
         Both(Equal(a.args[1], b.args[1], said), Equal(a.args[2], b.args[2], said))
    [] a # b /\ Closed(a) # {} /\ Closed(b) # {} -> {Closed(a) = Closed(b)}
    [] OTHER -> Differing(a, b, said)

Among(e, elements, said) ==
  LET answers == [i \in DOMAIN elements |-> Equal(e, elements[i], said)]
  IN IF {TRUE} \in Range(answers) THEN {TRUE}
     ELSE IF {} \in Range(answers) THEN {} ELSE {FALSE}

\* What is known of each element of one being among the other, in order,
\* up to the first that is not or is not known to be.
Within(one, other, said) ==
  LET stops == SelectSeq([i \in DOMAIN one |-> Among(one[i], other, said)],
                         LAMBDA answer : answer # {TRUE})
  IN IF stops = <<>> THEN {TRUE} ELSE Head(stops)
SameSet(one, other, said) ==
  IF Within(one, other, said) = {TRUE} THEN Within(other, one, said)
  ELSE Within(one, other, said)

\* Each element counted once, where it is known of each whether it is one
\* of those before it.  (A mutant of Counted: each counted, unasked.)
CountedAll(kept, e, said) == {Append(kept, e)}
Counted(kept, e, said) ==
  LET stops == SelectSeq([i \in DOMAIN kept |-> Equal(e, kept[i], said)],
                         LAMBDA answer : answer # {FALSE})
  IN IF stops = <<>> THEN {Append(kept, e)}
     ELSE IF Head(stops) = {TRUE} THEN {kept} ELSE {}
Count(elements, said) ==
  {Len(kept) : kept \in FoldLeft(LAMBDA before, e : UNION {Counted(kept, e, said) : kept \in before},
                                 {<<>>}, elements)}

RECURSIVE Elements(_, _, _)
RECURSIVE Number(_, _, _)
RECURSIVE Settles(_, _, _)

\* The elements the property keeps, where it is settled of each.
Keeps(such, elements, said, depth) ==
  FoldLeft(LAMBDA before, e :
             {IF holds THEN Append(kept, e) ELSE kept :
                kept \in before,
                holds \in Settles(Put(such.args[1], such.args[2], e), said, depth)},
           {<<>>}, elements)

\* elements: what a set lists, written in full or given by a line.
Elements(set, said, depth) ==
  IF depth = 0 THEN {}
  ELSE CASE set.op = "set" -> {set.args}
         [] set.op = "cup" ->
              {a \o b : a \in Elements(set.args[1], said, depth - 1),
                        b \in Elements(set.args[2], said, depth - 1)}
         [] set.op = "upto" -> Ranged(set)
         [] set.op = "such" ->
              UNION {Keeps(set, over, said, depth - 1) :
                       over \in Elements(set.args[3], said, depth - 1)}
         [] OTHER ->
              UNION {Elements(by[2], said, depth - 1) : by \in Giving(Listed(said), set)}

\* given: what a "for all" line gives a term at an element of its set.
RightsAt(all, elements) ==
  [i \in DOMAIN elements |-> Put(all.args[1].args[2], all.args[2], elements[i])]
GivenBy(all, t, elements) ==
  RightsAt(all, SelectSeq(elements, LAMBDA e : Put(all.args[1].args[1], all.args[2], e) = t))
GivenIn(all, t, listed) ==
  FlattenSeq(SetToSeq({GivenBy(all, t, elements) : elements \in listed}))
Given(t, said, depth) ==
  LET every == Every(said)
  IN FirstIn(FlattenSeq([i \in DOMAIN every |->
       GivenIn(every[i], t, Elements(every[i].args[3], said, depth))]))

\* number: what a term is worth.
Number(t, said, depth) ==
  IF depth = 0 THEN {}
  ELSE CASE Closed(t) # {} -> Closed(t)
         [] t.op = "size" ->
              UNION {Count(listed, said) : listed \in Elements(t.args[1], said, depth - 1)}
         [] t.op # "size" /\ Closed(t) = {} /\ Giving(Worth(said), t) # {} ->
              UNION {Number(by[2], said, depth - 1) : by \in Giving(Worth(said), t)}
         [] OTHER ->
              UNION {Number(by, said, depth - 1) : by \in Given(t, said, depth - 1)}

\* valued: a term with each part the facts give a value put as that value,
\* and the word or equation then decided (decide_closed).
RECURSIVE Valued(_, _, _)
ValuedBy(t, numbers, said, depth) ==
  IF numbers # {} THEN Num(CHOOSE n \in numbers : TRUE)
  ELSE [t EXCEPT !.args = [i \in DOMAIN t.args |-> Valued(t.args[i], said, depth)]]
Valued(t, said, depth) == ValuedBy(t, Number(t, said, depth), said, depth)
DecidedClosed(s) ==
  CASE s.op = "odd" -> {n % 2 = 1 : n \in Closed(s.args[1])}
    [] s.op = "eq" -> {a = b : a \in Closed(s.args[1]), b \in Closed(s.args[2])}
    [] OTHER -> {}

InSettled(claim, listed, said) ==
  UNION {Among(claim.args[1], elements, said) : elements \in listed}
EqSettled(claim, ofA, ofB, numA, numB, said, depth) ==
  CASE ofA # {} /\ ofB # {} ->
         UNION {SameSet(one, other, said) : one \in ofA, other \in ofB}
    [] (ofA = {} \/ ofB = {}) /\ numA # {} /\ numB # {} -> {numA = numB}
    [] OTHER -> IF claim.args[1] = claim.args[2] THEN {TRUE}
                ELSE DecidedClosed(Valued(claim, said, depth))

\* holds: what is settled of a claim, true or false.
Settles(claim, said, depth) ==
  IF depth = 0 THEN {}
  ELSE CASE claim \in ToSet(said) -> {TRUE}
         [] claim \notin ToSet(said) /\ Denied(claim, said) -> {FALSE}
         [] OTHER ->
              CASE claim.op = "not" -> Flipped(Settles(claim.args[1], said, depth - 1))
                [] claim.op = "prime" ->
                     {IsPrime(n) : n \in Number(claim.args[1], said, depth - 1)}
                [] claim.op = "in" ->
                     InSettled(claim, Elements(claim.args[2], said, depth - 1), said)
                [] claim.op = "eq" /\ IsPair(claim) -> Equal(claim.args[1], claim.args[2], said)
                [] claim.op = "eq" /\ ~ IsPair(claim) ->
                     EqSettled(claim, Elements(claim.args[1], said, depth - 1),
                               Elements(claim.args[2], said, depth - 1),
                               Number(claim.args[1], said, depth - 1),
                               Number(claim.args[2], said, depth - 1), said, depth - 1)
                [] OTHER -> DecidedClosed(Valued(claim, said, depth - 1))

\* membership_of: the first cited membership, of a set the lines list, that
\* every equation of the claim is about.
MembershipOf(claim, said) ==
  IF claim.op \notin {"or", "eq"} THEN {}
  ELSE FirstIn(SelectSeq(said, LAMBDA s :
         s.op = "in" /\ AllName(claim, s.args[1]) /\ Elements(s.args[2], said, Depth) # {}))

\* one_of: an equation for each element and none for anything else.
Matches(one, other, said) ==
  \A i \in DOMAIN one : \E j \in DOMAIN other : Equal(one[i], other[j], said) = {TRUE}
NamesAmong(names, elements, said) == Matches(names, elements, said)
NamesEach(names, elements, said) ==
  Matches(names, elements, said) /\ Matches(elements, names, said)
OneOf(claim, member, said) ==
  IF \E elements \in Elements(member.args[2], said, Depth) :
       NamesEach(NamesGiven(claim, member.args[1]), elements, said)
  THEN "holds" ELSE "unsettled"

AnswerOf(option) ==
  CASE option = {TRUE} -> "holds" [] option = {FALSE} -> "fails" [] OTHER -> "undecided"

\* decide
DecideFrom(claim, members, said) ==
  IF members = {} THEN AnswerOf(Settles(claim, said, Depth))
  ELSE OneOf(claim, CHOOSE member \in members : TRUE, said)
Decides(claim, said) == DecideFrom(claim, MembershipOf(claim, said), said)

\* The lines a step that holds does as well without.
Surplus(claim, lines) ==
  {i \in DOMAIN lines : Decides(claim, Said(RemoveAt(lines, i))) = "holds"}

----
(***************************************************************************)
(* What the elaborator writes.                                             *)
(***************************************************************************)
\* written_listing: a listing of one to three, one joined with one more
\* element, or a range.
RECURSIVE WrittenListing(_)
WrittenListing(t) ==
  CASE t.op = "set" /\ t.args # <<>> -> {t.args}
    [] t.op = "cup" /\ t.args[2].op = "set" /\ Len(t.args[2].args) = 1 ->
         {elements \o t.args[2].args : elements \in WrittenListing(t.args[1])}
    [] t.op = "upto" -> Ranged(t)
    [] OTHER -> {}

Holds(s, said) ==
  s \in ToSet(said) \/ (s.op = "eq" /\ EqOf(s.args[2], s.args[1]) \in ToSet(said))

\* listing: written so, or given by the first line whose other side is.
ListsAs(s, t) == UNION {WrittenListing(other) : other \in NamedBy(s, t)}
ListingOf(t, said) ==
  IF WrittenListing(t) # {} THEN WrittenListing(t)
  ELSE FirstIn(FlattenSeq([i \in DOMAIN said |-> SetToSeq(ListsAs(said[i], t))]))

Spelt(e, elements) == e \in ToSet(elements)

RECURSIVE Differs(_, _, _)
Differs(a, b, said) ==
  CASE a.op = "pair" /\ b.op = "pair" ->
         \E i \in {1, 2} : Differs(a.args[i], b.args[i], said)
    [] Closed(a) # {} /\ Closed(b) # {} -> Closed(a) # Closed(b)
    [] OTHER -> SaidApart(a, b, said)
NotAmong(e, elements, said) == \A i \in DOMAIN elements : Differs(e, elements[i], said)

\* cited_value: a number of its own, or the first a line gives.
CitedNumber(t, said) ==
  IF Closed(t) # {} THEN Closed(t)
  ELSE FirstIn(FlattenSeq([i \in DOMAIN said |->
         SetToSeq(UNION {Closed(other) : other \in NamedBy(said[i], t)})]))

\* decided_at_value, of a word or its denial.
AtValue(s, said) ==
  CASE s.op = "odd" -> {n % 2 = 1 : n \in CitedNumber(s.args[1], said)}
    [] s.op = "not" /\ s.args[1].op = "odd" ->
         {n % 2 = 0 : n \in CitedNumber(s.args[1].args[1], said)}
    [] OTHER -> {}

\* settled_at: a property at an element, by a line, at a value, or in a set
\* a line lists.
InListing(e, elements, said) ==
  IF Spelt(e, elements) THEN {TRUE}
  ELSE IF NotAmong(e, elements, said) THEN {FALSE} ELSE {}
SettledAt(s, said) ==
  CASE Holds(s, said) -> {TRUE}
    [] ~ Holds(s, said) /\ Holds(NotOf(s), said) -> {FALSE}
    [] ~ Holds(s, said) /\ ~ Holds(NotOf(s), said) /\ s.op = "in" ->
         UNION {InListing(s.args[1], elements, said) : elements \in ListingOf(s.args[2], said)}
    [] OTHER -> AtValue(s, said)
Kept(such, elements, said) ==
  FoldLeft(LAMBDA before, e :
             {IF holds THEN Append(kept, e) ELSE kept :
                kept \in before,
                holds \in SettledAt(Put(such.args[1], such.args[2], e), said)},
           {<<>>}, elements)

\* counted: one more for each element that is said to differ from each
\* before it, and none for one written before it.  (A mutant of CountedTo:
\* one written before it is not told.)
CountedAnew(elements, n, i, said) ==
  IF NotAmong(elements[i], SubSeq(elements, 1, i - 1), said) THEN {n + 1} ELSE {}
CountedTo(elements, n, i, said) ==
  IF Spelt(elements[i], SubSeq(elements, 1, i - 1)) THEN {n}
  ELSE IF NotAmong(elements[i], SubSeq(elements, 1, i - 1), said) THEN {n + 1} ELSE {}
CountedSum(elements, said) ==
  FoldLeft(LAMBDA sums, i : UNION {CountedTo(elements, n, i, said) : n \in sums},
           {0}, [i \in DOMAIN elements |-> i])

\* value: what a term comes to, a set listed or a number.
ASet(elements) == [kind |-> "set", elements |-> elements, count |-> 0]
ACount(n) == [kind |-> "count", elements |-> <<>>, count |-> n]
SetsIn(values) == {v.elements : v \in {w \in values : w.kind = "set"}}

RECURSIVE Worked(_, _, _)
\* through_all: the first line that gives the term at an element.
ThroughAll(t, said, depth) ==
  LET every == Every(said)
  IN UNION {Worked(other, said, depth) :
              other \in FirstIn(FlattenSeq([i \in DOMAIN every |->
                          GivenIn(every[i], t, ListingOf(every[i].args[3], said))]))}
WorkedOut(t, listing, said, depth) ==
  CASE listing # {} -> {ASet(elements) : elements \in listing}
    [] listing = {} /\ t.op = "such" ->
         {ASet(kept) : kept \in UNION {Kept(t, over, said) : over \in ListingOf(t.args[3], said)}}
    [] listing = {} /\ t.op = "size" ->
         {ACount(n) : n \in UNION {CountedSum(elements, said) :
                                     elements \in SetsIn(Worked(t.args[1], said, depth - 1))}}
    [] listing = {} /\ t = Term("set", <<>>) -> {ASet(<<>>)}
    [] Closed(t) # {} -> {ACount(n) : n \in Closed(t)}
    [] OTHER -> ThroughAll(t, said, depth - 1)
Worked(t, said, depth) ==
  IF depth = 0 THEN {} ELSE WorkedOut(t, ListingOf(t, said), said, depth)

SetValue(t, said) == SetsIn(Worked(t, said, Depth))

\* equation: two sets with the same elements as they are spelt, or two
\* numbers that are one.
SameValue(one, other) ==
  /\ one.kind = other.kind
  /\ one.count = other.count
  /\ ToSet(one.elements) = ToSet(other.elements)
Equation(a, b, said) ==
  \E one \in Worked(a, said, Depth), other \in Worked(b, said, Depth) : SameValue(one, other)

\* one_of: each element named, and each thing named an element.
RECURSIVE OneValue(_, _)
OneValue(a, b) ==
  \/ a = b
  \/ a.op = "pair" /\ b.op = "pair" /\ \A i \in {1, 2} : OneValue(a.args[i], b.args[i])
  \/ Closed(a) # {} /\ Closed(a) = Closed(b)
NamesOneEach(names, elements) ==
  /\ elements # <<>>
  /\ \A i \in DOMAIN names : \E e \in ToSet(elements) : OneValue(names[i], e)
  /\ \A e \in ToSet(elements) : \E i \in DOMAIN names : OneValue(e, names[i])
ListedMembership(claim, said) ==
  FirstIn(SelectSeq(said, LAMBDA s :
    s.op = "in" /\ AllName(claim, s.args[1]) /\ SetValue(s.args[2], said) # {}))
WritesOneOf(claim, member, said) ==
  \E elements \in SetValue(member.args[2], said) :
    NamesOneEach(NamesGiven(claim, member.args[1]), elements)

\* inspected
PrimeNumber(claim, prime, said) ==
  \E n \in CitedNumber(claim.args[1], said) : IsPrime(n) = prime
DenialWritten(s, said) ==
  CASE s.op = "prime" -> PrimeNumber(s, FALSE, said)
    [] s.op = "in" -> \E elements \in SetValue(s.args[2], said) :
                        NotAmong(s.args[1], elements, said)
    [] s.op = "eq" -> IsPair(s) /\ Differs(s.args[1], s.args[2], said)
    [] OTHER -> FALSE
EquationWritten(claim, members, said) ==
  IF members # {} THEN \E member \in members : WritesOneOf(claim, member, said)
  ELSE claim.op = "eq" /\ Equation(claim.args[1], claim.args[2], said)
Writes(claim, said) ==
  CASE claim.op = "prime" -> PrimeNumber(claim, TRUE, said)
    [] claim.op = "not" -> DenialWritten(claim.args[1], said)
    [] claim.op = "in" ->
         \E elements \in SetValue(claim.args[2], said) : Spelt(claim.args[1], elements)
    [] claim.op \in {"eq", "or"} /\ IsPair(claim) ->
         \A i \in {1, 2} : Equation(Coordinate(claim, i).args[1], Coordinate(claim, i).args[2], said)
    [] claim.op \in {"eq", "or"} /\ ~ IsPair(claim) ->
         EquationWritten(claim, ListedMembership(claim, said), said)
    [] OTHER -> FALSE

----
Init ==
  /\ ask \in Asks
  /\ stage = "read" /\ verdict = "" /\ surplus = {} /\ written = FALSE

Decide ==
  /\ stage = "read"
  /\ verdict' = Decides(ask.claim, Said(ask.lines))
  /\ stage' = IF verdict' = "holds" THEN "decided" ELSE "refused"
  /\ UNCHANGED <<ask, surplus, written>>

CheckCites ==
  /\ stage = "decided"
  /\ surplus' = Surplus(ask.claim, ask.lines)
  /\ stage' = IF surplus' = {} THEN "checked" ELSE "refused"
  /\ UNCHANGED <<ask, verdict, written>>

Write ==
  /\ stage = "checked"
  /\ written' = Writes(ask.claim, Said(ask.lines))
  /\ stage' = "built"
  /\ UNCHANGED <<ask, verdict, surplus>>

Next == Decide \/ CheckCites \/ Write
Spec == Init /\ [][Next]_vars

----
(***************************************************************************)
(* What the step must do.                                                  *)
(***************************************************************************)
\* The atoms of a kind a term speaks of, and what they may stand for.
RECURSIVE AtomsIn(_, _)
AtomsIn(t, kind) ==
  IF t.op = kind THEN {t.is}
  ELSE UNION {AtomsIn(t.args[i], kind) : i \in DOMAIN t.args}
AtomsOf(sentences, kind) == UNION {AtomsIn(s, kind) : s \in sentences}
InEveryWorld(sentences, Says(_)) ==
  \A names \in [AtomsOf(sentences, "name") -> Things],
     sets \in [AtomsOf(sentences, "set name") -> SUBSET Things],
     functions \in [AtomsOf(sentences, "function") -> [Things -> Things]],
     setFunctions \in [AtomsOf(sentences, "set function") -> [Things -> SUBSET Things]] :
    Says(names @@ sets @@ functions @@ setFunctions)

\* What a term stands for in a world, a pair by a number of its own, and
\* whether a sentence is true there.
RECURSIVE Means(_, _), TrueIn(_, _)
FunctionAt(f, x) == IF x \in DOMAIN f THEN f[x] ELSE 0
Means(t, world) ==
  CASE t.op = "num" -> t.is
    [] t.op \in {"name", "set name", "function", "set function", "letter"} -> world[t.is]
    [] t.op = "sum" -> Means(t.args[1], world) + Means(t.args[2], world)
    [] t.op = "at" -> FunctionAt(Means(t.args[1], world), Means(t.args[2], world))
    [] t.op = "pair" -> 1000 + 100 * Means(t.args[1], world) + Means(t.args[2], world)
    [] t.op = "set" -> {Means(t.args[i], world) : i \in DOMAIN t.args}
    [] t.op = "cup" -> Means(t.args[1], world) \cup Means(t.args[2], world)
    [] t.op = "upto" -> Means(t.args[1], world) .. Means(t.args[2], world)
    [] t.op = "such" -> {x \in Means(t.args[3], world) :
                           TrueIn(t.args[1], (t.args[2].is :> x) @@ world)}
    [] t.op = "size" -> Cardinality(Means(t.args[1], world))
TrueIn(s, world) ==
  CASE s.op = "eq" -> Means(s.args[1], world) = Means(s.args[2], world)
    [] s.op = "in" -> Means(s.args[1], world) \in Means(s.args[2], world)
    [] s.op = "not" -> ~ TrueIn(s.args[1], world)
    [] s.op = "or" -> TrueIn(s.args[1], world) \/ TrueIn(s.args[2], world)
    [] s.op = "all" -> \A x \in Means(s.args[3], world) :
                         TrueIn(s.args[1], (s.args[2].is :> x) @@ world)
    [] s.op = "odd" -> Means(s.args[1], world) % 2 = 1
    [] s.op = "prime" -> IsPrime(Means(s.args[1], world))

Where(lines) == ToSet(Said(lines))
Throughout(lines, claim, value) ==
  InEveryWorld(lines \cup {claim},
    LAMBDA w : (\A s \in lines : TrueIn(s, w)) => TrueIn(claim, w) = value)

\* What the checker takes for shown is true wherever the cited lines are,
\* and what it says they show false is false there (Inspected,
\* methods/inspection.rs: "The facts show it false").
InspectionFollows ==
  /\ stage = "decided" => Throughout(Where(ask.lines), ask.claim, TRUE)
  /\ verdict = "fails" => Throughout(Where(ask.lines), ask.claim, FALSE)

\* A step of the kinds docs/METHODS.md lists (inspection, "Facts in" and "Fact
\* out"), written in full and spelt one way: each number a numeral, but at a
\* range's end; a set joined a singleton at a time; a side of an equation
\* something worked out, and no name; and a property that is a
\* membership, or says or denies a word decided of a name.
RECURSIVE SpeltOut(_)
IsWordOf(p, ops) == p.op = "odd" /\ p.args[1].op \in ops
AsProperty(p) ==
  IF p.op = "not" THEN IsWordOf(p.args[1], {"letter"})
  ELSE p.op = "in" \/ IsWordOf(p, {"letter"})
SpeltOut(t) ==
  CASE t.op \in {"sum", "odd"} -> FALSE
    [] t.op = "upto" -> TRUE
    [] t.op = "cup" -> WrittenListing(t) # {} /\ SpeltOut(t.args[1]) /\ SpeltOut(t.args[2])
    [] t.op = "such" -> AsProperty(t.args[1]) /\ SpeltOut(t.args[3])
    [] OTHER -> \A i \in DOMAIN t.args : SpeltOut(t.args[i])
Sides(s) == {s.args[i] : i \in DOMAIN s.args}
InFull(claim) ==
  CASE claim.op = "prime" -> claim.args[1].op \in {"num", "name"}
    [] claim.op = "not" -> claim.args[1].op = "in" /\ SpeltOut(claim)
    [] claim.op = "eq" -> SpeltOut(claim) /\ \A side \in Sides(claim) : side.op \notin {"name", "pair"}
    [] OTHER -> SpeltOut(claim)
SaysWord(s) == IF s.op = "not" THEN IsWordOf(s.args[1], {"name", "at"}) ELSE IsWordOf(s, {"name", "at"})
PlainStep(a) ==
  /\ InFull(a.claim)
  /\ \A s \in Where(a.lines) : SpeltOut(s) \/ SaysWord(s)

\* Of such steps, one the checker accepts with no line surplus is one the
\* elaborator writes the proof of (methods/inspection.rs: "The proof the
\* build writes of what is decided here is crate::elab::inspection").
InspectionIsWritten == stage = "built" /\ PlainStep(ask) => written

=============================================================================
