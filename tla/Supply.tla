-------------------------------- MODULE Supply --------------------------------
(***************************************************************************)
(* The search for the facts that supply what an item asks for, as          *)
(* src/citing/supply.rs makes it, over the matching of src/matching.rs.    *)
(*                                                                         *)
(* A formula is <<"in" | "lt" | "eq", left, right>>, a property applied,   *)
(* <<"said", P, term>>, or <<"every" | "some", letter, domain, body>>.     *)
(* Letters are the item's; every other name is the page's, a numeral or a  *)
(* letter its facts bind.  A binding is a function from the letters fixed  *)
(* so far, a property's value being <<hole, formula>>.                     *)
(*                                                                         *)
(* Functions, listings in any order, identity elements, "there is" with no *)
(* body or over the functions from a set to a set are not here, nor is a   *)
(* property said inside a "there is" or a negation.                        *)
(***************************************************************************)
EXTENDS Integers, Sequences, FiniteSets, FiniteSetsExt, Functions, TLC

CONSTANTS
  TermLetters, SetLetters, Properties,  \* the item's names, by what they may be
  BoundLetters,  \* those it binds
  Numerals,  \* the page's terms that are no name
  Sets,      \* the page's sets
  Within,    \* the pairs of sets the table puts one inside the other
  Asked,     \* what an item may ask for, in its written order
  Cited,     \* the facts a citation may give
  Seeds,     \* what the claim and the citation may have fixed
  Manners    \* [reuse, every]: a fact may be taken twice; every way is wanted

VARIABLES
  asked, facts, seed, manner,
  stack,  \* the calls of `searched` that have not returned
  found   \* the ways come to, each its binding and the facts it used

Letters == TermLetters \cup SetLetters \cup Properties \cup BoundLetters

vars == <<asked, facts, seed, manner, stack, found>>

----
(***************************************************************************)
(* Formulas.                                                               *)
(***************************************************************************)
Binder(f) == f[1] \in {"every", "some"}
Term(t, binding) == IF t \in DOMAIN binding THEN binding[t] ELSE t

\* A formula with `term` for `name`, which the formula does not bind.
With(f, name, term) == [f EXCEPT ![2] = IF @ = name THEN term ELSE @,
                                 ![3] = IF @ = name THEN term ELSE @]
Put(f, name, term) ==
  IF Binder(f) THEN [f EXCEPT ![4] = With(f[4], name, term)] ELSE With(f, name, term)

\* One formula, but for the sides of an equation and the letters bound.
SameAtom(f, g) == f = g \/ (f[1] = "eq" /\ f = <<g[1], g[3], g[2]>>)
SameBody(f, g) ==
  IF Binder(f) /\ Binder(g)
  THEN f[1] = g[1] /\ f[3] = g[3] /\ SameAtom(With(f[4], f[2], g[2]), g[4])
  ELSE ~Binder(f) /\ ~Binder(g) /\ SameAtom(f, g)
Alike(f, g) ==
  IF Binder(f) /\ Binder(g)
  THEN f[1] = g[1] /\ f[3] = g[3] /\ SameBody(Put(f[4], f[2], g[2]), g[4])
  ELSE SameBody(f, g)

NamesOf(f) == IF Binder(f) THEN {f[2], f[3], f[4][2], f[4][3]} ELSE {f[2], f[3]}
AllBound(f, binding) == NamesOf(f) \cap Letters \subseteq DOMAIN binding

----
(***************************************************************************)
(* Matching: every binding that extends one and makes the pattern the fact,*)
(* where `open` are the letters that may be bound.                         *)
(***************************************************************************)
MatchTerm(t, ground, binding, open) ==
  IF t \notin open THEN {b \in {binding} : t = ground}
  ELSE IF t \in DOMAIN binding THEN {b \in {binding} : b[t] = ground}
  ELSE {binding @@ (t :> ground)}

MatchSides(f, left, right, binding, open) ==
  UNION {MatchTerm(f[3], right, b, open) : b \in MatchTerm(f[2], left, binding, open)}

MatchAtom(f, g, binding, open) ==
  MatchSides(f, g[2], g[3], binding, open)
    \cup IF f[1] = "eq" THEN MatchSides(f, g[3], g[2], binding, open) ELSE {}

\* P(t): what P stands for, decided only where a binder applies it to what
\* it binds.
MatchSaid(f, g, binding, inside) ==
  LET arg == Term(f[3], binding)
  IN IF f[2] \in DOMAIN binding
     THEN {b \in {binding} : Alike(Put(b[f[2]][2], b[f[2]][1], arg), g)}
     ELSE {binding @@ (f[2] :> <<arg, g>>) : x \in {y \in {arg} : inside /\ y \notin Numerals}}

MatchOpen(f, g, binding, open, inside) ==
  IF f[1] = "said" /\ f[2] \in open THEN MatchSaid(f, g, binding, inside)
  ELSE IF f[1] = g[1] /\ ~Binder(f) THEN MatchAtom(f, g, binding, open) ELSE {}

\* The letter bound is the fact's: bound to it, or spelt as it where it is
\* the page's or stands for another name already.
MatchBinder(f, g, binding, open) ==
  LET fresh == f[2] \in open /\ f[2] \notin DOMAIN binding
      start == IF fresh THEN binding @@ (f[2] :> g[2]) ELSE binding
      body  == With(f[4], f[2], g[2])
  IN IF f[2] \in open /\ start[f[2]] \in Numerals THEN {}
     ELSE UNION {MatchTerm(f[3], g[3], b, open) :
                   b \in MatchOpen(body, g[4], start, open, TRUE)}

MatchEveryWay(f, g, binding, open) ==
  IF Binder(f)
  THEN IF f[1] = g[1] THEN MatchBinder(f, g, binding, open) ELSE {}
  ELSE MatchOpen(f, g, binding, open, FALSE)

----
(***************************************************************************)
(* Every way the unused facts supply one hypothesis.                       *)
(***************************************************************************)
SetWithin(inner, outer) == inner = outer \/ <<inner, outer>> \in Within

\* A "for all" read over the domain asked for, once its letters are fixed.
Narrowed(f, g, binding) ==
  LET domain == Term(f[3], binding)
  IN {[g EXCEPT ![3] = domain] : x \in {y \in {g} :
        /\ f[1] = "every" /\ g[1] = "every"
        /\ f[3] \in Letters => f[3] \in DOMAIN binding
        /\ SetWithin(domain, g[3])}}

ByFact(f, g, binding, open) ==
  LET written == MatchEveryWay(f, g, binding, open)
  IN IF written # {} THEN written
     ELSE UNION {MatchEveryWay(f, n, binding, open) : n \in Narrowed(f, g, binding)}

\* The value given for the letter of a "there is" is in its domain.
WitnessedIn(f, binding, remaining, open) ==
  /\ f[2] \in DOMAIN binding
  /\ \E g \in remaining : /\ g[1] = "in" /\ g[2] = binding[f[2]]
                          /\ MatchTerm(f[3], g[3], binding, open) # {}

\* An equation one of whose sides is fixed, the other made the same.
SelfEvident(f, binding, open) ==
  LET closed == {i \in {2, 3} : f[i] \notin open \/ f[i] \in DOMAIN binding}
  IN IF f[1] # "eq" \/ closed = {} \/ closed = {2, 3} THEN {}
     ELSE LET same == Term(f[Min(closed)], binding)
          IN MatchAtom(f, <<"eq", same, same>>, binding, open)

Fit(fact, binding, takes) == [fact |-> fact, binding |-> binding, takes |-> takes]

\* A property already fixed asks for the formula it stands for, in which
\* only letters of its argument are the item's.
Filled(f, binding) ==
  IF f[1] = "said" /\ f[2] \in DOMAIN binding
  THEN Put(binding[f[2]][2], binding[f[2]][1], Term(f[3], binding)) ELSE f
OpenNames(f, binding) ==
  IF f[1] = "said" /\ f[2] \in DOMAIN binding
  THEN {Term(f[3], binding)} \cap (Letters \ DOMAIN binding) ELSE Letters

FitsOf(first, open, binding, used) ==
  LET rest   == {i \in DOMAIN facts : i \notin used}
      inside == Restrict(binding, DOMAIN binding \ {first[2]})
      seen   == open \cup {first[2]}
      takes  == ~(manner.reuse \/ AllBound(first, binding))
      witnessed(fits) == {b \in fits : WitnessedIn(first, b, {facts[i] : i \in rest}, seen)}
  IN  {Fit(0, binding, FALSE) : x \in {y \in {first} :
         y[1] = "eq" /\ AllBound(y, binding) /\ Term(y[2], binding) = Term(y[3], binding)}}
        \cup UNION {{Fit(i, b, takes) : b \in ByFact(first, facts[i], binding, open)} : i \in rest}
        \cup (IF first[1] # "some" THEN {}
              ELSE UNION {{Fit(i, b, takes) :
                             b \in witnessed(MatchOpen(first[4], facts[i], inside, seen, TRUE))} :
                            i \in rest}
                   \cup {Fit(0, b, FALSE) : b \in witnessed(SelfEvident(first[4], binding, seen))})
        \cup {Fit(0, b, FALSE) : b \in SelfEvident(first, binding, open)}

Fits(f, binding, used) == FitsOf(Filled(f, binding), OpenNames(f, binding), binding, used)

\* A fact stated twice is tried once.
Tried(fits) ==
  {fit \in fits : \A other \in fits :
     /\ other.fact \in 1..(fit.fact - 1) /\ other.binding = fit.binding
     => facts[other.fact] # facts[fit.fact]}

----
(***************************************************************************)
(* The search.                                                             *)
(***************************************************************************)
\* A mutant of Settled: a "there is" told so as well.
SettledOpen(f, binding) == AllBound(f, binding) \/ ~(f[1] = "said" \/ f[1] = "every")

\* Fixing more letters can only narrow what fits.
Settled(f, binding) ==
  AllBound(f, binding) \/ ~(f[1] = "said" \/ f[1] = "every" \/ f[1] = "some")

\* `used` are the facts taken, `path` those this way has used.
Call(left, binding, used, path) ==
  [left |-> left, binding |-> binding, used |-> used, path |-> path,
   at |-> 0, tries |-> {}]

Init ==
  /\ asked \in Asked /\ facts \in Cited /\ seed \in Seeds /\ manner \in Manners
  /\ stack = <<Call(DOMAIN asked, seed, {}, {})>>
  /\ found = {}

Top == stack[Len(stack)]
Below == SubSeq(stack, 1, Len(stack) - 1)

FitsAt(i) == Fits(asked[i], Top.binding, Top.used)
SettledLeft == {i \in Top.left : Settled(asked[i], Top.binding)}
Fewest(settled) ==
  {i \in settled : \A j \in settled : Cardinality(FitsAt(i)) <= Cardinality(FitsAt(j))}

\* The hypothesis the fewest facts fit, of those settled; with none settled,
\* the first as written.
TakeUp ==
  /\ stack # <<>> /\ Top.at = 0 /\ Top.left # {}
  /\ \A i \in SettledLeft : FitsAt(i) # {}
  /\ LET at == Min(IF SettledLeft = {} THEN Top.left ELSE Fewest(SettledLeft))
     IN stack' = Append(Below, [Top EXCEPT !.at = at, !.tries = Tried(FitsAt(at))])
  /\ UNCHANGED <<asked, facts, seed, manner, found>>

\* One that nothing fits now is one nothing will.
GiveUp ==
  /\ stack # <<>> /\ Top.at = 0 /\ \E i \in SettledLeft : FitsAt(i) = {}
  /\ stack' = Below
  /\ UNCHANGED <<asked, facts, seed, manner, found>>

Try ==
  /\ stack # <<>> /\ Top.at # 0
  /\ \E fit \in Top.tries :
       stack' = Below \o
         <<[Top EXCEPT !.tries = @ \ {fit}],
           Call(Top.left \ {Top.at}, fit.binding,
                IF fit.takes THEN Top.used \cup {fit.fact} ELSE Top.used,
                Top.path \cup ({fit.fact} \ {0}))>>
  /\ UNCHANGED <<asked, facts, seed, manner, found>>

BackOut ==
  /\ stack # <<>> /\ Top.at # 0 /\ Top.tries = {}
  /\ stack' = Below
  /\ UNCHANGED <<asked, facts, seed, manner, found>>

Complete ==
  /\ stack # <<>> /\ Top.left = {}
  /\ found' = found \cup {[binding |-> Top.binding, path |-> Top.path]}
  /\ stack' = IF manner.every THEN Below ELSE <<>>
  /\ UNCHANGED <<asked, facts, seed, manner>>

Next == TakeUp \/ GiveUp \/ Try \/ BackOut \/ Complete

Spec == Init /\ [][Next]_vars
----
(***************************************************************************)
(* What it is for a fact to say a hypothesis, with every letter given a    *)
(* value: the same formula; of a "for all", the same of a larger set; of a *)
(* "there is", its body of a value another fact puts in the set.  The fact *)
(* 0 is none: an equation of one thing with itself.                        *)
(***************************************************************************)
Instance(f, means) ==
  LET inst(g) == IF g[1] = "said"
                 THEN Put(means[g[2]][2], means[g[2]][1], Term(g[3], means))
                 ELSE <<g[1], Term(g[2], means), Term(g[3], means)>>
  IN IF Binder(f) THEN <<f[1], f[2], Term(f[3], means), inst(f[4])>> ELSE inst(f)

Itself(f) == f[1] = "eq" /\ f[2] = f[3]

SaidOf(f, i, spare) ==
  LET exhibits == {With(f[4], f[2], facts[j][2]) :
                     j \in {k \in spare : f[1] = "some" /\ facts[k][1] = "in" /\ facts[k][3] = f[3]}}
  IN IF i = 0 THEN Itself(f) \/ \E e \in exhibits : Itself(e)
     ELSE \/ Alike(f, facts[i])
          \/ \E e \in exhibits : Alike(e, facts[i])
          \/ /\ f[1] = "every" /\ facts[i][1] = "every" /\ SetWithin(f[3], facts[i][3])
             /\ Alike([f EXCEPT ![3] = facts[i][3]], facts[i])

\* Every value the page has for the letters, as `binding` has them.
Standing ==
  {<<facts[i][2], facts[i][4]>> : i \in {j \in DOMAIN facts : facts[j][1] = "every"}}
    \cup {seed[p] : p \in Properties \cap DOMAIN seed}
Means(binding) ==
  {m \in {t @@ s @@ p : t \in [TermLetters -> Numerals], s \in [SetLetters -> Sets],
                        p \in [Properties -> Standing \cup {<<"x", <<"lt", "x", "x">>>>}]} :
     \A l \in DOMAIN m \cap DOMAIN binding : m[l] = binding[l]}

\* The facts given to the hypotheses say them.
Supplies(given, means) ==
  LET spare == IF manner.reuse THEN DOMAIN facts ELSE DOMAIN facts \ Range(given)
  IN \A i \in DOMAIN asked : SaidOf(Instance(asked[i], means), given[i], spare)
Apart(given, which) ==
  \A i, j \in which : i # j /\ given[i] = given[j] => given[i] = 0
Givings == [DOMAIN asked -> DOMAIN facts \cup {0}]

\* Under these values each hypothesis is said by some fact.
Supplied(means) ==
  \A i \in DOMAIN asked : \E j \in DOMAIN facts \cup {0} :
    SaidOf(Instance(asked[i], means), j, DOMAIN facts)

----
(***************************************************************************)
(* Properties.                                                             *)
(***************************************************************************)
Fixes(f) == IF f[1] \in {"in", "lt"} THEN NamesOf(f) ELSE {}
Fixed == DOMAIN seed \cup UNION {Fixes(asked[i]) : i \in DOMAIN asked}
Needs(f) == NamesOf(f) \cap (TermLetters \cup SetLetters)

\* Where the letters of what is asked last are fixed by then: those of a
\* "there is", a "for all" or a property by what is asked first, a property
\* by a line above.
Decided ==
  /\ \A i \in DOMAIN asked :
       CASE asked[i][1] \in {"in", "lt"} -> TRUE
         [] asked[i][1] = "eq" -> \E k \in {2, 3} : asked[i][k] \notin Letters \ DOMAIN seed
         [] OTHER -> Needs(asked[i]) \subseteq Fixed
  /\ \A i \in DOMAIN asked : asked[i][1] = "said" =>
       \/ asked[i][2] \in DOMAIN seed
       \/ \E j \in 1..(i - 1) : asked[j][1] = "every" /\ asked[i][2] \in NamesOf(asked[j])
  /\ \A i, j \in DOMAIN asked : i # j /\ Binder(asked[i]) /\ Binder(asked[j])
                                => asked[i][2] # asked[j][2]

\* Hypotheses with a letter of their own that nothing has fixed.
OwnLetter ==
  {i \in DOMAIN asked : \E l \in Needs(asked[i]) \ DOMAIN seed :
     asked[i][1] \in {"in", "lt"} /\ \A j \in DOMAIN asked \ {i} : l \notin NamesOf(asked[j])}

\* Each hypothesis is said by a fact the way found has used, under one
\* value of each letter, and every fact it used says one; where a fact is
\* used once, two hypotheses each with a letter of their own are said by two.
SuppliedIsSaid ==
  \A way \in found :
    \E means \in {m \in Means(way.binding) : Supplied(m)}, given \in Givings :
      /\ Range(given) \ {0} = way.path
      /\ \A i \in DOMAIN asked : SaidOf(Instance(asked[i], means), given[i], DOMAIN facts)
      /\ ~manner.reuse => Apart(given, OwnLetter)

\* Where the facts say every hypothesis, each its own unless facts may be
\* used twice, the search finds it, whichever it takes up first; and asked
\* for every way, with facts used twice, it finds the facts of each.
MissesNothing ==
  \A means \in {m \in Means(seed) : Supplied(m)} : \A given \in Givings :
    Supplies(given, means) /\ (manner.reuse \/ Apart(given, DOMAIN asked)) =>
      IF manner.every /\ manner.reuse /\ IsInjective(facts)
      THEN \E way \in found : way.path = Range(given) \ {0}
      ELSE found # {}

\* The search claims what the facts say and misses none of it.  It takes the
\* hypotheses up in an order the facts choose, fixes letters on the way and
\* gives them back, and ends at the first hypothesis nothing fits, which is
\* right only if nothing would fit it later (supply.rs:140-154, 253-262).
SupplyIsExact == stack = <<>> /\ Decided => SuppliedIsSaid /\ MissesNothing
=============================================================================
