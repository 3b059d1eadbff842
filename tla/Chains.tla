-------------------------------- MODULE Chains --------------------------------
(***************************************************************************)
(* Steps whose lines make a chain: `transitivity`, `antisymmetry` and      *)
(* `calculation`, as src/checker/formulas.rs reads them and                *)
(* src/elab/elaborate.rs folds their proofs.                               *)
(*                                                                         *)
(* A relation is [left, rel, right, mod], mod the modulus of a congruence  *)
(* and 0 of any other.  A term is one name, written one way, so the        *)
(* equations the elaborator joins two spellings of a term by are not here. *)
(* A cited line is the sequence of relations it says, and a line of a      *)
(* calculation the link it makes.  Every term is an integer, so that what  *)
(* the code asks of a term's number system is granted.                     *)
(***************************************************************************)
EXTENDS Integers, Sequences, SequencesExt, FiniteSets, Sifts

CONSTANTS
  Terms,    \* the terms
  Lines,    \* what a cited line may say, no relation of it twice
  Links,    \* the [rel, right, mod] a line of a calculation may write
  Claims,   \* of each method, the claims it is asked for
  Most,     \* of each method, how many lines it may have
  Numbers   \* what the terms may be worth

Methods == {"transitivity", "antisymmetry", "calculation"}

Up == {"<", "<="}
Down == {">", ">="}
Comparisons == {"=", "/="} \cup Up \cup Down

\* A line says equations, disequations and orders; a congruence is a line of a
\* calculation, and a calculation's claim.
Relations == [left : Terms, rel : Comparisons, right : Terms, mod : {0}]
LinkShapes == [rel : (Comparisons \ {"/="}) \cup {"mod"}, right : Terms, mod : Nat]
ClaimShapes == [left : Terms, rel : Comparisons \cup {"mod"}, right : Terms, mod : Nat]

ASSUME ChainsAssumption ==
  /\ Lines \subseteq Seq(Relations) /\ Links \subseteq LinkShapes
  /\ \A m \in Methods : Claims[m] \subseteq ClaimShapes
  /\ Numbers \subseteq Int

VARIABLES
  method, claim, given,  \* the step, as far as it is written
  verdict,  \* what the checker makes of it
  built     \* what the elaborator's fold of its links reaches

chainsVars == <<method, claim, given, verdict, built>>

----
(***************************************************************************)
(* Relations.                                                              *)
(***************************************************************************)
Related(left, rel, right) == [left |-> left, rel |-> rel, right |-> right, mod |-> 0]

Converse(rel) ==
  CASE rel = "<" -> ">" [] rel = "<=" -> ">=" [] rel = ">" -> "<" [] rel = ">=" -> "<="
    [] OTHER -> rel

Turned(r) ==
  [left |-> r.right, rel |-> Converse(r.rel), right |-> r.left, mod |-> r.mod]

\* One relation says another, as written or from its right side.
Says(r, s) == r = s \/ r = Turned(s)

RelsOf(links) == {links[i].rel : i \in DOMAIN links}

\* "=" where every link is, and otherwise the way it goes, strict where a
\* link is; "none" of a chain going both ways.
ChainRel(rels) ==
  LET up == rels \cap Up # {}
      down == rels \cap Down # {}
  IN CASE up /\ down   -> "none"
       [] up /\ ~down  -> IF "<" \in rels THEN "<" ELSE "<="
       [] ~up /\ down  -> IF ">" \in rels THEN ">" ELSE ">="
       [] ~up /\ ~down -> "="

----
(***************************************************************************)
(* The chain the cited lines make, in the order cited.                     *)
(***************************************************************************)
Starts(term, link) == term \in {link.left, link.right}

\* The first line faces the way the second takes it.
FirstFaced(links) ==
  IF Len(links) > 1 /\ ~Starts(links[1].right, links[2]) /\ Starts(links[1].left, links[2])
  THEN Turned(links[1]) ELSE links[1]

\* Each later line from whichever side meets the one before; none where
\* neither does.
FacedFrom(chain, link) ==
  IF chain = <<>> THEN <<>>
  ELSE IF Last(chain).right = link.left  THEN Append(chain, link)
  ELSE IF Last(chain).right = link.right THEN Append(chain, Turned(link))
  ELSE <<>>

Faced(links) ==
  LET Upto[k \in 0 .. Len(links) - 1] ==
        IF k = 0 THEN <<FirstFaced(links)>> ELSE FacedFrom(Upto[k - 1], links[k + 1])
  IN  Upto[Len(links) - 1]

\* What the chain says of its ends; "none" where it says nothing.
EndsOf(chain) ==
  IF chain = <<>> THEN Related("", "none", "")
  ELSE Related(chain[1].left, ChainRel(RelsOf(chain)), Last(chain).right)

\* As it would be with each line's relation as the line writes it, whichever
\* way the chain takes it.
ChainOfUnturned(links) ==
  LET chain == Faced(links) IN
  IF chain = <<>> THEN Related("", "none", "")
  ELSE Related(chain[1].left, ChainRel(RelsOf(links)), Last(chain).right)

ChainOf(links) == EndsOf(Faced(links))

----
(***************************************************************************)
(* Which relation of each line the step takes.                             *)
(***************************************************************************)
RelationsOf(line) == Sift(line, {r \in ToSet(line) : r.rel # "/="})

ChoicesOf(each) ==
  {c \in [DOMAIN each -> UNION {ToSet(each[i]) : i \in DOMAIN each}] :
     \A i \in DOMAIN each : c[i] \in ToSet(each[i])}

ReachingClaim(each, wanted) == {c \in ChoicesOf(each) : Says(wanted, ChainOf(c))}

Meets(a, b) == Starts(a.left, b) \/ Starts(a.right, b)

NoChain == [ok |-> FALSE, links |-> <<>>]

\* Where no choice reaches the claim: of each line, the one relation that
\* meets the one before it or, for the first, some relation of the next.
Fits(each, i, out) ==
  Sift(each[i], {s \in ToSet(each[i]) :
    IF out # <<>> THEN Meets(Last(out), s)
    ELSE i < Len(each) /\ \E n \in ToSet(each[i + 1]) : Meets(s, n)})

Taken(each, i, found) ==
  LET only == IF Len(each[i]) = 1 THEN each[i] ELSE Fits(each, i, found.links)
  IN IF found.ok /\ Len(only) = 1
     THEN [ok |-> TRUE, links |-> Append(found.links, only[1])] ELSE NoChain

Met(each) ==
  LET Upto[i \in 0 .. Len(each)] ==
        IF i = 0 THEN [ok |-> TRUE, links |-> <<>>] ELSE Taken(each, i, Upto[i - 1])
  IN  Upto[Len(each)]

CitedLinks(cited, wanted) ==
  LET each == [i \in DOMAIN cited |-> RelationsOf(cited[i])]
      several == \E i \in DOMAIN each : Len(each[i]) > 1
      reaching == ReachingClaim(each, wanted)
  IN IF \/ \E i \in DOMAIN each : each[i] = <<>>
        \/ several /\ Cardinality(reaching) > 1
     THEN NoChain
     ELSE IF several /\ reaching # {}
     THEN [ok |-> TRUE, links |-> CHOOSE c \in reaching : TRUE]
     ELSE Met(each)

----
(***************************************************************************)
(* What the checker makes of a step.                                       *)
(***************************************************************************)
Transitivity(cited, wanted) ==
  LET found == CitedLinks(cited, wanted)
  IN found.ok /\ Says(wanted, ChainOf(found.links))

FromBelow(r) == IF r.rel = ">=" THEN Turned(r) ELSE r

\* Two orders, one the other's converse, and the equation between their sides.
Antisymmetry(cited, wanted) ==
  LET found == CitedLinks(cited, wanted)
      below == [i \in DOMAIN found.links |-> FromBelow(found.links[i])]
  IN /\ found.ok /\ Len(below) = 2
     /\ RelsOf(below) = {"<="}
     /\ below[1].left = below[2].right /\ below[1].right = below[2].left
     /\ Says(wanted, Related(below[1].left, "=", below[1].right))

----
(***************************************************************************)
(* A calculation, whose lines are the links from the claim's first term;   *)
(* one that starts at the claim's right side is not here.                  *)
(***************************************************************************)
Term(start, chain, i) == IF i = 0 THEN start ELSE chain[i].right
ChainLinks(start, chain) ==
  [i \in DOMAIN chain |->
     [left |-> Term(start, chain, i - 1), rel |-> chain[i].rel,
      right |-> chain[i].right, mod |-> chain[i].mod]]

\* Once a line says a congruence every line after says one, modulo the same
\* number, and none is joined with an order.
ChainCongruences(chain) ==
  \A i \in DOMAIN chain :
    /\ (chain[i].rel = "mod") = (chain[i].mod # 0)
    /\ chain[i].rel = "mod" =>
         /\ \A j \in i .. Len(chain) : chain[j].rel # "="
         /\ \A j \in DOMAIN chain :
              chain[j].rel \in {"=", "mod"} /\ chain[j].mod \in {0, chain[i].mod}

ChainClaim(start, chain) ==
  LET congruent == {i \in DOMAIN chain : chain[i].rel = "mod"}
      ends(rel, mod) == [left |-> start, rel |-> rel, right |-> Last(chain).right, mod |-> mod]
  IN IF congruent # {} THEN ends("mod", chain[CHOOSE i \in congruent : TRUE].mod)
     ELSE ends(ChainRel(RelsOf(chain)), 0)

\* An order or an equation is the claim either way round; a congruence is not.
Alike(r, s) == r = s \/ (r.rel # "mod" /\ r = Turned(s))

Calculation(chain, wanted) ==
  ChainCongruences(chain) /\ Alike(wanted, ChainClaim(wanted.left, chain))

Accepts ==
  CASE method = "transitivity" -> Transitivity(given, claim)
    [] method = "antisymmetry" -> Antisymmetry(given, claim)
    [] OTHER -> Calculation(given, claim)

----
(***************************************************************************)
(* The fold of a chain's proof.  An order is held low side first.          *)
(***************************************************************************)
Low(r) == IF r.rel \in Down THEN Turned(r) ELSE r

Nowhere == Related("", "none", "")

\* The relation two links fold into, by the lemma for the two.
Folded(above, below) ==
  CASE above = "=" -> below
    [] below = "=" -> above
    [] "<" \in {above, below} -> "<"
    [] OTHER -> "<="

FoldedLink(run, link) ==
  LET from == IF run.rel = "=" /\ ~Starts(run.right, link) /\ Starts(run.left, link)
              THEN Turned(run) ELSE run
      to == IF link.rel = "=" /\ link.left # from.right /\ link.right = from.right
            THEN Turned(link) ELSE link
  IN IF run = Nowhere \/ to.left # from.right THEN Nowhere
     ELSE Related(from.left, Folded(from.rel, to.rel), to.right)

FoldedUp(links) == FoldLeft(FoldedLink, links[1], Tail(links))

\* As it would be with any chain that folds taken for the claim's.
StartsAnywhere(run, wanted) == run # Nowhere

StartsLow(run, wanted) ==
  run # Nowhere /\ (wanted.rel = "=" \/ Low(wanted).left = run.left)

\* Folded in the order cited, or from the last line where that does not start
\* from the claim's low side.
TransitivityChain(links, wanted) ==
  LET up == FoldedUp([i \in DOMAIN links |-> Low(links[i])])
      down == FoldedUp(Reverse([i \in DOMAIN links |-> Low(links[i])]))
  IN IF StartsLow(up, wanted) \/ (~StartsLow(down, wanted) /\ up # Nowhere) THEN up ELSE down

\* A calculation going down is its links going up, from its last term.
Upward(start, chain) ==
  LET links == ChainLinks(start, chain)
  IN IF RelsOf(chain) \cap Down = {} THEN links
     ELSE Reverse([i \in DOMAIN links |-> [Turned(links[i]) EXCEPT !.mod = 0]])

\* Its links are folded as they stand, an equation into a congruence by what
\* the equation makes of the chain's first term.
CalculationLink(run, link) ==
  IF run = Nowhere \/ link.left # run.right THEN Nowhere
  ELSE IF link.rel = "mod"
  THEN IF run.rel = "=" \/ (run.rel = "mod" /\ run.mod = link.mod)
       THEN [link EXCEPT !.left = run.left] ELSE Nowhere
  ELSE IF run.rel = "mod" THEN Nowhere
  ELSE Related(run.left, Folded(run.rel, link.rel), link.right)

CalculationChain(start, chain) ==
  LET links == Upward(start, chain) IN FoldLeft(CalculationLink, links[1], Tail(links))

Reached ==
  IF method = "calculation" THEN CalculationChain(claim.left, given)
  ELSE TransitivityChain(CitedLinks(given, claim).links, claim)

----
(***************************************************************************)
(* A step written line by line, checked, and built where it is accepted.   *)
(***************************************************************************)
InitChains ==
  /\ method \in Methods /\ claim \in Claims[method] /\ given = <<>>
  /\ verdict = "unread" /\ built = Nowhere

Cite ==
  /\ verdict = "unread" /\ Len(given) < Most[method]
  /\ \E line \in (IF method = "calculation" THEN Links ELSE Lines) : given' = Append(given, line)
  /\ UNCHANGED <<method, claim, verdict, built>>

Check ==
  /\ verdict = "unread" /\ given # <<>>
  /\ verdict' = IF Accepts THEN "accepted" ELSE "refused"
  /\ UNCHANGED <<method, claim, given, built>>

Build ==
  /\ verdict = "accepted" /\ method \in {"transitivity", "calculation"}
  /\ verdict' = "built" /\ built' = Reached
  /\ UNCHANGED <<method, claim, given>>

NextChains == Cite \/ Check \/ Build
SpecChains == InitChains /\ [][NextChains]_chainsVars

----
(***************************************************************************)
(* Properties.                                                             *)
(***************************************************************************)
Holds(r, v) ==
  CASE r.rel = "="   -> v[r.left] = v[r.right]
    [] r.rel = "/="  -> v[r.left] # v[r.right]
    [] r.rel = "<"   -> v[r.left] < v[r.right]
    [] r.rel = "<="  -> v[r.left] <= v[r.right]
    [] r.rel = ">"   -> v[r.left] > v[r.right]
    [] r.rel = ">="  -> v[r.left] >= v[r.right]
    [] OTHER -> (v[r.left] - v[r.right]) % r.mod = 0

SaidByAll ==
  IF method = "calculation" THEN ToSet(ChainLinks(claim.left, given))
  ELSE UNION {ToSet(given[i]) : i \in DOMAIN given}

\* What the checker accepts of a chain follows: wherever the terms have values
\* that make every cited line true, they make the claim true
\* (check_transitivity, check_antisymmetry, check_calculation_claims,
\* check_chain_congruences).
ChainFollows ==
  verdict \in {"accepted", "built"} =>
    \A v \in [Terms -> Numbers] : (\A r \in SaidByAll : Holds(r, v)) => Holds(claim, v)

Written == built = Low(claim) \/ (claim.rel = "=" /\ built = Turned(claim))

\* The chain comes to no term twice, and where it ends at the term it starts
\* from, no line of it is an equation.
Visits ==
  LET chain == IF method = "calculation" THEN ChainLinks(claim.left, given)
               ELSE Faced(CitedLinks(given, claim).links)
  IN [i \in DOMAIN chain |-> chain[i].right]
ComesToNoTermTwice ==
  /\ \A i, j \in DOMAIN Visits : Visits[i] = Visits[j] => i = j
  /\ claim.left = claim.right => \A r \in SaidByAll : r.rel # "="

\* Every chain the checker accepts folds to what the step claims, though the
\* checker reads it in the order cited and the elaborator low side first,
\* where the chain comes to no term twice (transitivity_chain: "The chain
\* goes the way that starts from the claim's low side"; Chain::upward).
ChainIsWritten == verdict = "built" /\ ComesToNoTermTwice => Written

\* So does one whose ends are one term with an equation among its lines
\* (transitivity_chain: "an order claim's ends may be one term").
LoopIsWritten == verdict = "built" => Written

=============================================================================
