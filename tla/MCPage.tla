-------------------------------- MODULE MCPage --------------------------------
(***************************************************************************)
(* The lines of one page, part by part: whether three lines of a step are  *)
(* surplus, where "q" is found with any sets of the lines there and "p"    *)
(* never, always or only with every line; the numbering and blocks of      *)
(* every theorem of up to MaxLines lines, eight of which hold a theorem by *)
(* cases with a step in each and a define, a block in a block, and a case  *)
(* that is the claim with a step after it; and every block of each method  *)
(* over p, q and P of a number, of up to two parts; and every search for   *)
(* the facts that supply two or three hypotheses over two letters, a set   *)
(* and a property.                                                         *)
(***************************************************************************)
EXTENDS Surplus, Integers, TLC, Sequences, SequencesExt, FiniteSets, FiniteSetsExt

CONSTANTS
  Chosen, MaxLines, MaxDepth, MaxNumber, MaxDefines, None, Claims, Splits,
  Said, Endings, Strays

VARIABLES
  on, line, steps, defines, markers, held, refused, open, under, block,
  parts, blocksRefused, closed, asked, facts, seed, manner, stack,
  supplyFound

\* What an item asks, of its letters a and b, its set S and its property P.
In(t, set) == <<"in", t, set>>
Less(t, u) == <<"lt", t, u>>
Equal(t, u) == <<"eq", t, u>>
SaidOfP(t) == <<"said", "P", t>>
Every(letter, set, body) == <<"every", letter, set, body>>
Some(letter, set, body) == <<"some", letter, set, body>>

Plain == {In("a", "S"), In("b", "N"), Less("a", "b"), Equal("a", "1")}
Later ==
  {Every("t", "S", SaidOfP("t")), Every("t", "N", SaidOfP("t")), Every("t", "N", Less("t", "a")),
   Some("s", "N", Less("s", "a")), Some("s", "S", Equal("a", "s")), SaidOfP("a"), SaidOfP("1")}
HypothesesAsked ==
  {<<h, k>> : h \in Later \cup {Less("a", "b")}, k \in Plain}
    \cup {<<h, k, l>> : h \in Later, k \in {In("a", "S"), Less("a", "b")},
                       l \in {In("a", "N"), In("a", "S"), SaidOfP("a"), Some("s", "S", Less("s", "b"))}}

Pool ==
  <<In("1", "N"), In("2", "Z"), Less("1", "2"), Equal("1", "2"),
    Every("x", "Z", Less("x", "2")), Every("x", "Z", Some("y", "N", Less("y", "x"))),
    Some("x", "N", Less("x", "2"))>>
FactsCited ==
  {SetToSeq({Pool[i] : i \in which}) : which \in kSubset(3, DOMAIN Pool)}
    \cup {<<In("1", "N"), In("1", "N")>>,
          <<In("1", "N"), In("2", "Z"), Less("1", "2"),
            Every("x", "Z", Some("y", "N", Less("y", "x")))>>}
SeedsFixed == {<<>>, [a |-> "2"], [P |-> <<"x", <<"lt", "x", "2">>>>]}
SearchManners ==
  {[reuse |-> TRUE, every |-> TRUE], [reuse |-> FALSE, every |-> FALSE]}

C == INSTANCE Scope

B == INSTANCE Blocks WITH
  refused <- blocksRefused

D == INSTANCE Supply WITH
  TermLetters <- {"a", "b"}, SetLetters <- {"S"}, Properties <- {"P"},
  BoundLetters <- {"s", "t"}, Numerals <- {"1", "2"}, Sets <- {"N", "Z"},
  Within <- {<<"N", "Z">>}, Asked <- HypothesesAsked, Cited <- FactsCited,
  Seeds <- SeedsFixed, Manners <- SearchManners, found <- supplyFound

Off == "off"

scopeVars ==
  <<line, steps, defines, markers, held, refused, open, under>>
scopeOff ==
  /\ line = Off /\ steps = Off /\ defines = Off /\ markers = Off
  /\ held = Off /\ refused = Off /\ open = Off /\ under = Off

blocksVars ==
  <<block, parts, blocksRefused, closed>>
blocksOff ==
  /\ block = Off /\ parts = Off /\ blocksRefused = Off /\ closed = Off

supplyVars ==
  <<asked, facts, seed, manner, stack, supplyFound>>
supplyOff ==
  /\ asked = Off /\ facts = Off /\ seed = Off /\ manner = Off
  /\ stack = Off /\ supplyFound = Off

allVars == <<on, vars, scopeVars, blocksVars, supplyVars>>

MCFounds ==
  {[S \in SUBSET Lines |-> (IF S \in Q THEN {"q"} ELSE {}) \cup
                           (IF S \in P THEN {"p"} ELSE {})] :
     Q \in SUBSET SUBSET Lines, P \in {{}, SUBSET Lines, {Lines}}}

\* What more lines never mend: a part of a step without cases, a step under
\* one that takes no block, a block left without a step, and a number out
\* of its block.
Promising ==
  on = "scope" => Len(markers) <= 1 /\ Len(held) <= 2 /\ \A i \in DOMAIN steps :
    /\ steps[i].parts # <<>> => steps[i].by = "cases"
    /\ C!Children(i) # {} => C!TakesBlock(steps[i].by)
    /\ C!TakesBlock(steps[i].by) /\ i < Len(steps) => C!Children(i) # {}
    /\ C!WrittenInBlock(i)

\* Enough for a step of one case to cite a step of another: one block.
OneBlock == on = "scope" => Cardinality({i \in DOMAIN steps : C!TakesBlock(steps[i].by)}) <= 1

Form(op, of) == [op |-> op, at |-> "", of |-> of]
SayP == Form("p", <<>>)
SayQ == Form("q", <<>>)
No(f) == Form("not", <<f>>)
Or(f, g) == Form("or", <<f, g>>)
And(f, g) == Form("and", <<f, g>>)
If(f, g) == Form("if", <<f, g>>)
Iff(f, g) == Form("iff", <<f, g>>)
POf(term) == [op |-> "P", at |-> term, of |-> <<>>]
Always(set, f) == [op |-> "all", at |-> set, of |-> <<f>>]
MCClaims ==
  [contradiction |-> {<<SayP>>, <<No(SayP)>>, <<No(And(SayP, SayQ))>>},
   proof |-> {<<If(SayP, SayQ)>>, <<Always("N0", POf("k"))>>,
              <<Always("N0", If(SayP, POf("k")))>>, <<SayP, SayQ>>},
   cases |-> {<<SayQ>>, <<SayQ, SayP>>, <<If(SayP, SayQ)>>, <<POf("k")>>},
   both |-> {<<Iff(SayP, SayQ)>>, <<Iff(SayP, No(SayQ))>>, <<SayP>>},
   induction |-> {<<Always("N", POf("k"))>>, <<Always("N0", If(SayP, POf("k")))>>, <<SayP>>}]
MCSplits == {Or(SayP, No(SayP)), Or(SayQ, SayP), Or(Or(SayP, SayQ), No(SayP))}
MCSaid == {<<SayP>>, <<SayQ>>, <<No(SayP)>>, <<No(SayQ)>>, <<SayP, SayQ>>, <<If(SayP, SayQ)>>}
NoFormula == [op |-> "none", at |-> "", of |-> <<>>]
Ending(claim, against, impossible) ==
  [claim |-> claim, against |-> against, impossible |-> impossible]
MCEndings ==
  {Ending(claim, NoFormula, FALSE) :
     claim \in {<<SayP>>, <<SayQ>>, <<No(SayQ)>>, <<SayP, SayQ>>, <<And(SayP, SayQ)>>}
               \cup {<<POf(term)>> : term \in {"k", "next", "0", "1"}}
               \cup {<<If(SayP, POf(term))>> : term \in {"next", "0"}}}
  \cup {Ending(<<SayP>>, No(SayP), FALSE), Ending(<<No(SayP)>>, SayP, FALSE),
        Ending(<<No(SayP)>>, And(SayQ, SayP), FALSE), Ending(<<SayQ>>, SayP, FALSE)}
  \cup {Ending(<<Form(op, <<>>)>>, NoFormula, TRUE) : op \in {"true", "false"}}

\* One part is chosen, and the others stand still.
Still == 
  /\ found = [S \in SUBSET Lines |-> {}] /\ exempt = {} /\ reported = FALSE
  /\ at = 1 /\ kept = Lines /\ said = {}

MCInit ==
  /\ on \in Chosen
  /\ IF on = "surplus" THEN Init ELSE Still
  /\ IF on = "scope" THEN C!Init ELSE scopeOff
  /\ IF on = "blocks" THEN B!Init ELSE blocksOff
  /\ IF on = "supply" THEN D!Init ELSE supplyOff

MCNext ==
  \/ on = "surplus" /\ Next /\ UNCHANGED <<on, scopeVars, blocksVars, supplyVars>>
  \/ on = "scope" /\ C!Next /\ UNCHANGED <<on, vars, blocksVars, supplyVars>>
  \/ on = "blocks" /\ B!Next /\ UNCHANGED <<on, vars, scopeVars, supplyVars>>
  \/ on = "supply" /\ D!Next /\ UNCHANGED <<on, vars, scopeVars, blocksVars>>

MCSpec == MCInit /\ [][MCNext]_allVars

\* What each part must do (Surplus, Scope, Blocks and Supply say
\* what each means).
NothingEscapes == on = "scope" => C!NothingEscapes
CasesApart == on = "scope" => C!CasesApart
BlockFollows == on = "blocks" => B!BlockFollows
SupplyIsExact == on = "supply" => D!SupplyIsExact

=============================================================================
