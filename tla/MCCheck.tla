------------------------------- MODULE MCCheck --------------------------------
(***************************************************************************)
(* One check of a corpus, part by part: four items on at most three        *)
(* threads, one of which may panic; two workers over readings of up to     *)
(* four theorems, one of which is asked for by nobody; three proof files   *)
(* edited after a clean reading, importing from one another, one defining  *)
(* a phrase and one of two theorems; the sorts of a theorem of up to       *)
(* MaxLines lines over membership, equality, the empty set, a function's   *)
(* value and "for all"; and the `inspection` steps of up to two lines, or  *)
(* three about the ends of two edges, with each a claim about the sets     *)
(* they list.                                                              *)
(***************************************************************************)
EXTENDS InOrder, Incremental, SharedCheck, TLC

CONSTANTS
  Chosen, A, B, C, Signatures, Statements, Events, MaxLines

VARIABLES
  on, checked, plain, statement, lines, ask, stage, verdict,
  surplus, written

P(at, by) == [at |-> at, by |-> by]

MCOwn == [t \in {"a", "b", "c", "d"} |->
            IF t = "b" THEN <<P(4, "b2"), P(3, "b1")>>
            ELSE IF t = "d" THEN <<P(7, "d")>> ELSE <<>>]

MCPairs == [t \in {"a", "b", "c", "d"} |->
              IF t \in {"b", "c"} THEN <<P(5, t)>> ELSE <<>>]

CorpusRead(theorems, found) ==
  [reads |-> TRUE, empty |-> FALSE, theorems |-> theorems,
   found |-> found, grammar |-> P(1, "grammar")]

ReadingProblem == <<P(3, "reading")>>

MCCorpora == {CorpusRead(<<"a", "b", "c", "d">>, ReadingProblem), CorpusRead(<<"a", "d">>, ReadingProblem),
              CorpusRead(<<"a">>, <<>>),
              [CorpusRead(<<"a", "b">>, ReadingProblem) EXCEPT !.reads = FALSE],
              [CorpusRead(<<>>, <<>>) EXCEPT !.reads = FALSE, !.empty = TRUE]}

MCWanted == {"a", "b", "c"}


MCOrder == <<A, B, C>>

\* Where the theorems of these files may stand: A, which imports nothing,
\* holds none, and C two.
MCSlots == <<<<B, 1>>, <<C, 1>>, <<C, 2>>>>

\* A step at a line, which says some of "cites", "surplus" and "pair".
StepAt(line, says) ==
  [line |-> line, cites |-> "cites" \in says, surplus |-> "surplus" \in says,
   pair |-> "pair" \in says]

Proof(imports, body) ==
  [parses |-> TRUE, imports |-> imports, body |-> body, phrase |-> FALSE,
   wide |-> {}, theorems |-> <<<<StepAt(2, {"cites"})>>>>]

Unread == [Proof({}, 0) EXCEPT !.parses = FALSE]

Untold(body) == [Proof({}, body) EXCEPT !.theorems = <<>>]

\* Two theorems of lines that do no work.
Idle(imports, wide) ==
  [Proof(imports, 1) EXCEPT
     !.wide = wide,
     !.theorems = << <<StepAt(2, {"cites", "surplus"}), StepAt(4, {"surplus", "pair"})>>,
                     <<StepAt(7, {"surplus"})>> >>]

MCWritten ==
  [f \in {A, B, C, RecordFile} |->
     IF f = A THEN {Absent, Unread, Untold(1), Untold(2),
                    [Untold(1) EXCEPT !.phrase = TRUE]}
     ELSE IF f = B THEN {Absent, Unread, Proof({}, 1), Proof({A}, 1), Proof({A, C}, 1)}
     ELSE IF f = C THEN {Absent, Proof({B}, 1), Idle({A}, {}), Idle({B}, {3, 8})}
     ELSE {Proof({}, 1), Proof({}, 2)}]

Term(op, args) == [op |-> op, args |-> args, is |-> 0]
Atom(op, is) == [op |-> op, args |-> <<>>, is |-> is]
Num(n) == Atom("num", n)
EqOf(a, b) == Term("eq", <<a, b>>)
InOf(a, set) == Term("in", <<a, set>>)
NotOf(s) == Term("not", <<s>>)
SetOf(args) == Term("set", args)
CupOf(one, other) == Term("cup", <<one, other>>)
RangeTo(low, high) == Term("upto", <<low, high>>)
LetterX == Atom("letter", "x")
Such(p, s) == Term("such", <<p, LetterX, s>>)
AllOf(p, s) == Term("all", <<p, LetterX, s>>)
SizeOf(s) == Term("size", <<s>>)
OrOf(one, other) == Term("or", <<one, other>>)
OddOf(arg) == Term("odd", <<arg>>)
PrimeOf(arg) == Term("prime", <<arg>>)
PairOf(one, other) == Term("pair", <<one, other>>)
FAt(arg) == Term("at", <<Atom("function", "f"), arg>>)
EndsOf(arg) == Term("at", <<Atom("set function", "g"), arg>>)
NameA == Atom("name", "A")
NameB == Atom("name", "B")
NameT == Atom("name", "t")
EdgeA == Atom("name", "a")
EdgeB == Atom("name", "b")
SetV == Atom("set name", "V")
SetW == Atom("set name", "W")
TwoSpelt == Term("sum", <<Num(1), Num(1)>>)

\* Lines that list a set, tell names apart, give a name a value, say where
\* one is, and say something for every member or by a word.
ListLines ==
  << <<EqOf(SetV, SetOf(<<NameA, NameB>>))>>, <<EqOf(SetOf(<<NameA, Num(2)>>), SetV)>>,
     <<EqOf(SetV, RangeTo(Num(1), TwoSpelt))>>,
     <<EqOf(SetV, CupOf(SetOf(<<Num(1)>>), SetW))>>, <<EqOf(SetW, SetOf(<<NameB>>))>>,
     <<EqOf(SetV, CupOf(SetOf(<<NameA, NameB>>), SetOf(<<Num(1)>>)))>>,
     <<NotOf(EqOf(NameA, NameB))>>, <<NotOf(EqOf(NameA, Num(2)))>>, <<EqOf(NameA, Num(1))>>,
     <<InOf(NameT, SetV)>>, <<InOf(NameT, SetOf(<<Num(1), Num(2)>>))>>,
     <<AllOf(EqOf(FAt(LetterX), Num(2)), SetV)>>,
     <<EqOf(FAt(NameA), Num(1)), NotOf(EqOf(NameA, NameB))>>,
     <<OddOf(NameA)>>, <<NotOf(OddOf(NameB))>>,
     <<AllOf(EqOf(FAt(LetterX), SizeOf(Such(OddOf(LetterX), SetV))), SetV)>> >>
\* Two lines, in either order where both are of the first six.
LinePairs ==
  {p \in (DOMAIN ListLines) \X (DOMAIN ListLines) : p[1] < p[2] \/ (p[2] < p[1] /\ p[1] <= 6)}
Kinds ==
  {OddOf(LetterX), NotOf(OddOf(LetterX)), NotOf(InOf(LetterX, SetW)),
   EqOf(FAt(LetterX), Num(2)), NotOf(EqOf(LetterX, NameA))}
PairIs(one, other) == EqOf(PairOf(one, Num(1)), PairOf(other, Num(1)))
ListClaims ==
  {InOf(e, s) : e \in {NameA, NameB, Num(1), TwoSpelt},
                s \in {SetV, SetOf(<<NameA, NameB>>), SetOf(<<Num(1), Num(2)>>)}}
  \cup {NotOf(InOf(e, s)) : e \in {NameA, Num(3)},
                            s \in {SetV, SetW, SetOf(<<NameB, Num(1)>>), SetOf(<<>>)}}
  \cup {EqOf(SizeOf(s), Num(n)) :
          s \in {SetV, SetW, SetOf(<<NameA, NameB>>), SetOf(<<NameA, NameA, Num(2)>>)},
          n \in {1, 2}}
  \cup {EqOf(Such(p, SetV), s) :
          p \in Kinds, s \in {SetOf(<<NameA>>), SetOf(<<>>), SetOf(<<Num(1)>>), SetV}}
  \cup {EqOf(SetV, SetOf(<<NameB, NameA>>)), EqOf(SetV, SetW), EqOf(SetW, SetOf(<<TwoSpelt>>)),
        EqOf(SetV, SetOf(<<Num(1), Num(2)>>)), EqOf(FAt(NameA), Num(2)),
        EqOf(FAt(Num(1)), Num(2)), EqOf(FAt(NameB), Num(1)), EqOf(NameA, Num(1))}
  \cup {OrOf(EqOf(NameT, u), EqOf(v, NameT)) : u \in {NameA, Num(1)}, v \in {NameB, Num(2), TwoSpelt}}
  \cup {OddOf(NameA), NotOf(OddOf(NameA)), OddOf(FAt(NameA)), PrimeOf(FAt(NameB)),
        NotOf(PrimeOf(NameA)), NotOf(EqOf(NameA, Num(2)))}
  \cup {PairIs(NameA, NameB), NotOf(PairIs(NameA, NameB)),
        InOf(PairOf(NameA, Num(1)), SetOf(<<PairOf(NameA, Num(1)), NameB>>)),
        NotOf(InOf(PairOf(NameA, Num(1)),
                   SetOf(<<PairOf(Num(2), Num(1)), PairOf(NameB, Num(1))>>)))}

\* The ends of two edges, and the edges at a name.
EndsLines ==
  << <<EqOf(EndsOf(EdgeA), SetOf(<<NameA, NameB>>))>>, <<EqOf(SetOf(<<NameB>>), EndsOf(EdgeB))>>,
     <<NotOf(EqOf(NameA, NameB)), NotOf(EqOf(EdgeA, EdgeB))>> >>
EdgesAt(p) == Such(p, SetOf(<<EdgeA, EdgeB>>))
EndsClaims ==
  {EqOf(EdgesAt(InOf(NameA, EndsOf(LetterX))), s) : s \in {SetOf(<<EdgeA>>), SetOf(<<EdgeA, EdgeB>>)}}
  \cup {EqOf(SizeOf(EdgesAt(p)), Num(n)) :
          p \in {InOf(NameB, EndsOf(LetterX)), NotOf(InOf(NameA, EndsOf(LetterX)))}, n \in {1, 2}}

InspectionAsks ==
  [lines : {<<>>} \cup {<<ListLines[i]>> : i \in DOMAIN ListLines}
             \cup {<<ListLines[p[1]], ListLines[p[2]]>> : p \in LinePairs},
   claim : ListClaims]
  \cup [lines : {<<EndsLines[p[1]], EndsLines[p[2]], EndsLines[p[3]]>> : p \in {<<1, 2, 3>>, <<3, 2, 1>>}}
                  \cup {<<EndsLines[1], EndsLines[2]>>, <<EndsLines[2], EndsLines[3]>>},
        claim : EndsClaims]

T == INSTANCE Sorts

J == INSTANCE Inspection WITH
  Asks <- InspectionAsks, Depth <- 24, Things <- 1 .. 3

Off == "off"

\* Nothing said, as the properties of SharedCheck take it.
sharedOff ==
  /\ sharedTree = Off /\ sharedEdits = Off /\ sharedNext = Off /\ asked = Off
  /\ sharedPc = Off /\ corpus = Off /\ taken = Off /\ own = Off
  /\ sharedOutcome = Unsaid

\* Nothing read and nothing said, as the properties of Incremental take it.
keptOff ==
  /\ tree = Off /\ clean = None /\ edited = Off /\ edits = Off
  /\ said = None

sortsVars ==
  <<checked, plain, statement, lines>>
sortsOff ==
  /\ checked = Off /\ plain = Off /\ statement = Off /\ lines = Off

inspectionVars ==
  <<ask, stage, verdict, surplus, written>>
inspectionOff ==
  /\ ask = Off /\ stage = Off /\ verdict = Off /\ surplus = Off
  /\ written = Off

allVars == <<on, vars, sharedVars, keptVars, sortsVars, inspectionVars>>

MCAnswer == [i \in 1..N |-> 10 * i]

Var(v) == <<"var", v>>
Formula == <<"formula">>
A1 == Var(1)
A2 == Var(2)
Sign(holes, result, n, binds) == [holes |-> holes, result |-> result, vars |-> n, binds |-> binds]
MCSignatures ==
  [member |-> Sign(<<A1, <<"set", A1>>>>, Formula, 1, {}),
   equal |-> Sign(<<A1, A1>>, Formula, 1, {}),
   empty |-> Sign(<<>>, <<"set", A1>>, 1, {}),
   value |-> Sign(<<<<"function", A1, A2>>, A1>>, A2, 2, {}),
   forall |-> Sign(<<A1, <<"set", A1>>, Formula>>, Formula, 1, {1})]
MCStatements == {<<<<"set", A1>>, <<"set", A1>>>>, <<<<"set", A1>>, A1>>}

Let(form, name, node) == [kind |-> "let", form |-> form, name |-> name, node |-> node]
Says(kind, name, node) == [kind |-> kind, name |-> name, node |-> node]
X == <<"X">>
x == <<"x">>
E == <<"E">>
One == <<"1">>
Cites(node, a, b) == [kind |-> "cite", node |-> node, values |-> <<a, b>>]
MCEvents ==
  {Let("set", "X", One), Let("element", "x", One), Let("point", "x", One),
   Let("property", "P", X), Let("claimed", "x", <<"member", x, X>>),
   Says("assume", "", <<"equal", x, X>>),
   Says("define", "E", <<"empty">>),
   Says("claim", "", <<"member", x, E>>),
   Says("claim", "", <<"forall", <<"a">>, X, <<"equal", <<"value", x, <<"a">>>>, One>>>>),
   Says("obtain", "x", <<"member", X, x>>),
   Cites(<<"equal", x, x>>, X, E)}

\* One part is chosen, and the others stand still.
Still == Init

MCInit ==
  /\ on \in Chosen
  /\ IF on = "in_order" THEN Init ELSE Still
  /\ IF on = "shared" THEN InitShared ELSE sharedOff
  /\ IF on = "kept" THEN InitKept ELSE keptOff
  /\ IF on = "sorts" THEN T!Init ELSE sortsOff
  /\ IF on = "inspection" THEN J!Init ELSE inspectionOff

MCNext ==
  \/ on = "in_order" /\ Next /\ UNCHANGED <<on, sharedVars, keptVars, sortsVars, inspectionVars>>
  \/ on = "shared" /\ NextShared /\ UNCHANGED <<on, vars, keptVars, sortsVars, inspectionVars>>
  \/ on = "kept" /\ NextKept /\ UNCHANGED <<on, vars, sharedVars, sortsVars, inspectionVars>>
  \/ on = "sorts" /\ T!Next /\ UNCHANGED <<on, vars, sharedVars, keptVars, inspectionVars>>
  \/ on = "inspection" /\ J!Next /\ UNCHANGED <<on, vars, sharedVars, keptVars, sortsVars>>

MCFairness ==

  /\ WF_vars(on = "in_order" /\ Join)
  /\ \A w \in Workers : WF_vars(on = "in_order" /\ Step(w))
  /\ WF_sharedVars(on = "shared" /\ JoinShared)
  /\ \A w \in Checkers : WF_sharedVars(on = "shared" /\ StepShared(w))

MCSpec == MCInit /\ [][MCNext]_allVars /\ MCFairness

\* What each part must do (InOrder, Sorts and Inspection say what each means;
\* what SharedCheck and Incremental must do is checked as they state it).
CheckEnds ==
  /\ on = "in_order" => CallEnds
  /\ on = "shared" => SharedEnds
StaysOpen == on = "sorts" => T!StaysOpen
AsSaid == on = "sorts" => T!AsSaid
CitationsOnlyCheck == on = "sorts" => T!CitationsOnlyCheck
InspectionFollows == on = "inspection" => J!InspectionFollows
InspectionIsWritten == on = "inspection" => J!InspectionIsWritten

=============================================================================
