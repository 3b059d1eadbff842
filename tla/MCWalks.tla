------------------------------- MODULE MCWalks --------------------------------
(***************************************************************************)
(* Three walks, part by part.  The citations of every file of three theorems, *)
(* in any order; of every file of four, each citing others in the order of *)
(* the file; and of every file of two that also cite an item of another    *)
(* file, which is 0.  And set.mm's grammar in small: a negation, an        *)
(* implication, an equality that opens with a class, a class by its        *)
(* variable, and an operation whose parts are pushed in another order than *)
(* read; each statement of three tokens, each of up to MaxLen that the     *)
(* grammar derives, and each of those of up to five with one token changed; *)
(* with a grammar of two readings of a statement, and one with a rule that *)
(* spells nothing, whose hole stands once, inside a rule.  And every proof *)
(* of at most five steps over a hypothesis, a constant and a label of two  *)
(* parts, every step of it used, compressed with two digits of each sort,  *)
(* so that indices take one letter or two.                                 *)
(***************************************************************************)
EXTENDS Cycles, TLC

CONSTANTS
  Chosen, Grammars, Kinds, Texts, Language, None, MaxLen, Arity, Proofs,
  Mandatories, Lows, Highs

VARIABLES
  on, grammar, first, text, start, phase, chart, told, at, seen, found,
  derived, proof, mandatory, compressText, way, compressPhase,
  compressStack, work, number, kinds, compressNext, keeping, order, kept,
  out, run, block, read, saved

Y == INSTANCE Syntax

K == INSTANCE Compress WITH
  text <- compressText, phase <- compressPhase, stack <- compressStack,
  next <- compressNext

Off == "off"

syntaxVars ==
  <<grammar, first, text, start, phase, chart, told, at, seen, found,
  derived>>
syntaxOff ==
  /\ grammar = Off /\ first = Off /\ text = Off /\ start = Off
  /\ phase = Off /\ chart = Off /\ told = Off /\ at = Off
  /\ seen = Off /\ found = Off /\ derived = Off

compressVars ==
  <<proof, mandatory, compressText, way, compressPhase, compressStack,
  work, number, kinds, compressNext, keeping, order, kept, out, run, block,
  read, saved>>
compressOff ==
  /\ proof = Off /\ mandatory = Off /\ compressText = Off /\ way = Off
  /\ compressPhase = Off /\ compressStack = Off /\ work = Off /\ number = Off
  /\ kinds = Off /\ compressNext = Off /\ keeping = Off /\ order = Off
  /\ kept = Off /\ out = Off /\ run = Off /\ block = Off
  /\ read = Off /\ saved = Off

allVars == <<on, vars, syntaxVars, compressVars>>

Orders(names) == {s \in UNION {[1..n -> names] : n \in 0..Cardinality(names)} : IsInjective(s)}

InOrder(names) == {s \in Orders(names) : \A k \in 1..(Len(s) - 1) : s[k] < s[k + 1]}

MCFiles ==
  {<<a, b, c>> : a, b, c \in Orders(1..3)}
    \cup {<<a, b, c, d>> : a \in InOrder({2, 3, 4}), b \in InOrder({1, 3, 4}),
                           c \in InOrder({1, 2, 4}), d \in InOrder({1, 2, 3})}
    \cup {<<a, b>> : a, b \in Orders(0..2)}



MCKinds == {"wff", "class", "setvar"}

Token(of) == [hole |-> FALSE, of |-> of]
Hole(kind) == [hole |-> TRUE, of |-> kind]

SetMM ==
  [rules |-> <<
     [label |-> "wn", yields |-> "wff", symbols |-> <<Token("-."), Hole("wff")>>, order |-> <<1>>],
     [label |-> "wi", yields |-> "wff",
      symbols |-> <<Token("("), Hole("wff"), Token("->"), Hole("wff"), Token(")")>>, order |-> <<1, 2>>],
     [label |-> "wceq", yields |-> "wff",
      symbols |-> <<Hole("class"), Token("="), Hole("class")>>, order |-> <<1, 2>>],
     [label |-> "cv", yields |-> "class", symbols |-> <<Hole("setvar")>>, order |-> <<1>>],
     [label |-> "co", yields |-> "class",
      symbols |-> <<Token("("), Hole("class"), Hole("class"), Hole("class"), Token(")")>>,
      order |-> <<1, 3, 2>>] >>,
   typecode |-> [v \in {"ph", "A", "x"} |->
                   CASE v = "ph" -> "wff" [] v = "A" -> "class" [] v = "x" -> "setvar"]]

\* Two readings of A + A + A.
Sums ==
  [rules |-> << [label |-> "plus", yields |-> "class",
                 symbols |-> <<Hole("class"), Token("+"), Hole("class")>>, order |-> <<1, 2>>] >>,
   typecode |-> [v \in {"A"} |-> "class"]]

Nothing == [label |-> "none", yields |-> "class", symbols |-> <<>>, order |-> <<>>]

NothingWith(symbols, places) ==
  [rules |-> << [label |-> "w", yields |-> "wff", symbols |-> symbols, order |-> places],
                Nothing,
                [label |-> "more", yields |-> "class",
                 symbols |-> <<Token("c"), Hole("class")>>, order |-> <<1>>] >>,
   typecode |-> [v \in {"A"} |-> "class"]]

Marked == NothingWith(<<Token("("), Hole("class"), Token(")")>>, <<1>>)

MCGrammars == {SetMM, Sums, Marked}

\* What a grammar derives, in statements of at most MaxLen tokens: what its
\* variables are, closed under its rules.
Cat(a, b) == {s \o t : s \in a, t \in b}
Short(a) == {s \in a : Len(s) <= MaxLen}

Spelt(known, symbols) ==
  FoldLeft(LAMBDA got, piece :
             Short(Cat(got, IF piece.hole THEN known[piece.of] ELSE {<<piece.of>>})),
           {<<>>}, symbols)

Own(g, kind) == {<<v>> : v \in {w \in DOMAIN g.typecode : g.typecode[w] = kind}}

Grown(g, known, kind) ==
  Short(known[kind]
          \cup UNION {Spelt(known, r.symbols) : r \in {q \in Range(g.rules) : q.yields = kind}})

\* Every statement of MaxLen tokens is derived in so many rounds: a rule
\* that reads no token is followed by one that does.
LanguageOf(g) ==
  LET Closed[n \in 0..(2 * MaxLen)] ==
        IF n = 0
        THEN [wff |-> Own(g, "wff"), class |-> Own(g, "class"), setvar |-> Own(g, "setvar")]
        ELSE LET known == Closed[n - 1] IN
             [wff |-> Grown(g, known, "wff"), class |-> Grown(g, known, "class"),
              setvar |-> known["setvar"]]
  IN Closed[2 * MaxLen]

MCLanguage ==
  SetMM :> LanguageOf(SetMM) @@ Sums :> LanguageOf(Sums) @@ Marked :> LanguageOf(Marked)

Alphabet(g) ==
  DOMAIN g.typecode \cup UNION {{p.of : p \in {q \in Range(r.symbols) : ~q.hole}} : r \in Range(g.rules)}

Strings(g, n) == UNION {[1..k -> Alphabet(g)] : k \in 0..n}

Changed(g, s) == {[s EXCEPT ![k] = t] : k \in DOMAIN s, t \in Alphabet(g)}

TextsOf(g) ==
  LET spelt == UNION {MCLanguage[g][kind] : kind \in Kinds} IN
  Strings(g, 3) \cup spelt \cup UNION {Changed(g, s) : s \in {d \in spelt : Len(d) <= 5}}

MCTexts ==
  SetMM :> TextsOf(SetMM) @@ Sums :> TextsOf(Sums) @@ Marked :> TextsOf(Marked)

MCArity == [l \in {"h", "c", "b"} |-> IF l = "b" THEN 2 ELSE 0]

StepsAt(k) == {<<"h", <<>>>>, <<"c", <<>>>>} \cup {<<"b", <<i, j>>>> : i, j \in 1..(k - 1)}

ProofsOf ==
  LET P[n \in 0..5] ==
        IF n = 0 THEN {<<>>} ELSE {Append(p, s) : p \in P[n - 1], s \in StepsAt(n)}
  IN P

Used(p) == \A k \in 1..(Len(p) - 1) : \E m \in (k + 1)..Len(p) : k \in Range(p[m][2])

MCProofs == {p \in UNION {ProofsOf[n] : n \in 1..5} : Used(p)}

MCMandatories == {<<>>, <<"h">>}

\* One part is chosen, and the others stand still.
Still == cites = <<>> /\ next = 1 /\ stack = <<>> /\ done = {} /\ reported = <<>>

MCInit ==
  /\ on \in Chosen
  /\ IF on = "cycles" THEN Init ELSE Still
  /\ IF on = "syntax" THEN Y!Init ELSE syntaxOff
  /\ IF on = "compress" THEN K!Init ELSE compressOff

MCNext ==
  \/ on = "cycles" /\ Next /\ UNCHANGED <<on, syntaxVars, compressVars>>
  \/ on = "syntax" /\ Y!Step /\ UNCHANGED <<on, vars, compressVars>>
  \/ on = "compress" /\ K!Next /\ UNCHANGED <<on, vars, syntaxVars>>

MCSpec == MCInit /\ [][MCNext]_allVars

ASSUME K!DigitsAssumption

\* What each part must do (Cycles, Syntax and Compress say what each means).
SpellsWhatItCan == on = "syntax" => Y!SpellsWhatItCan

ReadsBack == on = "compress" => K!ReadsBack

=============================================================================
