-------------------------------- MODULE Syntax --------------------------------
(***************************************************************************)
(* src/src/mm/kernel.rs: set.mm's syntax axioms as a grammar (Syntax::new) *)
(* and the chart parse of a statement by it (Syntax::spell).               *)
(*                                                                         *)
(* A grammar is [rules, typecode]: its rules in order, each               *)
(* [label, yields, symbols, order], a symbol a hole of a typecode or a     *)
(* token, and the typecode of each variable.  A row of the chart is the    *)
(* sequence of its items in the order they were added, which is also the   *)
(* order the parser's queue takes them in.  Positions count from 0.        *)
(***************************************************************************)
EXTENDS Naturals, Sequences, SequencesExt, FiniteSets

CONSTANTS
  Grammars, \* the grammars read
  Kinds,    \* the typecodes
  Texts,    \* the statements parsed by a grammar: a function of it
  Language, \* what each typecode of a grammar spells: Language[g][kind]
  None

VARIABLES
  grammar,
  first,  \* the tokens that can open a term of each typecode
  text, start, \* what is parsed, and as what
  phase,  \* "open", "ask", "parse" or "done"
  chart,  \* the items at each position
  told,   \* the typecodes offered, each at a position
  at,     \* the position whose row is being worked through
  seen,   \* how many of its items have been
  found,  \* the term read, or None
  derived \* whether the grammar derives the statement: no part of the parser

asked == <<text, start, derived>>
work == <<chart, told, at, seen>>
vars == <<grammar, first, asked, phase, work, found>>

Hole(kind) == [hole |-> TRUE, of |-> kind]
Token(token) == [hole |-> FALSE, of |-> token]

Var(v) == [label |-> None, children |-> <<>>, variable |-> v]

Rule(r) == grammar.rules[r]
Variables == DOMAIN grammar.typecode
\* A mutant of IsVariable: whatever its typecode.
IsVariableAny(token, kind) == token \in Variables
IsVariable(token, kind) == token \in Variables /\ grammar.typecode[token] = kind

Init ==
  /\ grammar \in Grammars
  /\ first = [kind \in Kinds |-> {v \in Variables : IsVariable(v, kind)}]
  /\ text = <<>> /\ start \in Kinds /\ derived = FALSE
  /\ phase = "open"
  /\ chart = <<>> /\ told = {} /\ at = 0 /\ seen = 0 /\ found = None

(***************************************************************************)
(* What opens each typecode                                                *)
(***************************************************************************)

\* The tokens a rule opens with, as far as they are known.
Opens(known, rule) ==
  IF rule.symbols = <<>> THEN {}
  ELSE LET piece == rule.symbols[1] IN
       IF piece.hole THEN known[piece.of] ELSE {piece.of}

\* One time round the rules, each adding to what the ones before it added.
Round ==
  FoldLeft(LAMBDA known, rule : [known EXCEPT ![rule.yields] = @ \cup Opens(known, rule)],
           first, grammar.rules)

\* Whether a time round added anything.
Grew(round) == round # first

\* One time round.  The last adds nothing.
Open ==
  /\ phase = "open"
  /\ LET round == Round IN
     /\ first' = round
     /\ phase' = IF Grew(round) THEN "open" ELSE "ask"
  /\ UNCHANGED <<grammar, asked, work, found>>

(***************************************************************************)
(* The parse                                                               *)
(***************************************************************************)

\* The rules yielding a typecode that the token that follows can open, and
\* after them those that spell nothing.
Predicted(kind, next) ==
  LET Opened(r) == Rule(r).yields = kind /\ next # None /\ next \in Opens(first, Rule(r))
      Bare(r) == Rule(r).yields = kind /\ Rule(r).symbols = <<>>
      all == [r \in DOMAIN grammar.rules |-> r]
  IN SelectSeq(all, Opened) \o SelectSeq(all, Bare)

\* A row with an item in it, which is new when no item in it is at the same
\* place of the same rule from the same origin.
Add(row, item) ==
  IF \E k \in DOMAIN row : /\ row[k].rule = item.rule
                           /\ row[k].dot = item.dot
                           /\ row[k].origin = item.origin
  THEN row ELSE Append(row, item)

AddAll(row, items) == FoldLeft(LAMBDA held, item : Add(held, item), row, items)

\* The rules offered at position i of statement t, each with nothing read.
Offered(t, kind, i) ==
  LET rules == Predicted(kind, IF i < Len(t) THEN t[i + 1] ELSE None) IN
  [k \in DOMAIN rules |-> [rule |-> rules[k], dot |-> 0, origin |-> i, parts |-> <<>>]]

\* An item with its next symbol read, and what fills it if it is a hole.
Past(item, parts) == [item EXCEPT !.dot = @ + 1, !.parts = @ \o parts]

\* A rule's term, its parts in the order they are pushed.
Build(r, parts) ==
  [label |-> Rule(r).label,
   children |-> [k \in DOMAIN Rule(r).order |-> parts[Rule(r).order[k]]],
   variable |-> None]

\* A statement of one variable is that variable; any other is worked out
\* from what can open it.
Ask ==
  /\ phase = "ask"
  /\ LET language == Language[grammar][start] IN
     \E t \in Texts[grammar] :
       /\ text' = t /\ derived' = (t \in language)
       /\ IF Len(t) = 1 /\ IsVariable(t[1], start)
          THEN found' = Var(t[1]) /\ phase' = "done" /\ UNCHANGED work
          ELSE /\ phase' = "parse"
               /\ told' = {<<0, start>>}
               /\ chart' = [i \in 0..Len(t) |-> IF i = 0 THEN Offered(t, start, 0) ELSE <<>>]
               /\ at' = 0 /\ seen' = 0 /\ found' = None
  /\ UNCHANGED <<grammar, first, start>>

Working == phase = "parse" /\ seen < Len(chart[at])
Item == chart[at][seen + 1]
Complete(item) == item.dot = Len(Rule(item.rule).symbols)
Awaited(item) == Rule(item.rule).symbols[item.dot + 1]
Waits(item, kind) == ~Complete(item) /\ Awaited(item) = Hole(kind)

\* The items at the position a rule began at.
Older(item) == chart[item.origin]

\* A rule all of whose symbols are spelt fills the hole of each item that
\* waits for it where it began.
Finish ==
  /\ Working /\ Complete(Item)
  /\ LET made == Build(Item.rule, Item.parts)
         Waiting(o) == Waits(o, Rule(Item.rule).yields)
         waiting == SelectSeq(Older(Item), Waiting)
     IN chart' = [chart EXCEPT ![at] =
                    AddAll(@, [k \in DOMAIN waiting |-> Past(waiting[k], <<made>>)])]
  /\ seen' = seen + 1
  /\ UNCHANGED <<grammar, first, asked, phase, told, at, found>>

\* What a position holds once a typecode has been offered at it, unless it
\* was before.
Told(kind) ==
  IF <<at, kind>> \in told THEN chart[at] ELSE AddAll(chart[at], Offered(text, kind, at))

\* A hole is offered the rules yielding it, once at a position, and a
\* variable of the statement stands for itself.
Fill ==
  /\ Working /\ ~Complete(Item) /\ Awaited(Item).hole
  /\ LET kind == Awaited(Item).of
         own == at < Len(text) /\ IsVariable(text[at + 1], kind)
     IN /\ told' = told \cup {<<at, kind>>}
        /\ chart' = [i \in DOMAIN chart |->
                       CASE i = at -> Told(kind)
                         [] i = at + 1 /\ own -> Add(chart[i], Past(Item, <<Var(text[at + 1])>>))
                         [] OTHER -> chart[i]]
  /\ seen' = seen + 1
  /\ UNCHANGED <<grammar, first, asked, phase, at, found>>

\* A token is read where the statement writes it.
Scan ==
  /\ Working /\ ~Complete(Item) /\ ~Awaited(Item).hole
  /\ chart' = IF at < Len(text) /\ text[at + 1] = Awaited(Item).of
              THEN [chart EXCEPT ![at + 1] = Add(@, Past(Item, <<>>))]
              ELSE chart
  /\ seen' = seen + 1
  /\ UNCHANGED <<grammar, first, asked, phase, told, at, found>>

\* Every item of a row is worked through, those added meanwhile among them.
Advance ==
  /\ phase = "parse" /\ seen = Len(chart[at]) /\ at < Len(text)
  /\ at' = at + 1 /\ seen' = 0
  /\ UNCHANGED <<grammar, first, asked, phase, chart, told, found>>

\* An item that spells the whole of the statement.
Whole(item) == item.origin = 0 /\ Complete(item) /\ Rule(item.rule).yields = start

\* The first of the last row that does is the term.
Answer ==
  /\ phase = "parse" /\ seen = Len(chart[at]) /\ at = Len(text)
  /\ LET whole == SelectSeq(chart[at], Whole) IN
     found' = IF whole = <<>> THEN None ELSE Build(whole[1].rule, whole[1].parts)
  /\ phase' = "done"
  /\ UNCHANGED <<grammar, first, asked, work>>

Step == Open \/ Ask \/ Finish \/ Fill \/ Scan \/ Advance \/ Answer

Spec == Init /\ [][Step]_vars

(***************************************************************************)
(* Properties                                                              *)
(***************************************************************************)

\* What a term writes: its rule's symbols, each hole the part that is pushed
\* in its place.
RECURSIVE Written(_)

Filled(rule, k) == Cardinality({j \in 1..k : rule.symbols[j].hole})

Written(term) ==
  IF term.variable # None THEN <<term.variable>>
  ELSE LET rule == CHOOSE r \in Range(grammar.rules) : r.label = term.label
           Part(k) == term.children[CHOOSE p \in DOMAIN rule.order : rule.order[p] = Filled(rule, k)]
       IN FlattenSeq([k \in DOMAIN rule.symbols |->
                        IF rule.symbols[k].hole THEN Written(Part(k)) ELSE <<rule.symbols[k].of>>])

\* An item has read, from where it began to where it stands, what its parts
\* and tokens write, whatever order its parts are pushed in; and a row holds
\* one item for each place in a rule and origin, so that a rule that begins
\* with what it yields does not feed itself without end.
ItemsSpell ==
  \A i \in DOMAIN chart :
    /\ \A item \in Range(chart[i]) :
         LET symbols == Rule(item.rule).symbols IN
         FlattenSeq([k \in 1..item.dot |->
                       IF symbols[k].hole THEN Written(item.parts[Filled(Rule(item.rule), k)])
                       ELSE <<symbols[k].of>>])
           = SubSeq(text, item.origin + 1, i)
    /\ \A j, k \in DOMAIN chart[i] :
         /\ chart[i][j].rule = chart[i][k].rule
         /\ chart[i][j].dot = chart[i][k].dot
         /\ chart[i][j].origin = chart[i][k].origin
         => j = k

\* "or a defect if they spell none": the chart spells what it says it has
\* read, and a statement is read when the grammar derives it, and only then,
\* though a typecode is offered once at a position and a rule only before a
\* token that opens it.
SpellsWhatItCan ==
  /\ ItemsSpell
  /\ phase = "done" => (found # None <=> derived)

=============================================================================
