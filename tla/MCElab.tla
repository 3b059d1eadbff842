-------------------------------- MODULE MCElab --------------------------------
(***************************************************************************)
(* What an elaboration keeps, part by part: an interned text, a library,   *)
(* and a notation with room for two literals, of which the code names one, *)
(* asked for by three threads; the scopes of every page of up to MaxIds    *)
(* steps and lets, with blocks of parts and proof blocks; the              *)
(* `inequalities` steps of up to two lines of up to two sentences each;    *)
(* and the chains of up to three lines over three terms.                   *)
(***************************************************************************)
EXTENDS Interner, Frames, Chains, TLC

CONSTANTS
  Chosen, Asks, Grid

VARIABLES
  on, ordersAsk, stage, told, surplus, written

TermPairs == {<<"x", "y">>, <<"y", "x">>, <<"y", "z">>, <<"z", "y">>, <<"x", "z">>, <<"z", "x">>}
OneBetween(rels) == {Related(e[1], rel, e[2]) : rel \in rels, e \in TermPairs}
ChainLines ==
  {<<r>> : r \in OneBetween({"=", "<", ">="})}
    \cup {<<Related("x", "=", "y"), Related("y", "<=", "z")>>,
          <<Related("y", "<", "z"), Related("x", "<", "z")>>,
          <<Related("x", "=", "y"), Related("y", "=", "z"), Related("x", "=", "z")>>,
          <<Related("y", "=", "z"), Related("x", "=", "z")>>,
          <<Related("x", "/=", "y")>>, <<Related("x", "/=", "z"), Related("x", ">=", "z")>>}
ChainSteps ==
  {[rel |-> rel, right |-> term, mod |-> 0] :
     rel \in {"=", "<", "<=", ">", ">="}, term \in {"x", "y", "z"}}
    \cup {[rel |-> "mod", right |-> term, mod |-> mod] : term \in {"x", "y", "z"}, mod \in {0, 2, 3}}
EachTo(rels, term) == {Related("x", rel, term) : rel \in rels}
ChainClaims ==
  [transitivity |-> EachTo({"=", "/=", "<", "<=", ">", ">="}, "z") \cup EachTo({"=", "<", ">="}, "x"),
   antisymmetry |-> EachTo({"=", "<="}, "z"),
   calculation  |-> EachTo({"=", "<", "<=", ">", ">="}, "z") \cup EachTo({"=", ">"}, "x")
                     \cup {[left |-> "x", rel |-> "mod", right |-> "z", mod |-> mod] : mod \in {2, 3}}]
ChainMost == [transitivity |-> 3, antisymmetry |-> 2, calculation |-> 3]

O == INSTANCE Orders WITH
  ask <- ordersAsk

Off == "off"

\* Nothing standing, as the properties of Frames take it.
framesOff ==
  /\ frames = <<>> /\ scope = Off /\ facts = Off /\ lines = Off
  /\ names = Off /\ letters = Off /\ closers = Off /\ blocks = Off
  /\ last = Off /\ contradicted = Off /\ used = Off /\ fresh = Off
  /\ ended = Off /\ read = <<>> /\ made = Nothing /\ refused = FALSE

ordersVars ==
  <<ordersAsk, stage, told, surplus, written>>
ordersOff ==
  /\ ordersAsk = Off /\ stage = Off /\ told = Off /\ surplus = Off
  /\ written = Off

\* No step of a chain, as the properties of Chains take it.
chainsOff ==
  /\ method = Off /\ claim = Off /\ given = Off /\ verdict = Off
  /\ built = Off

allVars == <<on, vars, framesVars, ordersVars, chainsVars>>

\* Two notations, each with the empty text for a literal, where one has a
\* number; two literals, where one has a place; and a library.
MCTexts == {"", "x", "y", "sum", "max", "<", ">", "proved"}
MCAsked == MCTexts \ {"", "y"}
MCKind ==
  [x \in MCTexts |->
     CASE x \in {"", "x", "y"} -> "symbol" [] x \in {"sum", "max"} -> "notation"
       [] x \in {"<", ">"} -> "literal" [] x = "proved" -> "library"]
MCSpelt ==
  [x \in MCTexts |->
     CASE x \in {"sum", "max"} -> {""} [] x = "<" -> {"x"} [] x = ">" -> {"y"}
       [] x = "proved" -> {"x"} [] OTHER -> {}]
MCKnown == [x \in MCTexts |-> IF x = "" THEN 1 ELSE 0]
MCKnownOf == [k \in Kinds |-> IF k = "library" THEN 0 ELSE 1]
MCCapacity == [k \in {"notation", "literal"} |-> 2]

\* Expressions over a constant and three atoms, and the sentences of them.
Expr(c, x, y, z) == (0 :> c) @@ (1 :> x) @@ (2 :> y) @@ (3 :> z)
Zero == Expr(0, 0, 0, 0)
One == Expr(1, 0, 0, 0)
X == Expr(0, 1, 0, 0)
Y == Expr(0, 0, 1, 0)
Z == Expr(0, 0, 0, 1)
Rel(rel, a, b) == [rel |-> rel, neg |-> FALSE, left |-> a, right |-> b]
Not(s) == [s EXCEPT !.neg = TRUE]

\* Steps that cite a line of two sentences, two lines of one, or a line of
\* two and another; and steps whose sum is of a sentence of each.
Sentences ==
  {Rel("<", X, Y), Rel("<=", X, Y), Rel("=", X, Y), Rel("<=", Y, X),
   Rel("<", Zero, Z), Rel("in", X, X), Not(Rel("=", X, Y)),
   Not(Rel("<=", X, Z)), Not(Rel("=", Y, Z))}
SumXYZ == Expr(0, 0, 1, 1)
OrderClaims ==
  {<<s>> : s \in {Rel("<", X, Y), Rel("<=", X, Y), Rel("=", X, Y),
     Rel("<", Zero, X), Rel("<=", X, SumXYZ), Rel("<", X, SumXYZ),
     Rel("<=", X, Expr(1, 1, 0, 0)), Rel("<", X, Expr(0, 1, 1, 0)),
     Not(Rel("=", Y, X)), Not(Rel("<", Z, Y)), Not(Rel("=", X, Zero))}}
  \cup {<<Rel("<=", X, Y), Rel("<", Zero, Z)>>, <<Rel("=", X, Y), Not(Rel("=", Y, Z))>>}
TwoOf == {p \in Sentences \X Sentences : p[1] # p[2]}
Summed == <<Rel("<", Expr(0, 1, 1, 0), Expr(1, 0, 1, 1))>>
SumsOf(said) == {[lines |-> said, claim |-> Summed]}
MCAsks ==
  [lines : {<<<<p[1], p[2]>>>> : p \in TwoOf} \cup {<<<<p[1]>>, <<p[2]>>>> : p \in TwoOf}
             \cup {<<<<Rel("<", X, Y), Rel("<", Zero, Z)>>, <<s>>>> : s \in Sentences},
   claim : OrderClaims]
    \cup UNION {SumsOf(<<<<Rel("<", X, Y), Rel("<", Zero, Z)>>, <<s, Rel("<=", Y, One)>>>>) :
                  s \in {Rel("<=", X, Y), Not(Rel("=", Y, Z))}}
MCGrid == -3 .. 3

\* One part is chosen, and the others stand still.
Still == Init

MCInit ==
  /\ on \in Chosen
  /\ IF on = "interner" THEN Init ELSE Still
  /\ IF on = "frames" THEN InitFrames ELSE framesOff
  /\ IF on = "orders" THEN O!Init ELSE ordersOff
  /\ IF on = "chains" THEN InitChains ELSE chainsOff

MCNext ==
  \/ on = "interner" /\ Next /\ UNCHANGED <<on, framesVars, ordersVars, chainsVars>>
  \/ on = "frames" /\ NextFrames /\ UNCHANGED <<on, vars, ordersVars, chainsVars>>
  \/ on = "orders" /\ O!Next /\ UNCHANGED <<on, vars, framesVars, chainsVars>>
  \/ on = "chains" /\ NextChains /\ UNCHANGED <<on, vars, framesVars, ordersVars>>

MCFairness ==
  \A t \in Threads : WF_vars(on = "interner" /\ Go(t))

MCSpec == MCInit /\ [][MCNext]_allVars /\ MCFairness

\* What each part must do (Interner and Orders say what each means; what
\* Frames and Chains must do is checked as they state it).
AsksAnswered == on = "interner" => AskEnds
AcceptedFollows == on = "orders" => O!AcceptedFollows
RefusedForCause == on = "orders" => O!RefusedForCause
AcceptedIsWritten == on = "orders" => O!AcceptedIsWritten

=============================================================================
