------------------------------ MODULE MCDatabase ------------------------------
(***************************************************************************)
(* What is built, written again and read, part by part: the builder over a *)
(* variable, a term of one part, an axiom, a rule with a hypothesis and a  *)
(* label that keeps two variables apart; steps renumbered in three         *)
(* proofs: a block between steps, a block in a block with an induction     *)
(* hypothesis, and a block whose steps are cited from its later ones; and  *)
(* the library of statements that write one variable or two.               *)
(***************************************************************************)
EXTENDS Builder, Renumber, Library, TLC

CONSTANTS Chosen

VARIABLES on

Off == "off"

\* No lines, in which nothing is cited.
fileOff == file = <<>> /\ meant = Off /\ writes = Off

\* No statement, and no database read.
libraryOff ==
  /\ stream = Off /\ scopes = Off /\ sigs = Off /\ reading = TRUE
  /\ added = Off

allVars == <<on, vars, fileVars, libraryVars>>

Sig(kind, floats, essentials, says, apart) ==
  [kind |-> kind, floats |-> floats, essentials |-> essentials,
   statement |-> says, apart |-> apart]

MCSigs ==
  [vx |-> Sig("float", <<>>, <<>>, <<"x">>, {}),
   vy |-> Sig("float", <<>>, <<>>, <<"y">>, {}),
   suc |-> Sig("term", <<"A">>, <<>>, <<"S", "A">>, {}),
   ax |-> Sig("proof", <<"A">>, <<>>, <<"A">>, {}),
   up |-> Sig("proof", <<"A">>, <<<<"A">>>>, <<"S", "A">>, {}),
   two |-> Sig("proof", <<"A", "B">>, <<>>, <<"A", "B">>, {<<1, 2>>})]

Perms == Permutations(Addresses) \cup Permutations(Symbols)

Line(number, cites) == [number |-> number, cites |-> cites]

MCTheorems ==
  {<<Line(<<1>>, <<>>), Line(<<2>>, <<<<1>>>>), Line(<<2, 1>>, <<<<1>>>>),
     Line(<<2, 2>>, <<<<2, 1>>, <<1>>>>), Line(<<3>>, <<<<1>>>>), Line(<<4>>, <<<<3>>>>)>>,
   <<Line(<<1>>, <<>>), Line(<<>>, <<<<1>>>>), Line(<<1, 1>>, <<>>), Line(<<1, 1, 1>>, <<>>),
     Line(<<1, 1, 2>>, <<<<1, 1, 1>>>>), Line(<<1, 2>>, <<>>), Line(<<2>>, <<<<1>>>>)>>,
   <<Line(<<1>>, <<>>), Line(<<1, 1>>, <<>>), Line(<<1, 2>>, <<<<1, 1>>>>),
     Line(<<1, 3>>, <<<<1, 2>>, <<1, 1>>>>), Line(<<1, 3, 1>>, <<<<1, 2>>>>), Line(<<2>>, <<>>)>>}
MCShifts == {-2, -1, 1, 2}

MCBodies == {<<a>> : a \in Symbols} \cup {b \in Symbols \X Symbols : b[1] # b[2]}

\* One part is chosen, and the others stand still.
Still == Init

MCInit ==
  /\ on \in Chosen
  /\ IF on = "builder" THEN Init ELSE Still
  /\ IF on = "renumber" THEN InitFile ELSE fileOff
  /\ IF on = "library" THEN InitLibrary ELSE libraryOff

MCNext ==
  \/ on = "builder" /\ Next /\ UNCHANGED <<on, fileVars, libraryVars>>
  \/ on = "renumber" /\ NextFile /\ UNCHANGED <<on, vars, libraryVars>>
  \/ on = "library" /\ NextLibrary /\ UNCHANGED <<on, vars, fileVars>>

MCSpec == MCInit /\ [][MCNext]_allVars
=============================================================================
