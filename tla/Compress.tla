------------------------------- MODULE Compress -------------------------------
(***************************************************************************)
(* src/src/mm/compress.rs: a proof numbered by its distinct subproofs,     *)
(* from its text (shapes) or from the shared steps it was built as         *)
(* (shapes_of); written in the compressed format (compressed); and read    *)
(* back (expand).                                                          *)
(*                                                                         *)
(* A proof is a sequence of steps, the last its root, each a label and the *)
(* earlier steps it is applied to; one step may stand in many places, and  *)
(* two steps may be alike.  Numbers count from 1 here; indices written in  *)
(* letters count from 0, as the format does.  The format's twenty last     *)
(* digits and five high ones are parameters.                               *)
(***************************************************************************)
EXTENDS Naturals, Sequences, SequencesExt, FiniteSets, FiniteSetsExt

CONSTANTS
  Arity,       \* how many things each label applies to
  Proofs,      \* the proofs: sequences of <<label, steps>>
  Mandatories, \* the theorem's own hypotheses, as sequences of labels
  Lows, Highs  \* how many last digits and how many high digits there are

DigitsAssumption == Lows \in Nat \ {0} /\ Highs \in Nat \ {0}

VARIABLES
  proof, mandatory,
  text,  \* the proof in normal format: its labels in order
  way,   \* "shapes" of its text, or "shapes_of" its steps
  phase, \* "number", "write", "read", "done" or "panic"
  stack, \* numbers of the subproofs read from the text
  work,  \* what is to be walked: <<step or number, done>>, the top last
  number,\* the number of each step walked
  kinds, \* the distinct subproofs: <<label, numbers>>
  next,  \* the token read next
  keeping, \* the subproofs worth a name
  order, \* the labels the parentheses name
  kept,  \* the subproofs named so far, in order
  out,   \* the letters written
  run,   \* the digits of the number being read
  block, \* the labels the letters index
  read,  \* the reader's stack of texts
  saved  \* the reader's saved texts

numbering == <<stack, number, kinds>>
reader == <<run, block, read, saved>>
given == <<proof, mandatory, text, way>>
worth == <<keeping, order>>
vars == <<given, phase, numbering, worth, work, next, kept, out, reader>>

Z == <<"Z", 0>>

\* The text of a proof in normal format, of each of its steps.
NormalTexts(steps) ==
  LET T[k \in DOMAIN steps] ==
        FlattenSeq([i \in DOMAIN steps[k][2] |-> T[steps[k][2][i]]]) \o <<steps[k][1]>>
  IN T

Init ==
  /\ proof \in Proofs /\ mandatory \in Mandatories
  /\ text = NormalTexts(proof)[Len(proof)]
  /\ way \in {"shapes", "shapes_of"}
  /\ phase = "number"
  /\ stack = <<>> /\ number = <<>> /\ kinds = <<>> /\ next = 1
  /\ work = IF way = "shapes" THEN <<>> ELSE << <<Len(proof), FALSE>> >>
  /\ keeping = {} /\ order = <<>>
  /\ kept = <<>> /\ out = <<>>
  /\ run = 0 /\ block = <<>> /\ read = <<>> /\ saved = <<>>

(***************************************************************************)
(* Numbering                                                               *)
(***************************************************************************)

\* A subproof's number, and the subproofs with it among them.
Shaped(key) ==
  IF key \in Range(kinds)
  THEN [kinds |-> kinds, at |-> CHOOSE k \in DOMAIN kinds : kinds[k] = key]
  ELSE [kinds |-> Append(kinds, key), at |-> Len(kinds) + 1]

\* How many places each subproof stands in, no higher than two: one for the
\* root, and for each part of a subproof as many as that stands in.
Standing(root) ==
  LET S[k \in DOMAIN kinds] ==
        Min({2, (IF k = root THEN 1 ELSE 0) +
                MapThenSumSet(LAMBDA p : S[p] * Cardinality({i \in DOMAIN kinds[p][2] : kinds[p][2][i] = k}),
                              (k + 1)..Len(kinds))})
  IN S

\* The labels the parentheses name, as they are first written, without the
\* theorem's own hypotheses.
Order ==
  FoldLeft(LAMBDA named, kind :
             IF kind[1] \in Range(named) \cup Range(mandatory) THEN named ELSE Append(named, kind[1]),
           <<>>, kinds)

\* The subproofs worth a name are settled, and the labels, before any is
\* written.
BeginWrite(root) ==
  /\ phase' = "write"
  /\ work' = << <<root, FALSE>> >>
  /\ keeping' = LET stands == Standing(root) IN {k \in DOMAIN kinds : kinds[k][2] # <<>> /\ stands[k] > 1}
  /\ order' = Order
  /\ UNCHANGED <<given, numbering, next, kept, out, reader>>

\* The parts a label of the text is applied to.
Taken(label) == SubSeq(stack, Len(stack) - Arity[label] + 1, Len(stack))

\* One token of the text.
Token ==
  /\ phase = "number" /\ way = "shapes" /\ next <= Len(text)
  /\ LET label == text[next]
         shaped == Shaped(<<label, Taken(label)>>) IN
     /\ kinds' = shaped.kinds
     /\ stack' = Append(SubSeq(stack, 1, Len(stack) - Arity[label]), shaped.at)
  /\ next' = next + 1
  /\ UNCHANGED <<given, worth, phase, work, number, kept, out, reader>>

TextShaped ==
  /\ phase = "number" /\ way = "shapes" /\ next > Len(text)
  /\ BeginWrite(stack[1])

\* The parts of a walked thing, to be walked before it: the first on top.
Under(at, parts) == <<<<at, TRUE>>>> \o Reverse([i \in DOMAIN parts |-> <<parts[i], FALSE>>])

\* One step walked: numbered already, put under its parts, or numbered.
Walk ==
  /\ phase = "number" /\ way = "shapes_of" /\ work # <<>>
  /\ LET step == Last(work)[1]
         parts == proof[step][2]
         shaped == Shaped(<<proof[step][1], [i \in DOMAIN parts |-> number[parts[i]]]>>) IN
     IF step \in DOMAIN number
     THEN work' = Front(work) /\ UNCHANGED <<number, kinds>>
     ELSE IF parts # <<>> /\ ~Last(work)[2]
     THEN work' = Front(work) \o Under(step, parts) /\ UNCHANGED <<number, kinds>>
     ELSE /\ kinds' = shaped.kinds
          /\ number' = [k \in DOMAIN number \cup {step} |->
                          IF k = step THEN shaped.at ELSE number[k]]
          /\ work' = Front(work)
  /\ UNCHANGED <<given, worth, phase, stack, next, kept, out, reader>>

StepsShaped ==
  /\ phase = "number" /\ way = "shapes_of" /\ work = <<>>
  /\ BeginWrite(number[Len(proof)])

(***************************************************************************)
(* Writing                                                                 *)
(***************************************************************************)

\* The first indices are the hypotheses, then the labels named.
Index(label) == SelectInSeq(mandatory \o order, LAMBDA l : l = label) - 1

\* A mutant of Letters: a high digit counts from zero, as in a plain base.
LettersPlain(index) ==
  LET High[n \in 0..index] ==
        IF n = 0 THEN <<>> ELSE Append(High[n \div Highs], <<"high", n % Highs>>)
  IN Append(High[index \div Lows], <<"last", index % Lows>>)

\* One index in letters: a last digit, and a bijective base above it.
Letters(index) ==
  LET High[n \in 0..index] ==
        IF n = 0 THEN <<>> ELSE Append(High[(n - 1) \div Highs], <<"high", (n - 1) % Highs>>)
  IN Append(High[index \div Lows], <<"last", index % Lows>>)

\* The place of a subproof among those kept, from 0.
KeptAt(at) == (CHOOSE n \in DOMAIN kept : kept[n] = at) - 1

\* Past the labels, the subproofs kept are named in the order they are
\* finished.
Past == Len(mandatory) + Len(order)

\* One thing written: finished, and kept where it is worth it; named, being
\* kept already; or put under its parts.
Write ==
  /\ phase = "write" /\ work # <<>>
  /\ LET at == Last(work)[1] IN
     IF Last(work)[2]
     THEN /\ out' = out \o Letters(Index(kinds[at][1])) \o (IF at \in keeping THEN <<Z>> ELSE <<>>)
          /\ kept' = IF at \in keeping THEN Append(kept, at) ELSE kept
          /\ work' = Front(work)
     ELSE IF at \in Range(kept)
     THEN out' = out \o Letters(Past + KeptAt(at)) /\ work' = Front(work) /\ UNCHANGED kept
     ELSE work' = Front(work) \o Under(at, kinds[at][2]) /\ UNCHANGED <<out, kept>>
  /\ UNCHANGED <<given, worth, phase, numbering, next, reader>>

Written ==
  /\ phase = "write" /\ work = <<>>
  /\ phase' = "read"
  /\ next' = 1
  /\ block' = mandatory \o order
  /\ UNCHANGED <<given, worth, numbering, work, kept, out, run, read, saved>>

(***************************************************************************)
(* Reading back                                                            *)
(***************************************************************************)

\* What a number read does: a label takes its parts from the stack, and a
\* number past the labels takes what was saved.
Apply(n) ==
  IF n < Len(block)
  THEN LET label == block[n + 1]
           under == Len(read) - Arity[label] IN
       IF under < 0 THEN phase' = "panic" /\ UNCHANGED read
       ELSE /\ read' = Append(SubSeq(read, 1, under),
                              FlattenSeq(SubSeq(read, under + 1, Len(read))) \o <<label>>)
            /\ UNCHANGED phase
  ELSE IF n - Len(block) < Len(saved)
       THEN read' = Append(read, saved[n - Len(block) + 1]) /\ UNCHANGED phase
       ELSE phase' = "panic" /\ UNCHANGED read

\* What a mark saves.
Saves == Last(read)

\* One letter read.
Read ==
  /\ phase = "read" /\ next <= Len(out)
  /\ next' = next + 1
  /\ CASE out[next] = Z ->
            /\ saved' = Append(saved, Saves)
            /\ UNCHANGED <<run, read, phase>>
       [] out[next][1] = "high" ->
            /\ run' = Highs * run + out[next][2] + 1
            /\ UNCHANGED <<saved, read, phase>>
       [] OTHER ->
            /\ run' = 0
            /\ Apply(Lows * run + out[next][2])
            /\ UNCHANGED saved
  /\ UNCHANGED <<given, worth, numbering, work, kept, out, block>>

ReadAll ==
  /\ phase = "read" /\ next > Len(out)
  /\ phase' = "done"
  /\ UNCHANGED <<given, worth, numbering, work, next, kept, out, reader>>

Next ==
  \/ Token \/ TextShaped \/ Walk \/ StepsShaped
  \/ Write \/ Written \/ Read \/ ReadAll

Spec == Init /\ [][Next]_vars

(***************************************************************************)
(* Properties                                                              *)
(***************************************************************************)

\* A compressed proof reads back as the proof in normal format it was
\* written from, however its steps were shared; the reader never takes a
\* step that was not saved, or a part that is not on the stack.
ReadsBack == phase # "panic" /\ (phase = "done" => read = <<text>>)

=============================================================================
