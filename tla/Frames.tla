------------------------------- MODULE Frames -------------------------------
(***************************************************************************)
(* The scopes a proof is elaborated under (src/elab/scopes.rs and the main *)
(* loop of src/elab/elaborate.rs).                                         *)
(*                                                                         *)
(* Every scope is a conjunction of what has been assumed, here the         *)
(* sequence of assumptions.  A proof in hand is known by the scope it      *)
(* stands under: that is what decides whether the lemma a block closes     *)
(* with takes it.  A frame is kept for each assumption; obtains and lets   *)
(* leave a closer, spent where the block they stand in ends; a block gives *)
(* back the names, letters and lines it was opened with.                   *)
(*                                                                         *)
(* The page is read one step at a time, and may be any the checker         *)
(* accepts: what a step is, and where a block ends, is chosen freely.      *)
(***************************************************************************)
EXTENDS Integers, SequencesExt

CONSTANTS
  MaxIds,      \* how many steps and lets the page writes
  Bys,         \* the block methods it uses
  Shadowing,   \* whether a part may give a label in use outside its block
  OwnersEnd    \* whether a step owning a block may end a case or a proof
               \* block by contradicting a line

ASSUME FramesAssumption ==
  /\ MaxIds \in Nat
  /\ Bys \subseteq {"proof", "contradiction", "cases", "induction"}
  /\ Shadowing \in BOOLEAN /\ OwnersEnd \in BOOLEAN

VARIABLES
  frames,        \* one entry to an assumption: the scope, what was added, what is known
  scope,         \* what is assumed where the next step stands
  facts,         \* each claim known there, with the scope its proof stands under
  lines,         \* each label, with its line
  names,         \* the names in hand
  letters,       \* the letters the open blocks' lets introduced
  closers,       \* what the obtains and lets have still to discharge
  blocks,        \* the blocks open, the outermost first
  last,          \* the label of the line last kept
  contradicted,  \* what a contradiction block's last step contradicts
  used,          \* how many ids are used
  fresh,         \* a block, a part or a let has opened, and no step of it stands yet
  ended,         \* whether the last step ended its block by a contradiction
  read,          \* the labels the checker reads in each open block
  made,          \* the scope the theorem's proof stands under, once made
  refused        \* whether the elaborator or the kernel refused what was built

framesVars == <<frames, scope, facts, lines, names, letters, closers, blocks, last,
          contradicted, used, fresh, ended, read, made, refused>>

NoPart == -1
Misfit == << <<"refused", 0>> >>
Hypothesis == <<"J">>       \* the label of the theorem's hypothesis
Nothing == << <<"none", 0>> >>

\* A function with one more value, and one laid over another.
With(f, x, y) == [z \in DOMAIN f \cup {x} |-> IF z = x THEN y ELSE f[z]]
Over(g, f) == [z \in DOMAIN f \cup DOMAIN g |-> IF z \in DOMAIN g THEN g[z] ELSE f[z]]
Only(x, y) == [z \in {x} |-> y]

Line(claim, under, about) == [claim |-> claim, under |-> under, about |-> about]

(***************************************************************************)
(* Scopes and frames                                                       *)
(***************************************************************************)

\* A proof under `at`, said under the scope with one more thing assumed.
Weakened(proof, at, added) == IF proof = at THEN Append(at, added) ELSE Misfit

\* A proof made under `at`, said under a scope that is `at` widened.
LiftedTo(proof, at, here) == IF IsPrefix(at, here) /\ proof = at THEN here ELSE Misfit

Top == Last(blocks)

\* Where the elaborator stands, as the operations below hand it on, with the
\* innermost block open.
Now == [frames |-> frames, scope |-> scope, facts |-> facts, lines |-> lines,
        names |-> names, letters |-> letters, closers |-> closers, opened |-> <<>>,
        b |-> IF blocks = <<>> THEN <<>> ELSE Top]

\* What is known, said under a scope with one more thing assumed.
Lifted(w, added) ==
  With([c \in DOMAIN w.facts |-> Weakened(w.facts[c], w.scope, added)], added, Append(w.scope, added))

\* As it would be with what has been proved since left off the frame widened.
UpdatedNot(w) == w.frames

\* The frames, the innermost brought up to what has been proved there.
Updated(w) ==
  IF Last(w.frames).scope = w.scope
  THEN Append(Front(w.frames), [Last(w.frames) EXCEPT !.known = w.facts])
  ELSE w.frames

\* One more assumption: the facts carried in, the frame widened brought up to
\* what has been proved there, and a frame of its own pushed.
Widen(w, added) ==
  LET inner == Append(w.scope, added) IN
  [w EXCEPT !.scope = inner, !.facts = Lifted(w, added),
            !.frames = Append(Updated(w), [scope |-> inner, added |-> added, known |-> Lifted(w, added)])]

\* Bring a proof from an outer frame in to the innermost, one frame at a time.
Carry(proof, index) ==
  LET into(under, k) == Weakened(under, frames[k].scope, frames[k + 1].added)
      over[k \in index .. Len(frames)] == IF k = index THEN proof ELSE into(over[k - 1], k - 1)
  IN over[Len(frames)]

FramesFacts(index) == IF index = Len(frames) THEN facts ELSE frames[index].known

(***************************************************************************)
(* Lines                                                                   *)
(***************************************************************************)

\* As it would be with the proof the line was made with.
CarriedAsMade(label, there, known) == there[label].under

\* A line's proof said where the step citing it sits: the scope's copy, or the
\* line's own where the scope has none.
CarriedIn(label, there, known) ==
  LET line == there[label] IN
  IF line.claim \in DOMAIN known THEN known[line.claim] ELSE line.under

Carried(label) == CarriedIn(label, lines, facts)

\* The lines known that say something of every member of a set.
General(w) == {l \in DOMAIN w.lines : w.lines[l].claim[1] = "line" /\ w.lines[l].claim \in DOMAIN w.facts}

\* Inside one let x \in X, a line "for all a \in X, P(a)" says P(x) as well;
\* where two letters fit it is read at neither.
ReadAtLetters(w) ==
  LET x == w.letters[1]
      required == LiftedTo(x.under, x.at, w.scope)
      Both(claim) == <<"at", claim[2], x.letter>>
      Joined(claim) == IF w.facts[claim] = w.scope THEN required ELSE Misfit
      said == {w.lines[l].claim : l \in General(w)}
  IN IF Len(w.letters) # 1 \/ required = Misfit THEN w
     ELSE [w EXCEPT
             !.facts = Over([c \in {Both(claim) : claim \in said} |-> Joined(<<"line", c[2]>>)], @),
             !.lines = Over([l \in General(w) |->
                               [w.lines[l] EXCEPT !.claim = Both(w.lines[l].claim),
                                                   !.under = Joined(w.lines[l].claim)]], @)]

\* An opener laid down: what it assumes, the letter a let introduces, its line.
Lay(w, added, label) ==
  LET let   == added[1] = "let"
      wider == Widen(IF let THEN [w EXCEPT !.names = @ \cup {added[2]}] ELSE w, added)
      held  == wider.facts[added]
      lettered == [wider EXCEPT
                     !.letters = Append(@, [letter |-> added[2], at |-> wider.scope, under |-> held])]
      said == IF let THEN ReadAtLetters(lettered) ELSE wider
  IN [said EXCEPT !.lines = With(@, label, Line(added, held, 0)), !.opened = Append(@, added)]

(***************************************************************************)
(* Closers                                                                 *)
(***************************************************************************)

\* An obtain or a let discharged: the goal is proved under what it added and
\* does not name what it named.
Close(closer, proof, about) ==
  IF proof = closer.scope \o closer.added /\ about # closer.name THEN closer.scope ELSE Misfit

Discharged(inside, proof, about) ==
  LET Under[k \in 0 .. Len(inside)] ==
        IF k = 0 THEN proof ELSE Close(inside[Len(inside) + 1 - k], Under[k - 1], about)
  IN Under[Len(inside)]

After(closing, at) == SubSeq(closing, at + 1, Len(closing))

(***************************************************************************)
(* Parts                                                                   *)
(***************************************************************************)

CaseOf(b, p) == <<"case", b.number, p>>

\* As it would be with the part's end left as its last step made it.
EndCaseUnspent(w) ==
  IF w.b.caseAt = NoPart THEN w ELSE [w EXCEPT !.closers = SubSeq(@, 1, w.b.caseAt)]

\* The closers raised inside a part, spent where the part ends.
EndCase(w) ==
  IF w.b.caseAt = NoPart THEN w
  ELSE LET inside == After(w.closers, w.b.caseAt)
           spent  == w.b.entered # NoPart /\ w.b.entered \in DOMAIN w.b.parts
           end    == w.b.parts[w.b.entered]
           under  == Discharged(inside, end.under, end.about)
           parts  == [w.b.parts EXCEPT ![w.b.entered] = [end EXCEPT !.under = under]]
       IN [w EXCEPT !.closers = SubSeq(@, 1, w.b.caseAt), !.b.parts = IF spent THEN parts ELSE @]

\* The frames and names as the block found them, and the part's own
\* assumption on them.
EnterCase(w, p) ==
  LET back == [w EXCEPT !.frames = SubSeq(@, 1, w.b.frame), !.names = w.b.named,
                        !.scope = w.b.outer, !.facts = w.b.outside]
      inner == Widen(back, CaseOf(w.b, p))
  IN [inner EXCEPT
        !.b.entered = p,
        !.lines = With(@, w.b.labels[p], Line(CaseOf(w.b, p), inner.facts[CaseOf(w.b, p)], 0))]

\* The base part of an induction runs under the block's own scope; its step
\* part fixes the claim's letter and assumes the claim of it.
EnterInduction(w, p) ==
  LET back == [w EXCEPT !.frames = SubSeq(@, 1, w.b.frame), !.names = w.b.named,
                        !.letters = SubSeq(@, 1, w.b.lettersAt),
                        !.scope = w.b.outer, !.facts = w.b.outside, !.b.entered = p]
  IN IF p = 0 THEN back
     ELSE Lay(Lay(back, <<"let", w.b.number>>, <<"K", w.b.number>>),
              <<"assume", w.b.number>>, w.b.labels[1])

Enter(w, p) == IF w.b.by = "induction" THEN EnterInduction(w, p) ELSE EnterCase(w, p)

\* A case that is the claim, and comes before part `before`: it has no steps,
\* and what it shows is what it assumes.
SettlePart(w, p, before) ==
  IF p \notin w.b.claimed \/ p \in DOMAIN w.b.parts \/ p >= before THEN w
  ELSE LET in == EnterCase(EndCase(w), p)
       IN [in EXCEPT !.b.caseAt = Len(in.closers),
                     !.b.parts = With(@, p, [under |-> in.facts[CaseOf(w.b, p)], about |-> w.b.about])]

SettleClaimed(w, before) == SettlePart(SettlePart(w, 0, before), 1, before)

(***************************************************************************)
(* What the page may write next                                            *)
(***************************************************************************)
Parted(b) == b.by \in {"cases", "induction"}

\* A step stands in a part once the part is entered, and after nothing that
\* ended its block.
StepsHere ==
  /\ ~refused /\ made = Nothing /\ ended = "no" /\ used < MaxIds
  /\ blocks # <<>> => (Parted(Top) => Top.entered # NoPart)

\* What a claim may name: nothing an obtain or a let named, or the latest.
Abouts == {0} \cup {Last(closers).name : i \in {j \in {Len(closers)} : j > 0}}

\* The labels in force where the next step stands, the innermost first, and
\* the claim the checker reads each as.
Citable == UNION {DOMAIN read[i] : i \in DOMAIN read}

Checked(label) ==
  LET in == {i \in DOMAIN read : label \in DOMAIN read[i]}
  IN read[CHOOSE i \in in : \A j \in in : j <= i][label]

\* What the checker reads with one more line in the innermost block.
Noted(reading, label, claim) ==
  Append(Front(reading), With(Last(reading), label, claim))

\* Whether the block's last line is what it owes.  A block that ends by a
\* contradiction owes no claim; any other line it ends on names nothing the
\* block's obtains and lets named, which what it owes does not.
EndsAsOwed(b) ==
  \/ ended # "no"
  \/ /\ b.by # "contradiction"
     /\ IF b.by = "cases" THEN lines[last].about = b.about
        ELSE lines[last].about \notin {c.name : c \in ToSet(After(closers, b.openedAt))}

\* The part the page goes on to, or NoPart: the first with steps still to come.
NextPart(b) ==
  LET left == {p \in {0, 1} : p \notin b.claimed /\ p \notin DOMAIN b.parts /\ p # b.entered}
  IN IF left = {} THEN NoPart ELSE CHOOSE p \in left : \A q \in left : p <= q

Become(w) ==
  /\ frames' = w.frames /\ scope' = w.scope /\ facts' = w.facts
  /\ lines' = w.lines /\ names' = w.names /\ letters' = w.letters
  /\ closers' = w.closers

(***************************************************************************)
(* Steps                                                                   *)
(***************************************************************************)
InitFrames ==
  /\ frames = << [scope |-> <<>>, added |-> <<>>, known |-> Only(<<"hyp", 0>>, <<>>)] >>
  /\ scope = <<>> /\ facts = Only(<<"hyp", 0>>, <<>>)
  /\ lines = Only(Hypothesis, Line(<<"hyp", 0>>, <<>>, 0))
  /\ read = << Only(Hypothesis, <<"hyp", 0>>) >>
  /\ names = {} /\ letters = <<>> /\ closers = <<>> /\ blocks = <<>>
  /\ last = Hypothesis /\ contradicted = Nothing
  /\ used = 0 /\ fresh = TRUE /\ ended = "no" /\ made = Nothing /\ refused = FALSE

\* The part the step stands in ends on it, unless a later one takes its place.
PartEnds(end) ==
  blocks' = IF blocks # <<>> /\ Parted(Top)
            THEN Append(Front(blocks), [Top EXCEPT !.parts = With(@, Top.entered, end)])
            ELSE blocks

Keep(label, line, w) == Become([w EXCEPT !.lines = With(@, label, line)])

\* A step that opens nothing: proved under the scope it stands at.
TakeStep ==
  /\ StepsHere
  /\ \E about \in Abouts :
       LET n == used + 1
           claim == <<"line", n>>
       IN /\ Keep(<<"step", n>>, Line(claim, scope, about), [Now EXCEPT !.facts = With(@, claim, scope)])
          /\ PartEnds([under |-> scope, about |-> about])
          /\ last' = <<"step", n>> /\ used' = n
          /\ read' = Noted(read, <<"step", n>>, claim)
  /\ fresh' = FALSE
  /\ UNCHANGED <<contradicted, ended, made, refused>>

\* A step that ends its block by contradicting a line: a contradiction block
\* closes on the two, a case gives its block's claim from them, and a proof
\* block what it owes, which stands as its last line.
TakeContradicting ==
  /\ StepsHere /\ blocks # <<>> /\ Top.by # "induction"
  /\ \E other \in Citable :
       LET n == used + 1
           claim == <<"line", n>>
           both == IF Carried(other) = scope THEN scope ELSE Misfit
           owed == Top.by = "proof"
       IN /\ Keep(<<"step", n>>, Line(claim, IF owed THEN both ELSE scope, 0),
                  [Now EXCEPT !.facts = With(@, claim, scope)])
          /\ PartEnds([under |-> both, about |-> Top.about])
          /\ contradicted' = IF Top.by = "contradiction" THEN Carried(other) ELSE contradicted
          /\ last' = <<"step", n>> /\ used' = n
          /\ read' = Noted(read, <<"step", n>>, claim)
  /\ fresh' = FALSE /\ ended' = "reached"
  /\ UNCHANGED <<made, refused>>

\* A name obtained: its membership and what is said of it are assumed, to be
\* discharged where the block ends.
Obtain ==
  /\ StepsHere
  /\ LET n == used + 1
         body == <<"body", n>>
         inner == Widen(Widen([Now EXCEPT !.names = @ \cup {n}], <<"member", n>>), body)
         closer == [scope |-> scope, added |-> << <<"member", n>>, body >>, name |-> n]
     IN /\ Keep(<<"step", n>>, Line(body, inner.facts[body], n), [inner EXCEPT !.closers = Append(@, closer)])
        /\ PartEnds([under |-> inner.facts[body], about |-> n])
        /\ last' = <<"step", n>> /\ used' = n
        /\ read' = Noted(read, <<"step", n>>, body)
  /\ fresh' = FALSE
  /\ UNCHANGED <<contradicted, ended, made, refused>>

\* A let standing above the next step: its equation is assumed.
Define ==
  /\ StepsHere /\ used + 1 < MaxIds
  /\ LET n == used + 1
         said == <<"define", n>>
         outer == Widen(Now, said)
         closer == [scope |-> scope, added |-> <<said>>, name |-> n]
     IN /\ Keep(<<"K", n>>, Line(said, outer.facts[said], n),
                [outer EXCEPT !.closers = Append(@, closer), !.names = @ \cup {n}])
        /\ used' = n
        /\ read' = Noted(read, <<"K", n>>, said)
  /\ fresh' = TRUE
  /\ UNCHANGED <<blocks, last, contradicted, ended, made, refused>>

(***************************************************************************)
(* Blocks                                                                  *)
(***************************************************************************)

\* The labels an opener may carry: its own, or one the theorem's hypothesis
\* has.  A part's is one in use around its block only where the page shadows.
LabelsFor(n, parted) == {<<"K", n>>} \cup {l \in {Hypothesis} : parted => Shadowing}

NewBlock(by, n, about, against) ==
  [by |-> by, number |-> n, about |-> about, against |-> against,
   part |-> IF blocks # <<>> /\ Parted(Top) THEN Top.entered ELSE NoPart,
   outer |-> scope, outside |-> facts, frame |-> Len(frames), named |-> names,
   lettersAt |-> Len(letters), lines |-> lines, openedAt |-> Len(closers),
   opened |-> <<>>, labels |-> <<>>, claimed |-> {}, cited |-> Nothing, splits |-> Nothing,
   entered |-> NoPart, caseAt |-> NoPart, parts |-> <<>>]

\* The owners that may end the block they stand in by contradicting a line.
Againsts ==
  {against \in BOOLEAN :
     against => /\ blocks # <<>> /\ Top.by # "induction"
                /\ Top.by # "contradiction" => OwnersEnd}

OpensHere == StepsHere /\ used + 1 < MaxIds

Opened(b, w, labels) ==
  /\ Become(w)
  /\ blocks' = Append(blocks, b)
  /\ read' = Append(read, labels)
  /\ used' = used + 1 /\ fresh' = TRUE
  /\ UNCHANGED <<last, ended, made, refused>>

OpenContradiction ==
  /\ OpensHere /\ "contradiction" \in Bys
  /\ \E against \in Againsts, label \in LabelsFor(used + 1, FALSE) :
       LET n == used + 1
           supposed == <<"suppose", n>>
           w == Lay(Now, supposed, label)
       IN Opened([NewBlock("contradiction", n, 0, against) EXCEPT !.opened = w.opened], w, Only(label, supposed))
  /\ contradicted' = Nothing

OpenProof ==
  /\ OpensHere /\ "proof" \in Bys
  /\ \E against \in Againsts, kinds \in {{"let"}, {"assume"}, {"let", "assume"}},
        label \in LabelsFor(used + 1, FALSE) :
       LET n == used + 1
           own == <<"L", n>>
           let == IF "let" \in kinds THEN Lay(Now, <<"let", n>>, own) ELSE Now
           w == IF "assume" \in kinds THEN Lay(let, <<"assume", n>>, label) ELSE let
           said == [l \in {own : k \in kinds \cap {"let"}} |-> <<"let", n>>]
           supposed == [l \in {label : k \in kinds \cap {"assume"}} |-> <<"assume", n>>]
       IN Opened([NewBlock("proof", n, 0, against) EXCEPT !.opened = w.opened], w, Over(said, supposed))
  /\ UNCHANGED contradicted

\* A block of parts widens nothing: each part is entered as its first step
\* arrives.
OpenCases ==
  /\ OpensHere /\ "cases" \in Bys
  /\ \E against \in Againsts, about \in Abouts, cited \in Citable,
        claimed \in {{}, {0}, {1}}, shared \in LabelsFor(used + 1, TRUE) :
       LET n == used + 1 IN
       Opened([NewBlock("cases", n, about, against) EXCEPT
                 !.claimed = claimed, !.cited = cited, !.splits = Checked(cited),
                 !.labels = With(Only(0, shared), 1, <<"K", n>>)], Now, <<>>)
  /\ UNCHANGED contradicted

OpenInduction ==
  /\ OpensHere /\ "induction" \in Bys
  /\ \E against \in Againsts :
       LET n == used + 1 IN
       Opened([NewBlock("induction", n, 0, against) EXCEPT !.labels = Only(1, <<"L", n>>)], Now, <<>>)
  /\ UNCHANGED contradicted

\* A step of the next part arrives: what the part before it raised is spent,
\* and the part's scope opened.
PartLabels(b, p) ==
  IF b.by = "cases" THEN Only(b.labels[p], CaseOf(b, p))
  ELSE IF p = 0 THEN <<>>
  ELSE With(Only(b.labels[1], <<"assume", b.number>>), <<"K", b.number>>, <<"let", b.number>>)

EnterPart ==
  /\ ~refused /\ made = Nothing /\ blocks # <<>> /\ used < MaxIds
  /\ Parted(Top)
  /\ Top.entered = NoPart \/ (~fresh /\ EndsAsOwed(Top))
  /\ LET p == NextPart(Top)
         settled == SettleClaimed(Now, p)
         in == Enter(EndCase(settled), p)
     IN /\ p # NoPart
        /\ Become(in)
        /\ blocks' = Append(Front(blocks), [in.b EXCEPT !.caseAt = Len(in.closers)])
        /\ read' = Append(Front(read), PartLabels(Top, p))
        /\ refused' = (ended = "unreached")
  /\ fresh' = TRUE /\ ended' = "no"
  /\ UNCHANGED <<last, contradicted, used, made>>

\* What each kind of block closes on: the lemma that closes it takes one proof
\* under its openers, or one of each part under what the part assumes.
Opposed(b) == IF contradicted = scope /\ lines[last].under = scope THEN scope ELSE Misfit

PartShown(b, p) ==
  b.parts[p].under = b.outer \o
    (CASE b.by = "cases" -> <<CaseOf(b, p)>>
       [] b.by # "cases" /\ p = 0 -> <<>>
       [] OTHER -> << <<"let", b.number>>, <<"assume", b.number>> >>)

Plain(claim) == IF claim[1] = "at" THEN <<"line", claim[2]>> ELSE claim

\* The line a `cases` block cites says the cases it has, where the block stood.
Split(b, there) ==
  b.by = "cases" => /\ Plain(there[b.cited].claim) = b.splits
                    /\ CarriedIn(b.cited, there, b.outside) = b.outer

ContradictionCloses(b, inside) == Discharged(inside, Opposed(b), b.about) = b.outer \o b.opened

ProofCloses(b, inside) ==
  Discharged(inside, lines[last].under, lines[last].about) = b.outer \o b.opened

Closes(b, w) ==
  LET inside == After(closers, b.openedAt) IN
  CASE b.by = "contradiction" -> ContradictionCloses(b, inside)
    [] b.by = "proof" -> ProofCloses(b, inside)
    [] OTHER -> (\A p \in {0, 1} : PartShown(w.b, p)) /\ Split(b, w.lines)

\* A block closed is one line of the block around it, and the end of the part
\* it stands in; where its step contradicts a line it may end that block too.
HandUp(b, around) ==
  IF b.part = NoPart THEN around
  ELSE Append(Front(around),
              [Last(around) EXCEPT !.parts = With(@, b.part, [under |-> b.outer, about |-> b.about])])

CloseBlock ==
  /\ ~refused /\ made = Nothing /\ blocks # <<>> /\ ~fresh
  /\ Parted(Top) => NextPart(Top) = NoPart
  /\ EndsAsOwed(Top)
  /\ LET b == Top
         w == EndCase(SettleClaimed(Now, 2))
         claim == <<"line", b.number>>
         own == <<"step", b.number>>
         outside == With(b.outside, claim, b.outer)
         there == With(b.lines, own, Line(claim, b.outer, b.about))
     IN /\ Become([w EXCEPT !.frames = SubSeq(@, 1, b.frame), !.scope = b.outer,
                            !.facts = outside, !.lines = there, !.names = b.named,
                            !.letters = SubSeq(@, 1, b.lettersAt),
                            !.closers = SubSeq(@, 1, b.openedAt)])
        /\ blocks' = HandUp(b, Front(blocks))
        /\ last' = own
        /\ read' = Noted(Front(read), own, claim)
        /\ \E other \in IF b.against THEN UNION {DOMAIN read[i] : i \in 1 .. Len(read) - 1} ELSE {own} :
             contradicted' = IF b.against /\ Last(Front(blocks)).by = "contradiction"
                             THEN CarriedIn(other, there, outside) ELSE contradicted
        /\ ended' = IF ~b.against THEN "no"
                    ELSE IF Last(Front(blocks)).by = "contradiction" THEN "reached" ELSE "unreached"
        /\ refused' = (ended = "unreached" \/ ~Closes(b, w))
  /\ UNCHANGED <<used, fresh, made>>

\* The page ends: what the last line says is what the theorem states, and the
\* obtains and lets of the proof itself are discharged.
Finish ==
  /\ ~refused /\ made = Nothing /\ blocks = <<>> /\ ~fresh
  /\ lines[last].about = 0
  /\ made' = Discharged(closers, lines[last].under, 0)
  /\ UNCHANGED <<frames, scope, facts, lines, names, letters, closers, blocks, last,
                 contradicted, used, fresh, ended, read, refused>>

NextFrames ==
  \/ TakeStep \/ TakeContradicting \/ Obtain \/ Define
  \/ OpenContradiction \/ OpenProof \/ OpenCases \/ OpenInduction
  \/ EnterPart \/ CloseBlock \/ Finish

SpecFrames == InitFrames /\ [][NextFrames]_framesVars

(***************************************************************************)
(* What must hold                                                          *)
(***************************************************************************)

\* Every page the checker accepts is built: each block closes with the lemma
\* of its kind, every obtain and let is discharged where its block ends, and
\* the theorem's proof stands under its hypotheses alone
\* (close_block and the end of elaborate's main loop).
KernelAccepts == ~refused /\ (made # Nothing => made = <<>>)

\* A label is read as the checker reads it, and its proof stands where the
\* step citing it does: "a label its openers or steps give again ... is the
\* outer line again once it closes, as the checker reads a label in scope"
\* (state.rs, Block's lines).
InScope ==
  \A label \in Citable : Plain(lines[label].claim) = Checked(label) /\ Carried(label) = scope

\* Every frame's scope widens to the one the next step stands at, everything
\* a frame knows stands under its own scope, and it knows every line in force
\* that was proved there (widen_to, frames_facts, carry).
FramesReach ==
  \A i \in DOMAIN frames :
    /\ Carry(frames[i].scope, i) = scope
    /\ \A claim \in DOMAIN FramesFacts(i) : FramesFacts(i)[claim] = frames[i].scope
    /\ \A label \in Citable :
         lines[label].under = frames[i].scope => lines[label].claim \in DOMAIN FramesFacts(i)

=============================================================================
