-------------------------- MODULE FramesInvariant --------------------------
(***************************************************************************)
(* What holds between any two steps of the page (Frames) when it gives no  *)
(* part a label in use outside its block and no owner but a contradiction  *)
(* block's ends its block by contradicting a line.                         *)
(*                                                                         *)
(* A page stands inside its blocks, each opened where the one around it    *)
(* stood.  So the invariant says of the place it stands at, and of the     *)
(* place each open block was opened at, the same thing: the frames there   *)
(* are those of its scope; what is known is said under it; a line the      *)
(* checker reads there is there, read as it reads it, and known, to the    *)
(* frame it was proved in as well.  It says of what a block keeps that it  *)
(* will do to go back there, whatever is written inside it; and of what    *)
(* obtains and lets raise that it leads, from each block's own scope, to   *)
(* the place next inside it, so that discharging it leads back.            *)
(***************************************************************************)
EXTENDS Frames

\* The functions from some of a set.
Maps(T, S) == UNION {[D -> S] : D \in SUBSET T}

\* What is assumed, said or claimed.
Saids ==
  ({"hyp", "line", "body", "member", "define", "suppose", "let", "assume", "none", "refused"} \X Nat)
    \cup ({"case", "at"} \X Nat \X Nat)

\* A scope is what has been assumed, in order.
Scopes == Seq(Saids)

\* The labels a page gives its lines.
Labels == {Hypothesis} \cup ({"step", "K", "L"} \X Nat)

\* What may be known: a scope to each claim.
KnownSet == Maps(Saids, Scopes)

\* What a frame holds.
FrameSet == [scope : Scopes, added : Saids \cup {<<>>}, known : KnownSet]

\* What a line holds.
LineSet == [claim : Saids, under : Scopes, about : Nat]

\* The lines, by their labels.
Lines == Maps(Labels, LineSet)

\* What is kept of a letter a let introduced.
LetterSet == [letter : Nat, at : Scopes, under : Scopes]

\* What is kept of an obtain or a let to be discharged.
CloserSet == [scope : Scopes, added : Scopes, name : Nat]

\* What is kept of the end of a part.
EndSet == [under : Scopes, about : Nat]

\* What the checker reads in one block.
Readings == Maps(Labels, Saids)

\* The parts a block of parts has.
Parts == {0, 1}

\* What is kept of a block while it is open.
BlockSet ==
  [by : {"proof", "contradiction", "cases", "induction"}, number : Nat, about : Nat, against : BOOLEAN,
   part : {NoPart} \cup Parts, outer : Scopes, outside : KnownSet, frame : Nat, named : SUBSET Nat,
   lettersAt : Nat, lines : Lines, openedAt : Nat, opened : Scopes, labels : Maps(Parts, Labels),
   claimed : SUBSET Parts, cited : Labels \cup {Nothing}, splits : Saids \cup {Nothing},
   entered : {NoPart} \cup Parts, caseAt : {NoPart} \cup Nat, parts : Maps(Parts, EndSet)]

\* How the elaborator may stand.
Stances ==
  [frames : Seq(FrameSet), scope : Scopes, facts : KnownSet, lines : Lines, names : SUBSET Nat,
   letters : Seq(LetterSet), closers : Seq(CloserSet), opened : Scopes, b : BlockSet \cup {<<>>}]

\* The claim the checker reads each label in force as.
Reading(rd) ==
  [label \in UNION {DOMAIN rd[i] : i \in DOMAIN rd} |->
     rd[CHOOSE i \in {i \in DOMAIN rd : label \in DOMAIN rd[i]} :
          \A j \in {i1 \in DOMAIN rd : label \in DOMAIN rd[i1]} : j <= i][label]]

\* The same, of the labels in force where the block at a depth was opened.
ReadingAt(rd, d) == Reading(SubSeq(rd, 1, d))

\* Everything known is said where it is known.
AllAt(known, at) == \A c \in DOMAIN known : known[c] = at

\* A frame to each assumption, and the outermost; everything a frame knows
\* stands under its own scope.
FrameIs(frame, at, i) ==
  /\ frame.scope = SubSeq(at, 1, i - 1)
  /\ i > 1 => frame.added = at[i - 1]
  /\ AllAt(frame.known, frame.scope)

\* The frames of a scope.
Framed(fs, at) == Len(fs) = Len(at) + 1 /\ \A i \in 1 .. Len(fs) : FrameIs(fs[i], at, i)

\* Each of the first letters stands under the scope it was introduced in.
Lettered(lts, k, at) ==
  \A i \in 1 .. k : lts[i].under = lts[i].at /\ IsPrefix(lts[i].at, at)

\* A label of a line written by the time a number of ids was used.
Numbered(label, n) == label = Hypothesis \/ \E t \in {"step", "K", "L"}, m \in 1 .. n : label = <<t, m>>

\* Every line the checker reads is there, as it reads it, and known; so it is
\* to the frame it was proved in.
InscribedLine(fs, at, known, line, claim) ==
  /\ line.claim \in DOMAIN known /\ Plain(line.claim) = claim
  /\ Len(line.under) <= Len(at)
  /\ \A i \in 1 .. Len(at) : line.under = fs[i].scope => line.claim \in DOMAIN fs[i].known

\* Every line in force is there, of a label already given, and stands as
\* above.
Inscribed(fs, at, known, ls, R, n) ==
  \A label \in DOMAIN R :
    /\ Numbered(label, n) /\ label \in DOMAIN ls
    /\ InscribedLine(fs, at, known, ls[label], R[label])

\* What is known at a scope around the one the elaborator stands in.
Viewed(w, at, known, ls, k, R, n) ==
  /\ IsPrefix(at, w.scope) /\ AllAt(known, at)
  /\ k <= Len(w.letters) /\ Lettered(w.letters, k, at)
  /\ Inscribed(w.frames, at, known, ls, R, n)

\* What is known where the elaborator stands.
Sound(w, R, n) ==
  /\ Framed(w.frames, w.scope)
  /\ Viewed(w, w.scope, w.facts, w.lines, Len(w.letters), R, n)

\* What was known where a block was opened is known there still, inside it.
Around(w, b, R) == Viewed(w, b.outer, b.outside, b.lines, b.lettersAt, R, b.number - 1)

\* The frames that stand under the innermost are the same.
Deeper(fs, gs) == Len(fs) <= Len(gs) /\ \A i \in 1 .. Len(fs) - 1 : gs[i] = fs[i]

\* What a part of a block assumes.
OpensOf(b, p) ==
  IF b.by = "cases" THEN <<CaseOf(b, p)>>
  ELSE IF b.by # "induction" THEN b.opened
  ELSE IF p = 0 THEN <<>>
  ELSE << <<"let", b.number>>, <<"assume", b.number>> >>

\* The scope the closers raised in a block start from.
Base(b) ==
  IF Parted(b) /\ b.entered = NoPart THEN b.outer ELSE b.outer \o OpensOf(b, b.entered)

\* A block of parts that has still a part to enter, or may have: what was
\* written of the lines around it is as it was.
MayEnter(b) == b.by = "cases" \/ (b.by = "induction" /\ b.entered # 1)

\* While it may enter one, the lines in force and the letters are those it
\* was opened with.
Whole(b, ls, letters1, R) ==
  MayEnter(b) =>
    /\ \A label \in DOMAIN R : label \in DOMAIN ls /\ ls[label] = b.lines[label]
    /\ letters1 = b.lettersAt

\* Closers that lead from a scope to another.
Reach(cls, from, low, i) == IF i = low THEN from ELSE cls[i].scope \o cls[i].added

\* Between two places, each closer starts where the one before it leads.
Leads(cls, from, to, low, high) ==
  /\ low <= high /\ high <= Len(cls)
  /\ to = Reach(cls, from, low, high)
  /\ \A i \in low + 1 .. high : cls[i].scope = Reach(cls, from, low, i - 1)

\* The closers past a place are of names later than a number.
Later(cls, low, high, n) == \A i \in low + 1 .. high : cls[i].name > n

\* A block, whatever is around it.
Shaped(b, R) ==
  /\ b.by \in Bys
  /\ b.number > 0 /\ b.about \in 0 .. b.number - 1
  /\ b.frame = Len(b.outer) + 1
  /\ b.claimed \in {{}, {0}, {1}}
  /\ DOMAIN b.parts \subseteq Parts
  /\ b.entered \in {NoPart} \cup Parts
  /\ b.caseAt = IF b.entered = NoPart THEN NoPart ELSE b.openedAt
  /\ ~Parted(b) => b.entered = NoPart /\ DOMAIN b.parts = {} /\ b.claimed = {}
  /\ b.by = "induction" => b.claimed = {} /\ b.labels[1] = <<"L", b.number>>
  /\ b.by = "cases" =>
       /\ b.labels[0] = <<"K", b.number>> /\ b.labels[1] = <<"K", b.number>>
       /\ b.cited \in DOMAIN R /\ b.splits = R[b.cited]
  /\ b.by # "cases" => b.about = 0
  /\ \A p \in DOMAIN b.parts \ {b.entered} : b.parts[p].under = b.outer \o OpensOf(b, p)
  /\ \A p \in DOMAIN b.parts : p <= b.entered
  /\ b.entered = 1 => 0 \in DOMAIN b.parts \cup b.claimed

\* A block in the one around it.
Placed(bs, d) ==
  /\ bs[d].part = IF d > 1 /\ Parted(bs[d - 1]) THEN bs[d - 1].entered ELSE NoPart
  /\ bs[d].against => d > 1 /\ bs[d - 1].by = "contradiction"
  /\ d < Len(bs) /\ Parted(bs[d]) => bs[d].entered # NoPart

\* How the elaborator stood where a block was opened, or stands.
ViewOf(b) ==
  [scope |-> b.outer, lines |-> b.lines, letters |-> b.lettersAt, closers |-> b.openedAt, used |-> b.number - 1]

\* The same of where the elaborator stands.
ViewNow(w, n) ==
  [scope |-> w.scope, lines |-> w.lines, letters |-> Len(w.letters), closers |-> Len(w.closers), used |-> n]

\* The place inside the blocks up to a depth: the next block's, or the one
\* the elaborator stands at.
ViewAt(w, bs, n, d) == IF d \in DOMAIN bs THEN ViewOf(bs[d]) ELSE ViewNow(w, n)

\* A block is around a view.
Beneath(b, v) ==
  /\ b.number <= v.used /\ b.lettersAt <= v.letters /\ b.openedAt <= v.closers
  /\ IsPrefix(b.outer, v.scope)

\* A block goes on to the next view in it.
Goes(b, R, v) ==
  /\ Whole(b, v.lines, v.letters, R)
  /\ Parted(b) /\ b.entered = NoPart => b.openedAt = v.closers

\* The closers of a block, and of the proof itself.
From(bs, d) == IF d = 0 THEN <<>> ELSE Base(bs[d])

\* The place the closers of a block, or of the proof itself, begin at.
Low(bs, d) == IF d = 0 THEN 0 ELSE bs[d].openedAt

\* The number their names come after.
Since(bs, d) == IF d = 0 THEN 0 ELSE bs[d].number

\* The closers raised in a block lead from its scope to that of the place
\* next inside it.
Closing(cls, from, low, number, v) ==
  Leads(cls, from, v.scope, low, v.closers) /\ Later(cls, low, v.closers, number)

\* Every open block stands where it was opened, around all that is inside
\* it.
Stacked(w, bs, rd, n) ==
  /\ Len(rd) = Len(bs) + 1
  /\ \A d \in 0 .. Len(bs) : Closing(w.closers, From(bs, d), Low(bs, d), Since(bs, d), ViewAt(w, bs, n, d + 1))
  /\ \A d \in 1 .. Len(bs) :
       /\ Around(w, bs[d], ReadingAt(rd, d))
       /\ Shaped(bs[d], ReadingAt(rd, d))
       /\ Placed(bs, d)
       /\ Goes(bs[d], ReadingAt(rd, d), ViewAt(w, bs, n, d + 1))
       /\ \A e \in d + 1 .. Len(bs) + 1 : Beneath(bs[d], ViewAt(w, bs, n, e))

\* What stands once a step does.
Done ==
  ~fresh =>
    /\ last \in DOMAIN lines /\ lines[last].under = scope
    /\ lines[last].about \in 0 .. used
    /\ blocks # <<>> /\ Parted(Top) =>
         /\ Top.entered \in DOMAIN Top.parts
         /\ Top.parts[Top.entered].under = scope
         /\ \/ Top.parts[Top.entered].about = lines[last].about
            \/ ended = "reached" /\ Top.parts[Top.entered].about = Top.about

\* What a block that has been ended by contradicting a line has for it.
Reached ==
  /\ ended \in {"no", "reached"}
  /\ ended = "reached" =>
       /\ ~fresh /\ blocks # <<>> /\ Top.by # "induction"
       /\ Top.by = "contradiction" => contradicted = scope
       /\ Top.by = "cases" => Top.parts[Top.entered].about = Top.about
       /\ Top.by = "proof" => lines[last].about = 0

\* What holds between two steps of elaborate's main loop.
FramesInv ==
  /\ used \in 0 .. MaxIds
  /\ Sound(Now, Reading(read), used)
  /\ Stacked(Now, blocks, read, used)
  /\ Done /\ Reached
  /\ ~refused /\ made \in {Nothing, <<>>}

\* The state is of its types.
FTyped ==
  /\ Now \in Stances /\ blocks \in Seq(BlockSet) /\ read \in Seq(Readings) /\ used \in Nat /\ last \in Labels

\* A closer's name is one given.
NamesGiven == \A i \in 1 .. Len(closers) : closers[i].name <= used

\* The inductive invariant.
IFrames == FTyped /\ FramesInv /\ NamesGiven

=============================================================================
