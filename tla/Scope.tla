-------------------------------- MODULE Scope --------------------------------
(***************************************************************************)
(* What a step of a proof may cite.  src/src/corpus/proof.rs reads a       *)
(* theorem's lines in order and gives each part marker and opener to the   *)
(* step whose block it is in; src/src/checker/structure.rs checks the      *)
(* numbers and the blocks, and says from the numbers alone which steps and *)
(* labels are in scope; src/src/checker/record.rs keeps the shape of the   *)
(* blocks.                                                                 *)
(*                                                                         *)
(* A place is the sequence of its number's parts: 3.1.2 is <<3, 1, 2>>,    *)
(* and the theorem's own step is <<>>.  A step is justified by a line      *)
(* ("plain"), or opens a block without parts ("proof") or with cases       *)
(* ("cases").  An opener is an assumption, and its label is its line; a    *)
(* define is the line it stands on.  A line that is refused is the last:   *)
(* the build takes no theorem with a problem.                              *)
(***************************************************************************)
EXTENDS Naturals, Sequences, SequencesExt, FiniteSets, FiniteSetsExt

CONSTANTS
  MaxLines,   \* how many lines a theorem has
  MaxDepth,   \* how many parts a number has
  MaxNumber,  \* how high a part of a number is
  MaxDefines, \* how many of its lines are defines
  None

VARIABLES
  line,    \* how many lines have been read
  steps,   \* the steps: [number, by, line, part, parts, openers]
  defines, \* the lines of the defines
  markers, \* the lines of the part markers held for the next step
  held,    \* the lines of the openers held for the next step
  refused, \* whether a line read is a problem
  open,    \* the blocks open where the text now stands, outermost first
  under    \* of each step read: the blocks it stands in, as the text opens them

read == <<line, steps, defines, markers, held, refused>>
said == <<open, under>>
vars == <<read, said>>

Numbers == UNION {[1..n -> 1..MaxNumber] : n \in 1..MaxDepth}
Theorem == <<>>

Depth(place) == Len(place)
Parent(place) == IF place = Theorem THEN Theorem ELSE Front(place)
UpTo(place, k) == SubSeq(place, 1, Min({k, Len(place)}))

\* Whether a number is of a step in the block of an owner.
Fits(number, owner) ==
  Depth(number) > Depth(owner) /\ UpTo(number, Depth(owner)) = owner

TakesBlock(by) == by \in {"proof", "cases"}

Init ==
  /\ line = 0 /\ steps = <<>> /\ defines = <<>> /\ markers = <<>> /\ held = <<>>
  /\ refused = FALSE
  /\ open = <<>> /\ under = <<>>

(***************************************************************************)
(* Numbering                                                               *)
(***************************************************************************)

Seen(number) == \E i \in DOMAIN steps : steps[i].number = number

\* The highest number given so far in the block of a place.
LastOf(parent) ==
  Max({0} \cup {Last(steps[i].number) : i \in {j \in DOMAIN steps :
                  steps[j].number # Theorem /\ Parent(steps[j].number) = parent}})

\* Every number once, under a step that exists, counting 1, 2, 3.
Misnumbered(number) ==
  \/ Seen(number)
  \/ Depth(number) > 1 /\ ~Seen(Parent(number))
  \/ Last(number) # LastOf(Parent(number)) + 1

(***************************************************************************)
(* Reading                                                                 *)
(***************************************************************************)

\* The step last numbered so, or 0.
ByNumber(place) == Max({0} \cup {i \in DOMAIN steps : steps[i].number = place})

\* The part a block is in once the markers held are given to its owner.
PartNow(owner) ==
  LET opened == (IF owner = 0 THEN 0 ELSE Len(steps[owner].parts)) + Len(markers) IN
  IF opened = 0 THEN None ELSE opened - 1

\* The steps, with the markers and openers held given to the block's owner.
Attached(owner) ==
  IF owner = 0 THEN steps
  ELSE [steps EXCEPT
          ![owner].parts = @ \o markers,
          ![owner].openers = @ \o [k \in DOMAIN held |-> [line |-> held[k], part |-> PartNow(owner)]]]

Step(number, by, part) ==
  [number |-> number, by |-> by, line |-> line + 1, part |-> part, parts |-> <<>>, openers |-> <<>>]

\* What the text itself says, read with no number but how deep a step is:
\* a block is open until a step no deeper than its owner, a marker closes
\* the part before it, and an opener is of the part it stands in.
Reopened(depth) == SelectSeq(open, LAMBDA block : block.depth < depth)

Parted(block, openers) ==
  LET next == IF markers = <<>> THEN block
              ELSE [block EXCEPT !.part = Last(markers), !.own = {}]
  IN IF next.part = None THEN [next EXCEPT !.common = @ \cup openers]
     ELSE [next EXCEPT !.own = @ \cup openers]

Opened(blocks, openers) ==
  IF blocks = <<>> THEN blocks ELSE Append(Front(blocks), Parted(Last(blocks), openers))

Block(by, depth) ==
  IF TakesBlock(by)
  THEN <<[depth |-> depth, step |-> Len(steps) + 1, part |-> None, common |-> {}, own |-> {}]>>
  ELSE <<>>

Reading == ~refused /\ line < MaxLines

\* "by" under the statement: the theorem is the step the method proves.
ReadBy ==
  /\ Reading /\ steps = <<>> /\ markers = <<>> /\ held = <<>> /\ defines = <<>>
  /\ \E by \in {"proof", "cases"} :
       /\ steps' = <<Step(Theorem, by, None)>>
       /\ open' = Block(by, 0)
  /\ under' = << <<>> >>
  /\ line' = line + 1
  /\ UNCHANGED <<defines, markers, held, refused>>

\* A step: what is held is given to the step whose block it is in, and is
\* refused where there is none.  (A case held for a step that takes no cases
\* is refused here too; Misblocked says it of the step it is given to.)
ReadStep ==
  /\ Reading
  /\ \E number \in Numbers, by \in {"plain", "proof", "cases"} :
       LET owner == ByNumber(Parent(number))
           blocks == Opened(Reopened(Depth(number)), Range(held))
       IN /\ steps' = Append(Attached(owner), Step(number, by, PartNow(owner)))
          /\ refused' = (\/ Misnumbered(number)
                         \/ owner = 0 /\ markers \o held # <<>>)
          /\ open' = blocks \o Block(by, Depth(number))
          /\ under' = Append(under, blocks)
  /\ line' = line + 1 /\ markers' = <<>> /\ held' = <<>>
  /\ UNCHANGED defines

\* A part marker and an opener are held for the next step.
ReadMarker ==
  /\ Reading /\ steps # <<>>
  /\ markers' = Append(markers, line + 1)
  /\ line' = line + 1
  /\ UNCHANGED <<steps, defines, held, refused, said>>

ReadOpener ==
  /\ Reading /\ steps # <<>>
  /\ held' = Append(held, line + 1)
  /\ line' = line + 1
  /\ UNCHANGED <<steps, defines, markers, refused, said>>

\* The innermost cases open at the last step: the one a case that is the
\* claim is of, which has no steps of its own.
CasesOpen ==
  LET last == Last(steps).number
      places == {k \in 0..Depth(last) : LET i == ByNumber(UpTo(last, k)) IN
                                        i # 0 /\ steps[i].by = "cases"}
  IN IF places = {} THEN 0 ELSE ByNumber(UpTo(last, Max(places)))

ReadClaimedCase ==
  /\ Reading /\ steps # <<>>
  /\ LET owner == CasesOpen
         opener == [line |-> line + 1, part |-> PartNow(owner)]
     IN IF owner = 0 THEN refused' = TRUE /\ UNCHANGED <<steps, open>>
        ELSE /\ steps' = [Attached(owner) EXCEPT ![owner].openers = Append(@, opener)]
             /\ open' = Opened(Reopened(Depth(steps[owner].number) + 1), Range(held) \cup {line + 1})
             /\ UNCHANGED refused
  /\ line' = line + 1 /\ markers' = <<>> /\ held' = <<>>
  /\ UNCHANGED <<defines, under>>

ReadDefine ==
  /\ Reading /\ Len(defines) < MaxDefines
  /\ defines' = Append(defines, line + 1)
  /\ line' = line + 1
  /\ UNCHANGED <<steps, markers, held, refused, said>>

Next == ReadBy \/ ReadStep \/ ReadMarker \/ ReadOpener \/ ReadClaimedCase \/ ReadDefine

Spec == Init /\ [][Next]_vars

(***************************************************************************)
(* The blocks                                                              *)
(***************************************************************************)

Children(i) ==
  {j \in DOMAIN steps : j # i /\ steps[j].number # steps[i].number
                          /\ Parent(steps[j].number) = steps[i].number}

Assumes(i, part) == \E o \in Range(steps[i].openers) : o.part = part

\* What check_blocks says of a step and its block.
Misblocked(i) ==
  LET step == steps[i]
      inner == Children(i) # {}
  IN \/ TakesBlock(step.by) # inner
     \/ /\ step.number = Theorem /\ step.parts # <<>>
        /\ \E j \in Children(i) : steps[j].part = None
     \/ step.by = "cases" /\ Len(step.parts) = 1
     \/ step.by = "cases" /\ step.parts = <<>> /\ inner
     \/ step.by # "cases" /\ step.parts # <<>>
     \/ step.by = "proof" /\ ~Assumes(i, None)
     \/ step.by = "cases" /\ \E k \in DOMAIN step.parts : ~Assumes(i, k - 1)

\* A theorem with no problem, all of whose lines are given to a step.
Accepted ==
  /\ ~refused /\ markers = <<>> /\ held = <<>>
  /\ \A i \in DOMAIN steps : ~Misblocked(i)

\* A number is written in its block where the text has the block open.
WrittenInBlock(i) ==
  i > 1 => Parent(steps[i].number) = IF under[i] = <<>> THEN Theorem
                                     ELSE steps[Last(under[i]).step].number

Nested == Accepted /\ \A i \in DOMAIN steps : WrittenInBlock(i)

(***************************************************************************)
(* The shape                                                               *)
(***************************************************************************)

OwnsBlock(step) == step.openers # <<>> \/ step.parts # <<>>

\* Where each step stands: the innermost block, of those open when it is
\* come to, whose owner's number opens its own, and its part of it.
Places ==
  LET Close[blocks \in UNION {[1..n -> DOMAIN steps] : n \in 0..Len(steps)}, i \in DOMAIN steps] ==
        IF blocks = <<>> \/ Fits(steps[i].number, steps[Last(blocks)].number) THEN blocks
        ELSE Close[Front(blocks), i]
      Stand(got, i) ==
        LET blocks == Close[got.blocks, i] IN
        [places |-> Append(got.places, IF blocks = <<>> THEN None
                                       ELSE [block |-> Last(blocks), part |-> steps[i].part]),
         blocks |-> IF OwnsBlock(steps[i]) THEN Append(blocks, i) ELSE blocks]
  IN FoldLeft(Stand, [places |-> <<>>, blocks |-> <<>>], [i \in DOMAIN steps |-> i]).places

\* The places a step stands in, its own and those of the blocks around it.
Around(places) ==
  LET A[i \in DOMAIN steps] ==
        IF places[i] = None THEN {} ELSE {places[i]} \cup A[places[i].block]
  IN A

\* A mutant of Encloses: a block's parts are one.
EnclosesAnyPart(place, around) == place = None \/ \E a \in around : a.block = place.block

\* Whether what stands at a place is in scope at a step with places around.
Encloses(place, around) ==
  \/ place = None
  \/ \E a \in around : a.block = place.block /\ (place.part = None \/ a.part = place.part)

(***************************************************************************)
(* What is in scope                                                        *)
(***************************************************************************)

\* "An ancestor, or shares here's path to some position and comes before it
\* there."
InScope(c, h) ==
  /\ c # Theorem /\ h # Theorem /\ Depth(c) <= Depth(h)
  /\ Front(c) = UpTo(h, Depth(c) - 1)
  /\ Last(c) < h[Depth(c)]

\* The step with a number written nearest above a step.
WrittenAbove(number, i) ==
  Max({0} \cup {j \in DOMAIN steps : steps[j].number = number /\ steps[j].line < steps[i].line})

\* Whether step i may cite step j.
InReach(j, i, places, around) ==
  /\ InScope(steps[j].number, steps[i].number)
  /\ LET written == WrittenAbove(steps[j].number, i) IN
     written # 0 => Encloses(places[written], around[i])

\* The step with a number a step stands under or is: the nearest written.
OnTheWay(i, number) ==
  Max({0} \cup {j \in DOMAIN steps : steps[j].number = number /\ steps[j].line <= steps[i].line})

\* Whether an opener of step j's block is of the part step i stands in.
OwnPart(o, i, j) ==
  \/ o.part = None
  \/ LET child == OnTheWay(i, UpTo(steps[i].number, Depth(steps[j].number) + 1)) IN
     child # 0 /\ steps[child].part = o.part

\* The labels of openers a step may cite.
LabelsInScope(i) ==
  UNION {{o.line : o \in {p \in Range(steps[j].openers) : OwnPart(p, i, j)}} :
           j \in {k \in DOMAIN steps :
                    /\ steps[k].number = UpTo(steps[i].number, Depth(steps[k].number))
                    /\ steps[k].number # steps[i].number}}

\* A define stands where the first step below it does.
DefinePlace(d, places) ==
  LET below == {i \in DOMAIN steps : steps[i].line > d} IN
  IF below = {} THEN None ELSE places[Min(below)]

DefineInScope(d, i, places, around) ==
  d < steps[i].line /\ Encloses(DefinePlace(d, places), around[i])

(***************************************************************************)
(* Properties                                                              *)
(***************************************************************************)

\* The assumptions a step stands under, as the text opens them.
Assumed(i) == UNION {block.common \cup block.own : block \in Range(under[i])}

\* A block and its part, without what it assumes.
Where(block) == <<block.step, block.part>>

\* Nothing escapes its assumptions: what a step may cite was shown under no
\* assumption the step does not stand under, and a define it may write was
\* opened under none.  Were it otherwise, a proof could take a case's
\* conclusion out of the case.
NothingEscapes ==
  Nested =>
    LET places == Places
        around == Around(places)
    IN /\ \A i, j \in DOMAIN steps : InReach(j, i, places, around) => Assumed(j) \subseteq Assumed(i)
       /\ \A d \in Range(defines), i \in DOMAIN steps :
            DefineInScope(d, i, places, around) =>
              LET opens == Min({k \in DOMAIN steps : steps[k].line > d}) IN
              Assumed(opens) \subseteq Assumed(i)

\* "What one case shows under its assumption is not known in the next": a
\* step may cite a step in a part only where the step above it at that depth
\* is in the same one.
CasesApart ==
  Accepted =>
    LET places == Places
        around == Around(places)
    IN \A i, j \in DOMAIN steps :
         InReach(j, i, places, around) =>
           LET child == OnTheWay(i, UpTo(steps[i].number, Depth(steps[j].number))) IN
           None \in {steps[j].part, steps[child].part} \/ steps[j].part = steps[child].part

=============================================================================
