-------------------------------- MODULE Build --------------------------------
(***************************************************************************)
(* src/src/tools/build.rs and gate.rs: every generated file, what it is    *)
(* made from, `parley build`, `parley build NAME`, and the gate's stage    *)
(* that makes every artifact afresh and compares it with the tree.         *)
(*                                                                         *)
(* A text is a record of what it was made from: two texts are the same     *)
(* exactly where their recipes read the same things.  A source is one of   *)
(* "records" (every record and the corpus at large), "worksheets"          *)
(* (corpus/proved/), and each theorem's proof file; its value is a version.*)
(* The corpus is read once, when a run starts; the worksheets and built    *)
(* files are read when a recipe asks for them.                             *)
(***************************************************************************)
EXTENDS Naturals, FiniteSets

CONSTANTS
  Theorems,     \* names of theorems, each proved in a file of its own
  Comparisons,  \* names of hand-written comparison proofs
  Versions,     \* what each source may hold
  BadVersion,   \* a version the recipe reading it refuses
  Cites,        \* what each theorem cites in each version (cited_items)
  MaxRuns,      \* how many runs are asked for
  MaxFaults,    \* how many edits, kills and failed writes there are
  None          \* no file, nothing made

DEFINITIONS == "stdlib/definitions"
PROVED == "stdlib/proved"
Artifacts == {DEFINITIONS, PROVED} \cup Theorems \cup Comparisons
Sources == {"records", "worksheets"} \cup Theorems

\* No two artifacts have one name, every source starts in its version "1", a
\* theorem waits for theorems of the corpus alone (artifacts asks each
\* citation of `ours`), and None is no status.
ASSUME BuildAssumption ==
  /\ IsFiniteSet(Theorems) /\ IsFiniteSet(Comparisons)
  /\ Theorems \cap Comparisons = {}
  /\ {DEFINITIONS, PROVED} \cap (Theorems \cup Comparisons) = {}
  /\ \A s \in Sources : "1" \in Versions[s]
  /\ \A t \in Theorems : \A v \in Versions[t] : Cites[t][v] \subseteq Theorems
  /\ None \notin {0, 1, 2}

VARIABLES
  page,    \* what each source holds
  tree,    \* the built files
  setmm,   \* whether set.mm is found
  faults,  \* how many edits, kills and failed writes there were
  runs,    \* how many runs were asked for
  running, \* whether a run is under way
  kind,    \* "build" or "gate": what the run, or the last one, is
  corpus,  \* the sources as the run read them
  wanted,  \* the artifacts the run makes
  wave,    \* the number of the wave being made
  left,    \* the artifacts of the wave not yet made
  writing, \* the artifact whose file is half written
  made,    \* what the run made
  library, \* the proved.mm the library was read with: {} until it is read
  failed,  \* whether an artifact of the run failed
  marks,   \* the artifacts written, or found as made
  differ,  \* the artifacts the gate says are not as the tree has them
  status,  \* what the last run answered
  moved    \* whether anything was edited since the run started

asked == <<kind, corpus, wanted, setmm>>
answer == <<failed, marks, differ, status>>
vars == <<page, tree, faults, runs, running, asked, wave, left, writing, made, library, answer, moved>>

Nothing == [a \in Artifacts |-> None]

Text(a, from, read) == [of |-> a, whole |-> "whole", from |-> from, read |-> read]
\* A text half written: it stops before its statement ("head") or after.
Cut(text, where) == [text EXCEPT !.whole = where]

(***************************************************************************)
(* What is made, from what                                                 *)
(***************************************************************************)

\* A mutant of Needs: a theorem does not wait for the theorems it cites.
NeedsLibrary(p, a) ==
  IF a \in Comparisons \cup {DEFINITIONS} THEN {}
  ELSE IF a = PROVED THEN {DEFINITIONS}
  ELSE {DEFINITIONS, PROVED}

\* The artifacts whose files a recipe reads.
Needs(p, a) ==
  IF a \in Comparisons \cup {DEFINITIONS} THEN {}
  ELSE IF a = PROVED THEN {DEFINITIONS}
  ELSE {DEFINITIONS, PROVED} \cup (Cites[a][p[a]] \ {a})

\* The artifacts ready in a wave: each reads nothing that is wanted and not
\* done.
Ready(p, wants, done) == {a \in wants \ done : Needs(p, a) \cap wants \subseteq done}

\* What the first n waves hold.
Waved(p, wants) ==
  LET Done[n \in 0..Cardinality(Artifacts)] ==
        IF n = 0 THEN {} ELSE Done[n - 1] \cup Ready(p, wants, Done[n - 1])
  IN Done

Waves(p, wants) ==
  [n \in 1..Cardinality(Artifacts) |-> Waved(p, wants)[n] \ Waved(p, wants)[n - 1]]

\* Some artifacts wait on one another.
Stuck(p, wants) == Waved(p, wants)[Cardinality(Artifacts)] # wants

\* The checker refuses theorems that cite one another round a cycle.
Accepted(p) ==
  \A S \in (SUBSET Theorems) \ {{}} : \E t \in S : Cites[t][p[t]] \cap S = {}

\* A mutant of ReachedBy: what a wanted artifact reads is not followed.
ReachedAlone(p, files, sources) ==
  IF sources \subseteq {"worksheets"}
  THEN files \cup (IF sources = {} THEN {} ELSE {PROVED})
  ELSE Artifacts

\* What some artifacts read, and what that reads, n times over.
ReadFrom(p, files) ==
  LET Within[n \in 0..Cardinality(Artifacts)] ==
        IF n = 0 THEN files
        ELSE Within[n - 1] \cup UNION {Needs(p, a) : a \in Within[n - 1]}
  IN Within

\* The artifacts an edit to built files and sources reaches, with what they
\* read.
ReachedBy(p, files, sources) ==
  IF sources \subseteq {"worksheets"}
  THEN ReadFrom(p, files \cup (IF sources = {} THEN {} ELSE {PROVED}))[Cardinality(Artifacts)]
  ELSE Artifacts

\* A theorem's built file holds its statement, made of its own page and the
\* records; a half-written one may stop before it.
StatementOf(text) == IF text = None \/ text.whole = "head" THEN None ELSE text.from

\* What a recipe makes, of the corpus and the worksheets it reads, the texts
\* of the artifacts, and the proved.mm its library was read with; None where
\* it refuses.
Made(a, p, sheets, text, proved) ==
  CASE a = DEFINITIONS -> IF p["records"] = BadVersion THEN None
                          ELSE Text(a, <<p["records"]>>, <<>>)
    [] a = PROVED -> IF text[DEFINITIONS] = None \/ sheets = BadVersion THEN None
                     ELSE Text(a, <<sheets>>, <<text[DEFINITIONS]>>)
    [] a \in Comparisons -> Text(a, <<>>, <<>>)
    [] OTHER ->
         LET cited == Cites[a][p[a]] \ {a} IN
         IF p[a] = BadVersion \/ \E c \in cited : StatementOf(text[c]) = None THEN None
         ELSE Text(a, <<p["records"], p[a]>>, <<proved, [c \in cited |-> StatementOf(text[c])]>>)

\* text_of: what this run made, and otherwise the file in the tree.
TextOf(mine, there) == [a \in Artifacts |-> IF mine[a] # None THEN mine[a] ELSE there[a]]

\* Everything made n times over, each time from what the last time made and
\* else from the files "there".
Rounds(p, there) ==
  LET Round[n \in 0..Cardinality(Artifacts)] ==
        IF n = 0 THEN Nothing
        ELSE [a \in Artifacts |->
                LET text == TextOf(Round[n - 1], there) IN
                Made(a, p, p["worksheets"], text, text[PROVED])]
  IN Round

\* What a making of every artifact, in the order of what reads what, makes
\* of p beside the files "there": the reference the runs are held to.
Afresh(p, there) == Rounds(p, there)[Cardinality(Artifacts)]

(***************************************************************************)
(* The runs                                                                *)
(***************************************************************************)

Init ==
  /\ page = [s \in Sources |-> "1"]
  /\ tree \in {Nothing, Afresh(page, Nothing)}
  /\ setmm \in BOOLEAN
  /\ faults = 0 /\ runs = 0 /\ moved = FALSE
  /\ running = FALSE /\ kind = "build"
  /\ corpus = page /\ wanted = {} /\ wave = 0 /\ left = {}
  /\ writing = None /\ made = Nothing /\ library = {}
  /\ failed = FALSE /\ marks = {} /\ differ = {} /\ status = None

\* A run is asked for.  The checker reads the page first, and a page it
\* refuses is the answer; so is set.mm not being found, for any artifact at
\* all, since a build that wants no library still reads set.mm's text.
Start(what, wants) ==
  /\ ~running /\ runs < MaxRuns /\ runs' = runs + 1
  /\ kind' = what /\ corpus' = page
  /\ wave' = 0 /\ left' = {} /\ writing' = None /\ made' = Nothing /\ library' = {}
  /\ failed' = FALSE /\ marks' = {} /\ differ' = {} /\ moved' = FALSE
  /\ LET refused == ~Accepted(page)
         stopped == ~setmm \/ Stuck(page, wants) IN
     /\ running' = ~(refused \/ stopped)
     /\ wanted' = IF refused THEN {} ELSE wants
     /\ status' = IF what = "gate" /\ ~setmm THEN 2
                  ELSE IF refused THEN 1 ELSE IF stopped THEN 2 ELSE None
  /\ UNCHANGED <<page, tree, faults, setmm>>

BuildAll == Start("build", Artifacts)
BuildOne == \E a \in Artifacts : Start("build", {a})
Gate == Start("gate", Artifacts)
GateEdited ==
  \E files \in {{}} \cup {{a} : a \in Artifacts}, sources \in {{}, {"worksheets"}} :
    Start("gate", ReachedBy(page, files, sources))

\* One of the faults there may be.
Spend == faults < MaxFaults /\ faults' = faults + 1

\* A mutant of Stops: a failure does not stop the waves after it.
StopsNever == FALSE

\* The waves left are not begun: each would read what this one made.
Stops == kind = "build" /\ failed

NextWave ==
  /\ running /\ left = {} /\ writing = None /\ ~Stops
  /\ Waved(corpus, wanted)[wave] # wanted
  /\ wave' = wave + 1
  /\ left' = Waves(corpus, wanted)[wave + 1]
  /\ UNCHANGED <<page, tree, faults, runs, running, asked, writing, made, library, answer, moved>>

\* What is made of a by this run: its library is read with the proved.mm
\* there is when the first theorem is made, and kept.
MadeNow(a) ==
  LET text == TextOf(made, tree) IN
  Made(a, corpus, page["worksheets"], text,
       IF library = {} THEN text[PROVED] ELSE CHOOSE p \in library : TRUE)

\* An artifact of the wave is taken up to be made.
Making(a) ==
  /\ running /\ writing = None /\ a \in left
  /\ left' = left \ {a}
  /\ library' = IF a \in Theorems /\ library = {} THEN {TextOf(made, tree)[PROVED]} ELSE library

\* Its recipe refuses.
FailSaying(a, said) ==
  /\ Making(a) /\ MadeNow(a) = None
  /\ IF kind = "gate" THEN differ' = differ \cup said /\ UNCHANGED failed
     ELSE failed' = TRUE /\ UNCHANGED differ
  /\ UNCHANGED <<page, tree, faults, runs, running, asked, wave, writing, made, marks, status, moved>>

\* A mutant of Fail: the gate counts only what it made.
FailUnsaid(a) == FailSaying(a, {})

Fail(a) == FailSaying(a, {a})

\* It is made, and its file holds what is made.
Same(a) ==
  /\ Making(a) /\ MadeNow(a) # None /\ tree[a] = MadeNow(a)
  /\ made' = [made EXCEPT ![a] = MadeNow(a)]
  /\ marks' = IF kind = "build" THEN marks \cup {a} ELSE marks
  /\ UNCHANGED <<page, tree, faults, runs, running, asked, wave, writing, failed, differ, status, moved>>

\* It is made, and its file holds something else, or is not there: the gate
\* says so.
Differs(a) ==
  /\ Making(a) /\ MadeNow(a) # None /\ tree[a] # MadeNow(a) /\ kind = "gate"
  /\ made' = [made EXCEPT ![a] = MadeNow(a)]
  /\ differ' = differ \cup {a}
  /\ UNCHANGED <<page, tree, faults, runs, running, asked, wave, writing, failed, marks, status, moved>>

\* Where a file half written may stop: before a theorem's statement, or after.
Halves(a) == IF a \in Theorems THEN {"head", "body"} ELSE {"body"}

\* ... and the build begins to write it, or cannot.
Write(a) ==
  /\ Making(a) /\ MadeNow(a) # None /\ tree[a] # MadeNow(a) /\ kind = "build"
  /\ made' = [made EXCEPT ![a] = MadeNow(a)]
  /\ \/ /\ writing' = a
        /\ \E where \in Halves(a) : tree' = [tree EXCEPT ![a] = Cut(MadeNow(a), where)]
        /\ UNCHANGED <<failed, faults>>
     \/ Spend /\ failed' = TRUE /\ UNCHANGED <<tree, writing>>
  /\ UNCHANGED <<page, runs, running, asked, wave, marks, differ, status, moved>>

\* The file is written whole, or the write stops in the middle.
Wrote ==
  /\ running /\ writing # None
  /\ writing' = None
  /\ \/ /\ tree' = [tree EXCEPT ![writing] = made[writing]]
        /\ marks' = marks \cup {writing}
        /\ UNCHANGED <<failed, faults>>
     \/ Spend /\ failed' = TRUE /\ UNCHANGED <<tree, marks>>
  /\ UNCHANGED <<page, runs, running, asked, wave, left, made, library, differ, status, moved>>

\* A build whose artifacts were not all written fails, and so does one that
\* took too much memory; the gate fails where anything differs.
Answer ==
  IF kind = "gate" THEN {IF differ = {} THEN 0 ELSE 1}
  ELSE IF marks = wanted THEN {0, 1} ELSE {1}

\* The process is over: what it kept in memory is gone.
Over ==
  /\ running' = FALSE
  /\ wave' = 0 /\ left' = {} /\ writing' = None /\ made' = Nothing /\ library' = {}
  /\ failed' = FALSE /\ marks' = {}
  /\ corpus' = page
  /\ UNCHANGED <<page, runs, kind, wanted, setmm, moved>>

\* A mutant of End: a run with a failed artifact never ends.
EndClean ==
  /\ running /\ left = {} /\ writing = None /\ ~failed
  /\ Waved(corpus, wanted)[wave] = wanted
  /\ Over
  /\ status' \in Answer
  /\ UNCHANGED <<tree, faults, differ>>

End ==
  /\ running /\ left = {} /\ writing = None
  /\ Stops \/ Waved(corpus, wanted)[wave] = wanted
  /\ Over
  /\ status' \in Answer
  /\ UNCHANGED <<tree, faults, differ>>

\* The process is killed; a file being written stays half written.
Kill ==
  /\ running /\ Spend
  /\ Over
  /\ status' = None /\ differ' = {}
  /\ UNCHANGED tree

\* A source is edited, at any time.
EditSource ==
  /\ Spend
  /\ \E s \in Sources : \E v \in Versions[s] : page[s] # v /\ page' = [page EXCEPT ![s] = v]
  /\ moved' = TRUE
  /\ UNCHANGED <<tree, runs, running, asked, wave, left, writing, made, library, answer>>

\* A built file is edited by hand or taken away, between runs.
EditTree ==
  /\ ~running /\ Spend
  /\ \E a \in Artifacts : \E text \in {None, Text(a, <<"hand">>, <<>>)} :
       tree[a] # text /\ tree' = [tree EXCEPT ![a] = text]
  /\ moved' = TRUE
  /\ UNCHANGED <<page, runs, running, asked, wave, left, writing, made, library, answer>>

Step ==
  \/ NextWave \/ Wrote \/ End
  \/ \E a \in Artifacts : Fail(a) \/ Same(a) \/ Differs(a) \/ Write(a)

Next ==
  \/ BuildAll \/ BuildOne \/ Gate \/ GateEdited
  \/ Step \/ Kill \/ EditSource \/ EditTree

Spec == Init /\ [][Next]_vars /\ WF_vars(Step)

(***************************************************************************)
(* Properties                                                              *)
(***************************************************************************)

\* A build of everything that answers 0 leaves the tree a build in an empty
\* tree makes: whatever files, stale, edited or half written, it started
\* from, nothing of them is left in what it wrote.
BuiltIsFresh ==
  ~running /\ kind = "build" /\ wanted = Artifacts /\ status = 0 /\ ~moved =>
    /\ tree = Afresh(page, Nothing)
    /\ \A a \in Artifacts : tree[a] # None

\* And even where it fails midway, what it makes of each artifact is what a
\* build in an empty tree makes: a failure never lets a later artifact be
\* made from an old file of the failed one.
NeverStale ==
  kind = "build" /\ wanted = Artifacts /\ ~moved =>
    \A a \in Artifacts : made[a] \in {None, Afresh(page, Nothing)[a]}

\* The gate is green exactly over a tree a build in an empty tree makes; and
\* what it says of an artifact after an edit, making only what the edit
\* reaches, is what it says making everything.
GreenIsFresh ==
  ~running /\ kind = "gate" /\ ~moved /\ status \in {0, 1} =>
    /\ wanted = Artifacts =>
         (status = 0 <=> \A a \in Artifacts : tree[a] # None /\ tree[a] = Afresh(page, Nothing)[a])
    /\ \A a \in wanted :
         LET whole == Afresh(page, tree)[a] IN
         a \in differ <=> (whole = None \/ whole # tree[a])

\* A run ends, whatever fails in it.
RunEnds == running ~> ~running

=============================================================================
