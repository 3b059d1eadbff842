-------------------------------- MODULE Verify --------------------------------
(***************************************************************************)
(* src/src/tools/verify.rs, and the stage of the gate that runs it: every  *)
(* built file of the tree given to a verifier as one text, beside the      *)
(* builds of module Build, which write those files.                        *)
(*                                                                         *)
(* A built file declares one label, its own name, and a theorem's proof    *)
(* uses the labels of the files it was made from.  The verifier is not of  *)
(* this repository: it accepts a proof where each label it uses is         *)
(* declared before it, and says what they state when the proof was made;   *)
(* a proof made when they stated something else it may refuse.             *)
(***************************************************************************)
EXTENDS Build, Sequences, SequencesExt

CONSTANTS
  WantsProved,  \* the theorems whose proofs use a lemma of proved.mm
  Includes      \* what each hand-written comparison includes

VARIABLE verdict  \* what the verifier's stage of the last gate answered

verifyVars == <<vars, verdict>>

CitedIn(text) == IF text.from = <<"hand">> THEN {} ELSE DOMAIN text.read[2]

\* The files of the corpus a built file includes, which stand at its head.
IncludesOf(a, text) ==
  IF a \in Comparisons THEN Includes[a]
  ELSE IF a = DEFINITIONS \/ text.from = <<"hand">> THEN {}
  ELSE IF a = PROVED THEN {DEFINITIONS}
  ELSE LET cited == CitedIn(text) IN
       cited \cup (IF a \in WantsProved THEN {PROVED} ELSE {})
             \cup (IF cited = {} /\ a \notin WantsProved THEN {DEFINITIONS} ELSE {})

\* The label a file declares, where its statement is there.
Declared(a, text) == IF text.whole = "head" \/ text.from = <<"hand">> THEN {} ELSE {a}

\* The labels its proofs use: any may use the definitions', and one that is
\* cut off is not read.
Used(a, text) ==
  IF a \notin Theorems \cup {PROVED} \/ text.whole # "whole" \/ text.from = <<"hand">> THEN {}
  ELSE {DEFINITIONS}
         \cup (IF a \in Theorems THEN CitedIn(text) ELSE {})
         \cup (IF a \in WantsProved THEN {PROVED} ELSE {})

\* The files reached from one through the inclusions.
Reached(files, a) ==
  LET Grown[n \in 0..Cardinality(Artifacts)] ==
        IF n = 0 THEN {a}
        ELSE Grown[n - 1] \cup UNION {IncludesOf(b, files[b]) : b \in Grown[n - 1]}
  IN Grown[Cardinality(Artifacts)]

\* A proof uses a label that nothing its own file includes declares.
Unreached(files) ==
  {a \in Artifacts :
     ~(Used(a, files[a]) \subseteq UNION {Declared(b, files[b]) : b \in Reached(files, a)})}

\* A mutant of Roots: only the theorems nothing includes.
RootsTheorems(files) == Theorems \ UNION {IncludesOf(b, files[b]) : b \in Artifacts}

\* The files nothing else includes.
Roots(files) == Artifacts \ UNION {IncludesOf(b, files[b]) : b \in Artifacts}

\* A mutant of Joined: a file stands before what it includes.
JoinedBefore(files) ==
  LET RECURSIVE Visit(_, _)
      Visit(order, a) ==
        IF Contains(order, a) THEN order
        ELSE FoldLeft(Visit, Append(order, a), SetToSeq(IncludesOf(a, files[a])))
  IN FoldLeft(Visit, <<>>, SetToSeq(Roots(files)))

\* The files reached from the roots, each once and after what it includes.
\* A file being visited, or visited, is not visited again.
Joined(files) ==
  LET RECURSIVE Visit(_, _)
      Visit(at, a) ==
        IF a \in at.seen THEN at
        ELSE LET under == FoldLeft(Visit, [at EXCEPT !.seen = @ \cup {a}],
                                   SetToSeq(IncludesOf(a, files[a])))
             IN [under EXCEPT !.order = Append(@, a)]
  IN FoldLeft(Visit, [seen |-> {}, order |-> <<>>], SetToSeq(Roots(files))).order

\* What the external verifier refuses of a text joined in this order: a file
\* cut off, or a label used before it is declared.
Refuses(files, order) ==
  \E k \in DOMAIN order :
    LET a == order[k] IN
    \/ files[a].whole # "whole"
    \/ ~(Used(a, files[a]) \subseteq
           UNION {Declared(order[j], files[order[j]]) : j \in 1..(k - 1)})

\* A proof there may be refused: it was made of other statements.
Outdated(files, order) ==
  \E a \in Theorems \cap Range(order) :
    /\ files[a].from # <<"hand">>
    /\ \/ a \in WantsProved /\ files[a].read[1] # files[PROVED]
       \/ \E c \in CitedIn(files[a]) : files[a].read[2][c] # StatementOf(files[c])

\* What the stage answers over a tree's files.
Verdicts(files) ==
  LET order == Joined(files)
      Said(said) == [status |-> said, joined |-> Range(order)]
  IN IF ~setmm \/ \E a \in Artifacts : files[a] = None THEN {[status |-> 2, joined |-> {}]}
     ELSE IF Unreached(files) # {} THEN {[status |-> 1, joined |-> {}]}
     ELSE IF Refuses(files, order) THEN {Said(1)}
     ELSE IF Outdated(files, order) THEN {Said(0), Said(1)}
     ELSE {Said(0)}

(***************************************************************************)
(* The gate: the stages run side by side                                   *)
(***************************************************************************)

InitVerify == Init /\ verdict = None

\* The stage reads the tree while the artifacts are made in memory.
Verifies ==
  /\ running /\ kind = "gate" /\ wanted = Artifacts /\ verdict = None
  /\ verdict' \in Verdicts(tree)
  /\ UNCHANGED vars

NextVerify ==
  \/ Next /\ verdict' = IF runs' # runs THEN None ELSE verdict
  \/ Verifies

SpecVerify == InitVerify /\ [][NextVerify]_verifyVars /\ WF_vars(Step)

(***************************************************************************)
(* Properties                                                              *)
(***************************************************************************)

\* A gate over every artifact, the first of its stages green, reads every
\* built file into the text it verifies, each after what it uses whatever
\* the order the roots are visited in, and finds it good.  It rests on the
\* checker: that stage makes every artifact afresh, and what the checker
\* refuses, citations that go round, would leave files out of reach of the
\* roots, and unread.
FreshIsVerified ==
  ~running /\ kind = "gate" /\ wanted = Artifacts /\ ~moved /\ status = 0 /\ verdict # None =>
    verdict.status = 0 /\ verdict.joined = Artifacts

=============================================================================
