----------------------------- MODULE SharedCheck -----------------------------
(***************************************************************************)
(* src/src/checker/mod.rs: run_named and checked_shared.  `parley check`   *)
(* shares the corpus's theorems among worker threads.  Each worker reads   *)
(* the corpus for itself, takes the next index not yet taken, and checks   *)
(* the theorem its own reading has there; the caller joins the workers in  *)
(* the order they were spawned, keeps the first one's account of the       *)
(* corpus as a whole, gathers every worker's problems, and prints them     *)
(* sorted by path and line.                                                *)
(*                                                                         *)
(* A corpus is what one reading of the tree gives: whether a grammar can   *)
(* be built from its records (prepared_in ends the reading where none can) *)
(* the problems of the corpus as a whole, and the theorems in order.  A    *)
(* problem's place stands for its path and line, which are all it is       *)
(* sorted by.  The tree may be edited while the workers read it.           *)
(***************************************************************************)
EXTENDS Naturals, SequencesExt, Sifts

CONSTANTS
  Threads,   \* how many threads() there are
  Corpora,   \* what a reading of the tree may give
  Own,       \* Own[t]: the problems check_theorem finds of theorem t
  Pairs,     \* Pairs[t]: those check_pairs_needed finds of it
  Named,     \* whether a name was given to run_named
  Wanted,    \* the theorems asked for: all of them where no name is given
  MaxSharedEdits, \* how often the tree is edited under the run
  Unsaid     \* no outcome yet

\* There is a worker, each theorem read is one something may be found of, and
\* what is found is a list of problems, each at a place.
Problems ==
  UNION {ToSet(c.found) : c \in Corpora}
  \cup UNION {ToSet(Own[t]) \cup ToSet(Pairs[t]) : t \in DOMAIN Own}
ASSUME SharedAssumption ==
  /\ Threads \in Nat \ {0} /\ MaxSharedEdits \in Nat
  /\ \A c \in Corpora :
       c.reads \in BOOLEAN /\ c.found \in Seq(Problems) /\ c.theorems \in Seq(DOMAIN Own)
  /\ \A t \in DOMAIN Own : Own[t] \in Seq(Problems) /\ Pairs[t] \in Seq(Problems)
  /\ \A p \in Problems : p.at \in Nat

VARIABLES
  sharedTree,   \* what reading the tree now gives
  sharedEdits,  \* how often it was edited
  sharedNext,   \* the shared cursor
  asked,        \* the shared count of the theorems asked for
  sharedPc,     \* where each worker stands
  corpus,       \* what each worker read
  taken,        \* the index each worker took last
  own,          \* the problems each worker found
  sharedOutcome \* what the run said

sharedVars ==
  <<sharedTree, sharedEdits, sharedNext, asked, sharedPc, corpus, taken, own,
  sharedOutcome>>

Checkers == 1..Threads

\* problems.sort_by(path, then line): a stable sort, so that two problems of
\* one place stay in the order they were said.
SortedIn(sorted, p) ==
  LET before == {q \in ToSet(sorted) : q.at <= p.at}
  IN  Append(Sift(sorted, before), p) \o Sift(sorted, ToSet(sorted) \ before)

Sorted(problems) ==
  LET In[k \in 0..Len(problems)] == IF k = 0 THEN <<>> ELSE SortedIn(In[k - 1], problems[k])
  IN  In[Len(problems)]

\* What summary prints of a report, and the status the command exits with.
Summary(problems, theorems, checked) ==
  [status |-> IF problems = <<>> THEN 0 ELSE 1,
   printed |-> Sorted(problems), theorems |-> theorems, checked |-> checked]

\* Nothing printed, a complaint and status 2: there is no such corpus, or no
\* such theorem in it.
Complained == [status |-> 2, printed |-> <<>>, theorems |-> 0, checked |-> 0]

\* The outcome where the files are missing, or no grammar can be built: then
\* what reading found and that.
Refused(c) ==
  IF c.empty THEN Complained
  ELSE Summary(Append(c.found, c.grammar), Len(c.theorems), Unsaid)

\* check_nth: the pairs are asked of a theorem only where nothing was found.
CheckNth(t) == IF Own[t] = <<>> THEN Pairs[t] ELSE Own[t]

\* No place has problems of two theorems: what is found of one is said of a
\* line of its own page.
PlacesOf(t) == {p.at : p \in ToSet(CheckNth(t))}
ASSUME PlacesAssumption ==
  \A c \in Corpora : \A i, j \in DOMAIN c.theorems :
    i # j /\ {c.theorems[i], c.theorems[j]} \subseteq Wanted =>
      PlacesOf(c.theorems[i]) \cap PlacesOf(c.theorems[j]) = {}

\* run_named, given what checked_shared merged.
Said(problems, theorems, n) ==
  IF ~Named THEN Summary(problems, theorems, Unsaid)
  ELSE IF n = 0 THEN Complained
  ELSE Summary(problems, theorems, n)

InitShared ==
  /\ sharedTree \in Corpora
  /\ sharedEdits = 0 /\ sharedNext = 1 /\ asked = 0
  /\ sharedPc = [w \in Checkers |-> "read"]
  /\ corpus = [w \in Checkers |-> sharedTree]
  /\ taken = [w \in Checkers |-> 0]
  /\ own = [w \in Checkers |-> <<>>]
  /\ sharedOutcome = Unsaid

\* The environment: the tree is edited while the check runs.
EditShared ==
  /\ sharedEdits < MaxSharedEdits /\ sharedOutcome = Unsaid
  /\ sharedTree' \in Corpora \ {sharedTree}
  /\ sharedEdits' = sharedEdits + 1
  /\ UNCHANGED <<sharedNext, asked, sharedPc, corpus, taken, own, sharedOutcome>>

\* prepared: a worker's own reading, which ends it where nothing can be read.
ReadShared(w) ==
  /\ sharedPc[w] = "read"
  /\ corpus' = [corpus EXCEPT ![w] = sharedTree]
  /\ sharedPc' = [sharedPc EXCEPT ![w] = IF sharedTree.reads THEN "take" ELSE "refused"]
  /\ UNCHANGED <<sharedTree, sharedEdits, sharedNext, asked, taken, own, sharedOutcome>>

\* A worker reads the cursor and leaves it at "to".
TakeSharedBy(w, to) ==
  LET theorems == corpus[w].theorems IN
  /\ sharedPc[w] = "take"
  /\ sharedNext' = to
  /\ taken' = [taken EXCEPT ![w] = sharedNext]
  /\ sharedPc' = [sharedPc EXCEPT ![w] = IF sharedNext \notin DOMAIN theorems THEN "done"
                                   ELSE IF theorems[sharedNext] \in Wanted THEN "check"
                                   ELSE "take"]
  /\ UNCHANGED <<sharedTree, sharedEdits, asked, corpus, own, sharedOutcome>>

\* A mutant of TakeShared: a theorem not wanted is not stepped over.
TakeSharedStays(w) ==
  LET theorems == corpus[w].theorems IN
  TakeSharedBy(w, IF sharedNext \in DOMAIN theorems /\ theorems[sharedNext] \notin Wanted
                  THEN sharedNext ELSE sharedNext + 1)

\* let i = next.fetch_add(1), and c.theorems.get(i) of its own reading; then
\* a theorem not wanted is passed over.
TakeShared(w) == TakeSharedBy(w, sharedNext + 1)

\* asked.fetch_add(1) and check_nth into the worker's own report.
CheckShared(w) ==
  /\ sharedPc[w] = "check"
  /\ asked' = asked + 1
  /\ own' = [own EXCEPT ![w] = @ \o CheckNth(corpus[w].theorems[taken[w]])]
  /\ sharedPc' = [sharedPc EXCEPT ![w] = "take"]
  /\ UNCHANGED <<sharedTree, sharedEdits, sharedNext, corpus, taken, sharedOutcome>>

EndedShared(w) == sharedPc[w] \in {"done", "refused"}

\* The workers' problems in the order the workers were spawned, after "found".
Gathered(found) == found \o Joined(own)

\* Mutants of Merged: every worker's reading is said; and none is.
MergedEach(n) ==
  Said(FoldLeft(LAMBDA all, w : all \o corpus[w].found \o own[w], <<>>, [w \in Checkers |-> w]),
       n, asked)
MergedUnread(n) == Said(Gathered(<<>>), n, asked)

\* The first worker's reading and counts, and each worker's own problems.
Merged(n) == Said(Gathered(corpus[1].found), n, asked)

\* Every worker joined in the order spawned; the first refusal is the outcome.
JoinShared ==
  /\ sharedOutcome = Unsaid
  /\ \A w \in Checkers : EndedShared(w)
  /\ sharedOutcome' =
       IF \E w \in Checkers : sharedPc[w] = "refused"
       THEN LET first == CHOOSE w \in Checkers :
                           /\ sharedPc[w] = "refused"
                           /\ \A v \in 1..(w - 1) : sharedPc[v] # "refused"
            IN  Refused(corpus[first])
       ELSE Merged(Len(corpus[1].theorems))
  /\ UNCHANGED <<sharedTree, sharedEdits, sharedNext, asked, sharedPc, corpus, taken, own>>

StepShared(w) == ReadShared(w) \/ TakeShared(w) \/ CheckShared(w)

NextShared == EditShared \/ JoinShared \/ \E w \in Checkers : StepShared(w)

SpecShared ==
  /\ InitShared /\ [][NextShared]_sharedVars
  /\ WF_sharedVars(JoinShared) /\ \A w \in Checkers : WF_sharedVars(StepShared(w))

(***************************************************************************)
(* Properties                                                              *)
(***************************************************************************)
\* What one worker alone says of a corpus: the reference.
OneWorker(c) ==
  LET asks == Sift(c.theorems, Wanted)
  IN  IF ~c.reads THEN Refused(c)
      ELSE Said(c.found \o Joined([i \in DOMAIN asks |-> CheckNth(asks[i])]),
                Len(c.theorems), Len(asks))

Agree == \A v, w \in Checkers : corpus[v] = corpus[w]

\* Where the workers read one corpus, what is printed and the status are what
\* one worker alone would print: the number of threads and their schedule do
\* not show, no theorem is missed or said twice, and what reading the corpus
\* found is said once (checked_shared, summary).
AsOneWorker == sharedOutcome # Unsaid /\ Agree => sharedOutcome = OneWorker(corpus[1])

\* Whatever was edited meanwhile, a run that says nothing is wrong (status 0)
\* has a first worker that read without a problem, and no worker found one:
\* a problem found by any of them is never dropped.  Where they read one
\* corpus, every theorem asked for checks clean: none is missed.
NothingDropped ==
  sharedOutcome # Unsaid /\ sharedOutcome.status = 0 =>
    /\ \A w \in Checkers : corpus[w].reads /\ own[w] = <<>>
    /\ corpus[1].found = <<>>
    /\ Agree => \A t \in ToSet(corpus[1].theorems) \cap Wanted : CheckNth(t) = <<>>

\* The check ends.
SharedEnds == <>(sharedOutcome # Unsaid)
=============================================================================
