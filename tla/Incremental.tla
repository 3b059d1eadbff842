----------------------------- MODULE Incremental -----------------------------
(***************************************************************************)
(* src/src/checker/mod.rs: Clean, run_edited, reached_from, read_corpus.   *)
(* The corpus is read once (Clean::read); it is then edited, and each time *)
(* only the theorems an edit can reach are checked, taking from the clean  *)
(* reading whatever the edits cannot have changed.                         *)
(*                                                                         *)
(* The tree is one record file and some proof files, which are read in     *)
(* path order.  A proof file says: whether it parses, which files it       *)
(* imports from, what its own lines are (body), whether it defines a       *)
(* phrase (which stands for records), the lines the checks of the corpus   *)
(* as a whole report (wide: a citation that closes a cycle), and its       *)
(* theorems, each a sequence of steps.  A step is a line, and says whether *)
(* it cites something imported (cites: it is wrong where an import leads   *)
(* to a file that is not read), whether a requires line of it does no work *)
(* (surplus), and whether it names a letter for itself for nothing (pair). *)
(*                                                                         *)
(* What a theorem is checked as is what its reading saw: its own file, the *)
(* files its imports lead to, and the records, those of phrases among      *)
(* them: a phrase reads only where it is imported, but the words it        *)
(* declares are words everywhere (structure::declared_words,               *)
(* check_run_together).                                                    *)
(***************************************************************************)
EXTENDS Naturals, SequencesExt

CONSTANTS
  Order,       \* the proof files in path order
  RecordFile,  \* the one record file
  Written,     \* what may be written in each file
  Slots,       \* where a theorem may stand: its file, and the how manieth of it
  Takers,      \* the workers a whole check is shared among
  Absent,      \* what a file that is not there holds
  MaxEdits,    \* how often the tree is edited
  None         \* nothing yet

Proofs == ToSet(Order)

Files == Proofs \cup {RecordFile}

Parses(c) == c # Absent /\ c.parses

\* The theorems of a file stand one below another, as their steps do.
InLines(theorems) ==
  /\ theorems \in Seq(Seq([line : Nat, cites : BOOLEAN, surplus : BOOLEAN, pair : BOOLEAN]))
  /\ \A k, m \in DOMAIN theorems : \A i \in DOMAIN theorems[k], j \in DOMAIN theorems[m] :
       k < m \/ (k = m /\ i < j) => theorems[k][i].line < theorems[m][j].line

\* Each proof file stands once in path order and imports from files, those
\* that are not there among them; the record file is always there, since
\* read_corpus reads no corpus where there is none.  The theorems of a corpus
\* are in path order, and those of a file in the order of its lines.
ASSUME BoundsAssumption ==
  /\ MaxEdits \in Nat
  /\ Order \in Seq(Proofs) /\ \A i, j \in DOMAIN Order : Order[i] = Order[j] => i = j
  /\ RecordFile \notin Proofs /\ Absent \notin Written[RecordFile]
  /\ \A f \in Proofs : \A c \in Written[f] : Parses(c) =>
       /\ c.imports \subseteq Files /\ c.wide \subseteq Nat /\ InLines(c.theorems)
       /\ \A k \in DOMAIN c.theorems : <<f, k>> \in ToSet(Slots)
  /\ Slots \in Seq(Proofs \X Nat)
  /\ \A i, j \in DOMAIN Slots : i < j =>
       /\ Slots[i][1] = Slots[j][1] => Slots[i][2] < Slots[j][2]
       /\ \A a, b \in DOMAIN Order : Order[a] = Slots[i][1] /\ Order[b] = Slots[j][1] => a <= b

VARIABLES
  tree,   \* what each file holds
  clean,  \* the Clean reading, or None before it is made
  edited, \* the files the caller says it changed since
  edits,  \* how many edits were made
  said    \* what the last run said, each way of running it

keptVars == <<tree, clean, edited, edits, said>>

(***************************************************************************)
(* Reading the corpus                                                      *)
(***************************************************************************)
Present(t) == {f \in Files : t[f] # Absent}

\* The scopes when so many proof files are read: those that parse, in order.
ScopesBy(t) ==
  LET By[n \in 0..Len(Order)] ==
        IF n = 0 THEN <<>>
        ELSE IF Parses(t[Order[n]]) THEN Append(By[n - 1], Order[n]) ELSE By[n - 1]
  IN By

\* let at = scopes.len(), before its own scope is pushed; a first place is 1.
Place(t, f) == Len(ScopesBy(t)[(CHOOSE i \in DOMAIN Order : Order[i] = f) - 1]) + 1

\* A file's FileRead, its bytes and, for a proof file, the place it was parsed
\* at, as a reading with nothing kept makes it.
ReadAfresh(t, f) == [raw |-> t[f], at |-> IF f \in Proofs THEN Place(t, f) ELSE 0]

NothingKept == [f \in {} |-> None]

\* A mutant of FileRead: a parse is kept wherever the bytes are the same.
FileReadAnywhere(t, kept, f) ==
  IF f \in DOMAIN kept /\ kept[f].raw = t[f] THEN kept[f] ELSE ReadAfresh(t, f)

\* read_corpus of one file: a parse is kept where the bytes are the same and
\* the file stands where it stood.
FileRead(t, kept, f) ==
  IF f \in DOMAIN kept /\ kept[f].raw = t[f] /\ kept[f].at = Place(t, f)
  THEN kept[f] ELSE ReadAfresh(t, f)

\* read_corpus: every file read, and the scopes of the proof files that parse,
\* in order; a theorem finds its file's scope by the place in its parse.
ReadCorpus(t, kept) ==
  [files  |-> [f \in Present(t) |-> IF f \in Proofs THEN FileRead(t, kept, f)
                                    ELSE ReadAfresh(t, f)],
   scopes |-> ScopesBy(t)[Len(Order)]]

Scopes(r) == ToSet(r.scopes)

\* The records: the record file's, and those the phrases stand for.
PhraseRecords(r) == {f \in Scopes(r) : r.files[f].raw.phrase}

\* The files that importing leads to from the modules "from", whichever of
\* them read.
LedTo(r, from) ==
  {f \in Files : \A S \in SUBSET Files :
     (from \subseteq S /\ \A g \in S \cap Scopes(r) : r.files[g].raw.imports \subseteq S)
        => f \in S}

\* What reading the theorem of f sees (read_with_citations): its own lines,
\* what its scope imports and all that leads to, and every record.
Reading(r, f) ==
  LET at    == r.files[f].at
      scope == IF at \in DOMAIN r.scopes THEN r.scopes[at] ELSE f
      seen  == LedTo(r, r.files[scope].raw.imports)
  IN  [body    |-> r.files[f].raw.body,
       sees    |-> {<<g, r.files[g].raw>> : g \in seen \cap Scopes(r)},
       lacks   |-> seen \ Scopes(r),
       records |-> <<r.files[RecordFile].raw, PhraseRecords(r)>>]

(***************************************************************************)
(* What an edit reaches                                                    *)
(***************************************************************************)
\* The proof files read that "modules" were imported by, directly or not.
Importing(r, modules) ==
  {f \in Scopes(r) : r.files[f].raw.imports \cap modules # {}}

Grown(r, reached, refused) ==
  CHOOSE S \in SUBSET Scopes(r) :
    /\ reached \cup Importing(r, S \cup refused) = S
    /\ \A T \in SUBSET Scopes(r) :
         reached \cup Importing(r, T \cup refused) = T => S \subseteq T

\* A mutant of ReachedFrom: only the files importing from an edited one are
\* reached, and not those importing from these.
ReachedOnce(r, changed) ==
  LET reached == changed \cap Scopes(r)
  IN  IF ~(changed \subseteq Proofs) THEN Scopes(r)
      ELSE reached \cup Importing(r, changed)

\* reached_from: a changed file that is no proof file reaches every file; a
\* proof file that did not read still reaches the files importing from it.
ReachedFrom(r, changed) ==
  IF ~(changed \subseteq Proofs) THEN Scopes(r)
  ELSE Grown(r, changed \cap Scopes(r), changed \ Scopes(r))

(***************************************************************************)
(* Checking                                                                *)
(***************************************************************************)
Problem(f, line, what) == [file |-> f, line |-> line, what |-> what]

\* What the checks of the corpus as a whole report.
WideProblems(r) ==
  UNION {{Problem(f, line, "wide") : line \in r.files[f].raw.wide} : f \in Scopes(r)}

\* The theorems of the corpus read, and the one that stands at a slot.
TheoremsOf(r) ==
  {s \in ToSet(Slots) : s[1] \in Scopes(r) /\ s[2] \in DOMAIN r.files[s[1]].raw.theorems}
Theorem(r, s) == r.files[s[1]].raw.theorems[s[2]]

\* A mutant of Reported: a problem anywhere in the file.
ReportedAnywhere(report, f, thm, i) == \E p \in report : p.file = f

\* The report holds a problem between the i-th step and the next, or anywhere
\* below the theorem's last.
Reported(report, f, thm, i) ==
  \E p \in report :
    p.file = f /\ thm[i].line <= p.line /\ (i < Len(thm) => p.line < thm[i + 1].line)

\* check_nth of the theorem at s, into a report that already holds "report":
\* what is wrong with it; a requires line that does no work, of a step the
\* report holds nothing of (check_requires_work); and where that is nothing
\* new, the pairs that do none (check_pairs_needed).
Checked(report, r, s, reading) ==
  LET thm   == Theorem(r, s)
      at(i, what) == Problem(s[1], thm[i].line, what)
      wrong == {at(i, "wrong") : i \in {j \in DOMAIN thm : thm[j].cites /\ reading.lacks # {}}}
      idle  == {at(i, "surplus") : i \in
                  {j \in DOMAIN thm : thm[j].surplus /\ ~Reported(report \cup wrong, s[1], thm, j)}}
      pairs == {at(i, "pair") : i \in {j \in DOMAIN thm : thm[j].pair}}
  IN  wrong \cup idle \cup (IF wrong \cup idle = {} THEN pairs ELSE {})

\* The theorems wanted, one after another, each into the report that holds
\* what was said of those before it.
CheckAll(report, r, wanted, readings) ==
  LET Held[n \in 0..Len(Slots)] ==
        IF n = 0 THEN report
        ELSE LET held == Held[n - 1] IN
             IF Slots[n] \in wanted
             THEN held \cup Checked(held, r, Slots[n], readings[Slots[n][1]])
             ELSE held
  IN  Held[Len(Slots)]

Readings(r) == [f \in Scopes(r) |-> Reading(r, f)]

\* Whoever takes each theorem.
Deals == [ToSet(Slots) -> Takers]

\* run: each worker says what it finds of the theorems it takes into a report
\* of its own, and these are added to what reading found.
RunWhole(r, readings, deal) ==
  LET takes(w) == {s \in TheoremsOf(r) : deal[s] = w}
  IN  WideProblems(r) \cup UNION {CheckAll({}, r, takes(w), readings) : w \in Takers}

\* check_reached: the theorems reached, checked into the reading's own report;
\* with what each was read as.
CheckReached(r, changed, readings) ==
  LET reached == {s \in TheoremsOf(r) : s[1] \in ReachedFrom(r, changed)}
  IN  [problems |-> CheckAll(WideProblems(r), r, reached, readings),
       readAs   |-> {<<s, readings[s[1]]>> : s \in reached}]

\* run_edited.
RunEdited(t, changed) ==
  LET r == ReadCorpus(t, NothingKept)
  IN  CheckReached(r, changed, Readings(r))

\* Clean::changed: the files whose bytes or place differ, or that one of the
\* two readings lacks.
Changed(files) ==
  {f \in DOMAIN files : f \notin DOMAIN clean.files \/ files[f] # clean.files[f]}
  \cup (DOMAIN clean.files \ DOMAIN files)

\* No records file changed, nor what the phrases' records say.
RecordsAlike(r) ==
  /\ Changed(r.files) \subseteq Proofs
  /\ PhraseRecords(r) = clean.phrases

\* Clean::run_edited: a theorem's reading is the clean one's where the records
\* are alike and no changed file reaches it.
RunKept(t, changed) ==
  LET r     == ReadCorpus(t, clean.files)
      moved == ReachedFrom(r, Changed(r.files))
      kept(f) == RecordsAlike(r) /\ f \notin moved /\ f \in DOMAIN clean.readings
  IN  CheckReached(r, changed, [f \in Scopes(r) |->
        IF kept(f) THEN clean.readings[f] ELSE Reading(r, f)])

(***************************************************************************)
(* The caller                                                              *)
(***************************************************************************)
Trees ==
  {t \in [Files -> UNION {Written[f] : f \in Files}] : \A f \in Files : t[f] \in Written[f]}

InitKept ==
  /\ tree \in Trees
  /\ \E f \in Proofs : tree[f] # Absent
  /\ clean = None /\ edited = {} /\ edits = 0 /\ said = None

\* What Clean::read keeps of a tree.
CleanOf(t) ==
  LET r == ReadCorpus(t, NothingKept) IN
  [files |-> r.files, phrases |-> PhraseRecords(r),
   readings |-> Readings(r)]

\* Clean::read.
ReadClean ==
  /\ clean = None
  /\ clean' = CleanOf(tree)
  /\ UNCHANGED <<tree, edited, edits, said>>

\* One file is written, taken away or added, and the caller says so.
Edit(f) ==
  /\ clean # None /\ edits < MaxEdits
  /\ tree' \in {[tree EXCEPT ![f] = c] : c \in Written[f] \ {tree[f]}}
  /\ \E g \in Proofs : tree'[g] # Absent
  /\ edited' = edited \cup {f}
  /\ edits' = edits + 1
  /\ said' = None
  /\ UNCHANGED clean

\* The same edits checked every way.
RunAll ==
  /\ edits > 0 /\ said = None
  /\ LET r     == ReadCorpus(tree, NothingKept)
         kept  == RunKept(tree, edited)
         fresh == RunEdited(tree, edited)
     IN  \E readings \in {Readings(r)}, deal \in Deals :
           said' = [kept |-> kept, fresh |-> fresh, run |-> RunWhole(r, readings, deal)]
  /\ UNCHANGED <<tree, clean, edited, edits>>

NextKept == ReadClean \/ RunAll \/ \E f \in Files : Edit(f)

SpecKept == InitKept /\ [][NextKept]_keptVars

(***************************************************************************)
(* Properties                                                              *)
(***************************************************************************)
\* A corpus checked against a kept clean reading is said what it is said read
\* afresh, word for word (Clean::run_edited): no kept parse or reading is
\* stale, whatever was added, taken away, refused or moved.
KeptSaysFresh == said # None => said.kept = said.fresh

Now == ReadCorpus(tree, NothingKept)

PassedOver == Scopes(Now) \ ReachedFrom(Now, edited)

\* While the records stay as they were, a theorem an edit does not reach reads
\* what it read: passing it over can hide no problem the edit made.
ReachSound ==
  clean # None /\ RecordsAlike(Now) =>
    \A f \in PassedOver : f \in DOMAIN clean.readings /\ Reading(Now, f) = clean.readings[f]

\* A surplus line of a step by which the checks of the corpus report another.
Hidden(r, p) ==
  /\ p.what = "surplus"
  /\ \E s \in TheoremsOf(r) : \E i \in DOMAIN Theorem(r, s) :
       /\ p.file = s[1] /\ p.line = Theorem(r, s)[i].line
       /\ Reported(WideProblems(r), s[1], Theorem(r, s), i)

\* Whether an edit is reported, run_edited answers as run does, whatever each
\* worker took: of a file it reaches either both say something or neither, and
\* of a theorem it passes over it says nothing.  All it may leave out of one
\* it reaches is a surplus line by which the checks of the corpus as a whole
\* report another, and all it may say more is a pair, where that was left out:
\* a theorem's problems depend on no other theorem's.
EditedSaysRun ==
  said # None =>
    LET r      == Now
        passed == PassedOver
        whole  == said.run
        edit   == said.fresh.problems
    IN
    /\ \A p \in whole \ edit : p.file \in passed \/ Hidden(r, p)
    /\ \A p \in edit \ whole :
         p.what = "pair" /\ \E q \in whole \ edit : q.file = p.file /\ Hidden(r, q)
    /\ \A p \in edit : p.file \in passed => p.what = "wide"
    /\ \A f \in Scopes(r) \ passed :
         (\E p \in edit : p.file = f) <=> (\E p \in whole : p.file = f)
=============================================================================
