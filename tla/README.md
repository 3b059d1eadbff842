# A verification of parley in TLA+

`parley` checks proofs written for people against a grammar and a database of
records, and elaborates each into a Metamath proof over `set.mm`. These modules
model the parts of it (`src/src/`, in Rust) whose behaviour depends on an order
(of threads, of edits and runs, of lines in a text, of steps on a stack or in a
heap) or on two pieces of code that must agree (the checker that accepts a step
and the elaborator that writes its proof). TLC checks each module on small
instances, and eight of them are proved about, for every value of their
constants, with TLAPS.

`PROJECT.json` lists the components, the runs, the mutated definition each
property is known to catch, the source lines each definition stands for, and
the hazards the properties are for.

## 1. The system

Three commands matter here. `parley check [NAME]` reads the corpus and reports
every defect. `parley build [NAME] [set.mm]` writes a Metamath file for each
theorem. `parley gate` makes everything afresh, compares it with what is
committed, and asks more stages, the last an external verifier.

    corpus/ --read--> corpus, formula, sorts --> checker --report--> check
                                                  |
                           set.mm --> mm::library, mm::kernel
                                                  v
                          elab (steps of mm::spell) --mm::compress--> built .mm
                                                                        |
                                     tools::build, gate <--> the tree --+--> verify

The parts, what each keeps, what it does, and what makes it correct:

| part (src/src/) | state | operations | what must hold | here |
|---|---|---|---|---|
| `threads.rs` | one cursor, a slot for each item | take, run, put, join | each item run once, answers in order, a panic not swallowed | `InOrder` |
| `formula/symbol.rs`, `notation_id.rs`, the libraries of `tools/build.rs` | tables behind locks, each thread's own texts | look up, lock, look again, add | a text has one id for good; every ask ends | `Interner` |
| `checker/mod.rs`, the shared check | a cursor, a reading and a report for each worker | read, take, check, join and print | what is printed does not show the threads, or drop a problem | `SharedCheck` |
| `checker/mod.rs`, incremental runs | the clean reading: parses, scopes, readings | read, re-read keeping parses, what an edit reaches, check that | nothing kept is stale | `Incremental` |
| `checker/mod.rs`, lines that do no work | the lines kept | ask each line of what is kept | the lines reported can go together | `Surplus` |
| `corpus/proof.rs`, `checker/structure.rs`, `checker/record.rs` | steps, parts and openers of blocks | read each line, place each step, say what is in scope | nothing escapes its assumptions | `Scope` |
| `checker/structure.rs`, cycles | a trail, what is done | follow each citation | no theorem rests on itself unreported | `Cycles` |
| `sorts/infer.rs`, `checker/formulas.rs` | a store of sort variables, what is bound | unify, declare, fix, cite | the sorts read are what the lines say | `Sorts` |
| `checker/formulas.rs`, `structure.rs`, blocks | openers and ends of each part | open, owe, end, join | a block accepted proves its claim | `Blocks` |
| `citing/supply.rs`, `matching.rs` | bindings, facts taken, a path of attempts | take up, try, back out | supplied exactly where the facts say it | `Supply` |
| `methods/linear.rs`, `inequalities.rs`, `elab/calculators.rs` | facts, combinations | decide, tell, leave out, prove | accepted follows; accepted is written | `Linear`, `Orders` |
| `checker/formulas.rs`, `elab/elaborate.rs`, chains | relations taken, links folded | choose, turn, join, fold | accepted follows; accepted is written | `Chains` |
| `methods/inspection.rs`, `elab/inspection.rs` | what the cited lines say | decide, ask each line, work out, compare | accepted follows; accepted is written | `Inspection` |
| `elab/scopes.rs`, `elab/elaborate.rs` | frames, closers, names, lines proved | widen, carry, close, discharge | each block closes with its lemma; a label is what the checker reads | `Frames` |
| `mm/spell.rs`, the builder | steps held by reference, terms made, what is known of an address | apply, drop, fault | what is known is true of the step there now | `Builder` |
| `mm/library.rs` | a stack of scopes, signatures, a layer over them | each statement, insert, index | the signature is Metamath's frame | `Library` |
| `mm/kernel.rs`, the grammar | opening tokens, a chart | open, predict, scan, complete | a statement is read exactly when derived | `Syntax` |
| `mm/compress.rs` | stacks, numbers of subproofs, letters | number, count, write, read back | a proof reads back as itself | `Compress` |
| `tools/build.rs`, `tools/gate.rs` | the tree of built files, what a run made, its library | waves, make, write, compare | the tree after 0 is a fresh build; the gate is green over that only | `Build` |
| `tools/verify.rs` | the joined text | roots, reach, join, verify | green only where every proof was verified | `Verify` |
| `tools/renumber.rs` | the steps of a file | shift a run, lift a block | a citation still names the step it was written for | `Renumber` |
| the rest of `elab/`, `methods/`, `checker/` | | one route for each method | a wrong proof is the verifier's to refuse | section 5 |

How they interact. The checker and the gate's stages share items over threads
through `threads::in_order` (`InOrder`), and every thread interns its texts in
one set of tables (`Interner`); `check` has a loop of its own with a reading for
each worker (`SharedCheck`). `Incremental` asks the same checks as `check`, of
fewer theorems, and `Surplus` is one of those checks, which reads the report the
others wrote into. A theorem's lines are placed (`Scope`), given sorts (`Sorts`),
and asked step by step: of a block, whether its parts make its claim (`Blocks`),
and of a single step, whether its method does (`Orders`, `Chains`, `Inspection`) or
the item it cites is supplied (`Supply`). What the checker accepts is what the elaborator may
assume: it walks the same page with scopes of its own (`Frames`) and folds the
same lines into a proof, so `Orders`, `Chains` and `Inspection` hold both halves and
compare them.
The elaborator makes the steps of `Builder`, over the table of `Library` and the
terms of `Syntax`, and writes them with `Compress`. The gate calls the build's
recipes; they read what the same run made, else the file in the tree, and keep the
library they first read (`Build`); `Verify` is composed with `Build`, as its stage
reads the tree the builds write.

What is hard here: threads and the order they finish in; a tree edited while it
is read, and files half written when a run is killed; anything kept from one run,
one step or one attempt to the next (parses, readings, a library, what is known
of an address, a name bound on the way down a search); and rules given twice,
once by the order of the text and once by numbers or by a stack, or once by the
checker and once by the elaborator, that must agree.

## 2. The modules

Each module's comments name the source. Constants are the inputs; a constant the
code justifies something of has a named `ASSUME`. "Mutants" in the modules are
operators nothing else uses: each is a definition with a plausible slip in it,
and the property named for it in `PROJECT.json` fails when it is put in.

**InOrder, MapInOrder.** `in_order_on`: `Take` is the `fetch_add`, `Run` the
unlocked call (which may panic), `Put` the write under the mutex, `Join` the end
of `thread::scope` and the opening of the slots. `MapInOrder` is what callers
are promised, in one step: the answers in order, or a panic if an item may
panic. `InOrder` implements it with `outcome` as the only shared variable.

**Interner, Table.** The four tables every thread of a process shares: interned
texts, notations, the literals of a notation, and the libraries, behind three locks
(`LockOf`): notations and literals are one registry. An ask (`Ask`) is the steps the
code makes: among the thread's own (`Near`), looked for under the lock to read
(`TakeRead`, then `Find` or `Miss`, the lock given back either way), looked for again
under the lock to write (`TakeWrite`, then `FindLate` or `MissLate`), and added at the
next place (`Add`). What is added to the registry, or read into a library, is written
in interned texts, asked for while its lock is held to write (`Intern`, whose ask is
an ask of its own: `under` is what is being added meanwhile). A thread panics where a
literal has no place (`Full`, after it was added), a notation no number, or a library's
text stops its reader (`Stopped`), and every lock it holds to write is refused from
then on (`Panics`, `Refused`). `Table` is what those who ask are promised, in one step
an ask; `Interner` implements it.

**SharedCheck.** `run_named` and `checked_shared`. Each worker reads the tree
for itself (`ReadShared`), so that an index may name different theorems to two
workers; `EditShared` is the environment. Problems are records of a place and who
said them, and sorting by place is modelled as the stable sort it is (`Sorted`, over
`Sift` and `Joined` of `Sifts`, which are recursive functions so that they can be proved about). What the
checks find of a theorem is a constant.

**Incremental.** `Clean` and `run_edited`. A reading is the set of what it saw:
its lines, the files its imports lead to, the records. The three ways to check
the same edits (`RunKept` against the clean reading, `RunEdited` afresh, `RunWhole`,
the code's `run`, of everything) are operators compared in one state. `Grown` is `reached_from`'s
loop as the least set closed under it. A theorem is its steps: a line each, whether it is wrong
where an import leads nowhere, whether a requires line or a pair of it does no work, and
`CheckAll` checks theorems one after another into one report, which is what a later step's
lines are asked by (`Reported`): `run` shares them out among workers, each with an empty report
(`Deals`), and `run_edited` goes on with the reading's own. `ScopesBy` is the scopes as the proof files are
read one after another, from which a file's place is read off as `read_corpus` does.

**Surplus.** Both loops that ask lines in turn. `found` is any function from
the lines present to what is found, so the properties do not rest on what the
checks are.

**Scope.** The reader gives markers and openers, held until a step says whose
block they are in, to that block; beside it `open` and `under` follow what the text
itself opens and closes, reading no more of a number than its depth. The
properties compare the two. `Places`, `Encloses`, `InScope`, `LabelsInScope` and
`DefinePlace` are the checker's.

**Cycles.** The recursion of `cycles_from` as a stack of frames. `Counted` is
the graph `check_citation_cycles` makes: a citation of the same file, at its
first place.

**Sorts.** The store of sort variables with its binding and occurs check, what a
unification that declines leaves bound, the names declared of any sort and where
they are fixed, and a citation's values fitted to a fresh copy of what the cited
statement says. One action reads a line; the checker's reading (with citations)
and the elaborator's (without) go side by side. `said` keeps every pair of sorts
a line asked to be one, from which the properties work out, without the store,
what the lines say.

**Blocks.** A block, opened with its claim and read with what each part opens
with, its `by` line, and its last step. The checks are the checker's six passes;
truth is given by valuations of two atoms and a predicate over the first numbers,
and the property asks of every block accepted whether its parts' ends, each under
its openers, make the claim. `Strays` names the three ways a page may be accepted
that does not show its claim (section 6), left out of the passing run.

**Supply.** The search as a stack of attempts: `TakeUp` chooses the hypothesis
and works out what fits it, `GiveUp` ends at one nothing will fit, `Try` takes the
next fit, `BackOut` undoes an attempt whose ways are spent, `Complete` is a way
found. The fits are those of the code: a fact as written, a "for all" of a larger
set, an instance of a "there is", a numeral said to be a number. The property
gives the same hypotheses a meaning of their own (`Supplied`) and compares.

**Linear, Orders.** `Linear` is the arithmetic: facts, combinations, the
contradictions of fewest facts, and elimination of one atom at a time. `Orders` asks one
`inequalities` step in four steps: what the checker decides, what it tells a
step refused, which lines it calls surplus, and whether the elaborator writes
the proof, with the facts numbered as it numbers them. A grid of points is the
meaning the answers are compared with.

**Chains.** `transitivity`, `antisymmetry` and `calculation`: which relation of
each line is taken, how the lines are turned to meet, what the whole says; then
the elaborator's fold of the same links, low side first and one way or the other.
The meaning is given by every assignment of three terms to small integers.

**Inspection.** A claim about sets listed in full, in three steps: what the checker
decides from the cited lines (`Decide`), which lines it does without (`CheckCites`),
and whether the elaborator writes the proof (`Write`). `Settles`, `Elements` and
`Number` are the checker's three functions over what it sorts the lines into, which
call one another to a depth; `Worked`, `ListingOf`, `SettledAt` and `CountedTo` are the
elaborator's. An answer that may be wanting (`Option`, `Declined`) is a set of at most one.
The meaning (`Means`, `TrueIn`) is given by every assignment of the names to small
numbers, sets of them and functions on them.

**Frames.** Every scope is the sequence of what has been assumed, and a proof in
hand is known by the scope it stands under. The actions are the lines of a page:
lets, assumptions, obtains, steps of each kind, parts opened and closed. What a
block closes with must be proofs under exactly the scopes its lemma takes
(`KernelAccepts`). The page may be any the checker accepts. `Now` is where the elaborator
stands, as the operations hand it on; its `b` is the block a part belongs to.

**FramesInvariant** says what holds between two steps of such a page, of the place it stands
at and of the place each open block was opened at: `IFrames`, which `ElabProofs` proves.

**Builder.** A heap of steps at addresses, freed when nothing holds them
(`Drop`), the terms made once, and what `said` keeps by address with the birth
of the step it was said of (`Weak` in the code: an upgrade fails for a step that
is gone). `fault` works out the steps nothing is known of, keeps what it finds,
and stops the elaboration at the first fault, as its callers do. Both freeing and
`fault` walk from steps to their parts (`Through`), `fault` only among steps nothing is
known of; `SaysWith` works out what steps say, some afresh and others as kept.

**Library.** One action for each Metamath statement, on a stack of scopes;
`Frame` is the frame by Metamath's own definition, from the stream alone: what is in force
at the assertion (`Standing`), whatever the reader's stack. Keywords are letters, a
block's two `"block"` and `"end"`. `Layered` is `Insert`, `Walk` and `IndexOf`.

**Syntax.** The fixed point of opening tokens, then the chart: `Fill`
(prediction, once for a typecode at a position), `Scan`, `Finish` (completion),
`Advance`, `Answer`. The module keeps one `RECURSIVE` operator, which only a
property uses.

**Compress.** Numbering from the text (`Token`) and from shared steps (`Walk`,
an explicit stack as in the code), counting (`Standing`), writing with a
bijective base (`Letters`), reading back (`Read`). Twenty last digits and five
high ones are constants `Lows` and `Highs`.

**Build.** `build`, `build NAME`, the gate's fresh build and its incremental
form. A text is a record of what it was made from, which is what makes
"the same as a fresh build" a comparison of values. `Write` begins a file and
leaves it half written until `Wrote`; `Kill` may come between. The corpus is read
when the run starts, the worksheets and built files when a recipe asks, the
library when the first theorem is made. An artifact's wave is worked out from
`Needs`. The artifacts of a wave are made one after the other, as in the code, but
in any order: the properties do not rest on the order they are listed in. What
the gate shares over threads is its stages, which only read.

**Verify.** Extends `Build` with the gate's last stage: what each built file
includes, the roots, what is out of their reach, the order the files are joined
in, and the answer over whatever tree the builds and faults left. The verifier is
external: it refuses a text whose labels are used before they are declared.

**Renumber.** Each run of the tool is a step that writes the file: a shift of a
run of steps, or a block lifted into its step's place. A line keeps an identity
the file does not have, and each citation the step it was meant for; `Moves`,
`Lands` and `Lifted` are the code's. A theorem to begin with is numbered as the checker
asks (`Numbered`), which `RenumberProofs` shows every file written is.

**Induction.** Induction and recursion over the natural numbers, stated of sets; the
proofs about `Build`, `Incremental` and `Builder` unroll with it what is defined by
recursion there, and those about `Renumber` go up from a step to its ancestors. Induction
over a sequence (`SeqInduction`), and what `Sift` and `Joined` of `Sifts` make.

**MCCheck, MCPage, MCElab, MCDatabase, MCWalks, MCVerify** give the constants
their values. All but the last hold several modules at once, which share nothing:
the variable `on` is chosen at the start from `Chosen`, that part moves, and the
others stand still at a fixed value, so that the run's states are the sum of its
parts' and not their product. The runs expecting a violation choose one part.

## 3. The runs

A passing run searches its whole state space; a run that expects a violation stops
at it. Most passing runs hold several parts, so that what each shows is listed part
by part.

| run | part | instance | shows |
|---|---|---|---|
| `build` | | 2 theorems, one citing the other in some versions, a comparison, the library's two files; 2 runs, 2 edits or faults | 0 means a fresh build's tree; what is read is never older than what the run made; the gate is green over that tree only; a fresh build's tree is verified, every file of it; a run ends |
| `check` | in order | 4 items, 3 workers, one item may panic | each item once, the answers in order or an item's panic (refines `MapInOrder`); the call ends |
| | shared | 2 workers, 5 readings of up to 4 theorems, 1 edit | what one worker would say, wherever the workers read alike; no problem dropped; it ends |
| | kept | 3 proof files with imports among them, 1 record file, 2 edits | a kept reading says what a fresh one says; what is passed over read the same; `run_edited` answers as `run`, each theorem taken by either of two workers |
| | sorts | 11 lines that may be read, in any order, 4 at most | the sorts read are those the lines say, and what a statement leaves open stays open |
| | inspection | claims about listed sets, from up to two lines, or three about the ends of two edges | accepted follows, refused as false is false; accepted is written |
| `page` | surplus | 3 lines, any function of them for one problem | lines said to be surplus can go together |
| | scope | every theorem of 8 lines, numbers to 2.2, 1 define | nothing escapes its assumptions |
| | blocks | every block of one or two parts over p, q and P | a block accepted makes its claim |
| | supply | 2 or 3 hypotheses over 2 letters, a set and a property, 2 to 4 facts, 3 seeds | the search finds what the facts supply, and only that |
| `database` | builder | 5 labels, 5 addresses, 5 steps | what is known of a step is true; a fault is said exactly when there is one |
| | renumber | 3 proofs, shifts of 1 and 2 either way, 4 writes | citations and nesting survive |
| | library | databases of 6 statements over 2 variables, then 1 label added | a signature is Metamath's frame |
| `walks` | cycles | every file of 3 theorems, of 4 citing others in order, of 2 with foreign items | each report a cycle; the rest acyclic |
| | syntax | 3 grammars, statements of up to 7 tokens | read exactly when derived, and written again |
| | compress | every proof of at most 5 steps, 2 digits of each sort | it reads back |
| `elab` | interner | 3 threads, 8 texts in 4 tables behind 3 locks, 3 asks and those made under a lock | one id for a text, for good (refines `Table`); every ask ends, or its lock is refused |
| | frames | every page of 4 steps and lets, blocks of parts and proof blocks | blocks close with their lemmas; a label is what the checker reads; frames reach the scope |
| | orders | `inequalities` steps of one or two lines, 3 atoms | accepted follows; refused does not; accepted is written |
| | chains | up to 3 lines over 3 terms, 3 methods | accepted follows; accepted is written |
| `scope_cases` ... `chains_loop`, `blocks_lets` | | the same parts, allowed what the passing run leaves out | the violations of section 6 |

Distinct states: `build` 246 970, `check` 115 633, `page` 619 102, `database`
99 168, `walks` 329 483, `elab` 780 971.

Why the bounds are enough for the cases meant.

- `build` needs a run, faults in it, and a run after; two theorems, one citing the
  other, give four waves with the library's two files. `t`'s second page cites `u`,
  so that pages citing each other round, refused, and built files including each
  other round, left by building one at a time, both come up.
- In order: more items than workers, so that a worker comes back, and a third for
  the other two to race round. Shared: two readings that disagree on what an
  index names, one that cannot be read, and a place two problems share. Kept:
  three files for an edit to reach one through another, two edits for the second to
  change what the first one's file led to; a theorem of two steps above another, with
  corpus-wide problems between its steps and below the last, or with none. Sorts: a let,
  a line that narrows it, a line under the proof and a citation are four lines. A unification that
  declines part way needs a sort of two parts: a function's.
- Scope: two cases, a step in each and a step after, are eight lines. Its
  constraint `Promising` leaves out what more lines cannot mend, more than one
  marker or two openers waiting at once, and numbers written out of their blocks
  (section 6). Blocks: two parts are every method's, but for `cases` of three, which
  its split of a split stands for; numbers run from 0 to `Top`, 2, so that an induction
  has a first number, one after it, and one it does not reach in one step. Supply: a letter
  fixed by one hypothesis, tried against another, and a third that says which
  was right; a fact used twice where that is allowed and not.
- Builder: an address freed and taken again with something known of it and a
  step above it is four steps; one more makes it a proof asked about. Renumber: a block in a
  block, and a run moved twice. With `GapsFilled` a step is lifted only where its
  block's numbers have no gap (section 6). Library: a block closed
  and variables declared again after.
- Syntax: a part pushed in another order than read, an ambiguous statement, an
  empty rule, and a rule that begins with what it yields. Compress: indices past the
  first two, which take a high digit, for labels and for steps kept. Cycles: two that share a
  theorem, and one come to from outside.
- Interner: two threads race, a third asks after. Of two numbers and two places one is
  the code's own, so that the second new notation or literal has none; a literal, a
  notation and a library each ask for an interned text under their lock, one they
  share. Frames: a block in a case in a block is
  four steps and lets. Orders: the claims and lines are written out in `MCElab`, each
  a shape a rule of the checker is for (a sum of two lines, a line used twice, a
  disequality, a line of two sentences); the grid runs from -3 to 3, further than any
  of their coefficients. The cap of 400 facts in elimination and of 1 000 000 steps in a
  search are not modelled: no instance comes near them. Chains: three lines are one
  to turn, one to meet and one more; numbers 0 to 2 tell <, = and > apart
  between three terms.
- Inspection: the lines and claims are written out in `MCCheck`, a set listed in braces,
  by a range, by joining or by a name of another, names told apart or not, given values,
  and read through a "for all", a property or a count; every pair of lines is asked, and
  those that list sets in either order. Three numbers let two names be one thing, two, or
  neither of those listed. `Depth` is the code's own.

Symmetry is used where names are interchangeable: the addresses of the builder and
the variables of the library. That run checks no liveness, and its one action
property names neither. Deadlock is not checked: these runs, walks, calls and
pages really end, and where ending matters it is a liveness property.

### Fairness

All of it weak, of steps a thread or process makes when nothing holds it up.
`InOrder` and `SharedCheck`: each worker's step (`Step`, `StepShared`) and the join; the workers are OS
threads that hold no lock while they wait, and the scope joins them. `Build` and
`Verify`: the build's own steps (`Step`); a process goes on unless killed. `Interner`:
each thread's `Go`; the code holds a lock for a bounded piece of work, the asks it makes
meanwhile included. A lock that is
sought by several is given to any of them, so that weak fairness of a thread's steps
would not do if others asked for ever: asks are bounded (`MaxAsks`), as the texts of
a corpus are. Runs asked for, edits, kills, asks and lines of a page get none. No
module assumes strong fairness.

### What is conditional, and why

- `AsOneWorker` speaks of workers that read one corpus. Where an edit comes
  between two readings the report may mix them; `NothingDropped` says what is
  left then.
- `ReachSound` speaks of edits that leave the records alike, and `EditedSaysRun` allows a
  surplus line that a problem of the corpus as a whole hides, and a pair in its place (section 6).
- `BuiltIsFresh`, `GreenIsFresh`, `FreshIsVerified` and the rest speak of runs during
  which nothing was edited, after any history of edits, kills and failed writes.
- `NothingEscapes` speaks of accepted theorems whose numbers are written in their blocks.
- `AcceptedIsWritten` speaks of lines that say each order once (`SaidOnce`), and
  `ChainIsWritten` of chains that come to no term twice; what is outside is in section 6.
- `InspectionIsWritten` speaks of steps spelt one way (`PlainStep`): each number a numeral,
  each set joined from singletons, a property a membership or a word; section 6 has the rest.
- `SupplyIsExact` speaks of hypotheses whose "there is", "for all" and property have
  their letters fixed by the others, and of equations with an end that is fixed
  (`Decided`); section 6 has the rest.
- `CitesTheSame` speaks of blocks lifted with no gap in their numbers (`GapsFilled`).
- `KernelAccepts` and `InScope` speak of pages with neither of the two things the runs
  `frames_shadow` and `frames_owners` allow (`Shadowing`, `OwnersEnd`).

## 4. What is proved

For every value of the constants, by TLAPS, from the named assumptions only.

**CheckProofs**, of `InOrder` (`CountsAssumption`, `AnswerAssumption`; `Spec`, no fairness):
- `TypeCorrect`: `Spec => []TypeOK`.
- `ItemsTakenOnce`: `Spec => []NoItemTwice`.
- `ItemsKept`: `Spec => []NoItemLost`.
- `SharingImplementsMap`: `Spec => ImplementsMap`, for any number of items,
  threads and cores.

`NoItemTwice` is not inductive: nothing in it says that an item past the cursor
is untouched, so that the next `Take` could hand out one that is done.
`Sharing` says so: items not taken have empty slots, what a worker last took is
behind the cursor and no other worker's, what is in hand is not done, and what is
done carries its own answer. `ItemsKept` is inductive beside it. At the join
all workers have left, so (`AllEnded`) the cursor is past the end, no item is in
hand, and by `ItemsKept` every slot is full, with its own answer: the step is
`MapInOrder`'s `Return`; if a worker panicked, it is `Panic`.

**CheckProofs**, of `Incremental` (`BoundsAssumption`: a proof file stands once in path order, and
imports from files; the record file is always there; `SpecKept`):
- `KeptTypeCorrect`: `SpecKept => []KeptTypeOK`.
- `KeptIsNeverStale`: `SpecKept => []KeptSaysFresh`.
- `PassedOverReadsAlike`: `SpecKept => []ReachSound`, whatever imports what, in cycles
  too, and whichever files do not read.
- `EditedAnswersAsRun`: `SpecKept => []EditedSaysRun`, whatever the theorems hold, whatever
  the corpus-wide checks report and whichever worker takes each theorem.

The invariant (`KeptOfTree`) is that what is kept is the clean reading of some tree
which differs from the tree now only in files the caller said it edited. From it, no
kept parse differs from the one there would be (`KeptParses`): its bytes are the same
and so is its place. What an edit reaches, taken from below (`GrownClosed`, a fixed
point of a growing function), is closed under being imported by; so the files not
reached and not edited are closed under importing, hold the same both times, and a
theorem there is led to the same files both times (`UnreachedReadsAlike`). That a theorem's
problems depend on no other's (`ChecksAlone`, by induction over the theorems as one report takes
them): those checked before it stand above it, so what they report lies on no line from its
first step on (`EarlierHidesNothing`), though its last step's lines reach to the end of the file.

**CheckProofs**, of `SharedCheck` (`SharedAssumption`: there is a worker, and what is found of
a theorem a reading has is a list of problems; `SpecShared`, no fairness):
- `NoneDropped`: `SpecShared => []NothingDropped`, for any number of workers, any corpora
  read and any number of edits under the run.

`SharedInv` is the invariant. An index the cursor has passed is in a worker's hands or has
been settled by one (`NoIndexMissed`): its reading has nothing asked for there, or what it
has checks clean, or that worker has problems to say. One that is done took an index past
the end of its own reading (`TakesWhatItRead`), so where the readings are one, every
theorem is settled. What is gathered is empty only where the first reading's problems and
every worker's are (`GatheredAll`, by induction over the workers), and a refusal is never
status 0 (`JoinSaysAll`).

- `OneWorkerSaid`: `SpecShared => []AsOneWorker`, for any schedule: the report is the same
  text, in the same order, as one worker's.

It rests besides on `PlacesAssumption`: no place has problems of two theorems, as what is
found of a theorem is said of a line of its own page. Then a place's problems come from one
worker, the one that took its theorem, or from what reading the corpus found, which is put
first either way. `ScheduleInv` says so of a run under way: the indices the cursor has passed
are shared out (`Shares`: a set of indices for each worker, no two with one in common,
`Parted`; none passed that is asked for and in nobody's set or hands, `Passed`), what a worker
has found at a place is what is found there of the one theorem of its share that shows there
(`Heard`), and the count is the number of them (`Counted`). So the merged report has at each
place what one worker's has, in the same order. A stable sort is fixed by just that
(`SortedSame`): what it makes is ordered by place, and nothing is moved past another of its
own place. Where a worker was refused, all were, and that refusal is what one worker says.

**ElabProofs**, of `Interner` (`InternerAssumption`; `Spec`, no fairness):
- `SharingImplementsTable`: `Spec => ImplementsTable`, for any threads, texts,
  tables, places and number of asks: whatever locks are taken in whatever order,
  what is answered is what a table that adds each text once, in one step, answers.

Its invariant `Inv` is what the locks are for. While a thread is adding a text, or asks
for an interned text to add it (`Asking`), it alone holds the lock (`Locked`), so that
what it saw is still so (`Absent`); a table's places are told apart and no more than it
counts (`PlacesApart`); what a thread keeps is what the table has (`KeptNear`); and only a
literal is ever past the last place, the registry's lock then poisoned, so that nobody
meets it (`Within`). `Ask` and `Intern` are then the table's asks, `Add` its addition,
`Near`, `Find` and `FindLate` its answers, and the rest stutter. That every ask ends is
liveness, and checked only.

**ElabProofs**, of `Frames` (`FramesAssumption`; `SpecFrames`), for pages that give no part a
label in use around its block (`~Shadowing`) and end no case or proof block by an owner that
contradicts a line (`~OwnersEnd`):
- `ScopesStand`: `SpecFrames => []IFrames`.
- `KernelTakesEveryPage`: `SpecFrames => []KernelAccepts`.
- `LabelsStandInScope`: `SpecFrames => []InScope`.
- `FramesReachEveryScope`: `SpecFrames => []FramesReach`.

The page may be of any length, its blocks nested to any depth, of any of the methods. Without
the two conditions the first two properties are false: the runs `frames_shadow` and
`frames_owners` show it (section 6).

None of the three is inductive. Each speaks of the place the page stands at; a block closed
goes back to the place it was opened at, which is said by what the block kept (`outer`,
`outside`, `lines`, how many frames, letters and closers there were). So `IFrames` says one
thing of both. `Sound`, of the place it stands at: there is a frame to each
assumption of the scope (`Framed`); all that is known is said under it; each label the checker
reads is there, read as it reads it, known, and known to the frame it was proved in
(`Inscribed`). `Around`, of each open block, at every depth: the same of what it kept, with the
frames as they are *now*. That is what a widening could undo, since it brings the frame widened up to
date; it does not, as no frame but the innermost changes and none forgets (`Deeper`).
`Stacked` says of the blocks together that the closers raised in each lead, one after another,
from its own scope to that of the place next inside it (`Leads`), so that discharging them leads
back (`Discharged` unrolled from the last to the first), and that their names are
later than the block's number (`Later`), so that what the block owes names none of them.
Of a block of parts, `Shaped` says each part left behind ended under what it assumes, and
`Whole` that while a part is still to be entered the lines around the block are as it found
them. That is the clause a label given again would break. `Done` and `Reached` say what the last step
left for the block to close with. `NextHolds` has a step for each action; `CloseBlock`
is the longest, being a part's end, claimed parts settled, and the place gone back to, in turn.

**SurplusProofs** (`LinesAssumption`, `FoundsAssumption`):
- `TypeCorrect`: `Spec => []TypeOK`.
- `TakingAllAway`: `Spec => []RemovableTogether`, whatever the checks find.
- `OnePassIsEnough`: `Spec => []RestWorks`, where taking a line away never mends
  anything.

`Greedy` is the invariant: what is kept is what is not said, nothing new is
found with it, and, where taking lines away never mends anything, each line
asked and kept is needed by what is kept now. The last part is what needs an
argument, that a line needed among more lines is needed among fewer
(`StaysNeeded`).

**CitationProofs**, of `Cycles` (`FilesAssumption`: a file is a sequence of sequences of
numbers):
- `TypeCorrect`: `Spec => []TypeOK`; with it, that no theorem is twice on the
  trail, so the recursion is never deeper than the file has theorems.
- `NothingRestsOnItself`: `Spec => []RestRestsOnNothing`.
- `EachReportIsACycle`: `Spec => []ReportsAreCycles`.

The walk's invariant is `Walked`. A theorem on the trail is not done (`Apart`).
A citation gone past leads to something done, or was reported, or is the one
followed now (`Behind`). A theorem done rests only on theorems done (`Closed`).
Of any theorems done, one rests on none of the others or itself (`Ranked`): when a
theorem is done all it rests on was done before, so of any set the one done
first will do, which the induction carries without naming an order. Every
theorem above the next is done or is at the bottom of the trail (`Come`). When
the walk is over all are done, and `Ranked` is the property. For the reports,
`Reporting` says that each frame cites the next, each report is a cycle, and each
was given going past its citation; a citation not yet gone past has none, so
none is reported twice.

The same module, of `Chains` (`ChainsAssumption`: a line says equations, disequations and
orders, a congruence is a calculation's, and terms are worth whole numbers; `SpecChains`):
- `ChainsFollow`: `SpecChains => []ChainFollows`, for any number of lines, whatever
  each says, any terms, and whatever whole numbers they are worth.

A verdict is of the lines as they are then (`IChains`), so what is to be shown is of one
check. The relations it takes are relations its lines say (`CitedLinksIs`): where the claim
chooses, by what may be chosen, and where the lines meet, since what `Met` has taken so far
always is. Facing a line only turns it, and each goes on from the one before, so the lines
faced are a chain (`FacedIs`). Along a chain that never goes down each term is worth at
least what the first is, more once a relation has been strict, and the same while none has been
an order (`Goes`, by induction along the chain; one that goes down is the same with every
number negated). That is what `ChainRel` says of the ends
(`EndsHold`). Of a calculation with a congruence, every line is apart by a multiple of the one
modulus, and so the ends are (`CongruencesFollow`).

**BuildProofs** (`BuildAssumption`: finitely many theorems and comparisons, none of
them another; every source has a first version; a theorem cites theorems; `Spec`, no
fairness):
- `TypeCorrect`: `Spec => []TypeOK`.
- `BuildsAreFresh`: `Spec => []BuiltIsFresh`, for any corpus, however its theorems cite
  one another, and any number of runs, edits, kills and failed writes.
- `NeverMadeOfStale`: `Spec => []NeverStale`.
- `GreenMeansFresh`: `Spec => []GreenIsFresh`.

The waves (`Waved`) are a recursive function, unrolled first (`SetInduction`, in
`Induction`): they grow, nothing in a wave waits for what is not in one before, and
what is never in one is what waits on itself. Then two lemmas are about texts.
`AfreshFixed`: what is made in an empty tree, made once more of what it holds, is the
same. `ReachedClosed`: what an edit reaches is closed under what is read for it, so a
gate that makes only that reads the same as one that makes everything. The invariant of
a build (`AsBuilt`) says that each artifact of a wave begun is left, or was made as it
is made afresh, or failed in the last wave the run will make; and that what is counted
written is in the tree. That of a gate (`AsGated`) says that what it has made is what is
made afresh, and that it has said of each whether the tree has it. Neither property is
inductive by itself: both speak of a run that is over, and what makes them true is
what was read, wave after wave, while it was under way.

**BuilderProofs** (`BuilderAssumption`: a label takes finitely many parts, what it keeps
apart are pairs of its terms, and no address or step is `None`; `Spec`):
- `TypeCorrect`: `Spec => []TypeOK`; with it, that what the terms table, a proof in hand
  or a step's parts name is a step that is there, however many were freed.
- `KeptIsTrue`: `Spec => []KnownIsTrue`, for any labels and signatures, and addresses
  taken again any number of times.
- `FaultsAreExact`: `Spec => []FaultExact`: asking piece by piece, with what is kept
  from earlier questions, finds a fault exactly where there is one.

A step is made after its parts (`Grounded`), so that a walk down from it ends within
as many parts as steps were made (`ThroughClosed`), and what a step says can be unrolled
(`SaysUnrolled`). Neither property is inductive by itself. A step made at a freed
address is not taken for the one kept only because it was made later (`Births`). A
question stops its walk at a step something is kept of, so that a fault under that
step would be passed over unless all it rests on is known too and, while no
fault has been said, is applied as its label says (`Settled`). The lemmas say that a
step rests on the same steps, says the same and is as sound in any two heaps that
have it and what it rests on (`UnderAlike`, `SaysAlike`, `SoundAlike`): so making one step and
dropping another change nothing of those that stay.

The same module, of Library (`LibraryAssumption`: what a statement says is a sequence;
`SpecLibrary`):
- `SignaturesAreFrames`: `SpecLibrary => []SignatureIsFrame`, for any variables and
  statements, and blocks opened and closed in any way Metamath allows.

`Frame` is told by the stream alone, `Assertion` by the stack; so the invariant
(`LibraryInv`) says what the stack has to do with the stream. It is not enough to say it of
the stack as it is: a block closed uncovers what was under it. It is said of each d that
the lowest d scopes, put together, are what the statements in force of blocks fewer than d
deep say, the hypotheses in order and the rest as sets (`Held`). A statement read changes
that for the whole stack alone, and what it adds comes last (`BelowStep`, `ToldStep`,
`JoinedPut`); a block opened adds an empty scope, and one closed ends what only it held.
A frame reads the stream up to its own assertion, so it stays (`FrameStays`).

**RenumberProofs** (`RenumberAssumption`: shifts are whole numbers, and a theorem to begin
with is numbered as the checker asks; `GapsFilled`; `SpecFile`):
- `StaysNumbered`: `SpecFile => []Numbered(file)`.
- `CitationsKept`: `SpecFile => []CitesTheSame`, for any theorem, any shifts and any number
  of files written.
- `NestingKept`: `SpecFile => NestedAsBefore`.

`CitesTheSame` is not inductive: a citation follows its step only while no two steps have
one number and what is cited is there, and a number put in the place of another meets none
only while each step's ancestors are there too. So `Inv` is that the file stays `Numbered`,
with its lines told apart. From it, a step of a run which met a step that stays, or went
under one, would have its ancestor at the run's own depth meet one (`LandsOnNone`), and that
is what `Lands` looks for: the code need look at the top steps alone. A step lifted:
numbers are compared as they are written (`Compared`: of two, one is under the other, or
they differ somewhere and one is before the other), and a lift keeps either
(`LiftedNests`, `LiftedOrders`), the steps lifted taking no more places than the later
ones are moved on by (`Room`). That is where a gap would undo it, so the three theorems
have the hypothesis that a block is lifted only without one (`GapsFilled`; section 6).

What is only model-checked: liveness (`CheckEnds`, `RunEnds`, `AsksAnswered`), which is
beyond these provers under fairness; of `Chains`, what the elaborator's fold comes to
(`ChainIsWritten`); and everything of the other modules. Those of
texts, lines and terms (`Compress`, `Syntax`, `Blocks`, `Supply`, `Linear`,
`Inspection`) rest on operators defined by recursion over trees and sequences, several
of them `RECURSIVE`, which the prover cannot take; what such an operator computes for
every input would be an induction over data. Induction over numbers is within reach,
stated of a set (`SetInduction`): that is how `Waved`, `ScopesBy`, and `Through` and `SaysWith` of
`Builder`, and what `Discharged` and `Carry` of `Frames` come to, are proved about.
`Verify` reaches such an operator (`FreshIsVerified`). Where a module's sequences are made
by recursive functions (`Sifts`) rather than by the folds of the community modules, an
induction over their elements is one over numbers (`SeqInduction`), and so `Sorted` of
`SharedCheck`, `Active` and `Assertion` of `Library`, and `Faced` and `Met` of `Chains`, are
proved about.


## 5. What is not modelled

- **Lines of the other methods**: most of `checker/formulas.rs`, and `angles.rs`,
  `database.rs`, `citations.rs`' telling of why a citation is refused. Predicates
  on syntax trees, one for each method, with no state. `Blocks`, `Chains`,
  `Inspection` and `Orders` model those whose answer a second piece of code must agree with.
- **The elaborator's routes** (`elab/elaborate.rs` past its walk and chains,
  `tables`, `calculators` but for `inequalities`, `normal`, `real`) and the tables of
  `set.mm`'s lemmas (`rules.rs`, `targets.rs`). Each makes a proof by cases on the
  shape of a claim, and the verifier reads every result; a model would be the tables.
- **The deciders** (`methods/`) but for linear arithmetic and inspection: arithmetic over
  polynomials and numbers of any size. In `Inspection`, ranges and primes past the
  bounds both sides refuse, words other than one of one number, and that an element is a
  set, or an end of a range an integer, which a line is taken to show.
- **Reading text** (`corpus/`, `formula/` but for its tables, `text/`): what a line
  cuts into, and the page's grammar. `Scope` begins where a line has been
  recognised, `Library` where a statement has.
- **The gate's stages that read and report** (`restated`, `labels`, `tested`,
  `assumed`), the command line and formatting.
- In `Builder`, reading runs of labels onto a stack; in `Syntax`, the table of
  statements parsed before and `match_term`; in `Library`, comments, includes and
  proofs, taken out before. In `structure.rs`, imports and what names a line
  declares. In `Supply`, functions, listings, identity elements and second
  spellings. In `Chains`, a calculation that starts at the claim's right side. In
  `Orders`, which used fact is denied first is the first given, where the code takes
  the first of its map; no ask of the runs that the checker accepts turns on which.

## 6. Where code and its documents differ

Found while modelling. The first six are checked by runs; the others are read off the
code, those a model's condition keeps out first.

- **Cases, and numbers written out of their blocks.** `structure.rs:64-66`: "What
  one case shows under its assumption is not known in the next". `out_of_reach`
  (`structure.rs:76`) tells parts apart by the place `CheckedTheorem::of` gives a
  step, which is no place for a step written after its block was closed.
  `record.rs:294` leaves such numbers to `check_numbering`, which accepts them
  (`structure.rs:174` asks that siblings count up, and that the parent exists):
  with 1 by cases, then 2, then 1.1 in one case and 1.2 in the other, 1.2 may
  cite 1.1. Run `scope_cases`, property `CasesApart`. Whether such a proof would
  then be built is for the elaborator and the verifier to say.
- **A sort only a citation settles.** `formulas.rs:107`: "A citation checks what the
  proof's names are and does not say it. A name whose sort only fitting a citation
  settles is reported". The sorts compared before and after a value is fitted are
  those of the names in that value (`formulas.rs:165`); where two letters of the cited
  statement share a sort, fitting the second settles the first's names too, unsaid.
  Run `sorts_cited`, property `CitationsOnlyCheck`.
- **A case labelled as a line is.** `elab/state.rs:170` says of a label given again
  that it "is the outer line again once it closes". `enter_case` (`scopes.rs:937`)
  sets a case's label and nothing gives the outer line back before the block closes, so
  the next case's steps read the first case's assumption under it. Run `frames_shadow`,
  property `InScope`.
- **A step that owns a block and ends another.** `formulas.rs:1485` lets such a step
  contradict a line where it ends a case, and `scopes.rs:1144` says it is taken as a
  step alone is. `contradicted_at` answers for a contradiction block alone, and the
  block is refused where it closes (`scopes.rs:1157`). Run `frames_owners`, property
  `KernelAccepts`.
- **A chain that comes back.** The comment at `elaborate.rs:3642` says a fold that
  fails one way is tried the other. From "x > y" and "y = x" the claim "x > x" is
  accepted, and its links fold neither way. Run `chains_loop`, property
  `LoopIsWritten`.
- **A block's let of another set.** `docs/SYNTAX.md:371-380` says the reader checks
  that a block's hypotheses match its claim's. Of a let line it compares the letter
  alone (`formulas.rs:2072`). Run `blocks_lets`, property `BlockFollows`.
- Two more that `Blocks` leaves out (`Strays`): an extra `assume` in a contradiction
  block or a case is unreported ("opens", about `formulas.rs:2210`; `GRAMMAR.md:1151`
  gives the openers), and `check_part_contradictions` (`formulas.rs:1294-1311`)
  compares nothing where the supposition or what is owed has several sentences ("says",
  `GRAMMAR.md:36`).
- A line that says one order two ways ("0 <= y - x and x <= y", with "0 < z", for
  "x < y + z"): the checker accepts, and the elaborator's numbering of the facts
  finds no combination (`inequalities.rs:234`, `linear.rs:676`, `calculators.rs:4159`).
  `AcceptedIsWritten` has `SaidOnce` for it.
- A refused `inequalities` step: "Only one that does not follow at all is told so" is
  not so of a claimed disequality (x /= z, from x = y and y /= z, which follows).
- A refused `algebra` step is told "it is `transitivity`" (`formulas.rs:2777-2790`,
  `METHODS.md:572-576`) where `transitivity` refuses: from "x = y = z" and "z = w and
  y = w", x = w.
- In the search for what supplies an item, which `Decided` keeps out. `supply.rs:151-154`
  says which hypotheses nothing will ever fit; an equation between two open letters,
  "not P(a)" and a "there is" of P are such too, or widen (253-278). A "there
  is" witnessed at 686-721 drops the binding of its domain, so that a set letter fixed by a
  later hypothesis may not hold the witness. The witness itself stays bound
  (`matching.rs:1513-1551`), so that a second hypothesis that binds the same letter misses.
- Between `methods/inspection.rs` and `elab/inspection.rs`, which `PlainStep` keeps out:
  steps the checker accepts whose proof the elaborator declines. An element that is
  another only by its value (1 + 1 among {1, 2}: `position`, 893, asks for the spelling,
  where `equal` works both out); a set joined with one that a line lists, or with more than
  one element at a time (`written_listing`, 959); a property that denies a membership, which
  `settled_at` (1522) reads only undenied; a property or a claim that is an equation of
  names a line gives values (`METHODS.md` takes neither); a word, or a denied equation, of
  names given values; and a prime that a "for all" line gives. The comment on
  `check_inspection_holds` (`formulas.rs:4859`) says a claim settled neither way is "left to
  the build, and counted"; it is reported (`undecided`).
- A run of steps `renumber` moves leaves a gap where it was. A block lifted later
  counts its steps and not their numbers (`renumber.rs:379`), so that over a gap a
  step that moves on may land on one lifted, and two steps have one number.
- The verifier's stage alone says nothing of built files that include each other
  round: none is a root. Only with the fresh build's stage green is there no such
  file (`FreshIsVerified`).
- `structure.rs:35` and `docs/GRAMMAR.md:1269` say an ancestor is in scope;
  `in_scope` (`structure.rs:49`) refuses it, as the strict comparison in the next
  line of `GRAMMAR.md` does.
- `structure.rs:2667`: "Each cycle of citations reachable"; a theorem done is not
  entered again (`structure.rs:2677`), so of the cycles through one citation only the first
  is reported. What is left is still acyclic (`RestRestsOnNothing`).
- `mod.rs:522`: what an edit can change is the files importing from it. A define
  that stands for records reaches every file, since its words are declared
  everywhere; `reached_from` (`mod.rs:536`) follows imports for any proof file.
- `mod.rs:360`: `run_edited` reports what `run` does less the theorems passed
  over. It checks into the report that already holds the problems of the corpus
  as a whole, and a step with one, up to the next or from a theorem's last to the end of the
  file, is not asked whether its requires lines work (`mod.rs:1427`); `run` gives each worker
  a report of its own. Such a line may be left out, and where nothing else is wrong with its
  theorem a pair may be said that `run` leaves out (`mod.rs:390`); the answer of each file
  reached is the same, as the next sentence of the doc says (`EditedSaysRun`).
- `build.rs:140`: "an edited artifact's own file reaches that artifact". The
  artifacts that read it are made from it too, and are not reached (`build.rs:151`).
- `build.rs:67`: a comparison "reads nothing". Building one still reads `set.mm`
  and answers 2 without it (`build.rs:473`).
- `structure.rs:119`: a define is "the part's it is written in". `record.rs:328`
  gives it the place of the first step below it, so with a part marker or the end
  of a block between the two it is of the part that comes next.
- `kernel.rs:350` and `:503`: an empty rule may be followed by any token, and a
  statement is read if it is derived. An empty rule opens nothing
  (`kernel.rs:415`), so a rule that begins with one is not offered where its
  second symbol opens it; and a typecode spelling nothing that is asked for
  twice at a position is filled once (`kernel.rs:583`). `set.mm` has no empty
  rule. The run has one whose hole stands inside a rule.
- `formula/print.rs:9-10`: a child between two tokens is never bracketed. A
  conjunction written with commas, as the condition of a value by cases (`_ if _, _
  otherwise`), prints bare and is cut at its first comma when read back;
  `checker/mod.rs:762-766` says printing "is right exactly when this is empty".
- `formula/grammar.rs:108-110` says a reading's key holds "everything a reading of it
  depends on besides the grammar". It lacks the sort of a primed name's stem (f' is the
  derivative only where f is said a function; 1466-1502) and of the names inside a
  range's text (about 2030), so that what is kept for a worker (461-480) may be stale
  in another theorem.

## 7. The plan

The order was: what every run rests on (threads, the tables, the shared check), what
is kept between runs (incremental, build, verify), what is written (compress,
builder, renumber), what is read (library, syntax), and what is accepted and then
written (cycles, scope, sorts, blocks, orders, chains, inspection, frames, supply). What is left:

1. `checker/citing/conclude.rs` over `Supply`: a claim taken sentence by sentence, each
   supplied by an item's conclusions.
2. The page's grammar (`formula/grammar.rs`, `print.rs`): printing reads back, and a
   kept reading is a fresh one.
3. `elab/provenance.rs` over `Builder`: what a finished proof may rest on.
4. Imports and their cycles (`structure.rs:2381-2531`): `Cycles` on another graph
   with other rules for what is done.
5. `elab/matcher.rs` against `Supply`: two searches for one thing.

Proofs, in order: `Scope` (what is in reach by numbers
is what the text has open), `Sorts` (the sorts read are those the lines say).
