------------------------------- MODULE Library -------------------------------
(***************************************************************************)
(* src/src/mm/library.rs: a Metamath database read statement by statement  *)
(* into the signature of each label (read_texts), on a stack of scopes;    *)
(* and the table it makes shared by theorems that each add labels of their *)
(* own (Layered).                                                          *)
(*                                                                         *)
(* A statement is a record of its keyword and body; comments, includes and *)
(* proofs are gone before.  A statement's label is its place in the        *)
(* stream.  Only databases Metamath allows are read: a block closed was    *)
(* opened, and a variable is declared, and given a type, once at a time.   *)
(*                                                                         *)
(* A keyword is the letter after its dollar, a block's two being "block"   *)
(* for the brace that opens it and "end" for the one that closes it.       *)
(***************************************************************************)
EXTENDS Integers, SequencesExt, FiniteSets, Sifts

CONSTANTS
  Symbols,   \* variables
  Bodies,    \* what an $e or $a states or a $v declares: sequences of symbols
  Inference, \* theorems elaborated on the library
  MaxRead,   \* how many statements are read
  MaxAdded   \* how many labels a theorem adds

\* What a statement says is a sequence of names.
ASSUME LibraryAssumption ==
  \A body \in Bodies : body \in Seq(Range(body))

VARIABLES
  stream,   \* the statements read
  scopes,   \* the stack: variables, floats, essentials and pairs of each block
  sigs,     \* the signature of each label that has one, by its place
  reading,  \* whether the database is still being read
  added     \* the labels each theorem added, in order

libraryVars == <<stream, scopes, sigs, reading, added>>

Scope == [variables |-> {}, floats |-> <<>>, essentials |-> <<>>, disjoint |-> {}]
Here == Len(stream) + 1
Top == Last(scopes)

(***************************************************************************)
(* What Metamath says                                                      *)
(***************************************************************************)

\* How many blocks are open after the first k statements.
Depth(k) ==
  Cardinality({j \in 1..k : stream[j].key = "block"}) - Cardinality({j \in 1..k : stream[j].key = "end"})

\* The statement at j is in force at k: its block is still open.
InForce(j, k) == \A i \in j..k : Depth(i) >= Depth(j)

\* The statements of a keyword in force at k, in order, and what they say.
Standing(key, k) == {j \in 1..k : stream[j].key = key /\ InForce(j, k)}
Active(key, k) == Sift([j \in 1..k |-> j], Standing(key, k))
Bodied(places) == [i \in DOMAIN places |-> stream[places[i]].body]

Declared(k) == UNION {Range(stream[j].body) : j \in Standing("v", k)}
Typed(k) == {stream[j].body[2] : j \in Standing("f", k)}
Apart(names) == {{pair[1], pair[2]} : pair \in {p \in names \X names : p[1] # p[2]}}

\* The frame of the assertion at k: the hypotheses in force, the variables
\* they and it write, the types of those in the order they were declared,
\* and the pairs of them kept apart.
Frame(k) ==
  LET written == {stream[j].body : j \in Standing("e", k) \cup {k}}
      names == Declared(k) \cap UNION {Range(says) : says \in written}
      apart == UNION {Apart(Range(stream[j].body)) : j \in Standing("d", k)} IN
  [statement |-> stream[k].body,
   essentials |-> Bodied(Active("e", k)),
   floats |-> Sift(Bodied(Active("f", k)), {"class"} \X names),
   disjoint |-> {p \in apart : p \subseteq names}]

(***************************************************************************)
(* Reading                                                                 *)
(***************************************************************************)

InitLibrary ==
  /\ stream = <<>> /\ scopes = <<Scope>> /\ sigs = <<>>
  /\ reading = TRUE /\ added = [t \in Inference |-> <<>>]

\* One statement comes next.
Says(key, body) ==
  /\ reading /\ Len(stream) < MaxRead
  /\ stream' = Append(stream, [key |-> key, body |-> body])
  /\ UNCHANGED <<reading, added>>

\* The scope on top, with this in it.
Put(scope) == scopes' = Append(Front(scopes), scope)

OpenScope == Says("block", <<>>) /\ scopes' = Append(scopes, Scope) /\ UNCHANGED sigs

\* The stack a block leaves when it closes.
Closed == Front(scopes)

CloseScope ==
  /\ Len(scopes) > 1
  /\ Says("end", <<>>) /\ scopes' = Closed /\ UNCHANGED sigs

Declares(body) ==
  /\ Range(body) \subseteq Symbols \ Declared(Len(stream))
  /\ Says("v", body) /\ Put([Top EXCEPT !.variables = @ \cup Range(body)]) /\ UNCHANGED sigs

Disjoint(x, y) ==
  /\ x # y /\ {x, y} \subseteq Declared(Len(stream))
  /\ Says("d", <<x, y>>) /\ Put([Top EXCEPT !.disjoint = @ \cup {{x, y}}]) /\ UNCHANGED sigs

Keep(sig) == sigs' = [k \in DOMAIN sigs \cup {Here} |-> IF k = Here THEN sig ELSE sigs[k]]

Float(x) ==
  /\ x \in Declared(Len(stream)) \ Typed(Len(stream))
  /\ Says("f", <<"class", x>>)
  /\ Put([Top EXCEPT !.floats = Append(@, <<"class", x>>)])
  /\ Keep([statement |-> <<"class", x>>, essentials |-> <<>>, floats |-> <<>>, disjoint |-> {}])

\* What is stated writes only variables that have types.
Stated(body) == Range(body) \cap Symbols \subseteq Typed(Len(stream))

Essential(body) ==
  /\ Stated(body)
  /\ Says("e", body) /\ Put([Top EXCEPT !.essentials = Append(@, body)]) /\ UNCHANGED sigs

\* A mutant of Mandatory: only what the statement itself writes is pushed.
MandatoryStated(body) == Range(body)

\* What the assertion and the hypotheses in force write.
Mandatory(body) ==
  Range(body) \cup UNION {UNION {Range(e) : e \in Range(scopes[s].essentials)} : s \in DOMAIN scopes}

\* The assertion's signature, gathered over the stack.
Assertion(body) ==
  LET active == UNION {scopes[s].variables : s \in DOMAIN scopes}
      names == Mandatory(body) \cap active
      floats == Joined([s \in DOMAIN scopes |-> scopes[s].floats]) IN
  [statement |-> body,
   essentials |-> Joined([s \in DOMAIN scopes |-> scopes[s].essentials]),
   floats |-> Sift(floats, {"class"} \X names),
   disjoint |-> {p \in UNION {scopes[s].disjoint : s \in DOMAIN scopes} : p \subseteq names}]

AssertionRead(body) ==
  /\ Stated(body)
  /\ Says("a", body) /\ Keep(Assertion(body)) /\ UNCHANGED scopes

(***************************************************************************)
(* The library shared                                                      *)
(***************************************************************************)

\* The database is read, and theorems are elaborated on it.
Share ==
  /\ reading /\ reading' = FALSE
  /\ UNCHANGED <<stream, scopes, sigs, added>>

\* A theorem's labels, the library's first, as it walks them.
Library == SetToSortSeq(DOMAIN sigs, <)
Walk(t) == Library \o added[t]

\* A label of the library is not added.
Allowed(label) == label \notin DOMAIN sigs

\* A theorem adds a label, a new one at the end and an old one in its place.
Insert(t, label) ==
  /\ ~reading /\ Len(added[t]) < MaxAdded /\ Allowed(label)
  /\ added' = [added EXCEPT ![t] = IF label \in Range(@) THEN @ ELSE Append(@, label)]
  /\ UNCHANGED <<stream, scopes, sigs, reading>>

\* Where a label stands, from 0: in the library, else past it.
IndexOf(t, label) ==
  IF label \in DOMAIN sigs THEN SelectInSeq(Library, LAMBDA l : l = label) - 1
  ELSE SelectInSeq(added[t], LAMBDA l : l = label) - 1 + Len(Library)

NextLibrary ==
  \/ OpenScope \/ CloseScope \/ Share
  \/ \E x \in Symbols : Float(x) \/ \E y \in Symbols : Disjoint(x, y)
  \/ \E body \in Bodies : Declares(body) \/ Essential(body) \/ AssertionRead(body)
  \/ \E t \in Inference, label \in DOMAIN sigs \cup ((MaxRead + 1)..(MaxRead + MaxAdded)) : Insert(t, label)

SpecLibrary == InitLibrary /\ [][NextLibrary]_libraryVars

(***************************************************************************)
(* Properties                                                              *)
(***************************************************************************)

\* What is read of an assertion is the frame Metamath gives it, however the
\* blocks around it were opened and closed.
SignatureIsFrame ==
  ~reading => \A k \in DOMAIN sigs : stream[k].key = "a" => sigs[k] = Frame(k)
=============================================================================
