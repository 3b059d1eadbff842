-------------------------------- MODULE Sorts --------------------------------
(***************************************************************************)
(* src/src/sorts/infer.rs: the sorts of a theorem's names, read a line at  *)
(* a time into a store of sort variables (Store, Reader), and              *)
(* src/src/checker/formulas.rs: a citation's values fitted to a copy of    *)
(* what the cited statement says (cited_sorts).                            *)
(*                                                                         *)
(* A sort is <<"number">>, <<"point">>, <<"formula">>, <<"set", s>>,       *)
(* <<"property", s>>, <<"function", s, t>>, or <<"var", v>>, the v-th      *)
(* variable of the store.  A formula is <<name>>, <<"1">> or a notation    *)
(* with its parts.  A reader holds the store, its names' sorts, the names  *)
(* declared of any sort and not yet fixed, and whether something clashed;  *)
(* said is every pair of sorts a line asked to be one, kept for the        *)
(* properties.  checked is the checker's reading, with citations; plain is *)
(* the elaborator's, of the same lines, without.                           *)
(***************************************************************************)
EXTENDS Integers, Sequences, SequencesExt, FiniteSets, FiniteSetsExt, Functions

CONSTANTS
  Signatures, \* of each notation: its holes and result, their variables 1..vars, and the holes that bind
  Statements, \* of each cited statement, the sorts of its letters, their variables 1..n
  Events,     \* the lines a theorem may have
  MaxLines    \* how many it has

VARIABLES checked, plain, statement, lines

vars == <<checked, plain, statement, lines>>

Open == <<"open">>
Var(v) == <<"var", v>>
IsVar(t) == t[1] = "var"
Number == <<"number">>
Formula == <<"formula">>
Parts(t) == IF IsVar(t) THEN {} ELSE 2..Len(t)

\* A sort with its variables each v moved to v + by.
RECURSIVE Moved(_, _)
Moved(t, by) ==
  IF IsVar(t) THEN Var(t[2] + by)
  ELSE [k \in DOMAIN t |-> IF k = 1 THEN t[1] ELSE Moved(t[k], by)]

RECURSIVE Subsorts(_)
Subsorts(t) == {t} \cup UNION {Subsorts(t[k]) : k \in Parts(t)}

RECURSIVE Find(_, _)
Find(bound, t) == IF IsVar(t) /\ bound[t[2]] # Open THEN Find(bound, bound[t[2]]) ELSE t

\* A mutant of Occurs: looked for at the head alone.
OccursAtHead(bound, v, t) == Find(bound, t) = Var(v)

RECURSIVE OccursIn(_, _, _)
OccursIn(bound, v, t) ==
  LET f == Find(bound, t)
  IN f = Var(v) \/ \E k \in Parts(f) : OccursIn(bound, v, f[k])

Occurs(bound, v, t) == OccursIn(bound, v, t)

\* A mutant of MayBind: a variable declared of any sort is bound as another.
MayBindAny(rigid, t) == IsVar(t)

MayBind(rigid, t) == IsVar(t) /\ t[2] \notin rigid

\* Two sorts made one, each variable bound as it is met; where they cannot
\* be, what was bound before stays.
RECURSIVE Unify(_, _, _, _)
Unify(bound, rigid, s, t) ==
  LET a == Find(bound, s)
      b == Find(bound, t)
      Bind(v, to) == IF Occurs(bound, v, to) THEN [ok |-> FALSE, bound |-> bound]
                     ELSE [ok |-> TRUE, bound |-> [bound EXCEPT ![v] = to]]
      Both(st, k) == IF st.ok THEN Unify(st.bound, rigid, a[k], b[k]) ELSE st
  IN IF IsVar(a) /\ a = b THEN [ok |-> TRUE, bound |-> bound]
     ELSE IF MayBind(rigid, a) THEN Bind(a[2], b)
     ELSE IF MayBind(rigid, b) THEN Bind(b[2], a)
     ELSE IF IsVar(a) \/ IsVar(b) \/ a[1] # b[1] THEN [ok |-> FALSE, bound |-> bound]
     ELSE FoldLeft(Both, [ok |-> TRUE, bound |-> bound], [k \in 1..(Len(a) - 1) |-> k + 1])

\* A reader after two sorts are asked to be one: a decline is a clash.
Join(r, a, b) ==
  LET u == Unify(r.bound, r.rigid, a, b)
  IN [r EXCEPT !.bound = u.bound, !.clash = @ \/ ~u.ok, !.said = @ \cup {<<a, b>>}]

Fresh(r, count) == [r EXCEPT !.bound = @ \o [k \in 1..count |-> Open]]
Last1(r) == Var(Len(r.bound))
Name(r, name, sort) == [r EXCEPT !.env = (name :> sort) @@ @]

\* The sort of a formula, the sorts of its parts made those of its holes.
RECURSIVE SortOf(_, _, _)
SortOf(r, local, node) ==
  LET word == node[1] IN
  IF word = "1" THEN [r |-> r, sort |-> Number]
  ELSE IF word \notin DOMAIN Signatures THEN
    IF word \in DOMAIN local THEN [r |-> r, sort |-> local[word]]
    ELSE IF word \in DOMAIN r.env THEN [r |-> r, sort |-> r.env[word]]
    ELSE LET made == Fresh(r, 1)
         IN [r |-> Name(made, word, Last1(made)), sort |-> Last1(made)]
  ELSE
    LET sign == Signatures[word]
        by == Len(r.bound)
        letters == {node[k + 1][1] : k \in sign.binds}
        inner == [w \in letters |-> Var(by + sign.vars + 1)] @@ local
        Part(at, k) ==
          LET got == SortOf(at, inner, node[k + 1])
          IN Join(got.r, got.sort, Moved(sign.holes[k], by))
        begun == Fresh(r, sign.vars + Cardinality(letters))
    IN [r |-> FoldLeft(Part, begun, [k \in DOMAIN sign.holes |-> k]),
        sort |-> Moved(sign.result, by)]

NoLetters == [w \in {} |-> Open]

Claim(r, node) ==
  LET got == SortOf(r, NoLetters, node) IN Join(got.r, got.sort, Formula)

Declare(r, name, sort) == [Name(r, name, sort) EXCEPT !.declared = Append(@, name)]

\* What a let line says of its name.
Introduce(r, line) ==
  LET made == Fresh(r, 1) IN
  CASE line.form = "set" -> Declare(made, line.name, <<"set", Last1(made)>>)
    [] line.form = "element" -> Declare(made, line.name, Last1(made))
    [] line.form = "point" -> Name(r, line.name, <<"point">>)
    [] line.form = "property" ->
         LET got == SortOf(Name(made, line.name, <<"property", Last1(made)>>), NoLetters, line.node)
         IN Join(got.r, got.sort, <<"set", Last1(made)>>)
    [] line.form = "claimed" -> Claim(Name(made, line.name, Last1(made)), line.node)

RECURSIVE Free(_, _)
Free(bound, t) ==
  LET f == Find(bound, t)
  IN IF IsVar(f) THEN {f[2]} ELSE UNION {Free(bound, f[k]) : k \in Parts(f)}

\* What the names declared of any sort still leave open is fixed as that.
FixDeclared(r) ==
  [r EXCEPT !.rigid = @ \cup UNION {Free(r.bound, r.env[name]) : name \in Range(r.declared)},
            !.declared = <<>>]

\* A line of the statement, or one a block opens with; and a line of the
\* proof, before which what was declared is fixed.
ReadLine(r, line) ==
  CASE line.kind = "let" -> Introduce(r, line)
    [] line.kind = "assume" -> Claim(r, line.node)
    [] line.kind = "define" ->
         LET got == SortOf(FixDeclared(r), NoLetters, line.node)
         IN Name(got.r, line.name, got.sort)
    [] line.kind = "claim" -> Claim(FixDeclared(r), line.node)
    [] line.kind = "obtain" ->
         LET made == Fresh(FixDeclared(r), 1)
         IN Claim(Name(made, line.name, Last1(made)), line.node)

RECURSIVE Settled(_, _)
Settled(bound, t) ==
  LET f == Find(bound, t)
  IN IF IsVar(f) THEN Open
     ELSE [k \in DOMAIN f |-> IF k = 1 THEN f[1] ELSE Settled(bound, f[k])]

\* A sort copied, its variables fresh, the same one where the same one stood;
\* seen is what each variable was copied as.
RECURSIVE Copy(_, _, _)
Copy(r, seen, t) ==
  LET f == Find(r.bound, t)
      Next1(st, k) ==
        LET got == Copy(st.r, st.seen, f[k])
        IN [r |-> got.r, seen |-> got.seen, sort |-> Append(st.sort, got.sort)]
  IN IF IsVar(f)
     THEN IF f[2] \in DOMAIN seen THEN [r |-> r, seen |-> seen, sort |-> seen[f[2]]]
          ELSE LET made == Fresh(r, 1)
               IN [r |-> made, seen |-> (f[2] :> Last1(made)) @@ seen, sort |-> Last1(made)]
     ELSE FoldLeft(Next1, [r |-> r, seen |-> seen, sort |-> <<f[1]>>],
                   [k \in 1..(Len(f) - 1) |-> k + 1])

\* A mutant of Copied: the statement's own variables.
CopiedOwn(r, seen, t) == [r |-> r, seen |-> seen, sort |-> t]

Copied(r, seen, t) == Copy(r, seen, t)

RECURSIVE Words(_)
Words(node) ==
  IF Len(node) = 1 THEN {node[1]} ELSE UNION {Words(node[k]) : k \in 2..Len(node)}

\* A citation's values, each fitted to its letter's sort; a name whose sort
\* was settled by the fitting alone is told of.
Fitted(r, values) ==
  LET Fit(st, k) ==
        LET got == SortOf(st.r, NoLetters, values[k])
            named == Words(values[k]) \cap DOMAIN got.r.env
            copy == Copied(got.r, st.seen, statement[k])
            u == Join(copy.r, got.sort, copy.sort)
            fits == Unify(copy.r.bound, copy.r.rigid, got.sort, copy.sort).ok
            told == fits /\ \E n \in named :
                      Settled(u.bound, u.env[n]) # Settled(got.r.bound, u.env[n])
        IN [r |-> [u EXCEPT !.told = @ \/ told], seen |-> copy.seen]
  IN FoldLeft(Fit, [r |-> r, seen |-> NoLetters], [k \in DOMAIN values |-> k]).r

NoReading ==
  [bound |-> <<>>, rigid |-> {}, env |-> NoLetters, declared |-> <<>>,
   clash |-> FALSE, told |-> FALSE, said |-> {}]

StatementVars == {t[2] : t \in {u \in UNION {Subsorts(s) : s \in Range(statement)} : IsVar(u)}}

Init ==
  /\ statement \in Statements
  /\ checked = Fresh(NoReading, Cardinality(StatementVars))
  /\ plain = NoReading
  /\ lines = 0

Read ==
  /\ lines < MaxLines
  /\ \E line \in {e \in Events : e.kind # "cite"} :
       /\ checked' = ReadLine(checked, line)
       /\ plain' = ReadLine(plain, line)
  /\ lines' = lines + 1
  /\ UNCHANGED statement

\* A step whose claim says what it says, and whose justification cites.
Cite ==
  /\ lines < MaxLines
  /\ \E line \in {e \in Events : e.kind = "cite"} :
       /\ checked' = Fitted(Claim(FixDeclared(checked), line.node), line.values)
       /\ plain' = Claim(FixDeclared(plain), line.node)
  /\ lines' = lines + 1
  /\ UNCHANGED statement

Next == Read \/ Cite

Spec == Init /\ [][Next]_vars

(***************************************************************************)
(* Properties                                                              *)
(***************************************************************************)

BoundVars(r) == {v \in DOMAIN r.bound : r.bound[v] # Open}

VarsIn(t) == {u[2] : u \in {s \in Subsorts(t) : IsVar(s)}}

\* No variable is bound to a sort holding it, at any remove: from any of
\* them, some one is bound to a sort with none of them in it.
Unlooped(r) ==
  LET RECURSIVE Left(_)
      Left(vs) ==
        LET ends == {v \in vs : VarsIn(r.bound[v]) \cap vs = {}}
        IN IF vs = {} THEN TRUE ELSE ends # {} /\ Left(vs \ ends)
  IN Left(BoundVars(r))

\* What is declared of any sort is never narrowed, what a cited statement
\* says is not changed by citing it, and following a sort comes to an end,
\* whatever was declined on the way and whatever that left bound.
StaysOpen ==
  /\ checked.rigid \cap BoundVars(checked) = {}
  /\ StatementVars \cap (BoundVars(checked) \cup checked.rigid) = {}
  /\ Unlooped(checked)

Universe(r) ==
  UNION {Subsorts(p[1]) \cup Subsorts(p[2]) : p \in r.said} \cup {Var(v) : v \in DOMAIN r.bound}

Class(classes, t) == CHOOSE c \in classes : t \in c
Glue(classes, t, u) ==
  (classes \ {Class(classes, t), Class(classes, u)}) \cup {Class(classes, t) \cup Class(classes, u)}

\* What the lines make one: the pairs they ask for, the parts of what is
\* made one, and what is built of what is made one.
RECURSIVE Closed(_)
Closed(classes) ==
  LET made == {t \in UNION classes : ~IsVar(t)}
      alike == {p \in made \X made : p[1] # p[2] /\ p[1][1] = p[2][1]}
      one(t, u) == Class(classes, t) = Class(classes, u)
      apart == {p \in alike : one(p[1], p[2]) /\ \E k \in Parts(p[1]) : ~one(p[1][k], p[2][k])}
      built == {p \in alike : ~one(p[1], p[2]) /\ \A k \in Parts(p[1]) : one(p[1][k], p[2][k])}
  IN IF apart # {}
     THEN LET p == CHOOSE q \in apart : TRUE
              k == CHOOSE j \in Parts(p[1]) : ~one(p[1][j], p[2][j])
          IN Closed(Glue(classes, p[1][k], p[2][k]))
     ELSE IF built # {} THEN LET p == CHOOSE q \in built : TRUE IN Closed(Glue(classes, p[1], p[2]))
     ELSE classes

AsOne(r) ==
  LET Said(p, classes) == Glue(classes, p[1], p[2])
  IN Closed(FoldSet(Said, {{t} : t \in Universe(r)}, r.said))

\* Sorts can be given the lines: what is made one is built alike, holds no
\* two things declared of any sort, and nothing holds itself.
Solvable(r, classes) ==
  LET made(c) == {t \in c : ~IsVar(t)}
      any(c) == {t \in c : IsVar(t) /\ t[2] \in r.rigid}
      RECURSIVE Left(_)
      Left(cs) ==
        LET ends == {c \in cs : \A t \in made(c) : \A k \in Parts(t) : Class(classes, t[k]) \notin cs}
        IN IF cs = {} THEN TRUE ELSE ends # {} /\ Left(cs \ ends)
  IN /\ \A c \in classes :
          /\ \A t, u \in made(c) : t[1] = u[1]
          /\ Cardinality(any(c)) <= 1
          /\ any(c) = {} \/ made(c) = {}
     /\ Left(classes)

RECURSIVE Resolved(_, _)
Resolved(bound, t) ==
  LET f == Find(bound, t)
  IN [k \in DOMAIN f |-> IF k = 1 \/ IsVar(f) THEN f[k] ELSE Resolved(bound, f[k])]

\* A clash is found exactly when no sorts can be given what the lines say;
\* while there is none the names' sorts are the most general; and what is
\* bound where there was one still says no more than the lines do.
AsSaid ==
  LET classes == AsOne(checked)
      one(t, u) == Resolved(checked.bound, t) = Resolved(checked.bound, u)
  IN /\ checked.clash <=> ~Solvable(checked, classes)
     /\ \A t, u \in Universe(checked) :
          LET same == Class(classes, t) = Class(classes, u)
          IN (one(t, u) => same) /\ (same /\ ~checked.clash => one(t, u))

\* What the documentation of cited_sorts says: a citation "checks what the
\* proof's names are and does not say it"; where nothing is reported, the
\* elaborator's reading, without citations, settles the same sorts.
CitationsOnlyCheck ==
  ~checked.clash /\ ~checked.told =>
    \A name \in DOMAIN plain.env :
      Settled(checked.bound, checked.env[name]) = Settled(plain.bound, plain.env[name])
=============================================================================
