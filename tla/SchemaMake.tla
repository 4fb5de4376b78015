----------------------------- MODULE SchemaMake -----------------------------
(***************************************************************************)
(* How a schema evolves through `gaman make` (offline_planner.rs,          *)
(* migration_filter.rs, clarifier/type_resolution.rs, cli/dispatch.rs):    *)
(* the schema files are edited, a call of make compares them with the      *)
(* replayed history, asks what it cannot decide, is called again with the  *)
(* answers, and adds one migration to the history.                         *)
(***************************************************************************)
EXTENDS Clarifier

CONSTANTS Projects,       \* each the contents the schema files of one project may have
          Catalog,        \* the types the dialect knows
          MaxMigrations,  \* bound: migrations in the history
          MaxEdits        \* bound: edits of the schema files

\* The names that occur, and the bare names of tables, which are names of tables.
ASSUME NamesAssumption ==
  /\ Rank \in [DOMAIN Rank -> Nat] /\ None \notin DOMAIN Rank
  /\ Bare \in [DOMAIN Bare -> DOMAIN Bare] /\ DOMAIN Bare \subseteq DOMAIN Rank

ASSUME MergeKindsAssumption == MergeKinds \subseteq ChildKinds

\* The keys of a schema: what belongs to a table says to which.
EntityKeys ==
  {k \in [kind : RootKinds \cup ChildKinds \cup {"row"}, table : DOMAIN Rank \cup {None}, name : DOMAIN Rank] :
     /\ k.table = None <=> k.kind \in RootKinds
     /\ k.kind = "table" => k.name \in DOMAIN Bare}

IsEnum(def) == def = [values |-> def.values] /\ def.values \in Seq(Range(def.values))

\* Finitely many entities, each under a key; an enum has a list of values.
Named(s) ==
  /\ IsFiniteSet(DOMAIN s) /\ DOMAIN s \subseteq EntityKeys
  /\ \A k \in DOMAIN s : k.kind = "enum" => IsEnum(s[k])

ASSUME ProjectsAssumption == \A project \in Projects : \A s \in project : Named(s)

VARIABLES
  history,   \* the committed migrations, each a sequence of operations
  desired,   \* what the schema files say
  filters,   \* the roots the last call was narrowed to; none: all of them
  decisions, \* the answers the last call was given
  reply,     \* what it returned
  edits      \* how often the files were edited

vars == <<history, desired, filters, decisions, reply, edits>>

EmptySchema == [k \in {} |-> None]

\* replay_with_sources: the history from the empty schema.
Baseline(h) == Replay(EmptySchema, FlattenSeq(h))

-----------------------------------------------------------------------------
(* Types the dialect does not know (resolve_unknown_types).                *)

ColumnTypes(s) == {s[k].type : k \in {x \in DOMAIN s : x.kind = "column"}}
EnumNames(s)   == {k.name : k \in {x \in DOMAIN s : x.kind = "enum"}}

\* Asked of the columns of the tables the call is about, unless the type is in
\* the catalog, an enum of the schema or in use already.
TypeQuestions(cur, prev, tables) ==
  {Question("type", k, None, {"keep"} \cup Catalog) :
     k \in {x \in DOMAIN cur : /\ x.kind = "column" /\ x.table \in tables
                               /\ cur[x].type \notin Catalog \cup EnumNames(cur) \cup ColumnTypes(prev)}}

TypeDecisions(d) == {id \in DOMAIN d : id.ask = "type"}

\* Slip: the clarifier is given the answers about types as well.
NonTypeDecisions_All(d) == d

NonTypeDecisions(d) == Restrict(d, {id \in DOMAIN d : id.ask # "type"})

Typed(cur, d) ==
  [k \in DOMAIN cur |->
     LET ids == {id \in TypeDecisions(d) : id.key = k /\ d[id] # "keep"}
     IN  IF ids = {} THEN cur[k] ELSE [cur[k] EXCEPT !.type = d[CHOOSE id \in ids : TRUE]]]

-----------------------------------------------------------------------------
(* A call narrowed to some roots (filter_operations).                      *)

OperationRoot(op) ==
  IF op.key.kind \in RootKinds THEN op.key ELSE OwnerKey(op.key)

\* The candidates for the new name of each dropped table, best first: the code
\* scores them, the model takes them by name.
Ranked(ops, o) ==
  SetToSortSeq(TableCandidates(ops, o), LAMBDA a, b : Rank[a] < Rank[b])

\* A dropped table that was named comes with its best candidate, a created one
\* with a dropped table it may have been; no table is in two pairs.
RenamePairs(ops, roots) ==
  LET name(o) == Bare[o.key.name]
      olds == SetToSortSeq({o \in Gone(ops, "table") : TableCandidates(ops, o) # {}},
                           LAMBDA a, b : Rank[name(a)] < Rank[name(b)])
      news == SetToSortSeq({n \in UNION {TableCandidates(ops, o) : o \in Range(olds)} :
                              TableKey(n) \in roots}, LAMBDA a, b : Rank[a] < Rank[b])
      claim(pairs, old, new) == IF \E p \in pairs : p[2] = new THEN pairs ELSE pairs \cup {<<old, new>>}
      byOld(pairs, o) == IF TableKey(name(o)) \in roots
                         THEN claim(pairs, name(o), Ranked(ops, o)[1]) ELSE pairs
      byNew(pairs, n) == LET fits == SelectSeq(olds, LAMBDA o : /\ \A p \in pairs : p[1] # name(o)
                                                               /\ n \in TableCandidates(ops, o))
                         IN  IF fits = <<>> THEN pairs ELSE claim(pairs, name(fits[1]), n)
  IN  FoldLeft(byNew, FoldLeft(byOld, {}, olds), news)

\* Tables dropped together with a selected one that their foreign keys name.
WithDroppedDependents(ops, prev, seeds) ==
  LET drops == Gone(ops, "table")
      names(o, p) == \E k \in Children(prev, o.key.name) : k.kind = "foreign_key" /\ prev[k].to = p.key.name
      Grow[n \in 0 .. Cardinality(drops)] ==
        IF n = 0 THEN seeds
        ELSE LET chosen == Grow[n - 1]
             IN  chosen \cup {o \in drops : \E p \in drops \cap chosen : names(o, p)}
  IN  Grow[Cardinality(drops)]

Paired(pairs) == {TableKey(n) : n \in UNION {{p[1], p[2]} : p \in pairs}}
Seeds(ops, keys) == {o \in Range(ops) : OperationRoot(o) \in keys}

Filtered(ops, roots, prev) ==
  IF roots = {} THEN ops
  ELSE Selected(ops, Closure(Range(ops),
         WithDroppedDependents(ops, prev, Seeds(ops, roots \cup Paired(RenamePairs(ops, roots))))))

-----------------------------------------------------------------------------
(* make_named_migration_filtered.                                          *)

Reply(kind, ask, cause) == [kind |-> kind, ask |-> ask, cause |-> cause]
NoReply   == Reply("none", {}, "none")
NoChanges == [reply |-> Reply("no changes", {}, "none"), ops |-> <<>>]
Asking(questions) == [reply |-> Reply("needs input", questions, "none"), ops |-> <<>>]
Refusal(cause)    == [reply |-> Reply("refused", {}, cause), ops |-> <<>>]
Created(ops)      == [reply |-> Reply("created", {}, "none"), ops |-> ops]

\* The chosen operations are clarified; of a narrowed call the candidate is replayed.
Candidate(prev, roots, asked) ==
  IF asked.kind \in {"unknown answer", "conflict"} THEN Refusal(asked.kind)
  ELSE IF asked.kind = "needs input" THEN Asking(asked.ask)
  ELSE IF roots # {} /\ ~Replay(prev, asked.ops).ok THEN Refusal("candidate")
  ELSE Created(asked.ops)

Clarified(prev, roots, d, ops) ==
  IF ops = <<>> THEN NoChanges ELSE Candidate(prev, roots, Process(ops, NonTypeDecisions(d)))

\* From the typed schema on: compare, narrow, clarify.
Planned(prev, roots, d, diff) ==
  IF diff.err # "none" THEN Refusal(diff.err)
  ELSE Clarified(prev, roots, d, Filtered(diff.ops, roots, prev))

Typing(cur, prev, roots, d, asks) ==
  IF \E id \in TypeDecisions(d) : \A q \in asks : q.id # id \/ d[id] \notin q.choices
  THEN Refusal("unknown answer")
  ELSE IF \E q \in asks : q.id \notin DOMAIN d
  THEN Asking({q \in asks : q.id \notin DOMAIN d})
  ELSE Planned(prev, roots, d, Diff(Typed(cur, d), prev))

\* The types of a narrowed call are asked only for the tables it is about, which
\* a first comparison finds.
TypingAbout(cur, prev, roots, d, ops) ==
  IF ops = <<>> THEN NoChanges
  ELSE Typing(cur, prev, roots, d,
         TypeQuestions(cur, prev, {OperationRoot(o).name : o \in {x \in Range(ops) : OperationRoot(x).kind = "table"}}))

Narrowed(cur, prev, roots, d, diff) ==
  IF diff.err # "none" THEN Refusal(diff.err)
  ELSE TypingAbout(cur, prev, roots, d, Filtered(diff.ops, roots, prev))

Answered(base, cur, roots, d) ==
  IF ~base.ok THEN Refusal("replay")
  ELSE IF ~Valid(base.schema) THEN Refusal("baseline")
  ELSE IF roots = {} THEN Typing(cur, base.schema, roots, d, TypeQuestions(cur, base.schema, Tables(cur)))
  ELSE Narrowed(cur, base.schema, roots, d, Diff(cur, base.schema))

Response(h, cur, roots, d) == Answered(Baseline(h), cur, roots, d)

-----------------------------------------------------------------------------
(* The actions.                                                            *)

Init ==
  /\ history = <<>>
  /\ \E project \in Projects : desired \in project
  /\ filters = {} /\ decisions = NoDecisions /\ reply = NoReply
  /\ edits = 0

Return(roots, d, response) ==
  /\ filters' = roots
  /\ decisions' = d
  /\ reply' = response.reply
  /\ history' = IF response.reply.kind = "created" THEN Append(history, response.ops) ELSE history

Respond(roots, d) ==
  /\ Return(roots, d, Response(history, desired, roots, d))
  /\ UNCHANGED <<desired, edits>>

\* The files change; a prompt that was open is abandoned.
Edit ==
  /\ edits < MaxEdits
  /\ edits' = edits + 1
  /\ \E project \in Projects : desired \in project /\ desired' \in project \ {desired}
  /\ filters' = {} /\ decisions' = NoDecisions /\ reply' = NoReply
  /\ UNCHANGED history

\* A call of make for all roots or for one that exists on either side.
Make ==
  /\ reply.kind # "needs input"
  /\ Len(history) < MaxMigrations
  /\ \E roots \in {{}} \cup {{k} : k \in RootKeys(desired) \cup RootKeys(Baseline(history).schema)} :
       Respond(roots, NoDecisions)

\* One choice for each question.
Answers(questions) ==
  LET list == Listed(questions)
      Upto[n \in 0 .. Len(list)] ==
        IF n = 0 THEN {NoDecisions}
        ELSE {Put(d, list[n].id, choice) : d \in Upto[n - 1], choice \in list[n].choices}
  IN  Upto[Len(list)]

\* Every question of the reply is answered, and the call repeated with all the
\* answers so far (run_with_clarifications).
AnswerAll ==
  /\ reply.kind = "needs input"
  /\ \E answers \in Answers(reply.ask) : Respond(filters, Over(decisions, answers))

Next == Edit \/ Make \/ AnswerAll
Spec == Init /\ [][Next]_vars

-----------------------------------------------------------------------------
(* What the properties speak of: the last migration, the schema before it  *)
(* and after it, when the call of make created it.                         *)

Latest  == history[Len(history)]
Prior   == Baseline(SubSeq(history, 1, Len(history) - 1)).schema
Current == Baseline(history).schema

Replays          == Replay(Prior, Latest).ok
JustMade         == reply.kind = "created"
JustMadeWhole    == JustMade /\ filters = {}
TableRenames     == {i \in DOMAIN Latest : Latest[i].act = "rename" /\ Latest[i].key.kind = "table"}
RenamesTable     == TableRenames # {}
KeptKeys(kind)   == {k \in DOMAIN desired \cap DOMAIN Prior : k.kind = kind}

-----------------------------------------------------------------------------
(* When a migration made without a filter does not replay.                 *)

\* The new enum is created before the old one is dropped.
RecreatesEnum == \E k \in KeptKeys("enum") : ~IsSubsequence(Prior[k].values, desired[k].values)

\* The same for an extension of another version.
ModifiesExtension == \E k \in KeptKeys("extension") : Prior[k] # desired[k]

\* The children of a table in a database schema go to its bare name.
ChangedTables == (Tables(desired) \ Tables(Prior)) \cup (Tables(Prior) \ Tables(desired))
QualifiedTables == {t \in ChangedTables : Bare[t] # t}
RenamedInto == {Latest[i].new : i \in TableRenames}
SplitTables ==
  {t \in QualifiedTables : /\ \E k \in Children(desired, t) \cup Children(Prior, t) : k.kind # "column"
                           /\ t \in Tables(desired) => Bare[t] \notin RenamedInto}
SplitsQualifiedTable == SplitTables # {}

\* A table is renamed by its bare name, and to a bare name.
RenamesQualifiedTable == \E i \in TableRenames : Latest[i].key \notin DOMAIN Prior
NamedBare == {t \in QualifiedTables : \E i \in TableRenames : Bare[t] \in {Latest[i].key.name, Latest[i].new}}

\* The bare name is that of another table, which is found in its place.
FindsNamesake == \E t \in SplitTables \cup NamedBare : Bare[t] \in Tables(desired) \cup Tables(Prior)

\* What is created in a table comes after the CREATE TABLE that the answer took
\* out, not after the DROP TABLE whose place the rename has.
RenamesTooLate ==
  \E j \in TableRenames : \E i \in 1 .. j - 1 :
    Latest[i].key.kind \in ChildKinds /\ Latest[i].key.table = Latest[j].new

MadeAndReplayed == JustMadeWhole /\ Replays /\ ~FindsNamesake

LosesFunction(k) ==
  \E f \in DOMAIN Prior \ DOMAIN desired : f.kind = "function" /\ Prior[f].fn = Prior[k].fn

\* A trigger is dropped with its function and then altered.
SwitchesFunction == \E k \in KeptKeys("trigger") : Prior[k] # desired[k] /\ LosesFunction(k)

\* A column takes its value out of a row before the row is compared and updated.
TrimsKeptRow ==
  \E k \in KeptKeys("row") :
     /\ Prior[k] # desired[k]
     /\ \E c \in DOMAIN Prior[k].vals : /\ Key("column", k.table, c) \notin DOMAIN desired
                                        /\ RenamedTo(decisions, Key("column", k.table, c), None) = None

\* A migration made for the whole schema replays from the history before it,
\* whatever was changed and answered, except in exactly these seven cases: an
\* operation never comes before what it needs nor twice (sort_operations and
\* inject_orphan_triggers of diff/mod.rs against states/replay.rs).  make itself
\* does not replay it (offline_planner.rs:188).  Nothing is said where another
\* table is found under the bare name of a qualified one.
MigrationReplays ==
  JustMadeWhole /\ ~FindsNamesake =>
    (Replays <=> ~(RecreatesEnum \/ ModifiesExtension \/ SplitsQualifiedTable
                   \/ RenamesQualifiedTable \/ RenamesTooLate
                   \/ SwitchesFunction \/ TrimsKeptRow))

\* A column that may not be empty keeps that when it is renamed, though the files
\* let it be empty now and their rows leave it out.
EmptiesRequired ==
  \E i \in DOMAIN Latest :
    /\ Latest[i].act = "rename" /\ Latest[i].key.kind = "column"
    /\ ~Prior[Latest[i].key].nullable /\ Prior[Latest[i].key].dflt = None
    /\ \E k \in RowsOf(desired, Latest[i].key.table) : Latest[i].new \notin DOMAIN desired[k].vals

\* A whole migration that replays leaves a history that can be used: its schema is
\* valid, and the next make for the same files is not refused.  The exceptions are
\* renames: a renamed table keeps the derived name of its primary key
\* (states/replay.rs:33), a renamed column its definition, and what else changed in
\* either is lost with the answer (clarifier/resolve.rs).
HistoryStaysUsable ==
  MadeAndReplayed /\ ~RenamesTable /\ ~EmptiesRequired =>
    /\ Valid(Current)
    /\ Diff(desired, Current).err = "none"

\* The answers that leave what the files say.
Faithful == \A id \in DOMAIN decisions :
              decisions[id] \in {"no", "accept", "using", "implicit", "manual", "keep"}

\* After such answers nothing is left to change, so a second make finds no
\* changes: replay and diff agree on every operation.  The exception is a trigger
\* that was dropped with an overload of the function it still calls: the names of
\* functions are compared without their arguments (diff/mod.rs:558).
PlainMakeReachesDesired ==
  MadeAndReplayed /\ Faithful /\ ~(\E k \in KeptKeys("trigger") : LosesFunction(k)) =>
    Changes(desired, Current) = {}

\* README.md:62: a question that was answered and committed is not asked again by
\* the next make, unless a table was renamed, NULL was allowed for a column the
\* files say is NOT NULL, or a known type was taken for an unknown one.
NotAskedAgain ==
  MadeAndReplayed /\ ~RenamesTable =>
    \A q \in Response(history, desired, {}, NoDecisions).reply.ask :
       q.id \in DOMAIN decisions => decisions[q.id] \in {"nullable"} \cup Catalog

\* The conversation of one make ends, though run_with_clarifications would repeat
\* the call for ever (cli/dispatch.rs) and the operations are computed again for
\* each call: no answer to its questions is refused as unknown, and questions that
\* are asked after answers come after answers about types alone, so the second
\* round of them is the last.
ConversationEnds ==
  /\ reply.cause # "unknown answer"
  /\ reply.kind = "needs input" => TypeDecisions(decisions) = DOMAIN decisions

\* A row of a new table is written before the table is created.
RowsLead ==
  \E i, j \in DOMAIN Latest :
    /\ Latest[i].act = "create" /\ Latest[i].key.kind = "row"
    /\ Latest[j].act = "create" /\ Latest[j].key = OwnerKey(Latest[i].key)
    /\ i < j

\* Rolling a migration back restores the schema it was made from, with every
\* value of a managed row whose table and column the migration did not drop
\* (Operation::inverse against states/replay.rs, rollback_migrations).  The
\* exception is a row written before its table: it would be deleted after it.
RollbackRestores ==
  MadeAndReplayed /\ Reversible(Latest) /\ ~RowsLead =>
    LET back    == Replay(Current, RollbackOps(Latest))
        dropped == {Latest[i].key : i \in {x \in DOMAIN Latest : Latest[x].act = "drop"}}
        rows(s) == {k \in DOMAIN s : k.kind = "row"}
    IN  /\ back.ok
        /\ Without(back.schema, rows(back.schema)) = Without(Prior, rows(Prior))
        /\ \A k \in rows(Prior) : \A c \in DOMAIN Prior[k].vals :
             {OwnerKey(k), Key("column", k.table, c)} \cap dropped = {} =>
               /\ k \in DOMAIN back.schema
               /\ c \in DOMAIN back.schema[k].vals
               /\ back.schema[k].vals[c] = Prior[k].vals[c]

-----------------------------------------------------------------------------
(* The schema between two operations of a migration.                       *)

HasFunction(s, fn) == \E f \in DOMAIN s : f.kind = "function" /\ s[f].fn = fn

Dangling(s, k) ==
  CASE k.kind = "trigger"     -> ~HasFunction(s, s[k].fn)
    [] k.kind = "foreign_key" -> Referenced(s, s[k].to) = {} \/ s[k].col \notin Columns(s, k.table)
    [] k.kind = "column"      -> s[k].type = "e" /\ Key("enum", None, "e") \notin DOMAIN s
    [] k.kind = "function"    -> ~ValidFunction(s, k)
    [] k.kind = "row"         -> ~ValidRow(s, k)
    [] k.kind \in {"index", "constraint"} -> ~ValidChild(s, k)
    [] OTHER                  -> FALSE

\* A foreign key needs a key on the columns it points at, but no edge orders the
\* keys of the other table: only where they change may it be missing.
Unkeyed(s, k) == k.kind = "foreign_key" /\ ~ValidChild(s, k)
KeysChange(t) == \E i \in DOMAIN Latest : /\ Latest[i].key.table = t
                                          /\ Latest[i].key.kind \in {"column", "index", "constraint"}

ReplacedSequences == {k \in KeptKeys("sequence") : Prior[k] # desired[k]}

\* Row writes go to the places the sort gave to row writes, which for the tables
\* there were come before what a replaced sequence holds up, a new table.
RowLeadsItsTable(s, k) ==
  /\ k.kind = "row" /\ k.table \notin Tables(s) \cup Tables(Prior)
  /\ ReplacedSequences # {}
  /\ \E i \in DOMAIN Latest : Latest[i].key.kind = "row" /\ Latest[i].key.table \in Tables(Prior)

\* A row there was has no value yet for a column that has come to require one: the
\* columns of a table change before its rows.
RowWaitsForValue(s, k) ==
  /\ k.kind = "row" /\ k \in DOMAIN Prior
  /\ DOMAIN s[k].vals \subseteq Columns(s, k.table)
  /\ Prior[k] # desired[k]

\* A trigger is written with its new table, but its function waits, itself or
\* through other functions, for an operation on some table.
TriggerLeadsFunction(k, fn) ==
  LET changes == AllChanges(desired, Prior)
      calls   == {o \in changes : o.key.kind = "function" /\ ~IsDrop(o) /\ o.new.fn = fn}
  IN  /\ k.kind = "trigger" /\ k.table \notin Tables(Prior)
      /\ \E o \in Closure(changes, calls) : o.key.kind = "table" /\ ~IsDrop(o)

\* A sequence is dropped and created under a function that uses it.
LosesSequence(s, k) ==
  /\ k.kind = "function"
  /\ \A d \in s[k].deps : Resolves(s, d) \/ Key(d.kind, None, d.name) \in ReplacedSequences

\* Where a reference may be unmet for a while.
Excused(s, k) == \/ RowLeadsItsTable(s, k) \/ RowWaitsForValue(s, k)
                 \/ k.kind = "trigger" /\ TriggerLeadsFunction(k, s[k].fn)
                 \/ LosesSequence(s, k)

\* ARCHITECTURE.md:134: dependencies determine the order of operations.  After
\* each operation of a whole migration every reference (of foreign keys, triggers,
\* functions, indexes, rows, and columns to their enum) is met, when all were met
\* before, the files meet them all, no table is renamed and no required column is
\* with a row that leaves it out.  The exceptions are the four above: a row before
\* its table, a row whose new value comes after its column, a trigger before its
\* function, and a function whose sequence is replaced.
PrefixesKeepReferences ==
  MadeAndReplayed /\ ~RenamesTable /\ ~EmptiesRequired /\ Valid(Prior)
    /\ (\A k \in DOMAIN Prior : ~Dangling(Prior, k))
    /\ (\A k \in DOMAIN desired : ~Dangling(desired, k)) =>
      \A n \in DOMAIN Latest :
         LET s == Replay(Prior, SubSeq(Latest, 1, n)).schema
         IN  \A k \in DOMAIN s : /\ Dangling(s, k) => n < Len(Latest) /\ Excused(s, k)
                                 /\ Unkeyed(s, k) => KeysChange(s[k].to)

\* Tables with rows that refer to each other in a circle, or to themselves.
RowsInCircle(s) ==
  \E T \in SUBSET Tables(s) \ {{}} : \A t \in T :
    /\ RowsOf(s, t) # {}
    /\ \E k \in Children(s, t) : k.kind = "foreign_key" /\ s[k].to \in T

DependsOnView(s) == \E f \in DOMAIN s : f.kind = "function" /\ \E d \in s[f].deps : d.kind = "view"

ChangedIn(base, kinds) == \E k \in DOMAIN base \cap DOMAIN desired : k.kind \in kinds /\ base[k] # desired[k]

\* make gives up on a dependency cycle only for one of three reasons.  Row writes
\* are ordered by table (managed_rows/diff.rs:161), so that rows of tables that
\* refer to each other come before themselves.  A view comes after every function
\* and is dropped before every one, also a function that depends on it.  And what
\* is replaced in place, a view or a function, comes after every new sequence and
\* before every dropped one, also when they are the same (diff/mod.rs:979, 1015).
CycleOnlyThrough ==
  reply.cause = "cycle" =>
    LET base == Baseline(history).schema
    IN  \/ RowsInCircle(desired) \/ RowsInCircle(base)
        \/ DependsOnView(desired) \/ DependsOnView(base)
        \/ ChangedIn(base, {"sequence"}) /\ ChangedIn(base, {"view", "function"})

-----------------------------------------------------------------------------
(* What the documentation says.                                            *)

\* ARCHITECTURE.md:135: a generated migration is replayed from its committed
\* baseline before it is accepted.
AcceptedMigrationReplays == JustMade => Replays

=============================================================================
