---------------------------- MODULE DriftStatements ----------------------------
(***************************************************************************)
(* What a repair does: the operations a verification reports, in the order *)
(* it walks the schema; whether they can be rendered as SQL                *)
(* (sql_plan.rs, dialects); and what the statements do to the database.    *)
(*                                                                         *)
(* An operation is [act, key, old, new, sub]; act is "create", "alter" or  *)
(* "drop", sub the children inside a CREATE TABLE.                         *)
(***************************************************************************)
EXTENDS SchemaVerify

Operation(act, k, old, new) ==
  [act |-> act, key |-> k, old |-> old, new |-> new, sub |-> [x \in {} |-> None]]

Positions == [n \in Range(Names) \cup {None} |->
                IF n = None THEN 0 ELSE CHOOSE i \in DOMAIN Names : Names[i] = n]
WalkedKinds == <<"sequence", "function", "view", "enum", "extension", "table",
                 "column", "foreign_key", "index", "constraint", "trigger">>
KindRanks == [x \in Range(WalkedKinds) |-> CHOOSE i \in DOMAIN WalkedKinds : WalkedKinds[i] = x]
\* Sorted maps of top-level objects first, then the tables, each with its
\* columns, foreign keys, indexes, constraints and triggers.
Rank(k) ==
  LET child  == k.table # None
      name   == IF child THEN k.table ELSE k.name
      top    == IF child \/ k.kind = "table" THEN 6 ELSE KindRanks[k.kind]
      first  == IF k.schema # None THEN Positions[k.schema] ELSE Positions[name]
      second == IF k.schema # None THEN Positions[name] ELSE 0
  IN  Positions[k.name] + 100 * (KindRanks[k.kind] + 100 * (second + 100 * (first + 100 * top)))

Walk(K) == FoldSet(LAMBDA k, seq : LET n == Cardinality({i \in DOMAIN seq : Rank(seq[i]) < Rank(k)})
                                   IN  InsertAt(seq, n + 1, k), <<>>, K)

-----------------------------------------------------------------------------
(* The operations of a report (drift/mod.rs).                              *)

\* Bodies stay out of a report.
Sanitized(k, def) ==
  CASE k.kind \in {"function", "view"} /\ ~def.opaque -> [def EXCEPT !.body = None]
    [] k.kind = "trigger" -> [def EXCEPT !.query = None, !.when = None]
    [] OTHER -> def

ColumnForOperation(d, def) ==
  IF d = "postgres" THEN [def EXCEPT !.dflt = CanonicalDefault(@)] ELSE def

\* A slip: forgets what the declaration leaves open.
ColumnForRepair_ExpectedOnly(d, expected, observed) == expected

\* MODIFY COLUMN writes the whole column: what the declaration leaves open is
\* taken from the observed column.
ColumnForRepair(d, expected, observed) ==
  IF d \notin MysqlFamily THEN expected
  ELSE [expected EXCEPT !.charset = IF @ = None THEN observed.charset ELSE @,
                        !.comment = IF @ = None THEN observed.comment ELSE @]

ValuesAreSubsequence(old, new) ==
  \E f \in [DOMAIN old -> DOMAIN new] :
    /\ \A i \in DOMAIN old : new[f[i]] = old[i]
    /\ \A i, j \in DOMAIN old : i < j => f[i] < f[j]

\* A slip: a table is created without its children.
CreateOperation_WithoutChildren(e, k) == Operation("create", k, None, Sanitized(k, e[k]))

CreateOperation(e, k) ==
  IF k.kind = "table"
  THEN [Operation("create", k, None, e[k]) EXCEPT !.sub = SubMap(e, Children(e, k))]
  ELSE Operation("create", k, None, Sanitized(k, e[k]))

DropThenCreate(k, old, new) == <<Operation("drop", k, old, None), Operation("create", k, None, new)>>

AlterOperations(d, k, old, new) ==
  CASE k.kind = "column" ->
         <<Operation("alter", k, ColumnForOperation(d, old),
                     ColumnForRepair(d, ColumnForOperation(d, new), old))>>
    [] k.kind \in {"function", "view", "trigger"} ->
         <<Operation("alter", k, Sanitized(k, old), Sanitized(k, new))>>
    [] k.kind = "enum" /\ ValuesAreSubsequence(old.values, new.values) ->
         <<Operation("alter", k, old, new)>>
    [] k.kind = "table" -> <<>>
    [] OTHER -> DropThenCreate(k, old, new)

OperationsOn(d, k, e, o) ==
  IF k \notin DOMAIN o THEN <<CreateOperation(e, k)>>
  ELSE AlterOperations(d, k, o[k], e[k])

Operations(d, e, o) ==
  LET walk == Walk({k \in Looked(e, o) : FindingsOn(d, k, e, o) # {}})
  IN  FlattenSeq([i \in DOMAIN walk |-> OperationsOn(d, walk[i], e, o)])

-----------------------------------------------------------------------------
(* Verification as a whole (runner/dispatch.rs): the inspected schema is   *)
(* validated like an authored one, and a refusal ends the command.         *)

Refused == [ok |-> FALSE, findings |-> {}]

Compare(d, e, o) == [ok |-> TRUE, findings |-> Findings(d, e, o)]

VerifyLive(d, declared, live, schemas) ==
  IF Valid(d, live)
  THEN Compare(d, Scope(d, declared, schemas), Scope(d, live, schemas)) ELSE Refused

Verify(d, declared, db, schemas) == VerifyLive(d, declared, Inspect(d, db, schemas), schemas)

\* The operations that come with the findings.
Planned(d, declared, db, schemas) ==
  Operations(d, Scope(d, declared, schemas), Scope(d, Inspect(d, db, schemas), schemas))

-----------------------------------------------------------------------------
(* Rendering.  The start is the committed schema with the operations       *)
(* undone: an operation without an inverse cannot be rendered.             *)

HasInverse(op) == ~(op.act = "alter" /\ op.key.kind = "enum")

UndoOf(s, op) ==
  CASE op.act = "create" -> SubMap(s, DOMAIN s \ ({op.key} \cup DOMAIN op.sub))
    [] op.act = "drop"   -> (op.key :> op.old) @@ s
    [] OTHER             -> (op.key :> op.old) @@ s
RolledBack(s, ops) == FoldRight(LAMBDA op, st : UndoOf(st, op), ops, s)

\* SQLite cannot alter a table in place: for these operations it is built anew.
\* (A column of a report carries neither a key nor a reference nor a check.)
AddNeedsRebuild(def) == def.gen # None \/ (~def.nullable /\ def.dflt = None)
NeedsRebuild(d, op) ==
  /\ d = "sqlite"
  /\ \/ op.key.kind \in {"foreign_key", "constraint"}
     \/ op.key.kind = "column" /\ (op.act = "create" => AddNeedsRebuild(op.new))

\* The rows are copied: a column that becomes NOT NULL must have a default to
\* fill in, generated columns are not copied.
CopyRefused(op) ==
  /\ op.new.gen = None /\ ~op.new.nullable /\ op.new.dflt = None
  /\ op.act = "alter" => op.old.nullable

ReadBy(s, t)  == {v \in OfKind(s, "view") : s[v].body = t.name}
Inbound(s, t) == {k \in OfKind(s, "foreign_key") : k.table # t.name /\ s[k].to[2] = t.name}
KeySignature(s, t) ==
  IF s[t].pk = None THEN <<>>
  ELSE LET Column(c) == Key("column", t.schema, t.name, c)
           there == SelectSeq(s[t].pk.cols, LAMBDA c : Column(c) \in DOMAIN s)
       IN  [i \in DOMAIN there |-> <<there[i], Affinity(s[Column(there[i])].type)>>]
TargetsExist(before, after, t) ==
  \A k \in Children(after, t) :
    /\ k.kind \in {"index", "foreign_key", "constraint"} => ColumnsExist(after, t, after[k].cols)
    /\ k.kind = "foreign_key" =>
         after[k].to[2] = t.name \/ Key("table", None, None, after[k].to[2]) \in DOMAIN before

\* When a table is not built anew: its helpers' names are taken, it has triggers, a
\* view or another table refers to it, its key changes, or a target is missing.
RebuildRefused(before, after, t) ==
  \/ \E prefix \in {"__gaman_rebuild_", "__gaman_fk_check_"} :
       Key("table", None, None, prefix \o t.name) \in DOMAIN before
  \/ \E k \in Children(before, t) \cup Children(after, t) : k.kind = "trigger"
  \/ ReadBy(before, t) # {} \/ Inbound(before, t) # {}
  \/ KeySignature(before, t) # KeySignature(after, t)
  \/ ~TargetsExist(before, after, t)

\* What has no SQL: a sequence is made by its own source, SQLite's trigger
\* needs its query, the MySQL family makes functions and triggers from raw SQL
\* only.
PostgresRenders(op) == op.key.kind = "sequence" => op.new.raw # None
SqliteRenders(op) == op.key.kind = "trigger" => op.new.opaque \/ op.new.query # None
FamilyRenders(op) == op.key.kind \in {"function", "trigger"} => op.new.opaque

Renders(d, op) ==
  op.act # "drop" =>
    CASE d = "postgres"   -> PostgresRenders(op)
      [] d = "sqlite"     -> SqliteRenders(op)
      [] d \in MysqlFamily -> FamilyRenders(op)

\* Each operation is rendered on the schema the replay has by then; neighbouring
\* operations on one table, which share a rebuild, come to the same.
RebuildRenders(before, after, op) ==
  /\ op.act # "drop" /\ op.key.kind = "column" => ~CopyRefused(op)
  /\ OwnerKey(op.key) \in DOMAIN before
  /\ ~RebuildRefused(before, after, OwnerKey(op.key))
From(declared, ops, i) == RolledBack(declared, SubSeq(ops, i, Len(ops)))

CanRender(d, declared, ops) ==
  /\ \A i \in DOMAIN ops : HasInverse(ops[i])
  /\ Valid(d, From(declared, ops, 1))
  /\ \A i \in DOMAIN ops :
       IF NeedsRebuild(d, ops[i])
       THEN RebuildRenders(From(declared, ops, i), From(declared, ops, i + 1), ops[i])
       ELSE Renders(d, ops[i])

-----------------------------------------------------------------------------
(* Execution: the database after a statement, None when the server refuses *)
(* it.                                                                     *)

Minus(db, K) == SubMap(db, DOMAIN db \ K)

\* SQLite looks for the table a foreign key names only when rows are written.
HasTarget(d, db, def) ==
  LET t == Key("table", Absolute(d, def.to[1]), None, def.to[2])
  IN  d = "sqlite" \/ (t \in DOMAIN db /\ ColumnsExist(db, t, def.tocols))

\* ALTER COLUMN TYPE without USING needs a cast that assignment may apply; the one
\* the repair writes itself is from text to jsonb.
Castable(old, new) ==
  \/ old = new \/ new \in TextTypes
  \/ {old, new} \subseteq NumericTypes
  \/ old = "text" /\ new = "jsonb"
\* What a server takes as the new definition of a column: a serial is no type to
\* change to, and a character set belongs to text.
Alterable(d, old, new) ==
  CASE d = "postgres"   -> old.type = new.type \/ (new.type # "serial" /\ Castable(old.type, new.type))
    [] d \in MysqlFamily -> new.charset = None \/ new.type \in TextTypes

EnumInUse(db, k) == \E c \in OfKind(db, "column") : db[c].type = k.name

\* CREATE TABLE brings its columns, keys, constraints and indexes, no triggers.
Inline(op) == {k \in DOMAIN op.sub : op.sub[k] # None /\ k.kind # "trigger"}
CreatedRows(d, op) ==
  FoldSet(LAMBDA k, rows : Stored(d, k, op.sub[k]) @@ rows, Stored(d, op.key, op.new), Inline(op))

Creatable(d, db, op) ==
  LET at == AbsoluteKey(d, op.key)
  IN  CASE op.key.kind = "table" ->
             \A k \in Inline(op) : k.kind = "foreign_key" => HasTarget(d, db, op.sub[k])
        [] op.key.kind = "foreign_key" -> HasTarget(d, db, op.new)
        [] op.key.kind = "column" ->
             IF op.act = "create" THEN at \notin DOMAIN db ELSE Alterable(d, op.old, op.new)
        [] op.key.kind \in {"function", "view"} -> op.new.body # None
        [] op.key.kind = "trigger" /\ d = "postgres" ->
             \E f \in OfKind(db, "function") :
               f.name = (IF op.new.fn = None THEN OwnFunction(op.key) ELSE op.new.fn[2])
        [] OTHER -> op.act = "alter" \/ at \notin DOMAIN db

Droppable(db, at) == at.kind = "enum" => ~EnumInUse(db, at)

\* ALTER COLUMN of PostgreSQL changes type, nullability and default; the
\* family's MODIFY COLUMN sets the whole column.
AlteredColumn(d, row, old, new) ==
  IF d \in MysqlFamily THEN ColumnRow(d, new)
  ELSE LET written == ColumnRow(d, new)
       IN  [row EXCEPT !.type    = IF old.type # new.type THEN written.type ELSE @,
                       !.notnull = IF old.nullable # new.nullable THEN written.notnull ELSE @,
                       !.dflt    = IF old.dflt # new.dflt THEN written.dflt ELSE @]

CompanionKeys(d, at, def) == DOMAIN CompanionRows(d, at, def)

Execute(d, db, op) ==
  LET at == AbsoluteKey(d, op.key)
  IN  CASE op.act = "drop" ->
             IF Droppable(db, at)
             THEN Minus(db, {at} \cup CompanionKeys(d, at, op.old)) ELSE None
        [] ~Creatable(d, db, op) -> None
        [] op.act = "create" -> CreatedRows(d, op) @@ db
        [] op.key.kind = "column" ->
             (at :> AlteredColumn(d, db[at], op.old, op.new)) @@ CompanionRows(d, at, op.new)
               @@ Minus(db, CompanionKeys(d, at, op.old))
        [] OTHER -> Stored(d, op.key, op.new) @@ db

\* The old table goes with its indexes and triggers, and the new one takes its name;
\* SQLite reads the whole schema again for that and refuses when a view reads a
\* table that is not there.
BrokenViews(db, t) ==
  {v \in OfKind(db, "view") : db[v].body \in Range(Names)
     /\ \/ db[v].body = t.name
        \/ Key("table", v.schema, None, db[v].body) \notin DOMAIN db}
Rebuilt(db, state, t) ==
  LET rest == Minus(db, Children(db, AbsoluteKey("sqlite", t)))
  IN  IF BrokenViews(db, t) # {} THEN None
      ELSE FoldSet(LAMBDA k, rows : Stored("sqlite", k, state[k]) @@ rows, rest,
                   Children(state, t) \cup {t})

Step(d, state, db, op) ==
  IF NeedsRebuild(d, op) THEN Rebuilt(db, state, OwnerKey(op.key)) ELSE Execute(d, db, op)

\* The databases after each statement, up to the first that is refused.
RECURSIVE Trace(_, _, _, _)
Trace(d, declared, db, ops) ==
  IF ops = <<>> THEN <<db>>
  ELSE LET next == Step(d, RolledBack(declared, Tail(ops)), db, Head(ops))
       IN  IF next = None THEN <<db, None>>
           ELSE <<db>> \o Trace(d, declared, next, Tail(ops))

\* One transaction, where DDL can be rolled back; else what was done stays.
RunStatements(d, declared, db, ops) ==
  LET trace  == Trace(d, declared, db, ops)
      failed == Last(trace) = None
  IN  [ok |-> ~failed,
       db |-> IF ~failed THEN Last(trace)
              ELSE IF d \in MysqlFamily THEN trace[Len(trace) - 1] ELSE db]

=============================================================================
