----------------------------- MODULE SchemaDrift -----------------------------
(***************************************************************************)
(* A live database beside the committed migrations: somebody changes it    *)
(* from outside, gaman verifies and repairs it.  The verification is a     *)
(* function of the state (Report); a repair is `gaman repair --apply`      *)
(* with --allow-partial, no migration pending.                             *)
(*                                                                         *)
(* A project is [dialect, schemas, declared, puts, drops]: the schema the  *)
(* migrations replay to, the rows somebody may put into the database, and  *)
(* the entities somebody may drop.                                         *)
(***************************************************************************)
EXTENDS DriftStatements

CONSTANTS Projects, MaxChanges

\* Committed migrations replay to a schema that passes validation.
ASSUME ProjectsAssumption == \A p \in Projects : Valid(p.dialect, p.declared)

VARIABLES
  project,   \* the project at hand
  db,        \* the rows of the live database
  changes,   \* how often it was changed from outside
  last       \* the last repair: how it ended, what it was told, where it began

vars == <<project, db, changes, last>>

Dialect  == project.dialect
Declared == project.declared
NoRows   == [x \in {} |-> None]
Deployed(d, s) == FoldSet(LAMBDA k, rows : Stored(d, k, s[k]) @@ rows, NoRows, DOMAIN s)
Report   == Verify(Dialect, Declared, db, project.schemas)

Idle == [outcome |-> "none", report |-> Refused, before |-> NoRows]

Init ==
  /\ project \in Projects
  /\ db = Deployed(project.dialect, project.declared)
  /\ changes = 0
  /\ last = Idle

-----------------------------------------------------------------------------
(* The outside.                                                            *)

\* What goes with an entity when it is dropped.
Uses(k, x) ==
  CASE x.kind = "table" ->
         \/ OwnerKey(k) = x /\ k.table # None
         \/ k.kind = "foreign_key" /\ db[k].to = Qualified(x)
    [] x.kind = "function" -> k.kind = "trigger" /\ db[k].fn = Qualified(x)
    [] x.kind = "column" ->
         \/ k.kind \in {"index", "foreign_key"} /\ OwnerKey(k) = OwnerKey(x)
              /\ x.name \in Range(db[k].cols)
         \/ k.kind = "constraint" /\ OwnerKey(k) = OwnerKey(x)
    [] OTHER -> FALSE
DropCascade(x) == Minus(db, {x} \cup {k \in DOMAIN db : Uses(k, x)})

\* What the rows need: their table, the columns they speak of, a foreign key
\* its target.
Fits(k, row, all) ==
  /\ k.table # None => OwnerKey(k) \in all
  /\ k.kind \in {"index", "foreign_key", "constraint"} =>
       \A c \in Range(row.cols) : Key("column", k.schema, k.table, c) \in all
  /\ k.kind = "table" /\ row.pk # None =>
       \A c \in Range(row.pk.cols) : Key("column", k.schema, k.name, c) \in all
  /\ k.kind = "foreign_key" => Key("table", row.to[1], None, row.to[2]) \in all

Outside ==
  /\ changes < MaxChanges
  /\ \/ \E k \in project.drops : k \in DOMAIN db /\ Droppable(db, k) /\ db' = DropCascade(k)
     \/ \E rows \in project.puts :
          (\A k \in DOMAIN rows : Fits(k, rows[k], DOMAIN rows \cup DOMAIN db)) /\ db' = rows @@ db
  /\ db' # db
  /\ changes' = changes + 1
  /\ last' = Idle
  /\ UNCHANGED project

-----------------------------------------------------------------------------
(* A repair of what a report says.                                         *)

Ended(outcome, report) == [outcome |-> outcome, report |-> report, before |-> db]

Conclude(report, result) ==
  /\ db' = result.db
  /\ last' = Ended(IF result.ok THEN "repaired" ELSE "failed", report)

Execution(report, operations) ==
  IF CanRender(Dialect, Declared, operations)
  THEN Conclude(report, RunStatements(Dialect, Declared, db, operations))
  ELSE db' = db /\ last' = Ended("refused", report)

RepairBy(report, operations) ==
  /\ report.ok /\ operations # <<>>
  /\ Execution(report, operations)
  /\ UNCHANGED <<project, changes>>

Repair == RepairBy(Report, Planned(Dialect, Declared, db, project.schemas))

Next == Outside \/ Repair
Spec == Init /\ [][Next]_vars

-----------------------------------------------------------------------------
(* What the database should agree with.                                    *)

\* Two rows say the same: a check by its truth table, a RESTRICT of the MySQL
\* family as no action, a type of SQLite by its affinity, an option the
\* declaration leaves open as anything.
SameColumnRow(d, def, w, row) ==
  /\ row.type = w.type \/ (d = "sqlite" /\ Affinity(row.type) = Affinity(w.type))
  /\ row.notnull = w.notnull \/ (d = "mariadb" /\ def.gen # None)
  /\ row.dflt = w.dflt /\ row.gen = w.gen
  /\ def.charset # None => row.charset = def.charset
  /\ d \in MysqlFamily => row.comment = w.comment

Agrees(d, k, def, w, row) ==
  CASE IsOpaque(k, def)       -> TRUE
    [] k.kind = "table"       -> IF d = "postgres" \/ w.pk = None THEN w.pk \in {None, row.pk}
                                 ELSE row.pk # None /\ row.pk.cols = w.pk.cols
    [] k.kind = "column"      -> SameColumnRow(d, def, w, row)
    [] k.kind = "foreign_key" ->
         /\ <<w.cols, w.to, w.tocols>> = <<row.cols, row.to, row.tocols>>
         /\ w.del = row.del \/ (d \in MysqlFamily /\ {w.del, row.del} \subseteq {"no action", "restrict"})
    [] k.kind = "index"       -> row = w
    [] k.kind = "constraint"  ->
         /\ w.form = row.form /\ w.cols = row.cols
         /\ w.form = "check" => row.formula # None /\ SameFormula(w.formula, row.formula)
    [] k.kind = "trigger"     -> <<w.events, w.fn>> = <<row.events, row.fn>>
    [] k.kind = "function"    -> w.volatility = row.volatility
    [] k.kind = "extension"   -> def.version \in {None, row.version}
    [] k.kind = "enum"        -> w.values = row.values
    [] OTHER                  -> TRUE

\* SQLite gives no names of foreign keys.
RowsFor(d, k) ==
  LET at == AbsoluteKey(d, k)
  IN  IF d = "sqlite" /\ k.kind = "foreign_key"
      THEN {x \in OfKind(db, "foreign_key") :
              OwnerKey(x) = OwnerKey(at) /\ SynthFkName(x.table, db[x].cols) = k.name}
      ELSE {at} \cap DOMAIN db

Verified == {k \in DOMAIN Declared : InScope(Dialect, k.schema, project.schemas)}

\* Every entity is as the server recorded it when gaman created it.
AsDeployed ==
  LET rows == Deployed(Dialect, Declared)
  IN  \A k \in DOMAIN rows : k \in DOMAIN db /\ db[k] = rows[k]

-----------------------------------------------------------------------------
(* Properties.                                                             *)

\* What the comparisons cannot see: that a PostgreSQL serial came back as the plain
\* integer without its sequence; the grouping of XOR and AND in a check of the MySQL
\* family; and that a foreign key there leads to a table of another database.
SeenAs(d, k, row) ==
  CASE d = "postgres" /\ k.kind = "column" ->
         IF Declared[k].type = "serial" /\ row.dflt = None THEN [row EXCEPT !.dflt = Nextval] ELSE row
    [] d \in MysqlFamily /\ k.kind = "constraint" ->
         IF \E def \in {Declared[k], row} : def.formula # None /\ XorOverAnd(def.formula)
         THEN [row EXCEPT !.formula = Declared[k].formula] ELSE row
    [] d \in MysqlFamily /\ k.kind = "foreign_key" -> [row EXCEPT !.to[1] = Home(d)]
    [] OTHER -> row

\* A clean report is true: when verification finds nothing, every committed
\* entity exists and has what the migrations declared of the properties that the
\* dialect's registry compares, however the server spells it, but for what SeenAs
\* names (the comparisons of drift/*.rs).  It says nothing of what else is in the
\* database.
Satisfied(k) ==
  \E x \in RowsFor(Dialect, k) :
    Agrees(Dialect, k, Declared[k], Row(Dialect, k, Declared[k]), SeenAs(Dialect, k, db[x]))
CleanReportIsTrue ==
  Report.ok /\ Report.findings = {} => \A k \in Verified : Satisfied(k)

\* What is reported of a database as gaman made it.  PostgreSQL: events of a trigger in
\* another order than the catalog's, the function made for a trigger's query, an
\* operator in a generated column, a BETWEEN in a check, a number cast in the
\* predicate of an index.  SQLite: a foreign key with a name of its own, and a
\* trigger that is not understood, as missing.  MySQL: an XOR over operators.
\* MariaDB: a call as the default of a column that is no number.
AlwaysReported(f) ==
  LET k   == f.key
      def == Scope(Dialect, Declared, project.schemas)[k]
      at(kind, property) == k.kind = kind /\ f.property = property
  IN  CASE Dialect = "postgres" ->
             \/ at("trigger", "events") /\ DecodeEvents(Range(def.events)) # def.events
             \/ at("trigger", "fn") /\ def.fn = None
             \/ at("column", "gen") /\ "+" \in Range(def.gen)
             \/ at("constraint", "definition") /\ HasBetween(def.formula)
             \/ at("index", "pred") /\ "::" \in Range(ServerPredicate(Dialect, def.pred))
        [] Dialect = "sqlite" ->
             \/ at("foreign_key", "presence") /\ k.name # SynthFkName(k.table, def.cols)
             \/ at("trigger", "presence") /\ ~SqliteTriggerListed([events |-> Range(def.events)])
        [] Dialect = "mysql" ->
             at("constraint", "definition") /\ XorOverOperators(def.formula)
        [] Dialect = "mariadb" ->
             /\ at("column", "dflt") /\ def.dflt # None /\ Len(def.dflt) > 1
             /\ def.type # "integer"

\* A database is not accused: while everything gaman created is as it was created,
\* verification finds nothing but what it always reports, whatever else is in the
\* database.
NoFalseAlarm ==
  AsDeployed /\ Report.ok => \A f \in Report.findings : AlwaysReported(f)

\* The entities a repair may touch: those of its findings and what is stored with
\* them.
Companions(d, K) == UNION {DOMAIN CompanionRows(d, AbsoluteKey(d, k), Declared[k]) : k \in K}
Touchable(d, report) ==
  LET keys  == {f.key : f \in report.findings}
      inner == {k \in DOMAIN Declared : k \in keys \/ (k.table # None /\ OwnerKey(k) \in keys)}
  IN  {AbsoluteKey(d, k) : k \in inner} \cup Companions(d, inner)

Differ(k, old, new) ==
  \/ (k \in DOMAIN old) # (k \in DOMAIN new)
  \/ k \in DOMAIN old \cap DOMAIN new /\ old[k] # new[k]

\* The SQLite tables the last repair built anew.
BuiltAnew ==
  LET ops == Planned(Dialect, Declared, last.before, project.schemas)
  IN  {AbsoluteKey(Dialect, OwnerKey(ops[i].key)) :
         i \in {j \in DOMAIN ops : NeedsRebuild(Dialect, ops[j])}}

\* Building a table anew takes along what gaman does not manage of it, against
\* ARCHITECTURE.md:168, and writes what it manages as declared.
LostOrRewritten(k) ==
  /\ {k, OwnerKey(k)} \cap BuiltAnew # {}
  /\ LET declared == [k EXCEPT !.schema = None]
     IN  IF declared \in DOMAIN Declared
         THEN k \in DOMAIN db /\ db[k] = Row(Dialect, declared, Declared[declared])
         ELSE k \notin DOMAIN db

\* A repair that went through leaves nothing it could do again: what is found
\* afterwards has no operation or none with an effect (a primary key, how a
\* PostgreSQL column is generated), is always reported, is a comment the
\* declaration leaves open (which MODIFY COLUMN keeps), or is a trigger of a table
\* that had to be created.
HadToCreate(t) == Missing(t) \in last.report.findings
Stays(f) ==
  \/ f.property = "primary_key" \/ AlwaysReported(f)
  \/ Dialect = "postgres" /\ f.property = "gen"
  \/ f.property = "comment" /\ Declared[f.key].comment = None
  \/ f.key.kind = "trigger" /\ HadToCreate(OwnerKey(f.key))
RepairSettles ==
  last.outcome = "repaired" => Report.ok /\ \A f \in Report.findings : Stays(f)

TouchesReportedOnly ==
  last.outcome # "none" =>
    \A k \in DOMAIN last.before \cup DOMAIN db :
      Differ(k, last.before, db) => k \in Touchable(Dialect, last.report) \/ LostOrRewritten(k)

KeepsUnpinned ==
  last.outcome = "repaired" /\ Dialect \in MysqlFamily =>
    \A k \in OfKind(Declared, "column") :
      LET at == AbsoluteKey(Dialect, k)
      IN  at \in DOMAIN last.before =>
            /\ Declared[k].charset = None /\ last.before[at].charset # None =>
                 db[at].charset = last.before[at].charset
            /\ Declared[k].comment = None => db[at].comment = last.before[at].comment

\* A repair, also one that fails half way on a server without transactional
\* DDL, changes nothing but what was reported, a table of SQLite that it builds
\* anew apart; and though MODIFY COLUMN rewrites a column as a whole, what the
\* declaration leaves open stays as somebody set it.
RepairKeepsTheRest == TouchesReportedOnly /\ KeepsUnpinned

=============================================================================
