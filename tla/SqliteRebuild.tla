---------------------------- MODULE SqliteRebuild ----------------------------
(***************************************************************************)
(* How the SQL of a migration is rendered and executed on SQLite           *)
(* (sql_plan.rs, dialects/sqlite/mod.rs, migration_engine/engine.rs).      *)
(*                                                                         *)
(* SQLite cannot alter a table in place beyond a few cases, so gaman       *)
(* rebuilds it: from the schema the history says the table has, it creates *)
(* the table as it should become, copies the columns, drops the old table  *)
(* and takes its name.  What the database really has is not looked at.     *)
(*                                                                         *)
(* The database is the schema SQLite holds and, for each column, what its  *)
(* rows have in it, all of them the same kind of value:                    *)
(*   "none"     there are no rows; a table with rows has several           *)
(*   "null"     NULL                                                       *)
(*   "kept"     what the application wrote: different in every row, and a  *)
(*              key that a foreign key finds if its target has rows        *)
(*   "cast"     such values after a cast; they still differ                *)
(*   "twin"     what the application wrote: one such key in several rows   *)
(*   "default"  the default: one such key in several rows                  *)
(*   "stray"    what the application wrote: no key of any table, and       *)
(*              nothing a CHECK admits                                     *)
(* A view has the name of the table it reads for its body.                 *)
(***************************************************************************)
EXTENDS SchemaRules, GraphOps

CONSTANTS Histories,  \* histories, each from migration ids to [deps, ops, atomic]
          Affinity,   \* the affinity of a declared type
          OnDelete    \* what a foreign key of that name does when its target row goes:
                      \* "no action" (or RESTRICT), "cascade" or "set null"

VARIABLES
  history,   \* the committed migrations
  applied,   \* those the tracking table has
  db,        \* the database: [schema, data]
  intended,  \* the database if every operation had been done in place
  straight,  \* every migration met the schema it was rendered for
  acted,     \* dropping a table changed rows that refer to it
  last       \* how the last movement ended, and the operations it failed on

vars == <<history, applied, db, intended, straight, acted, last>>

-----------------------------------------------------------------------------
(* Which schema a migration is rendered against.                           *)

EmptySchema  == [k \in {} |-> None]
InOrderOf(h) == TopologicalOrder([id \in DOMAIN h |-> h[id].deps]).order

OpsUpto(h, order, n)    == FlattenSeq([i \in 1 .. n |-> h[order[i]].ops])
ReplayedAt(h, order, n) == Replay(EmptySchema, OpsUpto(h, order, n))
SchemaAt(h, order, n)   == ReplayedAt(h, order, n).schema

\* The migrations behind the n-th, rolled back one after the other.
UndosTo(h, order, n) ==
  FlattenSeq([i \in 1 .. Len(order) - n |-> RollbackOps(h[order[Len(order) + 1 - i]].ops)])

\* The schema after they were rolled back from the end of the history.
UndoneTo(h, order, n) ==
  LET end == ReplayedAt(h, order, Len(order))
  IN  IF end.ok THEN Replay(end.schema, UndosTo(h, order, n)) ELSE end

-----------------------------------------------------------------------------
(* Rebuild planning (migration_to_sql).                                    *)

AddNeedsRebuild(column) == column.pk \/ (~column.nullable /\ column.dflt = None)

RebuildsTable(op) ==
  \/ op.key.kind = "column" /\ op.act \in {"drop", "alter"}
  \/ op.key.kind = "column" /\ op.act = "create" /\ AddNeedsRebuild(op.new)
  \/ op.key.kind \in {"foreign_key", "constraint"} /\ op.act \in {"create", "drop"}

SameRebuild(a, b) == RebuildsTable(a) /\ RebuildsTable(b) /\ a.key.table = b.key.table

\* Neighbouring operations that rebuild one table do it together.
Groups(ops) ==
  LET join(groups, op) == IF groups # <<>> /\ SameRebuild(Last(Last(groups)), op)
                          THEN [groups EXCEPT ![Len(groups)] = Append(@, op)]
                          ELSE Append(groups, <<op>>)
  IN  FoldLeft(join, <<>>, ops)

Whole(s, t) == [k \in {TableKey(t)} \cup Children(s, t) |-> s[k]]

TempName(t)  == "__gaman_rebuild_" \o t
CheckName(t) == "__gaman_fk_check_" \o t

HasTriggers(s, t) == \E k \in Children(s, t) : k.kind = "trigger"

KeyColumns(s, t)   == {k \in Children(s, t) : k.kind = "column" /\ IsPrimaryKeyColumn(s, k)}
KeySignature(s, t) == {<<k.name, Affinity[s[k].type]>> : k \in KeyColumns(s, t)}

MissesTarget(s, next, t) ==
  \E k \in Children(next, t) :
     \/ k.kind \in {"index", "constraint"} /\ next[k].col \notin Columns(next, t) \cup {None}
     \/ k.kind = "foreign_key" /\ (\/ next[k].col \notin Columns(next, t)
                                   \/ next[k].to # t /\ next[k].to \notin Tables(s))

\* validate_rebuild: t goes from what it is in s to what it is in next.
RebuildRefused(s, next, t) ==
  \/ {TempName(t), CheckName(t)} \cap Tables(s) # {}
  \/ HasTriggers(s, t) \/ HasTriggers(next, t)
  \/ \E k \in DOMAIN s : k.kind = "view" /\ s[k].body = t
  \/ \E k \in DOMAIN s : k.kind = "foreign_key" /\ k.table # t /\ s[k].to = t
  \/ KeySignature(s, t) # KeySignature(next, t)
  \/ MissesTarget(s, next, t)

\* What is copied into a column of the new table: the column of the same name
\* (from), cast and with NULL replaced by the default where that is needed.
MustFill(source, target) == source.nullable /\ ~target.nullable /\ ~target.pk

CopyRefused(source, target, cast) == MustFill(source, target) /\ cast = None /\ target.dflt = None

\* Slip: NULL is copied as it is.
CopyExpr_KeepsNull(source, target, name, cast) ==
  [from |-> name,
   cast |-> cast # None \/ Affinity[source.type] # Affinity[target.type],
   fill |-> FALSE]

\* Slip: a change of type needs a cast expression to become a cast.
CopyExpr_CastsOnlyWhenTold(source, target, name, cast) ==
  [from |-> name, cast |-> cast # None, fill |-> MustFill(source, target) /\ cast = None]

CopyExpr(source, target, name, cast) ==
  [from |-> name,
   cast |-> cast # None \/ Affinity[source.type] # Affinity[target.type],
   fill |-> MustFill(source, target) /\ cast = None]

NewColumnRefused(target) == target.dflt = None /\ ~target.nullable
NewColumnExpr(target)    == [from |-> None, cast |-> FALSE, fill |-> target.dflt # None]

\* The cast expression of the first AlterColumn for the column.
CastOf(group, k) ==
  LET alters == {i \in DOMAIN group : group[i].act = "alter" /\ group[i].key = k}
  IN  IF alters = {} THEN None ELSE group[Min(alters)].cast

ColumnKeys(s, t) == {k \in Children(s, t) : k.kind = "column"}

CopyMapping(s, next, t, group) ==
  [k \in ColumnKeys(next, t) |->
     IF k \in DOMAIN s THEN CopyExpr(s[k], next[k], k.name, CastOf(group, k))
     ELSE NewColumnExpr(next[k])]

MappingRefused(s, next, t, group) ==
  \E k \in ColumnKeys(next, t) :
     IF k \in DOMAIN s THEN CopyRefused(s[k], next[k], CastOf(group, k)) ELSE NewColumnRefused(next[k])

-----------------------------------------------------------------------------
(* Rendering: the steps of a migration, or a refusal.                      *)

Plan(ok, s, steps) == [ok |-> ok, schema |-> s, steps |-> steps]
Direct(op)         == [do |-> "op", op |-> op, table |-> None, after |-> NoSub, copy |-> NoSub]
Rebuild(t, after, copy) == [do |-> "rebuild", op |-> None, table |-> t, after |-> after, copy |-> copy]

WithRebuild(plan, t, group, next) ==
  IF ~next.ok \/ TableKey(t) \notin DOMAIN plan.schema THEN [plan EXCEPT !.ok = FALSE]
  ELSE IF RebuildRefused(plan.schema, next.schema, t) \/ MappingRefused(plan.schema, next.schema, t, group)
  THEN [plan EXCEPT !.ok = FALSE]
  ELSE Plan(TRUE, next.schema,
            Append(plan.steps, Rebuild(t, Whole(next.schema, t), CopyMapping(plan.schema, next.schema, t, group))))

WithGroup(plan, group, atomic) ==
  IF ~plan.ok THEN plan
  ELSE IF RebuildsTable(group[1])
  THEN IF atomic THEN WithRebuild(plan, group[1].key.table, group, Replay(plan.schema, group))
       ELSE [plan EXCEPT !.ok = FALSE]
  ELSE IF Accepts(plan.schema, group[1])
  THEN Plan(TRUE, Result(plan.schema, group[1]), Append(plan.steps, Direct(group[1])))
  ELSE [plan EXCEPT !.ok = FALSE]

\* A CREATE TABLE is written with the columns as the migration leaves them
\* (normalized_columns_for_create_table).
AsLeft(op, target) ==
  IF op.act # "create" \/ op.key.kind # "table" THEN op
  ELSE [op EXCEPT !.sub = [k \in DOMAIN @ |-> IF k.kind = "column" /\ k \in DOMAIN target
                                              THEN target[k] ELSE @[k]]]

RenderFrom(s, ops, atomic, target) ==
  FoldLeft(LAMBDA plan, group : WithGroup(plan, group, atomic), Plan(TRUE, s, <<>>),
           Groups([i \in DOMAIN ops |-> AsLeft(ops[i], target.schema)]))

\* render_migration_sql: the schema before and after must be valid.
RenderTo(s, ops, atomic, target) ==
  IF ~target.ok \/ ~Valid(s) \/ ~Valid(target.schema) THEN Plan(FALSE, s, <<>>)
  ELSE RenderFrom(s, ops, atomic, target)

Render(s, ops, atomic) == RenderTo(s, ops, atomic, Replay(s, ops))

\* A baseline that does not replay is an error (replay_ids).
RenderAfter(replayed, ops, atomic) ==
  IF replayed.ok THEN Render(replayed.schema, ops, atomic) ELSE Plan(FALSE, replayed.schema, <<>>)

\* The SQL of one migration: against everything before it in the order, or, to
\* roll it back, against everything up to it.
Forward(h, order, n)  == RenderAfter(ReplayedAt(h, order, n - 1), h[order[n]].ops, h[order[n]].atomic)
Backward(h, order, n) ==
  IF ~Reversible(h[order[n]].ops) THEN Plan(FALSE, EmptySchema, <<>>)
  ELSE RenderAfter(ReplayedAt(h, order, n), RollbackOps(h[order[n]].ops), h[order[n]].atomic)

\* preflight_movement: everything up to the end can be rendered from nothing,
\* and everything behind it can be rolled back from the end of the history.
BackwardFromEnd(h, order, n, from) ==
  RenderAfter(from, RollbackOps(h[order[n]].ops), h[order[n]].atomic).ok

\* Slip: of the rollbacks it is only asked whether they exist.
Preflight_RendersApplies(h, order, end) ==
  /\ \A n \in 1 .. end : Forward(h, order, n).ok
  /\ \A n \in end + 1 .. Len(order) : Reversible(h[order[n]].ops)

Preflight(h, order, end) ==
  /\ \A n \in 1 .. end : Forward(h, order, n).ok
  /\ \A n \in end + 1 .. Len(order) : Reversible(h[order[n]].ops)
  /\ \A n \in end + 1 .. Len(order) : BackwardFromEnd(h, order, n, UndoneTo(h, order, n))

-----------------------------------------------------------------------------
(* What SQLite does with a step.                                           *)

Database(s, data) == [schema |-> s, data |-> data]

HasRows(d, t)  == \E k \in ColumnKeys(d.schema, t) : d.data[k] # "none"
IndexNames(s)  == {k.name : k \in {x \in DOMAIN s : x.kind = "index"}}
ForeignKeys(s) == {k \in DOMAIN s : k.kind = "foreign_key"}

\* A view that reads a missing table makes SQLite refuse to rename anything.
HasBrokenView(s) == \E k \in DOMAIN s : k.kind = "view" /\ s[k].body \notin Tables(s)

\* What the rows have in the column that an entity is about.
Of(k, def)     == Key("column", k.table, def.col)
ValueIn(d, k)  == d.data[Of(k, d.schema[k])]
Repeats(v)     == v \in {"twin", "default"}
Refers(d, k)   == ValueIn(d, k) \notin {"none", "null", "stray"}

\* The rows have what a foreign key, an index or a constraint asks of them.
Fits(d, k) ==
  CASE k.kind = "foreign_key" -> \/ ValueIn(d, k) \in {"none", "null"}
                                 \/ Refers(d, k) /\ HasRows(d, d.schema[k].to)
    [] k.kind = "index"       -> d.schema[k].unique => ~Repeats(ValueIn(d, k))
    [] k.kind = "constraint"  -> IF d.schema[k].col # None THEN ~Repeats(ValueIn(d, k))
                                 ELSE \A x \in ColumnKeys(d.schema, k.table) : d.data[x] # "stray"
    [] OTHER                  -> TRUE
RowsFit(d) == \A k \in DOMAIN d.schema : Fits(d, k)

NewIndexes(op) ==
  IF op.key.kind = "index" THEN {op.key.name}
  ELSE {k.name : k \in {x \in DOMAIN op.sub : x.kind = "index"}}

Admits(d, op) ==
  /\ OwnerExists(d.schema, op.key)
  /\ op.act = "create" => /\ op.key \notin DOMAIN d.schema
                          /\ NewIndexes(op) \cap IndexNames(d.schema) = {}
                          /\ op.key.kind = "index" =>
                               /\ op.new.col \in Columns(d.schema, op.key.table)
                               /\ op.new.unique => ~Repeats(d.data[Of(op.key, op.new)])
  /\ op.act \in {"drop", "alter", "rename"} => op.key \in DOMAIN d.schema
  /\ op.act = "rename" => /\ [op.key EXCEPT !.name = op.new] \notin DOMAIN d.schema
                          /\ ~HasBrokenView(d.schema)

\* SQLite renames a column in the indexes and constraints of its table too, and a
\* table in the views that read it.
Refer(k, def, op) ==
  IF op.act = "rename" /\ op.key.kind = "column" /\ k.table = op.key.table
     /\ k.kind \in {"index", "constraint"} /\ def.col = op.key.name
  THEN [def EXCEPT !.col = op.new]
  ELSE IF op.act = "rename" /\ op.key.kind = "table" /\ k.kind = "view" /\ def.body = op.key.name
  THEN [def EXCEPT !.body = op.new]
  ELSE def

ReferAll(s, op) == [k \in DOMAIN s |-> Refer(k, s[k], op)]

\* Where the values of a column were before the operation.
Origin(k, op) ==
  IF op.act # "rename" THEN k
  ELSE IF op.key.kind = "table" THEN Renamed(k, op.new, op.key.name)
  ELSE IF k = [op.key EXCEPT !.name = op.new] THEN op.key ELSE k

Filled(v, fill) == IF v = "null" /\ fill THEN "default" ELSE v
CastTo(v, cast) == IF v = "kept" /\ cast THEN "cast" ELSE v

Value(d, k, op) ==
  IF Origin(k, op) \in DOMAIN d.data
  THEN IF op.act = "alter" /\ op.key = k
       THEN Filled(CastTo(d.data[k], op.cast # None \/ Affinity[op.old.type] # Affinity[op.new.type]),
                   ~op.new.nullable)
       ELSE d.data[Origin(k, op)]
  ELSE IF ~HasRows(d, k.table) THEN "none"
  ELSE IF op.new.dflt # None THEN "default" ELSE "null"

AllColumns(s) == {k \in DOMAIN s : k.kind = "column"}
InPlaceOn(d, op, s) == Database(ReferAll(s, op), [k \in AllColumns(s) |-> Value(d, k, op)])

\* The operation done in place, which SQLite can do of those that need no rebuild.
InPlace(d, op) == InPlaceOn(d, op, Result(d.schema, op))

\* A copied value; what the database does not have cannot be copied.
Copied(d, t, expr) ==
  IF ~HasRows(d, t) THEN "none"
  ELSE IF expr.from = None THEN IF expr.fill THEN "default" ELSE "null"
  ELSE Filled(CastTo(d.data[Key("column", t, expr.from)], expr.cast), expr.fill)

\* Slip: the indexes of the new table are not created.
Replaced_WithoutIndexes(d, step) ==
  LET others == Without(d.schema, {TableKey(step.table)} \cup Children(d.schema, step.table))
      s      == Over(others, Without(step.after, {k \in DOMAIN step.after : k.kind = "index"}))
  IN  Database(s, [k \in AllColumns(s) |-> IF k \in DOMAIN step.copy
                                           THEN Copied(d, step.table, step.copy[k]) ELSE d.data[k]])

\* rebuild_table_sql: the copy in place of the old table; what was not copied is
\* gone with it.
Replaced(d, step) ==
  LET s == Over(Without(d.schema, {TableKey(step.table)} \cup Children(d.schema, step.table)), step.after)
  IN  Database(s, [k \in AllColumns(s) |-> IF k \in DOMAIN step.copy
                                           THEN Copied(d, step.table, step.copy[k]) ELSE d.data[k]])

\* DROP TABLE deletes the rows of the table first, and foreign keys are on.  In a
\* rebuild the copy is there already, and a foreign key of a table to itself still
\* names the table that is dropped: the copied rows refer to rows that are deleted.
\* What follows is about the database d without the table t that goes.
ActsOn(d, action, gone) ==
  {k \in ForeignKeys(d.schema) : OnDelete[k.name] = action /\ d.schema[k].to \in gone /\ Refers(d, k)}

\* The tables whose rows go too, and the columns that become NULL.
Wiped(d, t) ==
  LET Closed(W) == {k.table : k \in ActsOn(d, "cascade", {t} \cup W)} \subseteq W
      closed    == {W \in SUBSET Tables(d.schema) : Closed(W)}
  IN  {x \in Tables(d.schema) : \A W \in closed : x \in W}
Nulled(d, t) ==
  {Of(k, d.schema[k]) : k \in {x \in ActsOn(d, "set null", {t} \cup Wiped(d, t)) : x.table \notin Wiped(d, t)}}

Swept(d, t) ==
  Database(d.schema, [k \in DOMAIN d.data |-> IF k.table \in Wiped(d, t) THEN "none"
                                              ELSE IF k \in Nulled(d, t) THEN "null" ELSE d.data[k]])

\* References to what is gone make the transaction fail, at the latest when it is
\* committed; so does a NULL where there must be none.
Strands(d, t) ==
  \/ \E k \in ActsOn(d, "no action", {t} \cup Wiped(d, t)) : k.table \notin Wiped(d, t)
  \/ \E k \in Nulled(d, t) : ~d.schema[k].nullable

\* The table that a step drops.
Dropped(step) ==
  IF step.do = "rebuild" THEN step.table
  ELSE IF step.op.act = "drop" /\ step.op.key.kind = "table" THEN step.op.key.name ELSE None

Done(d, step)  == IF step.do = "op" THEN InPlace(d, step.op) ELSE Replaced(d, step)
After(d, step) == IF HasRows(d, Dropped(step)) THEN Swept(Done(d, step), Dropped(step)) ELSE Done(d, step)

\* Dropping the table changes rows that stay.
Acts(d, step)  == After(d, step) # Done(d, step)

\* The copy meets the constraints of the new table, its indexes are created, and at
\* the end every foreign key of the database is checked, of the other tables too.
ChecksFail(d, step) ==
  \/ \E k \in DOMAIN step.after : k.kind = "constraint" /\ ~Fits(Replaced(d, step), k)
  \/ \E k \in DOMAIN After(d, step).schema : k.kind \in {"index", "foreign_key"} /\ ~Fits(After(d, step), k)

RebuildFails(d, step) ==
  \/ TableKey(step.table) \notin DOMAIN d.schema
  \/ TableKey(TempName(step.table)) \in DOMAIN d.schema
  \/ \E k \in DOMAIN step.copy : LET from == step.copy[k].from IN
       from # None /\ Key("column", step.table, from) \notin DOMAIN d.schema
  \/ \E k \in DOMAIN step.copy :
       ~step.after[k].nullable /\ Copied(d, step.table, step.copy[k]) = "null"
  \/ \E k \in DOMAIN d.schema : k.kind = "view" /\ d.schema[k].body \notin Tables(d.schema) \ {step.table}
  \/ \E k \in DOMAIN step.after : k.kind = "index" /\
       \E x \in DOMAIN d.schema : x.kind = "index" /\ x.name = k.name /\ x.table # k.table
  \/ ChecksFail(d, step)

Fails(d, step) ==
  \/ IF step.do = "op" THEN ~Admits(d, step.op) ELSE RebuildFails(d, step)
  \/ HasRows(d, Dropped(step)) /\ Strands(Done(d, step), Dropped(step))

\* The steps in one transaction.
Execute(d, steps) ==
  FoldLeft(LAMBDA r, step : IF ~r.ok \/ Fails(r.db, step) THEN [r EXCEPT !.ok = FALSE]
                            ELSE [ok |-> TRUE, db |-> After(r.db, step), acted |-> r.acted \/ Acts(r.db, step)],
           [ok |-> TRUE, db |-> d, acted |-> FALSE], steps)

AllInPlace(d, ops) == FoldLeft(InPlace, d, ops)

-----------------------------------------------------------------------------
(* Which histories these are.                                              *)

\* Managed rows are values; a schema without them is what SQLite holds.
NoRow(s) == \A k \in DOMAIN s : k.kind # "row"

\* SQLite renames a column in indexes and constraints, and a table in views, where
\* replay keeps the old name.  No difference where there is none of them.
NoOldName(n, op) ==
  op.act = "rename" =>
    \A k \in DOMAIN n :
       /\ op.key.kind = "column" /\ k.table = op.key.table /\ k.kind \in {"index", "constraint"}
            => n[k].col # op.key.name
       /\ op.key.kind = "table" /\ k.kind = "view" => n[k].body # op.key.name

\* No managed row anywhere on the way, and no name SQLite keeps up to date and
\* replay does not.
PlainAlong(s, ops) ==
  /\ \A i \in 0 .. Len(ops) : NoRow(Halfway(s, ops, i))
  /\ \A i \in 1 .. Len(ops) : NoOldName(Halfway(s, ops, i), ops[i])

\* Columns have names and belong to tables, and a table has a column.
Orderly(s) ==
  /\ \A k \in AllColumns(s) : /\ k = Key("column", k.table, k.name) /\ k.name # None
                              /\ TableKey(k.table) \in DOMAIN s
  /\ \A t \in Tables(s) : ColumnKeys(s, t) # {}

\* No two operations that rebuild a table are about one column: an operation in
\* between could turn the values into something else, and a copy does not.
ChangedOnce(ops) ==
  \A i, j \in DOMAIN ops : i # j /\ RebuildsTable(ops[i]) /\ RebuildsTable(ops[j])
                              /\ ops[i].key.kind = "column" => ops[i].key # ops[j].key

\* A column that is altered is what the operation says it was; what is renamed is
\* a table or a column.
SaysWhatItIs(s, op) ==
  /\ op.act = "alter" /\ op.key.kind = "column" => op.old = s[op.key]
  /\ op.act = "rename" => op.key \in {TableKey(op.key.name), Key("column", op.key.table, op.key.name)}

\* What a copy of a table needs to be as good as its operations one by one.
ValuesAlong(s, ops) ==
  /\ \A i \in 0 .. Len(ops) : Orderly(Halfway(s, ops, i))
  /\ \A i \in 1 .. Len(ops) : SaysWhatItIs(Halfway(s, ops, i - 1), ops[i])
  /\ ChangedOnce(ops)

\* No column of a table it creates is changed by the migration again.
CreatedAsLeft(s, ops) == \A i \in DOMAIN ops : AsLeft(ops[i], Replay(s, ops).schema) = ops[i]

\* What replay and SQLite agree about.
PlainRender(s, ops) == PlainAlong(s, ops) /\ ValuesAlong(s, ops) /\ CreatedAsLeft(s, ops)

\* The migration at place n of the order, and its rollback.
PlainForward(h, order, n)  == PlainRender(SchemaAt(h, order, n - 1), h[order[n]].ops)
PlainBackward(h, order, n) == PlainRender(SchemaAt(h, order, n), RollbackOps(h[order[n]].ops))

\* Its rollback loses nothing.
LosslessAt(h, order, n) ==
  LET before == SchemaAt(h, order, n - 1)
      ops    == h[order[n]].ops
  IN  \A i \in DOMAIN ops : /\ WellShaped(Halfway(before, ops, i - 1))
                            /\ Lossless(Halfway(before, ops, i - 1), ops[i])

\* A checkout has some of the migrations, their dependencies, and one head.
IsCheckout(h, ids) ==
  /\ \A id \in ids : h[id].deps \subseteq ids
  /\ Cardinality(ids \ UNION {h[id].deps : id \in ids}) = 1

Renders(h, order, n) == \A k \in 1 .. n : Forward(h, order, k).ok

Plainly(h, order) ==
  \A n \in 1 .. Len(order) : ReplayedAt(h, order, n).ok =>
    /\ Reversible(h[order[n]].ops) => LosslessAt(h, order, n)
    /\ Renders(h, order, n) => PlainForward(h, order, n)
    /\ Renders(h, order, n) /\ Backward(h, order, n).ok => PlainBackward(h, order, n)

\* Migrations of one namespace: make gives a migration a larger number than those
\* it depends on.
Numbered(h) ==
  /\ IsFiniteSet(DOMAIN h) /\ DOMAIN h \subseteq Nat
  /\ \A id \in DOMAIN h : /\ h[id].deps \subseteq {d \in DOMAIN h : d < id}
                          /\ h[id].ops \in Seq(Range(h[id].ops))

ASSUME HistoriesAssumption ==
  \A h \in Histories :
    /\ Numbered(h)
    /\ \A ids \in SUBSET DOMAIN h : IsCheckout(h, ids) =>
         Plainly(Restrict(h, ids), InOrderOf(Restrict(h, ids)))

-----------------------------------------------------------------------------
(* The actions.                                                            *)

Ended(how) == [how |-> how, ops |-> <<>>]

Init ==
  /\ history \in Histories
  /\ applied = {}
  /\ db = Database(EmptySchema, EmptySchema) /\ intended = db
  /\ straight = TRUE /\ acted = FALSE
  /\ last = Ended("none")

\* The migration at position n of the order is executed, or nothing changes.
Attempt(h, order, plan, ops, before, now, run) ==
  /\ last' = CASE ~plan.ok                              -> Ended("refused")
               [] plan.ok /\ run.ok                     -> Ended("moved")
               [] plan.ok /\ ~run.ok /\ applied = before -> [how |-> "failed", ops |-> ops]
               [] OTHER                                 -> Ended("failed astray")
  /\ IF plan.ok /\ run.ok
     THEN /\ db' = run.db
          /\ intended' = AllInPlace(intended, ops)
          /\ straight' = (straight /\ applied = before)
          /\ acted' = (acted \/ run.acted)
          /\ applied' = now
     ELSE UNCHANGED <<db, intended, straight, acted, applied>>
  /\ UNCHANGED history

RunPlan(plan) == Execute(db, IF plan.ok THEN plan.steps ELSE <<>>)

\* The last applied migration behind the end is rolled back.
Revert(h, order, n, plan) ==
  Attempt(h, order, plan, RollbackOps(h[order[n]].ops), Range(SubSeq(order, 1, n)),
          applied \ {order[n]}, RunPlan(plan))

\* The first pending migration up to the end is applied.
ApplyNext(h, order, n, plan) ==
  Attempt(h, order, plan, h[order[n]].ops, Range(SubSeq(order, 1, n - 1)),
          applied \cup {order[n]}, RunPlan(plan))

Positions(order, from, to, ids) == {n \in from .. to : order[n] \in ids}

Converge(h, order, end) ==
  LET beyond  == Positions(order, end + 1, Len(order), applied)
      pending == Positions(order, 1, end, DOMAIN h \ applied)
  IN  IF ~Preflight(h, order, end)
      THEN last' = Ended("refused before") /\ UNCHANGED <<history, applied, db, intended, straight, acted>>
      ELSE \/ beyond # {} /\ Revert(h, order, Max(beyond), Backward(h, order, Max(beyond)))
           \/ beyond = {} /\ pending # {}
              /\ ApplyNext(h, order, Min(pending), Forward(h, order, Min(pending)))

\* One migration of a movement to the end of some checkout or to one of its
\* migrations; the next may belong to another movement, of another checkout.
Move ==
  \E ids \in SUBSET DOMAIN history :
    /\ applied \subseteq ids /\ IsCheckout(history, ids)
    /\ \E end \in 1 .. Cardinality(ids) :
         Converge(Restrict(history, ids), InOrderOf(Restrict(history, ids)), end)
    /\ UNCHANGED history

\* The application writes the first rows of a table.  SQLite holds it to NOT NULL, to
\* UNIQUE and CHECK, but to foreign keys only where its connection turned them on.
IsUnique(s, k) ==
  \/ IsPrimaryKeyColumn(s, k)
  \/ \E x \in UniqueKeys(s, k.table) : s[x].col = k.name
HasCheck(s, t) == \E k \in Children(s, t) : k.kind = "constraint" /\ s[k].col = None

Takes(s, k, v) ==
  CASE v = "null"  -> s[k].nullable
    [] v = "twin"  -> ~IsUnique(s, k)
    [] v = "stray" -> ~IsPrimaryKeyColumn(s, k) /\ ~HasCheck(s, k.table)
    [] OTHER       -> TRUE

Written(d, t, v) ==
  Database(d.schema, [k \in DOMAIN d.data |->
                        IF k.table # t THEN d.data[k] ELSE IF Takes(d.schema, k, v) THEN v ELSE "kept"])

Use ==
  /\ \E t \in Tables(db.schema) \cap Tables(intended.schema), v \in {"null", "kept", "twin", "stray"} :
       /\ ~HasRows(db, t) /\ ~HasRows(intended, t)
       /\ db' = Written(db, t, v)
       /\ intended' = Written(intended, t, v)
  /\ last' = Ended("none")
  /\ UNCHANGED <<history, applied, straight, acted>>

Next == Move \/ Use
Spec == Init /\ [][Next]_vars

-----------------------------------------------------------------------------
(* Properties.                                                             *)

\* As long as every migration meets the schema it was rendered for, the database
\* has exactly the schema the history says: tables are rebuilt with all their
\* columns, keys and indexes, forward and back.  Later rebuilds rely on it.
DatabaseIsAsReplayed ==
  straight => db.schema = Replay(EmptySchema, FlattenSeq(
    [i \in 1 .. Cardinality(applied) |-> history[InOrderOf(Restrict(history, applied))[i]].ops])).schema

\* And every row has in every column what it would have if each operation had been
\* done in place: copying a table loses and invents nothing.  What can lose rows is
\* the DROP TABLE of a rebuild: a table that refers to itself with ON DELETE CASCADE
\* or SET NULL loses the copied rows, or what they refer to, and the rebuild
\* succeeds.  Nothing is said of the database after that.
RebuildKeepsValues == straight /\ ~acted => db.data = intended.data

\* engine.rs preflight_movement: every SQL plan a movement may execute is
\* validated before it begins.  No migration of a movement that passed is refused
\* when its turn comes, although its SQL is rendered again, and for a rollback
\* from another side: from what comes before it instead of from the end.
NeverRefusedMidway == last.how # "refused"

\* A table of the operations refers to itself, and its rows do: the rebuild of such
\* a table drops what the copied rows refer to.
RefersToItself(d, ops) ==
  \E k \in ForeignKeys(d.schema) : /\ d.schema[k].to = k.table /\ Refers(d, k)
                                   /\ \E i \in DOMAIN ops : RebuildsTable(ops[i]) /\ ops[i].key.table = k.table

\* And SQLite executes what was rendered, as long as the schema is the expected one:
\* when a migration fails, its operations done in place would leave rows that do not
\* fit what is declared (existing bad data, here or in another table), or it rebuilds
\* a table whose rows refer to one another.  The copies themselves never fail.
ExpectedSchemaExecutes ==
  straight /\ last.how = "failed" =>
    LET left == AllInPlace(db, last.ops) IN ~RowsFit(left) \/ RefersToItself(left, last.ops)

\* tests/cases/online/sqlite_rebuild_drop_column.yaml:1: a rebuild preserves data
\* and remaining schema.  Whatever the order in which branches were applied.
RebuildPreservesTheRest == db = intended
=============================================================================
