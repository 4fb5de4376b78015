------------------------------ MODULE SchemaOps ------------------------------
(***************************************************************************)
(* The canonical schema of gaman-core and the operations a migration is    *)
(* made of (states/types.rs, operations.rs), with what replaying one does  *)
(* to a schema (states/replay.rs, managed_rows/replay.rs).                 *)
(*                                                                         *)
(* A schema is a function from entity keys to definitions.  A key says the *)
(* kind of the entity, the table it belongs to (None for a root entity)    *)
(* and its name.  The definitions keep the fields other entities, the diff *)
(* or the replay look at:                                                  *)
(*   table        [pk |-> [name, cols], parent, opts]                      *)
(*   column       [type, nullable, dflt, pk]                               *)
(*   foreign_key  [col, to, tocol]        index  [col, unique]             *)
(*   constraint   [col]  (a UNIQUE; col is None for a CHECK)               *)
(*   trigger      [fn]                    function [fn, deps, body]        *)
(*   enum         [values]                row      [vals]                  *)
(*   view, sequence, extension  [body]                                     *)
(* The code keeps the children of a table in vectors that it searches by   *)
(* name; their order is presentation and is left out.                      *)
(*                                                                         *)
(* An operation is a record: act says what it does, key to which entity;   *)
(* old and new are the definitions (or names) it carries, sub the children *)
(* that a table operation carries inline, cast the cast expression of an   *)
(* AlterColumn, down the undo of a Statement.                              *)
(***************************************************************************)
EXTENDS Naturals, Sequences, FiniteSets, Functions

CONSTANT None   \* the absent value: no owner, no definition, no expression

RootKinds  == {"table", "view", "function", "enum", "extension", "sequence"}
ChildKinds == {"column", "foreign_key", "index", "constraint", "trigger"}

Key(kind, table, name) == [kind |-> kind, table |-> table, name |-> name]
TableKey(t)            == Key("table", None, t)
OwnerKey(k)            == TableKey(k.table)
Children(s, t)         == {k \in DOMAIN s : k.table = t /\ k.kind \in ChildKinds}
RowsOf(s, t)           == {k \in DOMAIN s : k.table = t /\ k.kind = "row"}
Tables(s)              == {k.name : k \in {x \in DOMAIN s : x.kind = "table"}}

NoSub == [x \in {} |-> None]   \* no inline children

Op(act, key, old, new) ==
  [act |-> act, key |-> key, old |-> old, new |-> new,
   sub |-> NoSub, cast |-> None, down |-> None]
Create(key, def)     == Op("create", key, None, def)
Drop(key, def)       == Op("drop", key, def, None)
Alter(key, old, new) == Op("alter", key, old, new)
CreateTable(t, def, sub) == [Create(TableKey(t), def) EXCEPT !.sub = sub]
DropTable(t, def, sub)   == [Drop(TableKey(t), def) EXCEPT !.sub = sub]
Statement(up, down)      == [Op("statement", None, None, up) EXCEPT !.down = down]

-----------------------------------------------------------------------------
(* Partial functions as maps.                                              *)

Put(s, k, d)    == [x \in DOMAIN s \cup {k} |-> IF x = k THEN d ELSE s[x]]
Over(s, sub)    == [x \in DOMAIN s \cup DOMAIN sub |->
                      IF x \in DOMAIN sub THEN sub[x] ELSE s[x]]
Without(s, K)   == [x \in DOMAIN s \ K |-> s[x]]

-----------------------------------------------------------------------------
(* Replay of one operation: Accepts is the code's error paths, Result the  *)
(* schema when there is none.                                              *)

IsPrimaryKeyColumn(s, k) ==
  LET declared == s[OwnerKey(k)].pk.cols
  IN  IF declared # {} THEN k.name \in declared ELSE k \in DOMAIN s /\ s[k].pk

OwnerExists(s, k) == k.kind \in ChildKinds => OwnerKey(k) \in DOMAIN s

\* An existing entity may be altered.  AlterColumn keeps the primary key: the
\* flag stays and the column stays NOT NULL; an updated row must be as expected.
AcceptsAlter(s, op) ==
  /\ OwnerExists(s, op.key)
  /\ op.key \in DOMAIN s
  /\ op.key.kind = "column" =>
       /\ op.old.pk = op.new.pk
       /\ ~(IsPrimaryKeyColumn(s, op.key) /\ op.new.nullable)
  /\ op.key.kind = "row" => s[op.key] = op.old

AcceptsRename(s, op) ==
  IF op.key.kind = "table"
  THEN op.key \in DOMAIN s /\ (op.new = op.key.name \/ TableKey(op.new) \notin DOMAIN s)
  ELSE OwnerExists(s, op.key) /\ op.key \in DOMAIN s /\ ~IsPrimaryKeyColumn(s, op.key)

\* What belongs to a table is found by name in it, anything else by its own key.
AcceptsItem(s, op) ==
  /\ OwnerExists(s, op.key)
  /\ op.key \in DOMAIN s <=> op.act = "drop"

AcceptsEntity(s, op) == op.key \in DOMAIN s <=> op.act = "drop"

\* A column of the primary key is neither added nor dropped.
AcceptsColumn(s, op) ==
  IF op.act = "create" THEN ~op.new.pk ELSE ~IsPrimaryKeyColumn(s, op.key)

Accepts(s, op) ==
  \/ /\ op.act \in {"create", "drop"}
     /\ IF op.key.kind \in ChildKinds THEN AcceptsItem(s, op) ELSE AcceptsEntity(s, op)
     /\ op.key.kind = "column" => AcceptsColumn(s, op)
  \/ op.act = "alter" /\ AcceptsAlter(s, op)
  \/ op.act = "acknowledge" /\ op.key \in DOMAIN s
  \/ op.act = "rename" /\ AcceptsRename(s, op)
  \/ op.act = "rename_value" /\ op.key \in DOMAIN s /\ op.old \in Range(s[op.key].values)
  \/ op.act = "statement"

\* CreateTable derives the primary key from the flagged columns, or the flags
\* (and NOT NULL) from the key.
WithPrimaryKey(t, def, sub) ==
  LET flagged == {k.name : k \in {x \in DOMAIN sub : x.kind = "column" /\ sub[x].pk}}
      pk == IF def.pk.cols = {} /\ flagged # {} THEN [name |-> t, cols |-> flagged] ELSE def.pk
      mark(k) == [sub[k] EXCEPT !.pk = k.name \in pk.cols,
                                !.nullable = sub[k].nullable /\ k.name \notin pk.cols]
  IN  [def |-> [def EXCEPT !.pk = pk],
       sub |-> IF pk.cols = {} \/ flagged \notin {{}, pk.cols} THEN sub
               ELSE [k \in DOMAIN sub |-> IF k.kind = "column" THEN mark(k) ELSE sub[k]]]

ResultCreate(s, op) ==
  IF op.key.kind = "table"
  THEN LET made == WithPrimaryKey(op.key.name, op.new, op.sub)
       IN  Over(Put(s, op.key, made.def), made.sub)
  ELSE Put(s, op.key, op.new)

\* A dropped table takes its children and its managed rows with it; a dropped
\* column takes its value out of every managed row.
DropValue(row, c) == [row EXCEPT !.vals = Restrict(row.vals, DOMAIN row.vals \ {c})]

ResultDrop(s, op) ==
  IF op.key.kind = "table"
  THEN Without(s, {op.key} \cup Children(s, op.key.name) \cup RowsOf(s, op.key.name))
  ELSE IF op.key.kind = "column"
  THEN [k \in DOMAIN s \ {op.key} |->
          IF k \in RowsOf(s, op.key.table) THEN DropValue(s[k], op.key.name) ELSE s[k]]
  ELSE Without(s, {op.key})

\* A renamed table moves with its children and rows; foreign keys and
\* partitions that name it follow.  The name of its primary key stays.
Renamed(k, old, new) ==
  IF k = TableKey(old) THEN TableKey(new)
  ELSE IF k.table = old THEN [k EXCEPT !.table = new] ELSE k

FollowTable(k, def, old, new) ==
  IF k.kind = "foreign_key" /\ def.to = old THEN [def EXCEPT !.to = new]
  ELSE IF k.kind = "table" /\ def.parent = old THEN [def EXCEPT !.parent = new] ELSE def

ResultRenameTable(s, old, new) ==
  [k \in {Renamed(x, old, new) : x \in DOMAIN s} |->
     FollowTable(k, s[Renamed(k, new, old)], old, new)]

\* Slip: the managed rows keep the old column name.
FollowColumn_RowsStay(k, def, t, old, new) ==
  IF k.kind = "foreign_key"
  THEN [def EXCEPT !.col = IF k.table = t /\ def.col = old THEN new ELSE @,
                   !.tocol = IF def.to = t /\ def.tocol = old THEN new ELSE @]
  ELSE def

\* A renamed column moves in the managed rows of its table and in the foreign
\* keys on either end; indexes and constraints keep the old column name.
FollowColumn(k, def, t, old, new) ==
  IF k.kind = "foreign_key"
  THEN [def EXCEPT !.col = IF k.table = t /\ def.col = old THEN new ELSE @,
                   !.tocol = IF def.to = t /\ def.tocol = old THEN new ELSE @]
  ELSE IF k.kind = "row" /\ k.table = t /\ old \in DOMAIN def.vals
  THEN [def EXCEPT !.vals = Put(Restrict(def.vals, DOMAIN def.vals \ {old}), new, def.vals[old])]
  ELSE def

ResultRenameColumn(s, t, old, new) ==
  LET oldKey == Key("column", t, old)
      newKey == Key("column", t, new)
  IN  [k \in (DOMAIN s \ {oldKey}) \cup {newKey} |->
         IF k = newKey THEN s[oldKey] ELSE FollowColumn(k, s[k], t, old, new)]

ReplaceFirst(seq, old, new) ==
  [i \in DOMAIN seq |->
     IF seq[i] = old /\ (\A j \in DOMAIN seq : j < i => seq[j] # old) THEN new ELSE seq[i]]

Result(s, op) ==
  CASE op.act = "create"       -> ResultCreate(s, op)
    [] op.act = "drop"         -> ResultDrop(s, op)
    [] op.act = "alter"        -> [s EXCEPT ![op.key] = op.new]
    [] op.act = "acknowledge"  -> [s EXCEPT ![op.key].opts = op.new]
    [] op.act = "rename"       -> IF op.key.kind = "table"
                                  THEN ResultRenameTable(s, op.key.name, op.new)
                                  ELSE ResultRenameColumn(s, op.key.table, op.key.name, op.new)
    [] op.act = "rename_value" -> [s EXCEPT ![op.key].values = ReplaceFirst(@, op.old, op.new)]
    [] OTHER                   -> s

\* ReplayEngine::apply_migration: the operations in order, up to the first
\* that fails.  After[n] is what n operations leave.
Replay(s, ops) ==
  LET After[n \in 0 .. Len(ops)] ==
        IF n = 0 THEN [ok |-> TRUE, schema |-> s, at |-> 0]
        ELSE LET before == After[n - 1]
             IN  IF ~before.ok THEN before
                 ELSE IF ~Accepts(before.schema, ops[n]) THEN [before EXCEPT !.ok = FALSE, !.at = n]
                 ELSE [ok |-> TRUE, schema |-> Result(before.schema, ops[n]), at |-> 0]
  IN  After[Len(ops)]

-----------------------------------------------------------------------------
(* The undo of an operation, and of a migration.                           *)

HasInverse(op) ==
  /\ ~(op.act = "alter" /\ op.key.kind = "enum")
  /\ op.act = "statement" => op.down # None

Undo(op) ==
  CASE op.act = "create"    -> [op EXCEPT !.act = "drop", !.old = op.new, !.new = None]
    [] op.act = "drop"      -> [op EXCEPT !.act = "create", !.new = op.old, !.old = None]
    [] op.act = "rename"    -> [op EXCEPT !.key = [@ EXCEPT !.name = op.new], !.new = op.key.name]
    [] op.act = "statement" -> [op EXCEPT !.new = op.down, !.down = op.new]
    [] OTHER                -> [op EXCEPT !.old = op.new, !.new = op.old]

\* rollback_migrations: every inverse, in reverse order; one operation without
\* an inverse makes the whole migration irreversible.
Reversible(ops) == \A i \in DOMAIN ops : HasInverse(ops[i])
\* Slip: the inverses in the order of the operations.
RollbackOps_Forward(ops) == [i \in DOMAIN ops |-> Undo(ops[i])]

RollbackOps(ops) == [i \in DOMAIN ops |-> Undo(ops[Len(ops) + 1 - i])]

-----------------------------------------------------------------------------
(* What an operation depends on, by kind and name (None: all of the kind). *)

Dep(kind, name) == [kind |-> kind, name |-> name]
AllOf(kind)     == Dep(kind, None)

\* The dependencies of an operation that carries definition d.
DepsWith(op, d) ==
  LET k == op.key IN
  CASE op.act \in {"rename", "statement", "rename_value"} -> {}
    [] op.act = "acknowledge"  -> {Dep("table", k.name)}
    [] k.kind = "table"        -> {AllOf("extension"), AllOf("sequence")}
                                  \cup {Dep("enum", op.sub[c].type) :
                                          c \in {x \in DOMAIN op.sub : x.kind = "column"}}
                                  \cup (IF d.parent = None THEN {} ELSE {Dep("table", d.parent)})
    [] k.kind = "column"       -> {Dep("table", k.table), Dep("enum", d.type)}
    [] k.kind = "foreign_key"  -> {Dep("table", k.table), Dep("table", d.to)}
    [] k.kind = "trigger"      -> {Dep("table", k.table)}
                                  \cup (IF d.fn = None THEN {} ELSE {Dep("function", d.fn)})
    [] k.kind \in {"index", "constraint", "row"} -> {Dep("table", k.table)}
    [] k.kind = "function"     -> {AllOf("extension"), AllOf("sequence")} \cup d.deps
    [] k.kind = "view"         -> {AllOf("sequence"), AllOf("table"), AllOf("function")}
    [] k.kind = "sequence"     -> {AllOf("extension")}
    [] OTHER                   -> {}

ForwardDeps(op)  == DepsWith(op, IF op.act = "drop" THEN op.old ELSE op.new)
BackwardDeps(op) == IF op.act = "alter" /\ op.key.kind \in {"column", "function"}
                    THEN DepsWith(op, op.old) ELSE ForwardDeps(op)

IsCreate(op) == \/ op.act \in {"create", "acknowledge", "rename_value"}
                \/ op.act = "alter" /\ op.key.kind = "enum"
IsDrop(op)   == op.act = "drop"

-----------------------------------------------------------------------------
(* Which operations lose nothing, so that their undo restores the schema.  *)

\* A schema is a map from keys; definitions have the fields of their kind.
WellShaped(s) ==
  /\ s = [k \in DOMAIN s |-> s[k]]
  /\ \A k \in DOMAIN s :
       /\ k = Key(k.kind, k.table, k.name)
       /\ k.kind = "table" => s[k] = [pk |-> s[k].pk, parent |-> s[k].parent, opts |-> s[k].opts]
       /\ k.kind = "foreign_key" => s[k] = [col |-> s[k].col, to |-> s[k].to, tocol |-> s[k].tocol]
       /\ k.kind = "row" => /\ s[k] = [vals |-> s[k].vals]
                            /\ s[k].vals = [c \in DOMAIN s[k].vals |-> s[k].vals[c]]

\* No managed row of the column's table has a value for it.
NoValues(s, key) == \A k \in RowsOf(s, key.table) : key.name \notin DOMAIN s[k].vals

\* Table t, its children and its rows.
OfTable(s, t)     == {TableKey(t)} \cup Children(s, t) \cup RowsOf(s, t)
NothingOf(s, t)   == OfTable(s, t) \cap DOMAIN s = {}

\* The flags of the columns of t agree with its primary key, as they do after a
\* replay: normalize_table_primary_key changes nothing.
Normal(s, t) ==
  WithPrimaryKey(t, s[TableKey(t)], [k \in Children(s, t) |-> s[k]])
    = [def |-> s[TableKey(t)], sub |-> [k \in Children(s, t) |-> s[k]]]

\* Nothing in s is called or refers to a table called name.
FreeTable(s, name) ==
  /\ name # None
  /\ \A k \in DOMAIN s : /\ k # TableKey(name) /\ k.table # name
                         /\ k.kind = "foreign_key" => s[k].to # name
                         /\ k.kind = "table" => s[k].parent # name

\* Nothing in s refers to a column called name of table t.
FreeColumn(s, t, name) ==
  /\ Key("column", t, name) \notin DOMAIN s
  /\ name \notin s[TableKey(t)].pk.cols
  /\ \A k \in DOMAIN s :
       /\ k.kind = "foreign_key" /\ k.table = t => s[k].col # name
       /\ k.kind = "foreign_key" /\ s[k].to = t => s[k].tocol # name
       /\ k.kind = "row" /\ k.table = t => name \notin DOMAIN s[k].vals

\* An alteration with its cast expression, which replay does not look at.
AlterCast(key, old, new, cast) ==
  [act |-> "alter", key |-> key, old |-> old, new |-> new,
   sub |-> NoSub, cast |-> cast, down |-> None]

\* An operation that says what it replaces and takes nothing with it that it does
\* not say.
Lossless(s, op) ==
  IF op.act = "statement" THEN op = Statement(op.new, op.down)
  ELSE LET k == op.key
           t == op.key.name
  IN  \/ /\ op = Create(k, op.new) /\ k.kind # "table"
         /\ k.kind = "column" => NoValues(s, k) /\ ~IsPrimaryKeyColumn(Put(s, k, op.new), k)
      \/ /\ k \in DOMAIN s /\ op = Drop(k, s[k]) /\ k.kind # "table"
         /\ k.kind = "column" => NoValues(s, k) /\ ~s[k].pk
      \/ /\ k \in DOMAIN s /\ op = AlterCast(k, s[k], op.new, op.cast) /\ k.kind \notin {"table", "enum"}
         /\ k.kind = "column" /\ IsPrimaryKeyColumn(s, k) => ~s[k].nullable
      \/ /\ op = CreateTable(t, op.new, op.sub) /\ t # None /\ NothingOf(s, t)
         /\ \A x \in DOMAIN op.sub : x.table = t /\ x.kind \in ChildKinds
      \/ /\ t # None /\ TableKey(t) \in DOMAIN s
         /\ op = DropTable(t, s[TableKey(t)], [x \in Children(s, t) |-> s[x]])
         /\ Normal(s, t) /\ RowsOf(s, t) = {}
      \/ /\ op = Op("rename", TableKey(t), None, op.new)
         /\ t # None /\ TableKey(t) \in DOMAIN s /\ op.new # t /\ FreeTable(s, op.new)
      \/ /\ op = Op("rename", Key("column", k.table, t), None, op.new)
         /\ op.new # t /\ FreeColumn(s, k.table, op.new)
      \/ /\ op = Op("rename_value", k, op.old, op.new) /\ k \in DOMAIN s
         /\ s[k] = [values |-> s[k].values] /\ s[k].values \in Seq(Range(s[k].values))
         /\ op.new \notin Range(s[k].values)
      \/ k.kind = "table" /\ k \in DOMAIN s /\ op = Op("acknowledge", k, s[k].opts, op.new)

\* The schema that the first n operations leave.
Halfway(s, ops, n) == Replay(s, SubSeq(ops, 1, n)).schema
=============================================================================
