-------------------------- MODULE SchemaOps_proofs --------------------------
(***************************************************************************)
(* That the undo of an operation undoes it (Operation::inverse of          *)
(* operations.rs against Schema::apply of states/replay.rs), for every     *)
(* schema.  Each theorem names what the code relies on without checking.   *)
(***************************************************************************)
EXTENDS SchemaOps, GraphOps_proofs

\* The undo is accepted and leads back.
Undone(s, op) ==
  /\ Accepts(Result(s, op), Undo(op))
  /\ Result(Result(s, op), Undo(op)) = s

-----------------------------------------------------------------------------
(* One entity that is not a table.                                         *)

LEMMA DropNoValue ==
  ASSUME NEW row, row = [vals |-> row.vals],
         row.vals = [c \in DOMAIN row.vals |-> row.vals[c]],
         NEW c, c \notin DOMAIN row.vals
  PROVE  DropValue(row, c) = row
<1>1. Restrict(row.vals, DOMAIN row.vals \ {c}) = row.vals
  <2>1. DOMAIN row.vals \ {c} = DOMAIN row.vals
    OBVIOUS
  <2> QED BY <2>1 DEF Restrict
<1>2. [row EXCEPT !.vals = row.vals] = row
  OBVIOUS
<1> QED BY <1>1, <1>2 DEF DropValue

\* A created entity is dropped again.  A column takes no value with it when no
\* managed row had one before.
THEOREM CreateUndone ==
  ASSUME NEW s, WellShaped(s), NEW key, NEW def, key.kind # "table",
         Accepts(s, Create(key, def)),
         key.kind = "column" => NoValues(s, key) /\ ~IsPrimaryKeyColumn(Put(s, key, def), key)
  PROVE  Undone(s, Create(key, def))
<1> DEFINE op == Create(key, def)
           made == Put(s, key, def)
<1>1. Undo(op) = Drop(key, def)
  BY DEF Undo, Create, Drop, Op
<1>2. /\ op.act = "create" /\ op.key = key /\ op.new = def
      /\ Drop(key, def).act = "drop" /\ Drop(key, def).key = key
  BY DEF Create, Drop, Op
<1>3. key \notin DOMAIN s /\ OwnerExists(s, key)
  BY <1>2 DEF Accepts, AcceptsItem, AcceptsEntity, OwnerExists
<1>4. Result(s, op) = made
  BY <1>2 DEF Result, ResultCreate
<1>5. DOMAIN made = DOMAIN s \cup {key} /\ \A k \in DOMAIN s : made[k] = s[k]
  BY <1>3 DEF Put
<1>6. Accepts(made, Drop(key, def))
  BY <1>2, <1>3, <1>5 DEF Accepts, AcceptsItem, AcceptsEntity, AcceptsColumn, OwnerExists
<1>7. Result(made, Drop(key, def)) = ResultDrop(made, Drop(key, def))
  BY <1>2 DEF Result
<1>8. ResultDrop(made, Drop(key, def)) = s
  <2>1. CASE key.kind = "column"
    <3>1. ResultDrop(made, Drop(key, def))
            = [k \in DOMAIN made \ {key} |->
                 IF k \in RowsOf(made, key.table) THEN DropValue(made[k], key.name) ELSE made[k]]
      BY <1>2, <2>1 DEF ResultDrop
    <3>2. DOMAIN made \ {key} = DOMAIN s
      BY <1>3, <1>5
    <3>3. ASSUME NEW k \in DOMAIN s, k \in RowsOf(made, key.table)
          PROVE  DropValue(made[k], key.name) = s[k]
      <4>1. k \in RowsOf(s, key.table) /\ made[k] = s[k]
        BY <1>5, <3>3 DEF RowsOf
      <4>2. /\ s[k] = [vals |-> s[k].vals]
            /\ s[k].vals = [c \in DOMAIN s[k].vals |-> s[k].vals[c]]
        BY <4>1 DEF RowsOf, WellShaped
      <4>3. key.name \notin DOMAIN s[k].vals
        BY <2>1, <4>1 DEF NoValues
      <4> QED BY <4>1, <4>2, <4>3, DropNoValue
    <3>4. ResultDrop(made, Drop(key, def)) = [k \in DOMAIN s |-> s[k]]
      BY <1>5, <3>1, <3>2, <3>3
    <3> QED BY <3>4 DEF WellShaped
  <2>2. CASE key.kind # "column"
    <3>1. ResultDrop(made, Drop(key, def)) = [k \in DOMAIN made \ {key} |-> made[k]]
      BY <1>2, <2>2 DEF ResultDrop, Without
    <3>2. [k \in DOMAIN made \ {key} |-> made[k]] = [k \in DOMAIN s |-> s[k]]
      BY <1>3, <1>5
    <3> QED BY <3>1, <3>2 DEF WellShaped
  <2> QED BY <2>1, <2>2
<1> QED BY <1>1, <1>4, <1>6, <1>7, <1>8 DEF Undone

\* A dropped entity that is as the operation says is created again.  A column
\* comes back without the values the managed rows had for it.
THEOREM DropUndone ==
  ASSUME NEW s, WellShaped(s), NEW key, key.kind # "table",
         Accepts(s, Drop(key, s[key])),
         key.kind = "column" => NoValues(s, key) /\ ~s[key].pk
  PROVE  Undone(s, Drop(key, s[key]))
<1> DEFINE op   == Drop(key, s[key])
           back == Create(key, s[key])
           rest == [k \in DOMAIN s \ {key} |-> s[k]]
<1>1. Undo(op) = back
  BY DEF Undo, Create, Drop, Op
<1>2. /\ op.act = "drop" /\ op.key = key
      /\ back.act = "create" /\ back.key = key /\ back.new = s[key]
  BY DEF Create, Drop, Op
<1>3. key \in DOMAIN s /\ OwnerExists(s, key)
  BY <1>2 DEF Accepts, AcceptsItem, AcceptsEntity, OwnerExists
<1>4. Result(s, op) = ResultDrop(s, op)
  BY <1>2 DEF Result
<1>5. ResultDrop(s, op) = rest
  <2>1. CASE key.kind = "column"
    <3>1. ResultDrop(s, op)
            = [k \in DOMAIN s \ {key} |->
                 IF k \in RowsOf(s, key.table) THEN DropValue(s[k], key.name) ELSE s[k]]
      BY <1>2, <2>1 DEF ResultDrop
    <3>2. ASSUME NEW k \in RowsOf(s, key.table) PROVE DropValue(s[k], key.name) = s[k]
      <4>1. /\ s[k] = [vals |-> s[k].vals]
            /\ s[k].vals = [c \in DOMAIN s[k].vals |-> s[k].vals[c]]
        BY DEF RowsOf, WellShaped
      <4>2. key.name \notin DOMAIN s[k].vals
        BY <2>1 DEF NoValues
      <4> QED BY <4>1, <4>2, DropNoValue
    <3> QED BY <3>1, <3>2
  <2>2. CASE key.kind # "column"
    BY <1>2, <2>2 DEF ResultDrop, Without
  <2> QED BY <2>1, <2>2
<1>6. Accepts(rest, back)
  <2>1. OwnerExists(rest, key)
    <3>1. OwnerKey(key) # key
      BY DEF OwnerKey, TableKey, Key
    <3> QED BY <1>3, <3>1 DEF OwnerExists
  <2> QED BY <1>2, <2>1 DEF Accepts, AcceptsItem, AcceptsEntity, AcceptsColumn
<1>7. Result(rest, back) = Put(rest, key, s[key])
  BY <1>2 DEF Result, ResultCreate
<1>8. Put(rest, key, s[key]) = [k \in DOMAIN s |-> s[k]]
  BY <1>3 DEF Put
<1> QED BY <1>1, <1>4, <1>5, <1>6, <1>7, <1>8 DEF Undone, WellShaped

\* An altered entity that is as the operation says is altered back: neither the
\* checks on key columns nor the expectation of a managed row refuse it.
THEOREM AlterUndone ==
  ASSUME NEW s, WellShaped(s), NEW key, key.kind \notin {"table", "enum"}, NEW new, NEW cast,
         Accepts(s, AlterCast(key, s[key], new, cast)),
         key.kind = "column" /\ IsPrimaryKeyColumn(s, key) => ~s[key].nullable
  PROVE  Undone(s, AlterCast(key, s[key], new, cast))
<1> DEFINE op   == AlterCast(key, s[key], new, cast)
           back == AlterCast(key, new, s[key], cast)
           made == [s EXCEPT ![key] = new]
<1>1. Undo(op) = back
  BY DEF Undo, AlterCast
<1>2. /\ op.act = "alter" /\ op.key = key /\ op.old = s[key] /\ op.new = new
      /\ back.act = "alter" /\ back.key = key /\ back.old = new /\ back.new = s[key]
  BY DEF AlterCast
<1>3. AcceptsAlter(s, op)
  BY <1>2 DEF Accepts
<1>4. key \in DOMAIN s /\ OwnerExists(s, key)
  BY <1>2, <1>3 DEF AcceptsAlter
<1>5. DOMAIN made = DOMAIN s /\ made[key] = new
  BY <1>4
<1>6. Result(s, op) = made
  BY <1>2 DEF Result
<1>7. AcceptsAlter(made, back)
  <2>1. OwnerExists(made, key)
    BY <1>4, <1>5 DEF OwnerExists
  <2>2. CASE key.kind = "column"
    <3>1. s[key].pk = new.pk
      BY <1>2, <1>3, <2>2 DEF AcceptsAlter
    <3>2. made[OwnerKey(key)] = s[OwnerKey(key)]
      BY <1>4, <2>2 DEF OwnerKey, TableKey, Key
    <3>3. IsPrimaryKeyColumn(made, key) = IsPrimaryKeyColumn(s, key)
      BY <1>4, <1>5, <3>1, <3>2 DEF IsPrimaryKeyColumn
    <3> QED BY <1>2, <1>4, <1>5, <2>1, <2>2, <3>1, <3>3 DEF AcceptsAlter
  <2>3. CASE key.kind # "column"
    BY <1>2, <1>4, <1>5, <2>1, <2>3 DEF AcceptsAlter
  <2> QED BY <2>2, <2>3
<1>8. Accepts(made, back)
  BY <1>2, <1>7 DEF Accepts
<1>9. Result(made, back) = [made EXCEPT ![key] = s[key]]
  BY <1>2 DEF Result
<1>10. [made EXCEPT ![key] = s[key]] = [k \in DOMAIN s |-> s[k]]
  BY <1>4 DEF WellShaped
<1> QED BY <1>1, <1>6, <1>8, <1>9, <1>10 DEF Undone, WellShaped

-----------------------------------------------------------------------------
(* Tables.                                                                 *)

\* A created table is dropped again with what it was created with.
THEOREM CreateTableUndone ==
  ASSUME NEW s, WellShaped(s), NEW t, NEW def, NEW sub, t # None,
         \A k \in DOMAIN sub : k.table = t /\ k.kind \in ChildKinds,
         NothingOf(s, t)
  PROVE  Undone(s, CreateTable(t, def, sub))
<1> DEFINE op   == CreateTable(t, def, sub)
           back == Undo(op)
           made == Result(s, op)
           norm == WithPrimaryKey(t, def, sub)
<1>1. /\ op.act = "create" /\ op.key = TableKey(t) /\ op.new = def /\ op.sub = sub
      /\ back.act = "drop" /\ back.key = TableKey(t)
  BY DEF CreateTable, Create, Op, Undo
<1>2. TableKey(t).kind = "table" /\ TableKey(t).name = t /\ TableKey(t).table = None
  BY DEF TableKey, Key
<1>3. DOMAIN norm.sub = DOMAIN sub
  BY DEF WithPrimaryKey
<1>4. made = Over(Put(s, TableKey(t), norm.def), norm.sub)
  BY <1>1, <1>2 DEF Result, ResultCreate
<1>5. TableKey(t) \notin DOMAIN s
  BY DEF NothingOf, OfTable
<1>6. DOMAIN made = DOMAIN s \cup {TableKey(t)} \cup DOMAIN sub
  BY <1>3, <1>4 DEF Over, Put
<1>7. \A k \in DOMAIN s : k \notin DOMAIN sub /\ k.table = t => k.kind \notin ChildKinds \cup {"row"}
  BY DEF NothingOf, OfTable, Children, RowsOf
<1>8. DOMAIN s \cap DOMAIN sub = {}
  BY DEF NothingOf, OfTable, Children
<1>9. \A k \in DOMAIN s : made[k] = s[k]
  BY <1>3, <1>4, <1>5, <1>8 DEF Over, Put
<1>10. Accepts(made, back)
  BY <1>1, <1>2, <1>6 DEF Accepts, AcceptsEntity, ChildKinds
<1>11. Result(made, back) = Without(made, {TableKey(t)} \cup Children(made, t) \cup RowsOf(made, t))
  BY <1>1, <1>2 DEF Result, ResultDrop
<1>12. DOMAIN made \ ({TableKey(t)} \cup Children(made, t) \cup RowsOf(made, t)) = DOMAIN s
  BY <1>5, <1>6, <1>7, <1>8 DEF Children, RowsOf
<1>13. Result(made, back) = [k \in DOMAIN s |-> s[k]]
  BY <1>9, <1>11, <1>12 DEF Without
<1> QED BY <1>10, <1>13 DEF Undone, WellShaped

\* A dropped table is created again as it was, without its managed rows: a
\* DropTable does not carry them.
THEOREM DropTableUndone ==
  ASSUME NEW s, WellShaped(s), NEW t, t # None, TableKey(t) \in DOMAIN s, Normal(s, t)
  PROVE  LET op   == DropTable(t, s[TableKey(t)], [k \in Children(s, t) |-> s[k]])
             back == Result(Result(s, op), Undo(op))
         IN  /\ Accepts(s, op) /\ Accepts(Result(s, op), Undo(op))
             /\ back = Without(s, RowsOf(s, t))
<1> DEFINE sub  == [k \in Children(s, t) |-> s[k]]
           op   == DropTable(t, s[TableKey(t)], sub)
           back == Undo(op)
           all  == {TableKey(t)} \cup Children(s, t) \cup RowsOf(s, t)
           rest == [k \in DOMAIN s \ all |-> s[k]]
<1>1. /\ op.act = "drop" /\ op.key = TableKey(t)
      /\ back.act = "create" /\ back.key = TableKey(t) /\ back.new = s[TableKey(t)] /\ back.sub = sub
  BY DEF DropTable, Drop, Op, Undo
<1>2. TableKey(t).kind = "table" /\ TableKey(t).name = t /\ TableKey(t).table = None
  BY DEF TableKey, Key
<1>3. TableKey(t).kind \notin ChildKinds
  BY <1>2 DEF ChildKinds
<1>4. Accepts(s, op)
  BY <1>1, <1>2, <1>3 DEF Accepts, AcceptsEntity
<1>5. Result(s, op) = rest
  BY <1>1, <1>2 DEF Result, ResultDrop, Without
<1>6. Accepts(rest, back)
  BY <1>1, <1>2, <1>3 DEF Accepts, AcceptsEntity
<1>7. Result(rest, back) = Over(Put(rest, TableKey(t), s[TableKey(t)]), sub)
  BY <1>1, <1>2 DEF Result, ResultCreate, Normal
<1>8. (DOMAIN s \ all) \cup {TableKey(t)} \cup Children(s, t) = DOMAIN s \ RowsOf(s, t)
  BY <1>2 DEF Children, RowsOf, ChildKinds
<1>9. Over(Put(rest, TableKey(t), s[TableKey(t)]), sub) = [k \in DOMAIN s \ RowsOf(s, t) |-> s[k]]
  BY <1>8 DEF Over, Put, Children
<1> QED BY <1>4, <1>5, <1>6, <1>7, <1>9 DEF Without

LEMMA RenamedBack ==
  ASSUME NEW k, k = Key(k.kind, k.table, k.name), NEW old, NEW new,
         old # None, new # None, k # TableKey(new), k.table # new
  PROVE  Renamed(Renamed(k, old, new), new, old) = k
<1>1. CASE k = TableKey(old)
  BY <1>1 DEF Renamed, TableKey, Key
<1>2. CASE k # TableKey(old) /\ k.table = old
  BY <1>2 DEF Renamed, TableKey, Key
<1>3. CASE k # TableKey(old) /\ k.table # old
  BY <1>3 DEF Renamed, TableKey, Key
<1> QED BY <1>1, <1>2, <1>3

\* A renamed table is renamed back, and all that follows it follows it back.
THEOREM RenameTableUndone ==
  ASSUME NEW s, WellShaped(s), NEW old, NEW new, old # None, old # new, FreeTable(s, new),
         TableKey(old) \in DOMAIN s
  PROVE  Undone(s, Op("rename", TableKey(old), None, new))
<1> DEFINE op   == Op("rename", TableKey(old), None, new)
           back == Op("rename", TableKey(new), None, old)
           to(k) == Renamed(k, old, new)
           from(k) == Renamed(k, new, old)
           made == Result(s, op)
<1>1. Undo(op) = back
  BY DEF Undo, Op, TableKey, Key
<1>2. /\ op.act = "rename" /\ op.key = TableKey(old) /\ op.new = new
      /\ back.act = "rename" /\ back.key = TableKey(new) /\ back.new = old
  BY DEF Op
<1>3. \A n : TableKey(n).kind = "table" /\ TableKey(n).name = n
  BY DEF TableKey, Key
<1>4. made = [k \in {to(x) : x \in DOMAIN s} |-> FollowTable(k, s[from(k)], old, new)]
  BY <1>2, <1>3 DEF Result, ResultRenameTable
<1>5. ASSUME NEW x \in DOMAIN s PROVE from(to(x)) = x
  <2>1. x = Key(x.kind, x.table, x.name)
    BY DEF WellShaped
  <2>2. new # None /\ x # TableKey(new) /\ x.table # new
    BY DEF FreeTable
  <2> HIDE DEF op, back, made
  <2> QED BY <2>1, <2>2, RenamedBack
<1>6. \A x \in DOMAIN s : to(x).kind = x.kind
  BY DEF Renamed, WellShaped, TableKey, Key
<1>7. Result(made, back)
        = [k \in {from(x) : x \in DOMAIN made} |-> FollowTable(k, made[to(k)], new, old)]
  <2> HIDE DEF op, back, made
  <2> QED BY <1>2, <1>3 DEF Result, ResultRenameTable
<1>8. {from(x) : x \in DOMAIN made} = DOMAIN s
  BY <1>4, <1>5
<1>9. ASSUME NEW k \in DOMAIN s
      PROVE  FollowTable(k, made[to(k)], new, old) = s[k]
  <2>1. made[to(k)] = FollowTable(to(k), s[k], old, new)
    BY <1>4, <1>5
  <2>2. made[to(k)] = FollowTable(k, s[k], old, new)
    BY <1>6, <2>1 DEF FollowTable
  <2>3. CASE k.kind = "foreign_key"
    <3>1. s[k] = [col |-> s[k].col, to |-> s[k].to, tocol |-> s[k].tocol] /\ s[k].to # new
      BY <2>3 DEF WellShaped, FreeTable
    <3>2. CASE s[k].to = old
      <4>1. made[to(k)] = [s[k] EXCEPT !.to = new]
        BY <2>2, <2>3, <3>2 DEF FollowTable
      <4>2. made[to(k)] = [col |-> s[k].col, to |-> new, tocol |-> s[k].tocol]
        BY <3>1, <4>1
      <4>3. FollowTable(k, made[to(k)], new, old) = [made[to(k)] EXCEPT !.to = old]
        BY <2>3, <4>2 DEF FollowTable
      <4> QED BY <3>1, <3>2, <4>2, <4>3
    <3>3. CASE s[k].to # old
      BY <2>2, <2>3, <3>1, <3>3 DEF FollowTable
    <3> QED BY <3>2, <3>3
  <2>4. CASE k.kind = "table"
    <3>1. /\ s[k] = [pk |-> s[k].pk, parent |-> s[k].parent, opts |-> s[k].opts]
          /\ s[k].parent # new
      BY <2>4 DEF WellShaped, FreeTable
    <3>2. CASE s[k].parent = old
      <4>1. made[to(k)] = [s[k] EXCEPT !.parent = new]
        BY <2>2, <2>4, <3>2 DEF FollowTable
      <4>2. made[to(k)] = [pk |-> s[k].pk, parent |-> new, opts |-> s[k].opts]
        BY <3>1, <4>1
      <4>3. FollowTable(k, made[to(k)], new, old) = [made[to(k)] EXCEPT !.parent = old]
        BY <2>4, <4>2 DEF FollowTable
      <4> QED BY <3>1, <3>2, <4>2, <4>3
    <3>3. CASE s[k].parent # old
      BY <2>2, <2>4, <3>1, <3>3 DEF FollowTable
    <3> QED BY <3>2, <3>3
  <2>5. CASE k.kind \notin {"foreign_key", "table"}
    BY <2>2, <2>5 DEF FollowTable
  <2> QED BY <2>3, <2>4, <2>5
<1>10. Result(made, back) = [k \in DOMAIN s |-> s[k]]
  BY <1>7, <1>8, <1>9
<1>11. TableKey(new) \in DOMAIN made
  BY <1>4 DEF Renamed
<1>12. TableKey(old) \notin DOMAIN made
  <2>1. \A x \in DOMAIN s : to(x) # TableKey(old)
    BY DEF Renamed, WellShaped, TableKey, Key, FreeTable
  <2> QED BY <1>4, <2>1
<1>13. Accepts(made, back)
  BY <1>2, <1>3, <1>11, <1>12 DEF Accepts, AcceptsRename
<1> QED BY <1>1, <1>10, <1>13 DEF Undone, WellShaped

-----------------------------------------------------------------------------
(* Columns.                                                                *)

\* A row's values with one of them under another name.
Moved(vals, old, new) == Put(Restrict(vals, DOMAIN vals \ {old}), new, vals[old])

LEMMA MovedBack ==
  ASSUME NEW vals, vals = [c \in DOMAIN vals |-> vals[c]],
         NEW old, NEW new, old \in DOMAIN vals, new \notin DOMAIN vals
  PROVE  /\ new \in DOMAIN Moved(vals, old, new)
         /\ Moved(Moved(vals, old, new), new, old) = vals
<1> DEFINE there == Moved(vals, old, new)
<1>1. there = [c \in (DOMAIN vals \ {old}) \cup {new} |-> IF c = new THEN vals[old] ELSE vals[c]]
  BY DEF Moved, Put, Restrict
<1>2. DOMAIN there \ {new} = DOMAIN vals \ {old} /\ there[new] = vals[old] /\ new \in DOMAIN there
  BY <1>1
<1>3. Restrict(there, DOMAIN there \ {new}) = [c \in DOMAIN vals \ {old} |-> vals[c]]
  BY <1>1, <1>2 DEF Restrict
<1>4. Moved(there, new, old) = [c \in DOMAIN vals |-> vals[c]]
  <2>1. Moved(there, new, old) = Put([c \in DOMAIN vals \ {old} |-> vals[c]], old, vals[old])
    BY <1>2, <1>3 DEF Moved
  <2>2. Put([c \in DOMAIN vals \ {old} |-> vals[c]], old, vals[old]) = [c \in DOMAIN vals |-> vals[c]]
    BY DEF Put
  <2> QED BY <2>1, <2>2
<1> QED BY <1>2, <1>4

\* A foreign key between other columns.
Between(fk, x, y) == [fk EXCEPT !.col = x, !.tocol = y]

LEMMA Reset ==
  ASSUME NEW a, NEW b, NEW c, NEW x, NEW y, NEW fk, fk = [col |-> a, to |-> b, tocol |-> c]
  PROVE  Between(fk, x, y) = [col |-> x, to |-> b, tocol |-> y]
<1>1. [fk EXCEPT !.col = x] = [col |-> x, to |-> b, tocol |-> c]
  OBVIOUS
<1>2. [[col |-> x, to |-> b, tocol |-> c] EXCEPT !.tocol = y] = [col |-> x, to |-> b, tocol |-> y]
  OBVIOUS
<1>3. [fk EXCEPT !.col = x, !.tocol = y] = [[fk EXCEPT !.col = x] EXCEPT !.tocol = y]
  OBVIOUS
<1> QED BY <1>1, <1>2, <1>3 DEF Between

\* What follows a renamed column follows it back.
LEMMA FollowColumnBack ==
  ASSUME NEW s, WellShaped(s), NEW t, NEW old, NEW new, old # new, FreeColumn(s, t, new),
         NEW k \in DOMAIN s
  PROVE  FollowColumn(k, FollowColumn(k, s[k], t, old, new), t, new, old) = s[k]
<1> DEFINE there == FollowColumn(k, s[k], t, old, new)
<1>1. CASE k.kind = "foreign_key"
  <2> DEFINE c  == IF k.table = t /\ s[k].col = old THEN new ELSE s[k].col
             tc == IF s[k].to = t /\ s[k].tocol = old THEN new ELSE s[k].tocol
  <2>1. s[k] = [col |-> s[k].col, to |-> s[k].to, tocol |-> s[k].tocol]
    BY <1>1 DEF WellShaped
  <2>2. /\ k.table = t => s[k].col # new
        /\ s[k].to = t => s[k].tocol # new
    <3> HIDE DEF there, c, tc
    <3> QED BY <1>1 DEF FreeColumn
  <2>3. there = [s[k] EXCEPT !.col = c, !.tocol = tc]
    BY <1>1 DEF FollowColumn
  <2>4. there = [col |-> c, to |-> s[k].to, tocol |-> tc]
    BY <2>1, <2>3
  <2>5. FollowColumn(k, there, t, new, old)
          = [there EXCEPT !.col = IF k.table = t /\ there.col = new THEN old ELSE there.col,
                          !.tocol = IF there.to = t /\ there.tocol = new THEN old ELSE there.tocol]
    <3> HIDE DEF there
    <3> QED BY <1>1 DEF FollowColumn
  <2>6. /\ (IF k.table = t /\ there.col = new THEN old ELSE there.col) = s[k].col
        /\ (IF there.to = t /\ there.tocol = new THEN old ELSE there.tocol) = s[k].tocol
    BY <2>2, <2>4
  <2>7. FollowColumn(k, there, t, new, old) = Between(there, s[k].col, s[k].tocol)
    <3> HIDE DEF there
    <3> QED BY <2>5, <2>6 DEF Between
  <2>8. Between(there, s[k].col, s[k].tocol)
          = [col |-> s[k].col, to |-> s[k].to, tocol |-> s[k].tocol]
    <3> HIDE DEF there, c, tc
    <3> QED BY <2>4, Reset
  <2> HIDE DEF there, c, tc
  <2> QED BY <2>1, <2>7, <2>8 DEF there
<1>2. CASE k.kind = "row" /\ k.table = t /\ old \in DOMAIN s[k].vals
  <2>1. /\ s[k] = [vals |-> s[k].vals]
        /\ s[k].vals = [x \in DOMAIN s[k].vals |-> s[k].vals[x]]
        /\ new \notin DOMAIN s[k].vals
    BY <1>2 DEF WellShaped, FreeColumn
  <2>2. there = [s[k] EXCEPT !.vals = Moved(s[k].vals, old, new)]
    BY <1>2 DEF FollowColumn, Moved
  <2>3. there = [vals |-> Moved(s[k].vals, old, new)]
    BY <2>1, <2>2
  <2>4. /\ new \in DOMAIN there.vals
        /\ Moved(there.vals, new, old) = s[k].vals
    BY <1>2, <2>1, <2>3, MovedBack
  <2>5. FollowColumn(k, there, t, new, old) = [there EXCEPT !.vals = Moved(there.vals, new, old)]
    <3> HIDE DEF there
    <3> QED BY <1>2, <2>4 DEF FollowColumn, Moved
  <2> QED BY <2>1, <2>3, <2>4, <2>5
<1>3. CASE k.kind # "foreign_key" /\ ~(k.kind = "row" /\ k.table = t /\ old \in DOMAIN s[k].vals)
  <2>1. there = s[k]
    BY <1>3 DEF FollowColumn
  <2>2. ~(k.kind = "row" /\ k.table = t /\ new \in DOMAIN s[k].vals)
    BY DEF FreeColumn
  <2>3. FollowColumn(k, s[k], t, new, old) = s[k]
    BY <1>3, <2>2 DEF FollowColumn
  <2> QED BY <2>1, <2>3
<1> QED BY <1>1, <1>2, <1>3

\* A renamed column is renamed back, in managed rows and foreign keys too.
THEOREM RenameColumnUndone ==
  ASSUME NEW s, WellShaped(s), NEW t, NEW old, NEW new, old # new, FreeColumn(s, t, new),
         Accepts(s, Op("rename", Key("column", t, old), None, new))
  PROVE  Undone(s, Op("rename", Key("column", t, old), None, new))
<1> DEFINE oldKey == Key("column", t, old)
           newKey == Key("column", t, new)
           op   == Op("rename", oldKey, None, new)
           back == Op("rename", newKey, None, old)
           made == Result(s, op)
<1>1. Undo(op) = back
  BY DEF Undo, Op, Key
<1>2. /\ op.act = "rename" /\ op.key = oldKey /\ op.new = new
      /\ back.act = "rename" /\ back.key = newKey /\ back.new = old
  BY DEF Op
<1>3. /\ oldKey.kind = "column" /\ oldKey.table = t /\ oldKey.name = old
      /\ newKey.kind = "column" /\ newKey.table = t /\ newKey.name = new
      /\ oldKey # newKey
      /\ OwnerKey(oldKey) = TableKey(t) /\ OwnerKey(newKey) = TableKey(t)
      /\ TableKey(t).kind = "table"
  BY DEF Key, OwnerKey, TableKey
<1>4. /\ oldKey \in DOMAIN s /\ ~IsPrimaryKeyColumn(s, oldKey)
      /\ TableKey(t) \in DOMAIN s
  BY <1>2, <1>3 DEF Accepts, AcceptsRename, OwnerExists, ChildKinds
<1>5. newKey \notin DOMAIN s
  BY DEF FreeColumn
<1>6. made = [k \in (DOMAIN s \ {oldKey}) \cup {newKey} |->
                IF k = newKey THEN s[oldKey] ELSE FollowColumn(k, s[k], t, old, new)]
  BY <1>2, <1>3 DEF Result, ResultRenameColumn
<1>7. Result(made, back)
        = [k \in (DOMAIN made \ {newKey}) \cup {oldKey} |->
             IF k = oldKey THEN made[newKey] ELSE FollowColumn(k, made[k], t, new, old)]
  <2> HIDE DEF op, back, made
  <2>1. Result(made, back) = ResultRenameColumn(made, back.key.table, back.key.name, back.new)
    BY <1>2, <1>3 DEF Result
  <2> QED BY <1>2, <1>3, <2>1 DEF ResultRenameColumn
<1>8. (DOMAIN made \ {newKey}) \cup {oldKey} = DOMAIN s /\ made[newKey] = s[oldKey]
  BY <1>3, <1>4, <1>5, <1>6
<1>9. ASSUME NEW k \in DOMAIN s, k # oldKey
      PROVE  FollowColumn(k, made[k], t, new, old) = s[k]
  <2>1. made[k] = FollowColumn(k, s[k], t, old, new)
    BY <1>5, <1>6, <1>9
  <2>2. FollowColumn(k, FollowColumn(k, s[k], t, old, new), t, new, old) = s[k]
    BY FollowColumnBack
  <2> QED BY <2>1, <2>2
<1>10. Result(made, back) = [k \in DOMAIN s |-> s[k]]
  BY <1>7, <1>8, <1>9
<1>11. newKey \in DOMAIN made /\ TableKey(t) \in DOMAIN made /\ made[TableKey(t)] = s[TableKey(t)]
  BY <1>3, <1>4, <1>6 DEF FollowColumn
<1>12. ~IsPrimaryKeyColumn(made, newKey)
  BY <1>3, <1>4, <1>8, <1>11 DEF IsPrimaryKeyColumn, FreeColumn
<1>13. Accepts(made, back)
  <2> HIDE DEF made
  <2> QED BY <1>2, <1>3, <1>11, <1>12 DEF Accepts, AcceptsRename, OwnerExists
<1> QED BY <1>1, <1>10, <1>13 DEF Undone, WellShaped

-----------------------------------------------------------------------------
(* What remains: enum values, options of a table, raw SQL.                 *)

\* A value of an enum that is renamed to one the enum does not have is renamed
\* back: the first of its name, as the code finds it.
THEOREM RenameValueUndone ==
  ASSUME NEW s, WellShaped(s), NEW key \in DOMAIN s, NEW V, NEW values \in Seq(V),
         s[key] = [values |-> values], NEW old, NEW new, new \notin Range(values),
         Accepts(s, Op("rename_value", key, old, new))
  PROVE  Undone(s, Op("rename_value", key, old, new))
<1> DEFINE op   == Op("rename_value", key, old, new)
           back == Op("rename_value", key, new, old)
           there == ReplaceFirst(values, old, new)
           again == ReplaceFirst(there, new, old)
           made  == [s EXCEPT ![key] = [values |-> there]]
<1>1. Undo(op) = back
  BY DEF Undo, Op
<1>2. /\ op.act = "rename_value" /\ op.key = key /\ op.old = old /\ op.new = new
      /\ back.act = "rename_value" /\ back.key = key /\ back.old = new /\ back.new = old
  BY DEF Op
<1>3. old \in Range(values)
  <2>1. s[key].values = values
    OBVIOUS
  <2> QED BY <1>2, <2>1 DEF Accepts
<1>4. /\ DOMAIN values = 1 .. Len(values) /\ Len(values) \in Nat
      /\ values = [i \in DOMAIN values |-> values[i]]
  OBVIOUS
<1>5. PICK first \in DOMAIN values :
         /\ values[first] = old
         /\ \A j \in DOMAIN values : j < first => values[j] # old
  <2> DEFINE T == {i \in DOMAIN values : values[i] = old}
  <2>1. T # {} /\ T \in SUBSET Nat
    BY <1>3, <1>4 DEF Range
  <2>2. PICK n \in T : \A m \in T : n <= m
    BY <2>1, LeastElement
  <2> QED BY <1>4, <2>2
<1>6. /\ DOMAIN there = DOMAIN values
      /\ \A i \in DOMAIN values : there[i] = IF i = first THEN new ELSE values[i]
  BY <1>4, <1>5 DEF ReplaceFirst
<1>7. \A i \in DOMAIN values : values[i] # new
  BY DEF Range
<1>8. again = values
  <2> HIDE DEF there
  <2>1. ASSUME NEW i \in DOMAIN values
        PROVE  again[i] = values[i]
    <3>1. again[i] = IF there[i] = new /\ (\A j \in DOMAIN there : j < i => there[j] # new)
                     THEN old ELSE there[i]
      BY <1>6 DEF ReplaceFirst
    <3>2. CASE i = first
      BY <1>4, <1>5, <1>6, <1>7, <3>1, <3>2
    <3>3. CASE i # first
      BY <1>6, <1>7, <3>1, <3>3
    <3> QED BY <3>2, <3>3
  <2>2. again = [i \in DOMAIN values |-> again[i]]
    BY <1>6 DEF ReplaceFirst
  <2> HIDE DEF again
  <2> QED BY <1>4, <2>1, <2>2
<1>9. Result(s, op) = made
  <2>1. Result(s, op) = [s EXCEPT ![key].values = ReplaceFirst(@, old, new)]
    BY <1>2 DEF Result
  <2>2. [s[key] EXCEPT !.values = there] = [values |-> there]
    OBVIOUS
  <2> QED BY <2>1, <2>2
<1>10. made[key] = [values |-> there] /\ made[key].values = there /\ DOMAIN made = DOMAIN s
  OBVIOUS
<1>11. Accepts(made, back)
  <2>1. new \in Range(there)
    BY <1>5, <1>6 DEF Range
  <2> HIDE DEF made, there
  <2> QED BY <1>2, <1>10, <2>1 DEF Accepts
<1>12. Result(made, back) = [made EXCEPT ![key] = [values |-> values]]
  <2> HIDE DEF made
  <2>1. Result(made, back) = [made EXCEPT ![key].values = ReplaceFirst(@, new, old)]
    BY <1>2 DEF Result
  <2>2. [made[key] EXCEPT !.values = ReplaceFirst(made[key].values, new, old)] = [values |-> values]
    BY <1>8, <1>10
  <2> QED BY <2>1, <2>2
<1>13. [made EXCEPT ![key] = [values |-> values]] = [k \in DOMAIN s |-> s[k]]
  OBVIOUS
<1> QED BY <1>1, <1>9, <1>11, <1>12, <1>13 DEF Undone, WellShaped

\* Acknowledged options are as they were; the undo of raw SQL is its down.
THEOREM AcknowledgedUndone ==
  ASSUME NEW s, WellShaped(s), NEW key \in DOMAIN s, key.kind = "table", NEW new
  PROVE  Undone(s, Op("acknowledge", key, s[key].opts, new))
<1> DEFINE op   == Op("acknowledge", key, s[key].opts, new)
           back == Op("acknowledge", key, new, s[key].opts)
           made == [s EXCEPT ![key].opts = new]
<1>1. Undo(op) = back
  BY DEF Undo, Op
<1>2. /\ op.act = "acknowledge" /\ op.key = key /\ op.new = new
      /\ back.act = "acknowledge" /\ back.key = key /\ back.new = s[key].opts
  BY DEF Op
<1>3. Result(s, op) = made /\ DOMAIN made = DOMAIN s
  BY <1>2 DEF Result
<1>4. Accepts(made, back)
  BY <1>2, <1>3 DEF Accepts
<1>5. Result(made, back) = [made EXCEPT ![key].opts = s[key].opts]
  BY <1>2 DEF Result
<1>6. [made EXCEPT ![key].opts = s[key].opts] = [k \in DOMAIN s |-> s[k]]
  <2> DEFINE pk     == s[key].pk
             parent == s[key].parent
             opts   == s[key].opts
  <2>1. s[key] = [pk |-> pk, parent |-> parent, opts |-> opts]
    BY DEF WellShaped
  <2>2. s[key].opts = opts
    OBVIOUS
  <2> HIDE DEF pk, parent, opts
  <2>3. [s[key] EXCEPT !.opts = new] = [pk |-> pk, parent |-> parent, opts |-> new]
    BY <2>1
  <2>4. made[key] = [pk |-> pk, parent |-> parent, opts |-> new]
    BY <2>3
  <2>5. \A k \in DOMAIN s : k # key => made[k] = s[k]
    OBVIOUS
  <2> HIDE DEF made
  <2>6. [made[key] EXCEPT !.opts = opts] = s[key]
    BY <2>1, <2>4
  <2>7. [made EXCEPT ![key].opts = opts] = [k \in DOMAIN s |-> s[k]]
    BY <1>3, <2>5, <2>6
  <2> QED BY <2>2, <2>7
<1> QED BY <1>1, <1>3, <1>4, <1>5, <1>6 DEF Undone, WellShaped

LEMMA StatementUndone ==
  ASSUME NEW s, NEW up, NEW down
  PROVE  Undone(s, Statement(up, down))
<1> DEFINE op == Statement(up, down)
<1>1. op.act = "statement" /\ Undo(op).act = "statement"
  BY DEF Undo, Statement, Op
<1> HIDE DEF op
<1>2. Result(s, op) = s /\ Result(s, Undo(op)) = s
  BY <1>1 DEF Result
<1>3. Accepts(s, Undo(op))
  BY <1>1 DEF Accepts
<1>4. Undone(s, op)
  BY <1>2, <1>3 DEF Undone
<1> QED BY <1>4 DEF op

-----------------------------------------------------------------------------
(* Whole migrations.                                                       *)

Begun(s) == [ok |-> TRUE, schema |-> s, at |-> 0]

LEMMA BegunIs ==
  ASSUME NEW s
  PROVE  /\ Begun(s).ok /\ Begun(s).schema = s /\ Begun(s).at = 0
         /\ DOMAIN Begun(s) = {"ok", "schema", "at"}
  BY DEF Begun

\* One operation further, as Replay has it.
OneMore(before, op, n) ==
  IF ~before.ok THEN before
  ELSE IF ~Accepts(before.schema, op) THEN [before EXCEPT !.ok = FALSE, !.at = n]
  ELSE Begun(Result(before.schema, op))

\* st holds what each number of the operations leaves.
ReplaySteps(st, s, ops, n) ==
  st[0] = Begun(s) /\ \A i \in 1 .. n : st[i] = OneMore(st[i - 1], ops[i], i)

ReplayBody(f, s, ops, i) == IF i = 0 THEN Begun(s) ELSE OneMore(f[i - 1], ops[i], i)

LEMMA ReplayUnfold ==
  ASSUME NEW s, NEW ops
  PROVE  Replay(s, ops) =
           (CHOOSE f : f = [i \in 0 .. Len(ops) |-> ReplayBody(f, s, ops, i)])[Len(ops)]
  BY DEF Replay, ReplayBody, OneMore, Begun

\* The recursion of Replay has a solution.
LEMMA ReplayDefined ==
  ASSUME NEW s, NEW ops, NEW n \in Nat
  PROVE  \E f : f = [i \in 0 .. n |-> ReplayBody(f, s, ops, i)]
<1> DEFINE Good(k) == \E f : f = [i \in 0 .. k |-> ReplayBody(f, s, ops, i)]
           T == {k \in Nat : Good(k)}
<1>1. 0 \in T
  <2> DEFINE f == [i \in 0 .. 0 |-> Begun(s)]
  <2>1. f = [i \in 0 .. 0 |-> ReplayBody(f, s, ops, i)]
    BY DEF ReplayBody
  <2> QED BY <2>1
<1>2. ASSUME NEW k \in Nat, k \in T PROVE k + 1 \in T
  <2>1. PICK f : f = [i \in 0 .. k |-> ReplayBody(f, s, ops, i)]
    BY <1>2
  <2> DEFINE g == [i \in 0 .. k + 1 |-> IF i = k + 1 THEN ReplayBody(f, s, ops, i) ELSE f[i]]
             h == [i \in 0 .. k + 1 |-> ReplayBody(g, s, ops, i)]
  <2>2. ASSUME NEW i \in 0 .. k + 1 PROVE g[i] = ReplayBody(g, s, ops, i)
    <3>1. ReplayBody(g, s, ops, i) = ReplayBody(f, s, ops, i)
      <4>1. i # 0 => i - 1 \in 0 .. k + 1 /\ i - 1 # k + 1 /\ g[i - 1] = f[i - 1]
        OBVIOUS
      <4> QED BY <4>1 DEF ReplayBody
    <3>2. CASE i = k + 1
      BY <3>1, <3>2
    <3>3. CASE i # k + 1
      <4>1. i \in 0 .. k /\ g[i] = f[i]
        BY <3>3
      <4>2. f[i] = ReplayBody(f, s, ops, i)
        BY <2>1, <4>1
      <4> QED BY <3>1, <4>1, <4>2
    <3> QED BY <3>2, <3>3
  <2>3. g = h
    BY <2>2
  <2>4. Good(k + 1)
    <3> HIDE DEF g
    <3> QED BY <2>3
  <2> HIDE DEF Good
  <2> QED BY <2>4
<1> HIDE DEF T
<1>3. Nat \subseteq T
  BY <1>1, <1>2, NatInduct
<1> QED BY <1>3 DEF T

LEMMA ReplayTrace ==
  ASSUME NEW s, NEW ops, Len(ops) \in Nat
  PROVE  \E st : ReplaySteps(st, s, ops, Len(ops)) /\ Replay(s, ops) = st[Len(ops)]
<1> DEFINE n  == Len(ops)
           st == CHOOSE f : f = [i \in 0 .. n |-> ReplayBody(f, s, ops, i)]
<1>1. st = [i \in 0 .. n |-> ReplayBody(st, s, ops, i)]
  BY ReplayDefined
<1>2. Replay(s, ops) = st[n]
  BY ReplayUnfold
<1> HIDE DEF st
<1>3. st[0] = Begun(s)
  BY <1>1 DEF ReplayBody
<1>4. ASSUME NEW i \in 1 .. n PROVE st[i] = OneMore(st[i - 1], ops[i], i)
  BY <1>1 DEF ReplayBody
<1> QED BY <1>2, <1>3, <1>4 DEF ReplaySteps

\* Whatever steps like Replay is what Replay computes.
LEMMA ReplayOfPrefix ==
  ASSUME NEW s, NEW ops, NEW some, NEW n \in Nat, Len(some) = n,
         \A i \in 1 .. n : some[i] = ops[i],
         NEW st, ReplaySteps(st, s, ops, n)
  PROVE  Replay(s, some) = st[n]
<1>1. PICK f : ReplaySteps(f, s, some, n) /\ Replay(s, some) = f[n]
  BY ReplayTrace
<1> DEFINE T == {k \in 0 .. n : f[k] = st[k]}
<1>2. 0 \in T
  BY <1>1 DEF ReplaySteps
<1>3. ASSUME NEW k \in 0 .. n - 1, k \in T PROVE k + 1 \in T
  <2>1. k + 1 \in 1 .. n /\ k + 1 \in 0 .. n /\ (k + 1) - 1 = k
    OBVIOUS
  <2>2. /\ f[k + 1] = OneMore(f[k], some[k + 1], k + 1)
        /\ st[k + 1] = OneMore(st[k], ops[k + 1], k + 1)
        /\ some[k + 1] = ops[k + 1] /\ f[k] = st[k]
    BY <1>1, <1>3, <2>1 DEF ReplaySteps
  <2> QED BY <2>1, <2>2
<1> HIDE DEF T
<1>4. 0 .. n \subseteq T
  BY <1>2, <1>3, UpToInduct
<1>5. f[n] = st[n]
  BY <1>4 DEF T
<1> QED BY <1>1, <1>5

IsReplayed(r) ==
  /\ DOMAIN r = {"ok", "schema", "at"}
  /\ r.ok => r = Begun(r.schema)

LEMMA OneMoreIs ==
  ASSUME NEW before, IsReplayed(before), NEW op, NEW n
  PROVE  /\ IsReplayed(OneMore(before, op, n))
         /\ OneMore(before, op, n).ok =>
              /\ before.ok /\ Accepts(before.schema, op)
              /\ OneMore(before, op, n).schema = Result(before.schema, op)
<1>1. CASE ~before.ok
  BY <1>1 DEF OneMore
<1>2. CASE before.ok /\ ~Accepts(before.schema, op)
  <2>1. OneMore(before, op, n) = [before EXCEPT !.ok = FALSE, !.at = n]
    BY <1>2 DEF OneMore
  <2>2. /\ DOMAIN [before EXCEPT !.ok = FALSE, !.at = n] = DOMAIN before
        /\ [before EXCEPT !.ok = FALSE, !.at = n].ok = FALSE
    BY DEF IsReplayed
  <2> QED BY <2>1, <2>2 DEF IsReplayed
<1>3. CASE before.ok /\ Accepts(before.schema, op)
  <2>1. OneMore(before, op, n) = Begun(Result(before.schema, op))
    BY <1>3 DEF OneMore
  <2> QED BY <1>3, <2>1, BegunIs DEF IsReplayed
<1> QED BY <1>1, <1>2, <1>3

\* A replay that succeeds succeeded all along.
LEMMA ReplayedAllAlong ==
  ASSUME NEW s, NEW ops, NEW n \in Nat, NEW st, ReplaySteps(st, s, ops, n), st[n].ok
  PROVE  /\ \A i \in 0 .. n : st[i] = Begun(st[i].schema)
         /\ \A i \in 1 .. n : /\ Accepts(st[i - 1].schema, ops[i])
                              /\ st[i].schema = Result(st[i - 1].schema, ops[i])
<1> DEFINE T == {k \in 0 .. n : IsReplayed(st[k])}
           U == {k \in 0 .. n : st[n - k].ok}
<1>1. 0 \in T
  <2>1. st[0] = Begun(s)
    BY DEF ReplaySteps
  <2>2. IsReplayed(st[0])
    BY <2>1, BegunIs DEF IsReplayed
  <2> QED BY <2>2
<1>2. ASSUME NEW k \in 0 .. n - 1, k \in T PROVE k + 1 \in T
  <2>1. k + 1 \in 1 .. n /\ k + 1 \in 0 .. n /\ (k + 1) - 1 = k
    OBVIOUS
  <2>2. st[k + 1] = OneMore(st[k], ops[k + 1], k + 1)
    BY <2>1 DEF ReplaySteps
  <2> QED BY <1>2, <2>1, <2>2, OneMoreIs
<1>3. 0 .. n \subseteq T
  <2> HIDE DEF T
  <2> QED BY <1>1, <1>2, UpToInduct
<1>4. \A i \in 0 .. n : IsReplayed(st[i])
  BY <1>3
<1>5. ASSUME NEW i \in 1 .. n, st[i].ok
      PROVE  /\ st[i - 1].ok /\ Accepts(st[i - 1].schema, ops[i])
             /\ st[i].schema = Result(st[i - 1].schema, ops[i])
  <2>1. st[i] = OneMore(st[i - 1], ops[i], i) /\ i - 1 \in 0 .. n
    BY DEF ReplaySteps
  <2> QED BY <1>4, <1>5, <2>1, OneMoreIs
<1>6. 0 \in U
  OBVIOUS
<1>7. ASSUME NEW k \in 0 .. n - 1, k \in U PROVE k + 1 \in U
  <2>1. k + 1 \in 0 .. n /\ n - k \in 1 .. n /\ (n - k) - 1 = n - (k + 1)
    OBVIOUS
  <2> QED BY <1>5, <1>7, <2>1
<1>8. 0 .. n \subseteq U
  <2> HIDE DEF U
  <2> QED BY <1>6, <1>7, UpToInduct
<1>9. ASSUME NEW i \in 0 .. n PROVE st[i].ok
  <2>1. n - i \in 0 .. n /\ n - (n - i) = i
    OBVIOUS
  <2> QED BY <1>8, <2>1
<1>10. ASSUME NEW i \in 1 .. n PROVE i \in 0 .. n
  OBVIOUS
<1> HIDE DEF T, U
<1> QED BY <1>4, <1>5, <1>9, <1>10 DEF IsReplayed

\* piece is what ops has behind the first a.
PieceOf(piece, ops, a) == \A x \in 1 .. Len(piece) : piece[x] = ops[a + x]

\* A replay goes through a piece of the operations as a replay of the piece does.
LEMMA PieceReplayed ==
  ASSUME NEW s0, NEW ops, NEW N \in Nat, NEW st, ReplaySteps(st, s0, ops, N),
         NEW piece, Len(piece) \in Nat, NEW a \in Nat, a + Len(piece) <= N, PieceOf(piece, ops, a),
         NEW s, st[a] = Begun(s), Replay(s, piece).ok
  PROVE  /\ st[a + Len(piece)] = Begun(Replay(s, piece).schema)
         /\ Replay(s, piece) = Begun(Replay(s, piece).schema)
<1> DEFINE b == Len(piece)
<1>1. b \in Nat
  OBVIOUS
<1>2. ASSUME NEW x \in 1 .. b PROVE st[a + x] = OneMore(st[a + (x - 1)], piece[x], a + x)
  <2>1. a + x \in 1 .. N /\ (a + x) - 1 = a + (x - 1)
    BY <1>1
  <2>2. st[a + x] = OneMore(st[a + (x - 1)], ops[a + x], a + x)
    BY <2>1 DEF ReplaySteps
  <2> QED BY <2>2 DEF PieceOf
<1>3. PICK it : ReplaySteps(it, s, piece, b) /\ Replay(s, piece) = it[b]
  BY <1>1, ReplayTrace
<1>4. it[b].ok
  BY <1>3
<1>5. \A x \in 1 .. b : /\ Accepts(it[x - 1].schema, piece[x])
                      /\ it[x].schema = Result(it[x - 1].schema, piece[x])
  BY <1>1, <1>3, <1>4, ReplayedAllAlong
<1> DEFINE T == {x \in 0 .. b : it[x] = Begun(it[x].schema) /\ st[a + x] = it[x]}
<1>6. 0 \in T
  <2>1. a + 0 = a /\ it[0] = Begun(s)
    BY <1>3 DEF ReplaySteps
  <2> QED BY <1>1, <2>1, BegunIs
<1>7. ASSUME NEW x \in 0 .. b - 1, x \in T PROVE x + 1 \in T
  <2> DEFINE n == Result(it[x].schema, piece[x + 1])
  <2>1. x + 1 \in 1 .. b /\ x + 1 \in 0 .. b /\ x \in 0 .. b /\ (x + 1) - 1 = x
    BY <1>1
  <2>2. st[a + (x + 1)] = OneMore(it[x], piece[x + 1], a + (x + 1))
    BY <1>2, <1>7, <2>1
  <2>3. it[x + 1] = OneMore(it[x], piece[x + 1], x + 1)
    BY <1>3, <2>1 DEF ReplaySteps
  <2>4. it[x] = Begun(it[x].schema) /\ Accepts(it[x].schema, piece[x + 1])
    BY <1>5, <1>7, <2>1
  <2>5. /\ OneMore(it[x], piece[x + 1], x + 1) = Begun(n)
        /\ OneMore(it[x], piece[x + 1], a + (x + 1)) = Begun(n)
    BY <2>4, BegunIs DEF OneMore
  <2> HIDE DEF n
  <2>6. it[x + 1] = Begun(n) /\ st[a + (x + 1)] = Begun(n) /\ it[x + 1].schema = n
    BY <2>2, <2>3, <2>5, BegunIs
  <2> QED BY <2>1, <2>6
<1> HIDE DEF T
<1>8. 0 .. b \subseteq T
  BY <1>1, <1>6, <1>7, UpToInduct
<1>9. b \in T
  BY <1>1, <1>8
<1> QED BY <1>3, <1>9 DEF T

\* A replay of two sequences is a replay of the second on what the first leaves.
LEMMA ReplayConcat ==
  ASSUME NEW O, NEW a \in Seq(O), NEW b \in Seq(O), NEW s, NEW mid, Replay(s, a) = Begun(mid),
         Replay(mid, b).ok
  PROVE  Replay(s, a \o b) = Begun(Replay(mid, b).schema)
<1> DEFINE ops == a \o b
           p == Len(a)
           q == Len(b)
<1>1. /\ p \in Nat /\ q \in Nat /\ Len(ops) = p + q
      /\ \A x \in 1 .. p : a[x] = ops[x]
  OBVIOUS
<1>2. PieceOf(b, ops, p)
  BY DEF PieceOf
<1> HIDE DEF ops
<1>3. PICK st : ReplaySteps(st, s, ops, p + q) /\ Replay(s, ops) = st[p + q]
  BY <1>1, ReplayTrace
<1>4. ReplaySteps(st, s, ops, p)
  BY <1>1, <1>3 DEF ReplaySteps
<1>5. st[p] = Begun(mid)
  BY <1>1, <1>4, ReplayOfPrefix
<1>6. p + q \in Nat /\ p + q <= p + q
  BY <1>1
<1>7. st[p + q] = Begun(Replay(mid, b).schema)
  BY <1>1, <1>2, <1>3, <1>5, <1>6, PieceReplayed
<1> QED BY <1>3, <1>7 DEF ops

LEMMA ReplayThroughout ==
  ASSUME NEW s, NEW ops, Len(ops) \in Nat, Replay(s, ops).ok
  PROVE  \E st : /\ ReplaySteps(st, s, ops, Len(ops)) /\ Replay(s, ops) = st[Len(ops)]
                 /\ \A i \in 0 .. Len(ops) : st[i] = Begun(st[i].schema)
<1> DEFINE n == Len(ops)
<1>1. n \in Nat
  OBVIOUS
<1>2. PICK st : ReplaySteps(st, s, ops, n) /\ Replay(s, ops) = st[n]
  BY <1>1, ReplayTrace
<1>3. /\ \A i \in 0 .. n : st[i] = Begun(st[i].schema)
      /\ \A i \in 1 .. n : st[i].schema = Result(st[i - 1].schema, ops[i])
  BY <1>1, <1>2, ReplayedAllAlong
<1> QED BY <1>2, <1>3

\* And one that succeeds goes through both.
LEMMA ConcatReplays ==
  ASSUME NEW O, NEW a \in Seq(O), NEW b \in Seq(O), NEW s, Replay(s, a \o b).ok
  PROVE  /\ Replay(s, a) = Begun(Replay(s, a).schema)
         /\ Replay(Replay(s, a).schema, b).ok
<1> DEFINE ops == a \o b
           p == Len(a)
           q == Len(b)
           mid == Replay(s, a).schema
<1>1. /\ p \in Nat /\ q \in Nat /\ Len(ops) = p + q
      /\ \A x \in 1 .. p : a[x] = ops[x]
      /\ \A x \in 1 .. q : b[x] = ops[p + x]
  OBVIOUS
<1> DEFINE n == Len(ops)
<1>14. n \in Nat /\ n = p + q
  BY <1>1
<1>15. Replay(s, ops).ok
  OBVIOUS
<1> HIDE DEF ops, n
<1>2. PICK st : /\ ReplaySteps(st, s, ops, n) /\ Replay(s, ops) = st[n]
                /\ \A i \in 0 .. n : st[i] = Begun(st[i].schema)
  <2>1. Len(ops) \in Nat /\ Replay(s, ops).ok
    BY ONLY <1>14, <1>15 DEF n
  <2> QED BY ONLY <2>1, ReplayThroughout DEF n
<1>4. \A i \in 0 .. n : st[i] = Begun(st[i].schema)
  BY <1>2
<1>16. \A i \in 1 .. n : st[i] = OneMore(st[i - 1], ops[i], i)
  BY <1>2 DEF ReplaySteps
<1>5. ReplaySteps(st, s, ops, p)
  BY <1>1, <1>14, <1>2 DEF ReplaySteps
<1>6. Replay(s, a) = st[p]
  <2>1. p \in Nat /\ Len(a) = p /\ \A i \in 1 .. p : a[i] = ops[i]
    BY ONLY <1>1
  <2> HIDE DEF p
  <2> QED BY ONLY <2>1, <1>5, ReplayOfPrefix, Zenon
<1>7. p \in 0 .. n
  BY <1>1, <1>14
<1>8. Replay(s, a) = Begun(mid)
  BY <1>4, <1>6, <1>7
<1>9. PICK it : ReplaySteps(it, mid, b, q) /\ Replay(mid, b) = it[q]
  BY ONLY <1>1, ReplayTrace
<1> HIDE DEF mid
<1> DEFINE T == {x \in 0 .. q : it[x].ok /\ it[x] = st[p + x]}
<1>10. 0 \in T
  <2>1. it[0] = Begun(mid) /\ p + 0 = p /\ 0 \in 0 .. q
    BY ONLY <1>1, <1>9 DEF ReplaySteps
  <2> QED BY ONLY <1>6, <1>8, <2>1, BegunIs
<1>11. ASSUME NEW x \in 0 .. q - 1, x \in T PROVE x + 1 \in T
  <2>1. /\ x + 1 \in 1 .. q /\ x + 1 \in 0 .. q /\ (x + 1) - 1 = x
        /\ p + (x + 1) \in 1 .. n /\ p + (x + 1) \in 0 .. n /\ (p + (x + 1)) - 1 = p + x
        /\ p + x \in 0 .. n
    BY <1>1, <1>14
  <2>2. it[x + 1] = OneMore(it[x], b[x + 1], x + 1)
    BY <1>9, <2>1 DEF ReplaySteps
  <2>3. st[p + (x + 1)] = OneMore(st[p + x], ops[p + (x + 1)], p + (x + 1))
    BY ONLY <1>16, <2>1
  <2>4. b[x + 1] = ops[p + (x + 1)]
    BY <1>1, <2>1
  <2>5. st[p + (x + 1)] = Begun(st[p + (x + 1)].schema)
    BY <1>4, <2>1
  <2>6. it[x].ok /\ it[x] = st[p + x]
    BY <1>11
  <2> DEFINE before == it[x]
             op     == b[x + 1]
             after  == st[p + (x + 1)]
             i      == p + (x + 1)
  <2>7. after.ok /\ after = OneMore(before, op, i) /\ before.ok /\ it[x + 1] = OneMore(before, op, x + 1)
    BY <2>2, <2>3, <2>4, <2>5, <2>6, BegunIs
  <2>8. before = Begun(before.schema)
    BY <1>4, <2>1, <2>6
  <2> HIDE DEF before, op, after, i
  <2>9. [before EXCEPT !.ok = FALSE, !.at = i].ok = FALSE
    BY <2>8, BegunIs
  <2>10. Accepts(before.schema, op)
    BY <2>7, <2>9 DEF OneMore
  <2>11. it[x + 1] = Begun(Result(before.schema, op)) /\ after = Begun(Result(before.schema, op))
    BY <2>7, <2>10 DEF OneMore
  <2> QED BY <2>1, <2>11, BegunIs DEF after, i
<1> HIDE DEF T
<1>12. 0 .. q \subseteq T
  BY <1>1, <1>10, <1>11, UpToInduct
<1>13. q \in T
  BY <1>1, <1>12
<1> QED BY <1>8, <1>9, <1>13 DEF T, mid

LEMMA HalfwayIs ==
  ASSUME NEW O, NEW ops \in Seq(O), NEW s, NEW st, ReplaySteps(st, s, ops, Len(ops)),
         NEW i \in 0 .. Len(ops)
  PROVE  Halfway(s, ops, i) = st[i].schema
<1> DEFINE some == SubSeq(ops, 1, i)
<1>1. Len(some) = i /\ \A j \in 1 .. i : some[j] = ops[j]
  OBVIOUS
<1>2. ReplaySteps(st, s, ops, i)
  BY DEF ReplaySteps
<1> HIDE DEF some
<1>3. Replay(s, some) = st[i]
  BY <1>1, <1>2, ReplayOfPrefix
<1> QED BY <1>3 DEF Halfway, some

\* Operations each of which can be undone where it was applied are undone in the
\* reverse order.
LEMMA UndoneInReverse ==
  ASSUME NEW O, NEW ops \in Seq(O), NEW s, Replay(s, ops).ok,
         \A i \in DOMAIN ops : Undone(Halfway(s, ops, i - 1), ops[i])
  PROVE  Replay(Replay(s, ops).schema, RollbackOps(ops)) = Begun(s)
<1> DEFINE n    == Len(ops)
           back == RollbackOps(ops)
<1>1. n \in Nat /\ DOMAIN ops = 1 .. n
  OBVIOUS
<1>2. PICK st : ReplaySteps(st, s, ops, n) /\ Replay(s, ops) = st[n]
  BY <1>1, ReplayTrace
<1>3. /\ \A i \in 0 .. n : st[i] = Begun(st[i].schema)
      /\ \A i \in 1 .. n : st[i].schema = Result(st[i - 1].schema, ops[i])
  BY <1>1, <1>2, ReplayedAllAlong
<1>4. \A i \in 0 .. n : Halfway(s, ops, i) = st[i].schema
  BY <1>1, <1>2, HalfwayIs
<1>5. Len(back) = n /\ \A j \in 1 .. n : back[j] = Undo(ops[n + 1 - j])
  BY <1>1 DEF RollbackOps
<1> DEFINE undone == [j \in 0 .. n |-> Begun(st[n - j].schema)]
<1>6. undone[0] = Begun(st[n].schema) /\ undone[n] = Begun(s)
  <2>1. /\ 0 \in 0 .. n /\ n \in 0 .. n /\ n - 0 = n /\ n - n = 0
    BY <1>1
  <2>2. st[0] = Begun(s) /\ st[0].schema = s
    BY <1>2, BegunIs DEF ReplaySteps
  <2> QED BY <2>1, <2>2
<1>7. ASSUME NEW j \in 1 .. n PROVE undone[j] = OneMore(undone[j - 1], back[j], j)
  <2> DEFINE i == n + 1 - j
  <2>1. i \in 1 .. n /\ i - 1 \in 0 .. n /\ i \in 0 .. n /\ n - (j - 1) = i /\ n - j = i - 1
    BY <1>1
  <2>2. undone[j - 1] = Begun(st[i].schema) /\ undone[j] = Begun(st[i - 1].schema)
    BY <1>1, <2>1
  <2>3. Undone(st[i - 1].schema, ops[i])
    BY <1>1, <1>4, <2>1
  <2>4. st[i].schema = Result(st[i - 1].schema, ops[i]) /\ back[j] = Undo(ops[i])
    BY <1>3, <1>5, <2>1
  <2>5. /\ Accepts(st[i].schema, back[j])
        /\ Result(st[i].schema, back[j]) = st[i - 1].schema
    BY <2>3, <2>4 DEF Undone
  <2> HIDE DEF undone, back, i
  <2> QED BY <2>2, <2>5, BegunIs DEF OneMore
<1> HIDE DEF undone, back
<1>8. ReplaySteps(undone, st[n].schema, back, n)
  BY <1>6, <1>7 DEF ReplaySteps
<1>9. Replay(st[n].schema, back) = undone[n]
  BY <1>1, <1>5, <1>8, ReplayOfPrefix
<1> QED BY <1>2, <1>6, <1>9 DEF back

LEMMA LosslessUndone ==
  ASSUME NEW s, WellShaped(s), NEW op, Accepts(s, op), Lossless(s, op)
  PROVE  Undone(s, op)
<1> DEFINE k == op.key
           t == op.key.name
<1>1. CASE /\ op = Create(k, op.new) /\ k.kind # "table"
           /\ k.kind = "column" => NoValues(s, k) /\ ~IsPrimaryKeyColumn(Put(s, k, op.new), k)
  BY <1>1, CreateUndone
<1>2. CASE /\ k \in DOMAIN s /\ op = Drop(k, s[k]) /\ k.kind # "table"
           /\ k.kind = "column" => NoValues(s, k) /\ ~s[k].pk
  BY <1>2, DropUndone
<1>3. CASE /\ k \in DOMAIN s /\ op = AlterCast(k, s[k], op.new, op.cast) /\ k.kind \notin {"table", "enum"}
           /\ k.kind = "column" /\ IsPrimaryKeyColumn(s, k) => ~s[k].nullable
  BY <1>3, AlterUndone
<1>4. CASE /\ op = CreateTable(t, op.new, op.sub) /\ t # None /\ NothingOf(s, t)
           /\ \A x \in DOMAIN op.sub : x.table = t /\ x.kind \in ChildKinds
  BY <1>4, CreateTableUndone
<1>5. CASE /\ t # None /\ TableKey(t) \in DOMAIN s
           /\ op = DropTable(t, s[TableKey(t)], [x \in Children(s, t) |-> s[x]])
           /\ Normal(s, t) /\ RowsOf(s, t) = {}
  <2>1. /\ Accepts(Result(s, op), Undo(op))
        /\ Result(Result(s, op), Undo(op)) = Without(s, RowsOf(s, t))
    BY <1>5, DropTableUndone
  <2>2. Without(s, RowsOf(s, t)) = [x \in DOMAIN s |-> s[x]]
    BY <1>5 DEF Without
  <2> QED BY <2>1, <2>2 DEF Undone, WellShaped
<1>6. CASE /\ op = Op("rename", TableKey(t), None, op.new)
           /\ t # None /\ TableKey(t) \in DOMAIN s /\ op.new # t /\ FreeTable(s, op.new)
  BY <1>6, RenameTableUndone
<1>7. CASE /\ op = Op("rename", Key("column", k.table, t), None, op.new)
           /\ op.new # t /\ FreeColumn(s, k.table, op.new)
  BY <1>7, RenameColumnUndone
<1>8. CASE /\ op = Op("rename_value", k, op.old, op.new) /\ k \in DOMAIN s
           /\ s[k] = [values |-> s[k].values] /\ s[k].values \in Seq(Range(s[k].values))
           /\ op.new \notin Range(s[k].values)
  BY <1>8, RenameValueUndone
<1>9. CASE k.kind = "table" /\ k \in DOMAIN s /\ op = Op("acknowledge", k, s[k].opts, op.new)
  BY <1>9, AcknowledgedUndone
<1>10. CASE op = Statement(op.new, op.down)
  BY <1>10, StatementUndone
<1> HIDE DEF k, t
<1> QED BY <1>1, <1>2, <1>3, <1>4, <1>5, <1>6, <1>7, <1>8, <1>9, <1>10 DEF Lossless, k, t

\* A migration that replays, and each operation of which is lossless where it is
\* applied, is undone by rollback_migrations: every inverse is accepted, in reverse
\* order, and the schema is the one before.
THEOREM MigrationUndone ==
  ASSUME NEW O, NEW ops \in Seq(O), NEW s, Replay(s, ops).ok,
         \A i \in DOMAIN ops : /\ WellShaped(Halfway(s, ops, i - 1))
                               /\ Lossless(Halfway(s, ops, i - 1), ops[i])
  PROVE  Replay(Replay(s, ops).schema, RollbackOps(ops)) = Begun(s)
<1> DEFINE n == Len(ops)
<1>1. n \in Nat /\ DOMAIN ops = 1 .. n
  OBVIOUS
<1>2. PICK st : ReplaySteps(st, s, ops, n) /\ Replay(s, ops) = st[n]
  BY <1>1, ReplayTrace
<1>3. \A i \in 1 .. n : Accepts(st[i - 1].schema, ops[i])
  BY <1>1, <1>2, ReplayedAllAlong
<1>4. \A i \in 0 .. n : Halfway(s, ops, i) = st[i].schema
  BY <1>1, <1>2, HalfwayIs
<1>5. ASSUME NEW i \in DOMAIN ops PROVE Undone(Halfway(s, ops, i - 1), ops[i])
  <2>1. i \in 1 .. n /\ i - 1 \in 0 .. n
    BY <1>1
  <2>2. Accepts(Halfway(s, ops, i - 1), ops[i])
    BY <1>3, <1>4, <2>1
  <2> QED BY <2>2, LosslessUndone
<1> QED BY <1>5, UndoneInReverse
=============================================================================
