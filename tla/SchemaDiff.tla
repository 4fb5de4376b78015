----------------------------- MODULE SchemaDiff -----------------------------
(***************************************************************************)
(* The diff engine (diff/mod.rs, managed_rows/diff.rs): the operations     *)
(* that lead from the replayed schema to the desired one, decomposed,      *)
(* ordered by their dependencies and folded back into table creations.     *)
(*                                                                         *)
(* The code numbers operations by the order in which it found them; the    *)
(* number only separates operations of equal priority and equal name, so   *)
(* the model keeps operations in a set and orders them by Weight.          *)
(***************************************************************************)
EXTENDS SchemaRules, SequencesExt

CONSTANTS TypeKey,     \* a type's comparison key: types the dialect holds for equal
          Rank,        \* the alphabetical position of every name, 1 .. 99
          MergeKinds   \* the children the dialect writes inside CREATE TABLE

-----------------------------------------------------------------------------
(* What changed (generate_diff).                                           *)

RootKeys(s) == {k \in DOMAIN s : k.kind \in RootKinds}
SubOf(s, t) == [k \in Children(s, t) |-> s[k]]

CreateRoot(s, k) == IF k.kind = "table" THEN CreateTable(k.name, s[k], SubOf(s, k.name))
                    ELSE Create(k, s[k])
DropRoot(s, k)   == IF k.kind = "table" THEN DropTable(k.name, s[k], SubOf(s, k.name))
                    ELSE Drop(k, s[k])

\* Old values keep their order in the new list, so that values can be added.
IsSubsequence(old, new) ==
  \E f \in [DOMAIN old -> DOMAIN new] :
     /\ \A i \in DOMAIN old : new[f[i]] = old[i]
     /\ \A i, j \in DOMAIN old : i < j => f[i] < f[j]

SameDef(k, p, c) ==
  IF k.kind = "column" THEN [p EXCEPT !.type = TypeKey[@]] = [c EXCEPT !.type = TypeKey[@]]
  ELSE p = c

\* A modified entity is replaced in place when the kind has an operation for it,
\* dropped and created when it has none.
Modified(k, p, c) ==
  IF \/ k.kind \in {"function", "view", "column", "trigger", "row"}
     \/ k.kind = "enum" /\ IsSubsequence(p.values, c.values)
  THEN {Alter(k, p, c)}
  ELSE {Drop(k, p), Create(k, c)}

ModifiedRoots(cur, prev) ==
  UNION {Modified(k, prev[k], cur[k]) :
           k \in {x \in RootKeys(cur) \cap RootKeys(prev) :
                    x.kind # "table" /\ ~SameDef(x, prev[x], cur[x])}}

TableChanges(cur, prev, t) ==
  LET now == Children(cur, t)
      was == Children(prev, t)
  IN  {Create(k, cur[k]) : k \in now \ was}
      \cup {Drop(k, prev[k]) : k \in was \ now}
      \cup (UNION {Modified(k, prev[k], cur[k]) :
                     k \in {x \in now \cap was : ~SameDef(x, prev[x], cur[x])}})
      \cup (IF cur[TableKey(t)].opts = prev[TableKey(t)].opts THEN {}
            ELSE {Op("acknowledge", TableKey(t), prev[TableKey(t)].opts, cur[TableKey(t)].opts)})

\* Rows are compared by identity.  A dropped table's rows go with the table.
RowChanges(cur, prev) ==
  LET now == {k \in DOMAIN cur : k.kind = "row"}
      was == {k \in DOMAIN prev : k.kind = "row" /\ OwnerKey(k) \in DOMAIN prev}
  IN  {Create(k, cur[k]) : k \in now \ was}
      \cup {Drop(k, prev[k]) : k \in {x \in was \ now : OwnerKey(x) \in DOMAIN cur}}
      \cup {Alter(k, prev[k], cur[k]) : k \in {x \in now \cap was : prev[x] # cur[x]}}

Changes(cur, prev) ==
  {CreateRoot(cur, k) : k \in RootKeys(cur) \ RootKeys(prev)}
  \cup {DropRoot(prev, k) : k \in RootKeys(prev) \ RootKeys(cur)}
  \cup ModifiedRoots(cur, prev)
  \cup (UNION {TableChanges(cur, prev, t) : t \in Tables(cur) \cap Tables(prev)})
  \cup RowChanges(cur, prev)

-----------------------------------------------------------------------------
(* What the changes imply.                                                 *)

DroppedTables(ops) == {o.key.name : o \in {x \in ops : x.act = "drop" /\ x.key.kind = "table"}}

\* A trigger of a surviving table whose function goes is dropped too.  The
\* functions are compared by name, without their argument types.
OrphanTriggers(ops, prev) ==
  LET gone == {o.old.fn : o \in {x \in ops : x.act = "drop" /\ x.key.kind = "function"}}
  IN  {Drop(k, prev[k]) :
         k \in {x \in DOMAIN prev : /\ x.kind = "trigger"
                                    /\ x.table \notin DroppedTables(ops)
                                    /\ prev[x].fn \in gone
                                    /\ ~\E o \in ops : o.act = "drop" /\ o.key = x}}

\* A column that keeps the type of a recreated enum is cast to text and back.
RecreatedEnums(ops) ==
  {n \in {o.key.name : o \in {x \in ops : x.act = "drop" /\ x.key.kind = "enum"}} :
     \E o \in ops : o.act = "create" /\ o.key = Key("enum", None, n)}

EnumCasts(ops, prev) ==
  LET survivors == {k \in DOMAIN prev :
                      /\ k.kind = "column"
                      /\ k.table \notin DroppedTables(ops)
                      /\ prev[k].type \in RecreatedEnums(ops)
                      /\ ~\E o \in ops : o.act \in {"drop", "alter"} /\ o.key = k}
      text(k) == [prev[k] EXCEPT !.type = "text"]
  IN  {[Alter(k, prev[k], text(k)) EXCEPT !.cast = "to text"] : k \in survivors}
      \cup {[Alter(k, text(k), prev[k]) EXCEPT !.cast = "from text"] : k \in survivors}

\* Table operations are split: the table with its columns, and one operation for
\* each other child, addressed by the table's bare name.
Parts(o) ==
  LET inline   == {k \in DOMAIN o.sub : k.kind # "column"}
      part(k)  == [k EXCEPT !.table = Bare[o.key.name]]
  IN  {[o EXCEPT !.sub = Restrict(@, DOMAIN @ \ inline)]}
      \cup {IF o.act = "create" THEN Create(part(k), o.sub[k]) ELSE Drop(part(k), o.sub[k]) :
              k \in inline}

Decomposed(ops) == UNION {Parts(o) : o \in ops}

-----------------------------------------------------------------------------
(* The order of the operations (sort_operations).                          *)

ItemPriority(op) ==
  LET drop == [trigger |-> 0, constraint |-> 1, index |-> 2, foreign_key |-> 3, column |-> 4]
      add  == [column |-> 6, foreign_key |-> 7, index |-> 8, constraint |-> 9, trigger |-> 10]
  IN  CASE op.act = "acknowledge"                         -> 5
        [] op.act = "alter" /\ op.key.kind = "column"     -> 5
        [] op.act = "drop"                                -> drop[op.key.kind]
        [] OTHER                                          -> add[op.key.kind]

TableItem == 8   \* the class of the operations on the items of one table

Class(op) ==
  LET create == [extension |-> 0, sequence |-> 0, enum |-> 1, function |-> 5, table |-> 6,
                 view |-> 11, row |-> 9]
      drop == [view |-> 2, table |-> 4, row |-> 7, function |-> 10, enum |-> 12,
               extension |-> 13, sequence |-> 13]
  IN  IF op.key.kind \in ChildKinds \/ op.act = "acknowledge" THEN TableItem
      ELSE IF IsDrop(op) THEN drop[op.key.kind] ELSE create[op.key.kind]

Priority(op) ==
  16 * Class(op) + (IF Class(op) = TableItem THEN ItemPriority(op)
                    ELSE IF <<op.act, op.key.kind>> \in {<<"create", "sequence">>, <<"alter", "row">>}
                    THEN 1 ELSE 0)

\* Ties go by name (a row's starts with its table's), then by table, then a cast
\* to text before the cast back.
NameRank(n) == IF n = None THEN 0 ELSE Rank[n]
Weight(op) ==
  LET major == IF op.key.kind = "row" THEN op.key.table ELSE op.key.name
      minor == IF op.key.kind = "row" THEN op.key.name ELSE op.key.table
  IN  100000 * Priority(op) + 1000 * NameRank(major) + 10 * NameRank(minor)
      + (IF op.cast = "from text" THEN 1 ELSE 0)

Provides(op, dep) == op.key.kind = dep.kind /\ dep.name \in {None, op.key.name}

TableOf(op) == IF op.key.kind = "table" THEN op.key.name ELSE op.key.table

\* Slip: a replaced sequence has no order of its own.
MustPrecede_NoReplacement(i, j) ==
  /\ i # j
  /\ \/ ~IsDrop(i) /\ ~IsDrop(j) /\ \E d \in ForwardDeps(j) : Provides(i, d)
     \/ ~IsCreate(i) /\ IsDrop(j) /\ \E d \in BackwardDeps(i) : Provides(j, d)
     \/ /\ Class(i) = TableItem /\ Class(j) = TableItem
        /\ TableOf(i) = TableOf(j)
        /\ ItemPriority(i) < ItemPriority(j)

\* Slip: what is dropped waits for nothing.
MustPrecede_DropsFreely(i, j) ==
  /\ i # j
  /\ \/ i.key.kind = "sequence" /\ i.key = j.key /\ IsDrop(i) /\ ~IsDrop(j)
     \/ ~IsDrop(i) /\ ~IsDrop(j) /\ \E d \in ForwardDeps(j) : Provides(i, d)
     \/ /\ Class(i) = TableItem /\ Class(j) = TableItem
        /\ TableOf(i) = TableOf(j)
        /\ ItemPriority(i) < ItemPriority(j)

\* Slip: every operation waits for what it names, dropped or not.
MustPrecede_DropsAlike(i, j) ==
  /\ i # j
  /\ \/ i.key.kind = "sequence" /\ i.key = j.key /\ IsDrop(i) /\ ~IsDrop(j)
     \/ \E d \in ForwardDeps(j) : Provides(i, d)
     \/ ~IsCreate(i) /\ IsDrop(j) /\ \E d \in BackwardDeps(i) : Provides(j, d)
     \/ /\ Class(i) = TableItem /\ Class(j) = TableItem
        /\ TableOf(i) = TableOf(j)
        /\ ItemPriority(i) < ItemPriority(j)

\* Operation i must come before operation j.
MustPrecede(i, j) ==
  /\ i # j
  /\ \/ i.key.kind = "sequence" /\ i.key = j.key /\ IsDrop(i) /\ ~IsDrop(j)
     \/ ~IsDrop(i) /\ ~IsDrop(j) /\ \E d \in ForwardDeps(j) : Provides(i, d)
     \/ ~IsCreate(i) /\ IsDrop(j) /\ \E d \in BackwardDeps(i) : Provides(j, d)
     \/ /\ Class(i) = TableItem /\ Class(j) = TableItem
        /\ TableOf(i) = TableOf(j)
        /\ ItemPriority(i) < ItemPriority(j)

\* The operations in some order, to number them by.
Listed(ops) == FoldSet(LAMBDA o, list : Append(list, o), <<>>, ops)

\* Kahn's algorithm: of the operations nothing holds back (held[i] is what holds
\* back the i-th), the lightest first.  On a cycle the order stops short.
Kahn(list, held, weight) ==
  LET Order[rest \in SUBSET DOMAIN list] ==
        LET ready == {i \in rest : held[i] \cap rest = {}}
        IN  IF ready = {} THEN <<>>
            ELSE LET i == CHOOSE x \in ready : \A y \in ready : weight[x] <= weight[y]
                 IN  <<list[i]>> \o Order[rest \ {i}]
  IN  Order[DOMAIN list]

Sorted(ops) ==
  LET list == Listed(ops)
  IN  Kahn(list, [i \in DOMAIN list |-> {j \in DOMAIN list : MustPrecede(list[j], list[i])}],
           [i \in DOMAIN list |-> Weight(list[i])])

\* All operations that some operation of seeds needs before it.
Closure(ops, seeds) ==
  LET Grow[n \in 0 .. Cardinality(ops)] ==
        IF n = 0 THEN seeds
        ELSE LET chosen == Grow[n - 1]
             IN  chosen \cup {o \in ops \ chosen : \E p \in chosen : MustPrecede(o, p)}
  IN  Grow[Cardinality(ops)]

-----------------------------------------------------------------------------
(* The order of row writes: parents first, deletions children first.  The  *)
(* writes keep the places the sort gave to row writes.                     *)

RowPrecedes(i, j, s, deleting) ==
  LET child  == IF deleting THEN i ELSE j
      parent == IF deleting THEN j ELSE i
  IN  \E k \in Children(s, child.key.table) : k.kind = "foreign_key" /\ s[k].to = parent.key.table

Refused(err)  == [err |-> err, ops |-> <<>>]
Found(ops)    == [err |-> "none", ops |-> ops]

RowGroup(ops, deleting) == {i \in DOMAIN ops : ops[i].key.kind = "row" /\ IsDrop(ops[i]) = deleting}

\* The rows among several, in an order of their own; a row of a table that refers
\* to itself holds itself back.
RowsInOrder(list, s, deleting) ==
  Kahn(list, [i \in DOMAIN list |-> {j \in DOMAIN list : RowPrecedes(list[j], list[i], s, deleting)}],
       [i \in DOMAIN list |-> 100 * NameRank(list[i].key.table) + NameRank(list[i].key.name)])

Replaced(ops, slots, order) ==
  IF Len(order) # Cardinality(slots) THEN Refused("cycle")
  ELSE Found([i \in DOMAIN ops |-> IF i \in slots THEN order[Cardinality({j \in slots : j <= i})] ELSE ops[i]])

\* What was found, with the group's rows rearranged.  One row needs no order.
RowsOrdered(found, s, deleting) ==
  LET slots == RowGroup(found.ops, deleting)
  IN  IF Cardinality(slots) < 2 THEN found
      ELSE Replaced(found.ops, slots, RowsInOrder(Listed({found.ops[i] : i \in slots}), s, deleting))

-----------------------------------------------------------------------------
(* Children go back into the CREATE TABLE they came from, where the        *)
(* dialect writes them; a foreign key does only when its target is the     *)
(* table itself or no table of this migration.                             *)

\* Those of seq that are in some, in their order.
Selected(seq, some) ==
  LET Upto[n \in 0 .. Len(seq)] ==
        IF n = 0 THEN <<>>
        ELSE IF seq[n] \in some THEN Append(Upto[n - 1], seq[n]) ELSE Upto[n - 1]
  IN  Upto[Len(seq)]

CreatedTables(ops) == {o.key.name : o \in {x \in Range(ops) : x.act = "create" /\ x.key.kind = "table"}}

Folds(ops, o) ==
  /\ o.act = "create" /\ o.key.kind \in MergeKinds
  /\ o.key.table \in CreatedTables(ops)
  /\ o.key.kind = "foreign_key" =>
       o.new.to = o.key.table \/ o.new.to \notin CreatedTables(ops)

\* Slip: the folded children take the place of the columns.
Merged_LosesColumns(ops) ==
  LET folded(t) == {o \in Range(ops) : Folds(ops, o) /\ o.key.table = t}
      sub(t)    == [k \in {o.key : o \in folded(t)} |-> (CHOOSE o \in folded(t) : o.key = k).new]
      whole(o)  == IF o.act = "create" /\ o.key.kind = "table" /\ folded(o.key.name) # {}
                   THEN [o EXCEPT !.sub = sub(o.key.name)] ELSE o
      kept      == Selected(ops, {o \in Range(ops) : ~Folds(ops, o)})
  IN  [i \in DOMAIN kept |-> whole(kept[i])]

Merged(ops) ==
  LET folded(t) == {o \in Range(ops) : Folds(ops, o) /\ o.key.table = t}
      sub(t)    == [k \in {o.key : o \in folded(t)} |-> (CHOOSE o \in folded(t) : o.key = k).new]
      whole(o)  == IF o.act = "create" /\ o.key.kind = "table"
                   THEN [o EXCEPT !.sub = Over(@, sub(o.key.name))] ELSE o
      kept      == Selected(ops, {o \in Range(ops) : ~Folds(ops, o)})
  IN  [i \in DOMAIN kept |-> whole(kept[i])]

-----------------------------------------------------------------------------
(* DiffEngine::diff.                                                       *)

SharedTables(cur, prev) == {TableKey(t) : t \in Tables(cur) \cap Tables(prev)}

WithOrphans(ops, prev) == ops \cup OrphanTriggers(ops, prev)
WithCasts(ops, prev)   == ops \cup EnumCasts(ops, prev)
AllChanges(cur, prev)  == Decomposed(WithCasts(WithOrphans(Changes(cur, prev), prev), prev))

Complete(order, ops) == IF Len(order) # Cardinality(ops) THEN Refused("cycle") ELSE Found(order)
InOrder(ops)         == Complete(Sorted(ops), ops)

Diff(cur, prev) ==
  IF \E k \in SharedTables(cur, prev) : cur[k].parent # prev[k].parent THEN Refused("partition")
  ELSE IF \E k \in SharedTables(cur, prev) : cur[k].pk # prev[k].pk THEN Refused("primary key")
  ELSE LET found == RowsOrdered(RowsOrdered(InOrder(AllChanges(cur, prev)), cur, FALSE), prev, TRUE)
       IN  [found EXCEPT !.ops = Merged(@)]
=============================================================================
