--------------------------- MODULE MCSqliteRebuild ---------------------------
(***************************************************************************)
(* Histories for TLC.  The first migration creates table t with a nullable *)
(* column a and an index on it; two more follow, in a row or on branches   *)
(* that are merged.  Each makes one of the changes that make finds on      *)
(* SQLite.                                                                 *)
(***************************************************************************)
EXTENDS SqliteRebuild

MCAffinity == [y \in {"integer", "bigint", "text"} |-> IF y = "text" THEN "text" ELSE "integer"]
MCOnDelete == [n \in {"k", "kc", "kn"} |-> CASE n = "k"  -> "no action"
                                             [] n = "kc" -> "cascade"
                                             [] n = "kn" -> "set null"]
MCBare == [n \in {"t", "u", "w"} |-> n]

IdColumn == [type |-> "integer", nullable |-> FALSE, dflt |-> None, pk |-> TRUE]
Plain(y) == [type |-> y, nullable |-> TRUE, dflt |-> None, pk |-> FALSE]
Required(y) == [Plain(y) EXCEPT !.nullable = FALSE, !.dflt = "1"]
Demanded(y) == [Plain(y) EXCEPT !.nullable = FALSE]

Column(t, c) == Key("column", t, c)
Index(t)     == Key("index", t, "ix")
Table(t)     == [pk |-> [name |-> t, cols |-> {"id"}], parent |-> None, opts |-> None]
OnA          == [col |-> "a", unique |-> FALSE]

Base == <<CreateTable("t", Table("t"), (Column("t", "id") :> IdColumn) @@ (Column("t", "a") :> Plain("integer"))
                                       @@ (Index("t") :> OnA))>>

Columns2 == (Column("u", "id") :> IdColumn) @@ (Column("u", "a") :> Plain("integer"))
ToT      == [col |-> "a", to |-> "t", tocol |-> "id"]
Child    == CreateTable("u", Table("u"), Columns2 @@ (Key("foreign_key", "u", "k") :> ToT))

Change(key, old, new) == <<Alter(key, old, new)>>
RenameTo(key, new)    == <<Op("rename", key, None, new)>>
A == Plain("integer")

\* Changes that can be made on top of the first migration.
ToItself(name) == <<Create(Key("foreign_key", "t", name), ToT)>>

Changes ==
  {ToItself("k"), ToItself("kc"), ToItself("kn"),
   <<Create(Key("index", "t", "ux"), [OnA EXCEPT !.unique = TRUE])>>,
   <<Create(Key("constraint", "t", "ck"), [col |-> None])>>,
   <<Create(Column("t", "b"), A)>>,
   <<Create(Column("t", "c"), Required("text"))>>,
   <<Create(Column("t", "d"), Demanded("text"))>>,
   <<Drop(Index("t"), OnA), Drop(Column("t", "a"), A)>>,
   Change(Column("t", "a"), A, Required("integer")),
   Change(Column("t", "a"), A, Plain("text")),
   <<Alter(Column("t", "a"), A, Required("text")),
     Create(Key("foreign_key", "t", "k"), ToT),
     Create(Key("constraint", "t", "uq"), [col |-> "a"])>>,
   <<Create(Key("constraint", "t", "uq"), [col |-> "a"])>>,
   <<Drop(Index("t"), OnA)>> \o RenameTo(Column("t", "a"), "e") \o <<Create(Index("t"), [OnA EXCEPT !.col = "e"])>>,
   RenameTo(TableKey("t"), "w"),
   <<Create(Key("view", None, "v"), [body |-> "t"])>>,
   <<Create(Key("trigger", "t", "g"), [fn |-> None])>>,
   <<Child>>,
   <<CreateTable("u", Table("u"), Columns2)>>}

\* Changes that can be made on top of some of those.
Later ==
  Changes \cup
  {<<Create(Key("foreign_key", "u", "k"), ToT)>>,
   <<Drop(Column("t", "b"), A)>>,
   <<Drop(Key("constraint", "t", "uq"), [col |-> "a"])>>,
   <<Drop(Key("view", None, "v"), [body |-> "t"]), Drop(Index("t"), OnA), Drop(Column("t", "a"), A)>>,
   <<Alter(Column("w", "a"), A, Required("text")), Create(Column("w", "b"), A)>>,
   Change(Column("t", "a"), Plain("text"), A)}

Migration(deps, ops) == [deps |-> deps, ops |-> ops, atomic |-> TRUE]
First == 10 :> Migration({}, Base)
Row(x, y)    == First @@ (20 :> Migration({10}, x)) @@ (30 :> Migration({20}, y))
Branch(x, y) == First @@ (20 :> Migration({10}, x)) @@ (21 :> Migration({10}, y))
                @@ (30 :> Migration({20, 21}, <<>>))

\* What make writes: the migrations replay, an operation finds what it says it
\* finds, and no view is left behind that reads a table that is gone.
ReadsTables(s) == \A k \in DOMAIN s : k.kind = "view" => s[k].body \in Tables(s)
Finds(s, op)   == op.act \in {"drop", "alter"} => op.key \in DOMAIN s /\ s[op.key] = op.old
Upto(ops, i)   == Replay(EmptySchema, SubSeq(ops, 1, i))
AsMade(ops)    == /\ Upto(ops, Len(ops)).ok
                  /\ Valid(Upto(ops, Len(ops)).schema)
                  /\ ReadsTables(Upto(ops, Len(ops)).schema)
                  /\ \A i \in DOMAIN ops : Finds(Upto(ops, i - 1).schema, ops[i])
Usable(ops)    == AsMade(Base \o ops)

MCHistories ==
  {Row(x, y) : <<x, y>> \in {p \in Changes \X Later : Usable(p[1] \o p[2])}}
  \cup {Branch(x, y) : <<x, y>> \in {p \in Changes \X Changes : Usable(p[1] \o p[2]) /\ Usable(p[2] \o p[1])}}
=============================================================================
