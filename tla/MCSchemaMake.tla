---------------------------- MODULE MCSchemaMake ----------------------------
(***************************************************************************)
(* Projects for TLC: each is a handful of contents the schema files may    *)
(* have, close enough to each other for one family of changes to meet in   *)
(* every order.  Tables t and u have a primary key id.                     *)
(***************************************************************************)
EXTENDS SchemaAdopt

MCTypeKey == [y \in {"int", "bigint", "int8", "text", "e", "odd"} |-> IF y = "int8" THEN "bigint" ELSE y]
MCFamily  == [y \in {"int", "bigint", "int8", "text", "e", "odd"} |->
                CASE y \in {"int", "bigint", "int8"} -> "integer" [] OTHER -> y]
Names == <<"a", "b", "c", "e", "f", "f_int", "g", "h", "id", "ix", "k", "p", "q", "s", "t", "app.t", "u",
           "uq", "v", "w", "x", "1", "2">>
MCRank == [n \in Range(Names) |-> CHOOSE i \in DOMAIN Names : Names[i] = n]
MCBare == [n \in {"t", "u", "w", "app.t"} |-> IF n = "app.t" THEN "t" ELSE n]

IdColumn == [type |-> "int", nullable |-> FALSE, dflt |-> None, pk |-> TRUE]
Plain(y) == [type |-> y, nullable |-> TRUE, dflt |-> None, pk |-> FALSE]
NotNull(y) == [Plain(y) EXCEPT !.nullable = FALSE]

Bag(t) == (TableKey(t) :> [pk |-> [name |-> t, cols |-> {"id"}], parent |-> None, opts |-> None])
          @@ (Key("column", t, "id") :> IdColumn)
Column(t, c, d) == Key("column", t, c) :> d
Ref(t, c, to, tocol) == Key("foreign_key", t, "k") :> [col |-> c, to |-> to, tocol |-> tocol]
Index(t, c, unique) == Key("index", t, "ix") :> [col |-> c, unique |-> unique]
Unique(t, c) == Key("constraint", t, "uq") :> [col |-> c]
Enum(values) == Key("enum", None, "e") :> [values |-> values]
Func(f, fn, deps, body) == Key("function", None, f) :> [fn |-> fn, deps |-> deps, body |-> body]
Trigger(t, f) == Key("trigger", t, "g") :> [fn |-> f]
Root(kind, n, body) == Key(kind, None, n) :> [body |-> body]
Row(t, n, vals) == Key("row", t, n) :> [vals |-> vals]

\* Foreign keys and the keys they point at, on tables that come and go.
Keys ==
  {Bag("t"),
   Bag("t") @@ Bag("u") @@ Column("u", "a", Plain("int")),
   Bag("t") @@ Bag("u") @@ Column("u", "a", Plain("int")) @@ Ref("u", "a", "t", "id"),
   Bag("t") @@ Bag("u") @@ Column("u", "a", Plain("int")) @@ Column("t", "b", Plain("int"))
     @@ Index("t", "b", TRUE) @@ Ref("u", "a", "t", "b"),
   Bag("t") @@ Bag("u") @@ Column("u", "a", Plain("int")) @@ Column("t", "b", Plain("int"))
     @@ Unique("t", "b") @@ Ref("u", "a", "t", "b"),
   Bag("t") @@ Column("t", "b", Plain("int")) @@ Ref("t", "b", "t", "id")}

\* An enum a column has for its type.
Enums ==
  {Bag("t"),
   Bag("t") @@ Enum(<<"x", "y">>) @@ Column("t", "a", Plain("e")),
   Bag("t") @@ Enum(<<"x", "z", "y">>) @@ Column("t", "a", Plain("e")),
   Bag("t") @@ Enum(<<"x", "z">>) @@ Column("t", "a", Plain("e")),
   Bag("t") @@ Enum(<<"x", "y">>) @@ Column("t", "a", Plain("text"))}

\* A trigger and the functions it may call, one of them overloaded.
Triggers ==
  {Bag("t") @@ Func("f", "f", {}, 1) @@ Trigger("t", "f"),
   Bag("t") @@ Func("f", "f", {}, 2) @@ Trigger("t", "f"),
   Bag("t") @@ Func("f", "f", {}, 1) @@ Func("f_int", "f", {}, 1) @@ Trigger("t", "f"),
   Bag("t") @@ Func("h", "h", {}, 1) @@ Trigger("t", "h"),
   Bag("t") @@ Func("f", "f", {}, 1),
   Func("h", "h", {}, 1)}

\* Functions and views that depend on tables and on each other.
Depends ==
  {Bag("t") @@ Func("f", "f", {Dep("table", "t")}, 1) @@ Root("view", "v", 1),
   Bag("t") @@ Func("f", "f", {Dep("view", "v")}, 1) @@ Root("view", "v", 1),
   Bag("t") @@ Func("f", "f", {Dep("table", "t")}, 1) @@ Trigger("t", "f"),
   Bag("t") @@ Bag("u") @@ Func("f", "f", {Dep("table", "u")}, 1) @@ Trigger("t", "f"),
   Bag("t") @@ Root("view", "v", 1),
   Bag("t"),
   Func("f", "f", {Dep("function", "h")}, 1) @@ Func("h", "h", {}, 1)}

\* Managed rows, of a table that refers to itself and of a parent and its child.
Rows ==
  {Bag("t"),
   Bag("t") @@ Column("t", "a", Plain("int")) @@ Row("t", "1", ("id" :> 1) @@ ("a" :> 1)),
   Bag("t") @@ Row("t", "1", "id" :> 1),
   Bag("t") @@ Column("t", "b", Plain("int")) @@ Row("t", "1", ("id" :> 1) @@ ("b" :> 1)),
   Bag("t") @@ Column("t", "a", Plain("int")) @@ Ref("t", "a", "t", "id")
     @@ Row("t", "1", ("id" :> 1) @@ ("a" :> 1)) @@ Row("t", "2", ("id" :> 2) @@ ("a" :> 1)),
   Bag("t") @@ Bag("u") @@ Column("u", "a", Plain("int")) @@ Ref("u", "a", "t", "id")
     @@ Row("t", "1", "id" :> 1) @@ Row("u", "1", ("id" :> 1) @@ ("a" :> 1)),
   Bag("t") @@ Bag("u") @@ Column("u", "a", Plain("int")) @@ Ref("u", "a", "u", "id")
     @@ Row("t", "1", "id" :> 1) @@ Row("u", "1", ("id" :> 1) @@ ("a" :> 1))}

\* Tables and columns that may have been renamed.
Renamings ==
  {Bag("t") @@ Column("t", "a", Plain("int")) @@ Index("t", "a", FALSE),
   Bag("t") @@ Column("t", "b", Plain("bigint")) @@ Index("t", "b", FALSE),
   Bag("t") @@ Column("t", "b", Plain("int")) @@ Column("t", "c", Plain("int")),
   Bag("w") @@ Column("w", "a", Plain("int")) @@ Index("w", "a", FALSE),
   Bag("w") @@ Column("w", "a", Plain("int")) @@ Bag("u"),
   Bag("t") @@ Bag("u") @@ Column("u", "a", Plain("int")) @@ Ref("u", "a", "t", "id")}

\* What a column may be: nullable, defaulted, of an equal or an unknown type.
Types ==
  {Bag("t") @@ Column("t", "a", Plain("int")),
   Bag("t") @@ Column("t", "a", NotNull("int")),
   Bag("t") @@ Column("t", "a", [NotNull("bigint") EXCEPT !.dflt = "1"]),
   Bag("t") @@ Column("t", "a", Plain("int8")) @@ Column("t", "b", NotNull("int")),
   Bag("t") @@ Column("t", "a", Plain("odd")),
   Bag("t")}

\* Extensions, sequences, table options, a table in a schema of its own.
Others ==
  {Bag("t") @@ Root("extension", "x", 1) @@ Root("sequence", "s", 1),
   Bag("t") @@ Root("extension", "x", 2) @@ Root("sequence", "s", 1),
   [Bag("t") @@ Root("extension", "x", 1) @@ Root("sequence", "s", 2)
      EXCEPT ![TableKey("t")] = [@ EXCEPT !.opts = "fillfactor"]],
   Bag("app.t") @@ Column("app.t", "a", Plain("int")) @@ Index("app.t", "a", FALSE),
   Bag("app.t") @@ Column("app.t", "a", Plain("int")),
   Root("view", "v", 1) @@ Root("sequence", "s", 1)}

\* Rows of tables old and new, and a sequence that tables wait for.
Waiting ==
  {Root("sequence", "s", 1) @@ Bag("u"),
   Root("sequence", "s", 2) @@ Bag("u") @@ Bag("t") @@ Row("t", "1", "id" :> 1) @@ Row("u", "1", "id" :> 1),
   Root("sequence", "s", 1) @@ Bag("u") @@ Bag("w") @@ Row("w", "1", "id" :> 1) @@ Row("u", "2", "id" :> 2),
   Root("sequence", "s", 2) @@ Bag("u") @@ Bag("w") @@ Column("u", "a", Plain("int")) @@ Ref("u", "a", "w", "id")
     @@ Row("w", "1", "id" :> 1) @@ Row("u", "1", ("id" :> 1) @@ ("a" :> 1))}

\* Tables in a schema of their own that may have been renamed, some with a namesake.
Qualified ==
  {Bag("app.t"),
   Bag("app.t") @@ Index("app.t", "id", FALSE),
   Bag("w"),
   Bag("t") @@ Bag("app.t"),
   Bag("t") @@ Bag("w")}

\* Sequences, views and functions that are replaced together, and with a table.
Replacing ==
  {Bag("t") @@ Root("view", "v", 1) @@ Root("sequence", "s", 1),
   Bag("t") @@ Root("view", "v", 2) @@ Root("sequence", "s", 2),
   Bag("u") @@ Bag("w") @@ Column("w", "a", Plain("int")) @@ Ref("w", "a", "u", "id")
     @@ Root("view", "v", 2) @@ Root("sequence", "s", 1),
   Func("f", "f", {Dep("sequence", "s")}, 1) @@ Root("sequence", "s", 1),
   Func("f", "f", {Dep("sequence", "s")}, 1) @@ Root("sequence", "s", 2),
   Func("f", "f", {}, 2) @@ Root("sequence", "s", 1)}

\* Columns that come to need a value, of a table with a row.
Required ==
  {Bag("t") @@ Row("t", "1", "id" :> 1),
   Bag("t") @@ Column("t", "a", NotNull("int")) @@ Row("t", "1", ("id" :> 1) @@ ("a" :> 1)),
   Bag("t") @@ Column("t", "a", [NotNull("int") EXCEPT !.dflt = "1"]) @@ Row("t", "1", "id" :> 1),
   Bag("t") @@ Column("t", "b", Plain("int")) @@ Row("t", "1", "id" :> 1)}

\* Tables that refer to each other, with rows and without.
Mutual ==
  LET Both == Bag("t") @@ Column("t", "a", Plain("int")) @@ Ref("t", "a", "u", "id")
              @@ Bag("u") @@ Column("u", "a", Plain("int")) @@ Ref("u", "a", "t", "id")
  IN  {Both, Both @@ Row("t", "1", "id" :> 1), Both @@ Row("t", "1", "id" :> 1) @@ Row("u", "1", "id" :> 1),
       Bag("t") @@ Bag("u") @@ Row("t", "1", "id" :> 1) @@ Row("u", "1", "id" :> 1)}

MCProjects == {Keys, Enums, Triggers, Depends, Rows, Renamings, Types, Others, Waiting,
               Qualified, Replacing, Required, Mutual}
MCEnumProjects == {Enums}
MCMergeKinds == {"foreign_key", "index", "constraint", "trigger"}

ASSUME StartsValid == \A project \in MCProjects : \A s \in project : Valid(s)
=============================================================================
