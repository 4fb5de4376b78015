----------------------------- MODULE LiveCatalog -----------------------------
(***************************************************************************)
(* A live database and what the executors read back from it                *)
(* (src/src/executor/*/inspection.rs).                                     *)
(*                                                                         *)
(* A schema of gaman is a function from keys to definitions, a database a  *)
(* function from keys to catalog rows.  A key is [kind, schema, table,     *)
(* name]; in a schema of gaman an unqualified entity has schema None, in   *)
(* a database every entity is in a schema.  The definitions hold           *)
(*   table       [pk]           None, or [name, cols]                      *)
(*   column      [type, nullable, dflt, gen, charset, comment]             *)
(*   foreign_key [cols, to, tocols, del]       to is <<schema, name>>      *)
(*   index       [cols, unique, pred, opaque]                              *)
(*   constraint  [form, cols, expr, formula, opaque]                       *)
(*                              form "unique", "check" or "opaque"         *)
(*   trigger     [events, fn, when, query, opaque]                         *)
(*   function    [volatility, body, opaque]    view [body, opaque]         *)
(*   enum        [values]   extension [version]   sequence [raw]           *)
(* where dflt, gen, pred and expr are token sequences and opaque says that *)
(* the entity is kept as raw SQL.  Catalog rows differ where the server    *)
(* keeps another form: a column has notnull and owned (its default draws   *)
(* from its own sequence), a trigger a set of events, an index plain, when *)
(* it has columns in plain B-tree order only, and tables are marked when   *)
(* they are gaman's own.                                                   *)
(***************************************************************************)
EXTENDS CatalogExpressions, Functions

Dialects    == {"postgres", "sqlite", "mysql", "mariadb"}
MysqlFamily == {"mysql", "mariadb"}

RootKinds == {"table", "view", "function", "enum", "extension", "sequence"}
Key(kind, schema, table, name) ==
  [kind |-> kind, schema |-> schema, table |-> table, name |-> name]
OwnerKey(k) == Key("table", k.schema, None, k.table)
Qualified(k) == <<k.schema, k.name>>
\* Gaman's own table and what is in it are never listed.
OnTracking(db, k) ==
  LET t == IF k.table = None THEN k ELSE OwnerKey(k)
  IN  t.kind = "table" /\ db[t].tracking
Children(s, t) == {k \in DOMAIN s : k.schema = t.schema /\ k.table = t.name}
OfKind(s, kind) == {k \in DOMAIN s : k.kind = kind}
SubMap(s, K)    == [k \in K |-> s[k]]

Home(d)           == IF d = "postgres" THEN "public" ELSE "main"
Absolute(d, schema) == IF schema = None THEN Home(d) ELSE schema
AbsoluteKey(d, k) == [k EXCEPT !.schema = Absolute(d, @)]

-----------------------------------------------------------------------------
(* The server: the rows it keeps for an entity gaman created.              *)

CatalogStyle(d) ==
  [grouped |-> d = "mysql", casts |-> d = "postgres",
   length  |-> IF d = "mariadb" THEN "octet_length" ELSE "length"]

Nextval == <<"nextval">>
JsonValid(column) == <<"json_valid", "(", column, ")">>

ServerDefault(d, ts) ==
  CASE ts = None -> None
    [] d = "postgres" /\ ts = <<"'x'">> -> <<"'x'", "::", "varchar">>
    [] d = "postgres" /\ ts = <<"-1">>  -> <<"'-1'", "::", "numeric">>
    [] d = "mysql" /\ ts = <<"'x'">>    -> <<"x">>
    [] d = "mariadb" /\ ts = <<"current_timestamp">> -> <<"current_timestamp", "(", ")">>
    [] OTHER -> ts

\* PostgreSQL casts a varchar to text where a function wants text, sets parentheses
\* around an operator, and casts a number that is compared with a numeric column (b).
ServerGenerated(d, ts) ==
  CASE d = "postgres" /\ ts = <<"lower", "(", "c", ")">> ->
         <<"lower", "(", "(", "c", ")", "::", "text", ")">>
    [] d = "postgres" /\ ts = <<"a", "+", "1">> -> Paren(ts)
    [] OTHER -> ts
ServerPredicate(d, ts) ==
  CASE ts = None \/ d = "sqlite" -> ts
    [] ts = <<"b", ">", "0">> -> Paren(<<"b", ">", "(", "0", ")", "::", "numeric">>)
    [] OTHER -> Paren(ts)

ColumnRow(d, def) ==
  LET serial == d = "postgres" /\ def.type = "serial"
      json   == d = "mariadb" /\ def.type = "json"
  IN  [type    |-> IF serial THEN "integer" ELSE IF json THEN "longtext" ELSE
                   IF d = "mysql" /\ def.type = "integer" THEN "int" ELSE
                   IF d = "mariadb" /\ def.type = "integer" THEN "int(11)" ELSE def.type,
       notnull |-> ~def.nullable,
       dflt    |-> IF serial THEN Nextval ELSE ServerDefault(d, def.dflt),
       gen     |-> ServerGenerated(d, def.gen),
       owned   |-> serial,
       charset |-> IF def.charset = None /\ d \in MysqlFamily /\ (json \/ def.type \in TextTypes)
                   THEN "utf8mb4" ELSE def.charset,
       comment |-> IF def.comment = None THEN "" ELSE def.comment]

\* A trigger with a query of its own runs a function made for it.
OwnFunction(k) == k.name \o "_fn"

Row(d, k, def) ==
  CASE k.kind = "table"       -> [pk |-> def.pk, tracking |-> FALSE]
    [] k.kind = "column"      -> ColumnRow(d, def)
    [] k.kind = "foreign_key" ->
         [def EXCEPT !.to = <<Absolute(d, def.to[1]), def.to[2]>>,
                     !.del = IF @ = None THEN "no action" ELSE @]
    [] k.kind = "index"       ->
         [cols |-> def.cols, unique |-> def.unique, plain |-> ~def.opaque,
          pred |-> ServerPredicate(d, def.pred)]
    [] k.kind = "constraint"  ->
         [form |-> def.form, cols |-> def.cols, formula |-> def.formula,
          expr |-> IF def.form = "check" /\ d # "sqlite"
                   THEN Written(def.formula, CatalogStyle(d)) ELSE def.expr]
    [] k.kind = "trigger"     ->
         [events |-> Range(def.events), when |-> def.when, query |-> def.query,
          fn |-> IF d # "postgres" THEN None
                 ELSE IF def.fn = None THEN <<"public", OwnFunction(k)>>
                 ELSE <<Absolute(d, def.fn[1]), def.fn[2]>>]
    [] k.kind \in {"function", "view"} -> [def EXCEPT !.opaque = FALSE]
    [] k.kind = "extension"   -> [version |-> IF def.version = None THEN "2" ELSE def.version]
    [] k.kind = "sequence"    -> [owned |-> FALSE]
    [] OTHER                  -> def

\* Rows that come with others: the check behind MariaDB's JSON, the index behind a
\* UNIQUE of the MySQL family, and the function of a trigger with a query.
CompanionRows(d, k, def) ==
  CASE d = "mariadb" /\ k.kind = "column" /\ def.type = "json" ->
         Key("constraint", k.schema, k.table, k.name) :>
           [form |-> "check", cols |-> <<>>, expr |-> JsonValid(k.name), formula |-> None]
    [] d \in MysqlFamily /\ k.kind = "constraint" /\ def.form = "unique" ->
         Key("index", k.schema, k.table, k.name) :>
           [cols |-> def.cols, unique |-> TRUE, plain |-> TRUE, pred |-> None]
    [] d = "postgres" /\ k.kind = "trigger" /\ def.query # None ->
         Key("function", "public", None, OwnFunction(k)) :>
           [volatility |-> "volatile", body |-> def.query, opaque |-> FALSE]
    [] OTHER -> [x \in {} |-> None]

Stored(d, k, def) ==
  LET at == AbsoluteKey(d, k) IN (at :> Row(d, k, def)) @@ CompanionRows(d, at, def)

-----------------------------------------------------------------------------
(* PostgreSQL: pg_catalog, read for the requested schemas.                 *)

SchemaForOutput(schema) == IF schema = "public" THEN None ELSE schema

\* A column whose default draws from its own sequence is reported as a serial.
PgColumn(row) ==
  LET generated == row.gen # None
      serial    == row.owned /\ ~generated /\ row.dflt = Nextval /\ row.type = "integer"
  IN  [type     |-> IF serial THEN "serial" ELSE row.type,
       nullable |-> ~row.notnull,
       dflt     |-> IF generated \/ serial THEN None ELSE row.dflt,
       gen      |-> row.gen, charset |-> None, comment |-> None]

PgForeignKey(row) ==
  [row EXCEPT !.to  = <<SchemaForOutput(row.to[1]), row.to[2]>>,
              !.del = IF @ = "no action" THEN None ELSE @]

\* Anything but plain columns in a B-tree is kept as raw SQL.
PgIndex(row) ==
  [cols   |-> IF row.plain THEN row.cols ELSE <<>>, unique |-> row.unique,
   pred   |-> IF row.pred # None /\ WrapsExpression(row.pred)
              THEN SubSeq(row.pred, 2, Len(row.pred) - 1) ELSE row.pred,
   opaque |-> ~row.plain]

PgConstraint(row) ==
  [form |-> row.form, cols |-> row.cols, formula |-> row.formula,
   expr |-> IF row.form = "check" THEN row.expr ELSE None, opaque |-> row.form = "opaque"]

\* Events come back in the order of their bits in tgtype.
DecodeEvents(events) == SelectSeq(<<"insert", "delete", "update", "truncate">>,
                                  LAMBDA e : e \in events)
PgTrigger(row) ==
  [events |-> DecodeEvents(row.events), when |-> None, query |-> None, opaque |-> FALSE,
   fn     |-> <<SchemaForOutput(row.fn[1]), row.fn[2]>>]

PgView(row)      == [body |-> row.body, opaque |-> FALSE]
PgFunction(row)  == [volatility |-> row.volatility, body |-> row.body, opaque |-> FALSE]
PgExtension(row) == [version |-> row.version]
PgEnum(row)      == [values |-> row.values]

PgDefinition(k, row) ==
  CASE k.kind = "table"       -> [pk |-> row.pk]
    [] k.kind = "column"      -> PgColumn(row)
    [] k.kind = "foreign_key" -> PgForeignKey(row)
    [] k.kind = "index"       -> PgIndex(row)
    [] k.kind = "constraint"  -> PgConstraint(row)
    [] k.kind = "trigger"     -> PgTrigger(row)
    [] k.kind = "view"        -> PgView(row)
    [] k.kind = "function"    -> PgFunction(row)
    [] k.kind = "extension"   -> PgExtension(row)
    [] k.kind = "enum"        -> PgEnum(row)
    [] k.kind = "sequence"    -> [raw |-> None]

\* The sequence of a serial is not listed, nor is gaman's own table.
SequenceListed(row) == ~row.owned
PgListed(db, schemas, k) ==
  /\ k.schema \in Range(schemas)
  /\ ~OnTracking(db, k)
  /\ k.kind = "sequence" => SequenceListed(db[k])

InspectPostgres(db, schemas) ==
  LET listed == {k \in DOMAIN db : PgListed(db, schemas, k)}
  IN  [o \in {[k EXCEPT !.schema = SchemaForOutput(@)] : k \in listed} |->
         PgDefinition(o, db[AbsoluteKey("postgres", o)])]

-----------------------------------------------------------------------------
(* SQLite: the pragmas, and the text of the CREATE statements.             *)

Affinity(type) ==
  CASE type \in {"integer", "int", "bigint"} -> "integer"
    [] type \in {"text", "varchar"} -> "text"
    [] OTHER -> "numeric"

SynthFkName(table, cols) == table \o "_" \o cols[1] \o "_fkey"

\* A column of the key is never nullable, whatever the pragma says.
SqliteColumn(db, k) ==
  LET pk == db[OwnerKey(k)].pk
  IN  [type |-> db[k].type,
       nullable |-> ~db[k].notnull /\ ~(pk # None /\ k.name \in Range(pk.cols)),
       dflt |-> db[k].dflt, gen |-> db[k].gen, charset |-> None, comment |-> None]

SqliteForeignKey(row) ==
  [row EXCEPT !.to = <<None, row.to[2]>>, !.del = IF @ = "no action" THEN None ELSE @]

\* A trigger is understood when its statement names one plain event; any other
\* is not listed.
SqliteTriggerListed(row) == row.events \cap {"insert", "update", "delete"} # {}
SqliteTrigger(row) ==
  [events |-> <<CHOOSE e \in row.events : e \in {"insert", "update", "delete"}>>,
   fn |-> None, when |-> None, query |-> row.query, opaque |-> FALSE]

\* An index over an expression is kept as its text.
SqliteIndex(row) ==
  [cols |-> IF row.plain THEN row.cols ELSE <<>>, unique |-> row.unique, pred |-> row.pred,
   opaque |-> ~row.plain]

\* The text of CREATE TABLE is read for named UNIQUE and CHECK constraints.
SqliteConstraint(row) ==
  [form |-> row.form, cols |-> row.cols, formula |-> row.formula, expr |-> row.expr,
   opaque |-> FALSE]

SqliteDefinition(db, k) ==
  CASE k.kind = "table"       -> [pk |-> db[k].pk]
    [] k.kind = "column"      -> SqliteColumn(db, k)
    [] k.kind = "foreign_key" -> SqliteForeignKey(db[k])
    [] k.kind = "index"       -> SqliteIndex(db[k])
    [] k.kind = "constraint"  -> SqliteConstraint(db[k])
    [] k.kind = "trigger"     -> SqliteTrigger(db[k])
    [] k.kind = "view"        -> [body |-> db[k].body, opaque |-> FALSE]

\* The name of a foreign key is not in the pragma: it is made up.
SqliteKey(db, k) ==
  LET named == [k EXCEPT !.schema = None]
  IN  IF k.kind = "foreign_key"
      THEN [named EXCEPT !.name = SynthFkName(k.table, db[k].cols)] ELSE named

InspectSqlite(db) ==
  LET listed == {k \in DOMAIN db : /\ ~OnTracking(db, k)
                                   /\ k.kind = "trigger" => SqliteTriggerListed(db[k])}
  IN  [o \in {SqliteKey(db, k) : k \in listed} |->
         SqliteDefinition(db, CHOOSE k \in listed : SqliteKey(db, k) = o)]

-----------------------------------------------------------------------------
(* MySQL and MariaDB: information_schema of the selected database.         *)

SqlString(ts) == IF ts = <<"x">> THEN <<"'x'">> ELSE <<"'">> \o ts \o <<"'">>

\* Catalog defaults become SQL again.  Only MySQL marks an expression.
DecodedDefault(d, type, ts) ==
  CASE ts = None -> None
    [] d = "mariadb" /\ ts = <<"null">> -> None
    [] d = "mariadb" /\ ts[1] \in Quoted -> ts
    [] d = "mysql" /\ Len(ts) > 1 -> ts
    [] ts[1] \in Temporals -> ts
    [] type \in {"int", "int(11)", "bigint"} -> ts
    [] OTHER -> SqlString(ts)

\* MariaDB's JSON is LONGTEXT with a check of the column's name.
JsonAlias(d, db, c) ==
  LET check == [c EXCEPT !.kind = "constraint"]
  IN  /\ d = "mariadb" /\ c.kind = "column" /\ check \in DOMAIN db
      /\ db[check].form = "check" /\ db[check].expr = JsonValid(c.name)
      /\ db[c].type = "longtext" /\ db[c].charset = "utf8mb4"

FamilyColumn(d, db, k) ==
  LET row == db[k]
      pk  == db[OwnerKey(k)].pk
  IN  [type |-> IF JsonAlias(d, db, k) THEN "json" ELSE row.type,
       nullable |-> ~row.notnull /\ ~(pk # None /\ k.name \in Range(pk.cols)),
       dflt |-> DecodedDefault(d, row.type, row.dflt), gen |-> row.gen,
       charset |-> row.charset, comment |-> IF row.comment = "" THEN None ELSE row.comment]

FamilyForeignKey(row) ==
  [row EXCEPT !.to = <<None, row.to[2]>>, !.del = IF @ = "no action" THEN None ELSE @]

FamilyIndex(row) ==
  IF row.plain THEN [cols |-> row.cols, unique |-> row.unique, pred |-> None, opaque |-> FALSE]
  ELSE [cols |-> <<>>, unique |-> FALSE, pred |-> None, opaque |-> TRUE]

FamilyConstraint(row) ==
  [form |-> row.form, cols |-> row.cols, formula |-> row.formula,
   expr |-> IF row.form = "check" THEN row.expr ELSE None, opaque |-> FALSE]

\* Views, triggers and functions come back as their SHOW CREATE text.
FamilyDefinition(d, db, k) ==
  CASE k.kind = "table"       -> [pk |-> db[k].pk]
    [] k.kind = "column"      -> FamilyColumn(d, db, k)
    [] k.kind = "foreign_key" -> FamilyForeignKey(db[k])
    [] k.kind = "index"       -> FamilyIndex(db[k])
    [] k.kind = "constraint"  -> FamilyConstraint(db[k])
    [] k.kind = "trigger"     -> [events |-> <<>>, fn |-> None, when |-> None,
                                  query |-> None, opaque |-> TRUE]
    [] k.kind \in {"view", "function"} -> [db[k] EXCEPT !.opaque = TRUE]

\* Only what is in the selected database is read; of a foreign key, the name of the
\* table it refers to, not the database of that table.
FamilyListed(d, db, k) ==
  /\ k.schema = Home(d)
  /\ ~OnTracking(db, k)
  /\ k.kind = "constraint" =>
       ~([k EXCEPT !.kind = "column"] \in DOMAIN db
         /\ JsonAlias(d, db, [k EXCEPT !.kind = "column"]))

InspectFamily(d, db) ==
  LET listed == {k \in DOMAIN db : FamilyListed(d, db, k)}
  IN  [o \in {[k EXCEPT !.schema = None] : k \in listed} |->
         FamilyDefinition(d, db, AbsoluteKey(d, o))]

Inspect(d, db, schemas) ==
  CASE d = "postgres" -> InspectPostgres(db, schemas)
    [] d = "sqlite"   -> InspectSqlite(db)
    [] OTHER          -> InspectFamily(d, db)

=============================================================================
