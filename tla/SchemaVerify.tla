----------------------------- MODULE SchemaVerify -----------------------------
(***************************************************************************)
(* Drift verification (gaman-core/src/drift): the schema that the          *)
(* committed migrations replay to is compared with the schema read from    *)
(* the live database, entity by entity, on the properties the registry of  *)
(* the dialect lists.  The report is a set of findings and a sequence of   *)
(* repair operations in the order of the walk.                             *)
(*                                                                         *)
(* Names is the sequence of all names in alphabetical order: the code      *)
(* walks sorted maps.                                                      *)
(***************************************************************************)
EXTENDS LiveCatalog

CONSTANT Names

-----------------------------------------------------------------------------
(* Which entities take part, and under which schema.                       *)

Canonical(d, schema) == IF d = "postgres" /\ schema = "public" THEN None ELSE schema

Requested(d, schema, schemas) ==
  {i \in DOMAIN schemas : Canonical(d, schemas[i]) = Canonical(d, schema)}
InScope(d, schema, schemas) ==
  schema = None \/ schemas = <<>> \/ Requested(d, schema, schemas) # {}
\* An entity of the first requested schema is compared as an unqualified one.
ScopedSchema(d, schema, schemas) ==
  IF schema = None \/ schemas = <<>> THEN Canonical(d, schema)
  ELSE IF 1 \in Requested(d, schema, schemas) THEN None ELSE Canonical(d, schema)

ScopedName(schemas, name) ==
  IF schemas # <<>> /\ name # None /\ name[1] = schemas[1] THEN <<None, name[2]>> ELSE name
ScopedDef(schemas, k, def) ==
  CASE k.kind = "foreign_key" -> [def EXCEPT !.to = ScopedName(schemas, @)]
    [] k.kind = "trigger"     -> [def EXCEPT !.fn = ScopedName(schemas, @)]
    [] OTHER                  -> def

Scope(d, s, schemas) ==
  LET kept   == {k \in DOMAIN s : InScope(d, k.schema, schemas)}
      Out(k) == [k EXCEPT !.schema = ScopedSchema(d, @, schemas)]
  IN  [o \in {Out(k) : k \in kept} |->
         LET k == CHOOSE x \in kept : Out(x) = o IN ScopedDef(schemas, k, s[k])]

-----------------------------------------------------------------------------
(* Validation of a whole schema: what every foreign key of it needs, and   *)
(* what the dialect has.  The inspected schema must pass it too, before    *)
(* anything is compared.                                                   *)

TablesNamed(s, name) == {k \in OfKind(s, "table") : k.name = name}
\* A reference that is no table's full name may be the bare name of one table.
TableByReference(s, to) ==
  LET exact == Key("table", to[1], None, to[2])
  IN  IF exact \in DOMAIN s THEN {exact}
      ELSE IF to[1] = None /\ Cardinality(TablesNamed(s, to[2])) = 1
           THEN TablesNamed(s, to[2]) ELSE {}

HasUniqueKey(s, t, cols) ==
  \/ s[t].pk # None /\ s[t].pk.cols = cols
  \/ \E k \in Children(s, t) :
       \/ k.kind = "constraint" /\ s[k].form = "unique" /\ s[k].cols = cols
       \/ k.kind = "index" /\ s[k].unique /\ s[k].pred = None /\ s[k].cols = cols

ColumnsExist(s, t, cols) ==
  \A c \in Range(cols) : Key("column", t.schema, t.name, c) \in DOMAIN s

ReferencesValid(s) ==
  \A k \in OfKind(s, "foreign_key") :
    /\ ColumnsExist(s, OwnerKey(k), s[k].cols)
    /\ \E t \in TableByReference(s, s[k].to) :
         ColumnsExist(s, t, s[k].tocols) /\ HasUniqueKey(s, t, s[k].tocols)

\* What a dialect refuses of a schema.  SQLite knows no schemas and only tables
\* and views, its triggers carry their query.
SqliteTriggerValid(def) == def.fn = None /\ "truncate" \notin Range(def.events)
SqliteValid(s) ==
  /\ \A k \in DOMAIN s : k.kind \notin {"extension", "enum", "function"} /\ k.schema = None
  /\ \A k \in OfKind(s, "trigger") : SqliteTriggerValid(s[k])

\* In the MySQL family a key over an unbounded type needs a prefix length,
\* which the definitions of keys do not have; opaque indexes may.
NeedsIndexPrefix(type) == type = "text"
KeyColumnsBounded(s, t, cols) ==
  \A c \in Range(cols) : Key("column", t.schema, t.name, c) \in DOMAIN s
                         => ~NeedsIndexPrefix(s[Key("column", t.schema, t.name, c)].type)
ForeignKeyBounded(s, k) ==
  /\ KeyColumnsBounded(s, OwnerKey(k), s[k].cols)
  /\ \A t \in TableByReference(s, s[k].to) : KeyColumnsBounded(s, t, s[k].tocols)
ModeledKeysValid(s) ==
  /\ \A t \in OfKind(s, "table") : s[t].pk # None => KeyColumnsBounded(s, t, s[t].pk.cols)
  /\ \A k \in OfKind(s, "index") : s[k].opaque \/ KeyColumnsBounded(s, OwnerKey(k), s[k].cols)
  /\ \A k \in OfKind(s, "constraint") :
       s[k].form = "unique" => KeyColumnsBounded(s, OwnerKey(k), s[k].cols)
  /\ \A k \in OfKind(s, "foreign_key") : ForeignKeyBounded(s, k)
FamilyValid(s) ==
  /\ \A k \in DOMAIN s : k.kind \notin {"extension", "enum"}
  /\ \A k \in OfKind(s, "foreign_key") : s[k].del # "set default"
  /\ \A k \in OfKind(s, "index") : s[k].pred = None \/ s[k].opaque
  /\ ModeledKeysValid(s)

Valid(d, s) ==
  /\ ReferencesValid(s)
  /\ CASE d = "postgres"      -> TRUE
       [] d = "sqlite"        -> SqliteValid(s)
       [] d \in MysqlFamily   -> FamilyValid(s)

-----------------------------------------------------------------------------
(* The registries: the properties each dialect compares, named after the   *)
(* fields of the definitions they look at.  The properties whose comparers *)
(* are plain equality and whose values the definitions here do not carry   *)
(* (timing, scope, language, ...) are left out.                            *)

KeyFields == {"cols", "to", "tocols", "del"}

PostgresRegistry ==
  [table       |-> {},
   column      |-> {"type", "nullable", "dflt", "gen"},
   primary_key |-> {"name", "cols"},
   foreign_key |-> KeyFields,
   index       |-> {"cols", "unique", "pred"},
   constraint  |-> {"form", "definition"},
   trigger     |-> {"events", "fn"},
   function    |-> {"volatility"},
   view        |-> {},
   enum        |-> {"values"},
   extension   |-> {"version"},
   sequence    |-> {}]

SqliteRegistry ==
  [table       |-> {},
   column      |-> {"type", "nullable", "dflt", "gen"},
   primary_key |-> {"cols"},
   foreign_key |-> KeyFields,
   index       |-> {"cols", "unique", "pred"},
   constraint  |-> {"definition"},
   trigger     |-> {"events"},
   view        |-> {}]

\* MySQL and MariaDB list the same properties; the comparers differ.
MysqlRegistry ==
  [table       |-> {},
   column      |-> {"type", "nullable", "dflt", "gen", "charset", "comment"},
   primary_key |-> {"cols"},
   foreign_key |-> KeyFields,
   index       |-> {"cols", "unique"},
   constraint  |-> {"definition"},
   trigger     |-> {},
   function    |-> {},
   view        |-> {}]
MariadbRegistry == MysqlRegistry

Registry(d) ==
  CASE d = "postgres" -> PostgresRegistry
    [] d = "sqlite"   -> SqliteRegistry
    [] d = "mysql"    -> MysqlRegistry
    [] d = "mariadb"  -> MariadbRegistry

-----------------------------------------------------------------------------
(* The comparers: e is expected, o observed.                               *)

Exact(p, e, o) == e[p] = o[p]

\* Neither of two absent expressions is compared; one alone differs.
OptionalExpression(e, o, same) == IF e = None \/ o = None THEN e = o ELSE same

\* PostgreSQL.  A serial may come back as the plain integer it is made of.
SerialTypeMatches(e, o) == e = "serial" /\ o = "integer"

PgSameColumn(p, e, o) ==
  CASE p = "type" -> e.type = o.type \/ SerialTypeMatches(e.type, o.type)
    [] p = "dflt" -> CanonicalDefault(e.dflt) = CanonicalDefault(o.dflt)
    [] p = "gen"  -> OptionalExpression(e.gen, o.gen,
                       GeneratedExpressionTokens(e.gen) = GeneratedExpressionTokens(o.gen))
    [] OTHER      -> Exact(p, e, o)

PgSameCheck(s, t) == CheckExpressionTokens(s) = CheckExpressionTokens(t)

\* A constraint of another kind is found under the property for it.
PgSameConstraint(p, e, o) ==
  CASE p = "form" -> e.form = o.form
    [] e.form # o.form \/ e.form = "opaque" -> TRUE
    [] e.form = "unique" -> e.cols = o.cols
    [] e.form = "check"  -> PgSameCheck(e.expr, o.expr)

PgSameExtension(e, o) == e.version \in {None, o.version}

PostgresSame(kind, p, e, o) ==
  CASE kind = "column"     -> PgSameColumn(p, e, o)
    [] kind = "constraint" -> PgSameConstraint(p, e, o)
    [] kind = "extension"  -> PgSameExtension(e, o)
    [] OTHER               -> Exact(p, e, o)

\* SQLite.  Types are compared by affinity, expressions as they were written.
SqliteSameConstraint(e, o) ==
  /\ e.form = o.form
  /\ e.form = "unique" => e.cols = o.cols
  /\ e.form = "check" => e.expr = o.expr

SqliteSame(kind, p, e, o) ==
  CASE p = "type"          -> Affinity(e.type) = Affinity(o.type)
    [] kind = "constraint" -> SqliteSameConstraint(e, o)
    [] OTHER               -> Exact(p, e, o)

\* The MySQL family.
TypeComparisonKey(type) ==
  CASE type \in {"integer", "int(11)"} -> "int"
    [] type = "boolean"                -> "tinyint"
    [] OTHER                           -> type

EffectiveForeignKeyAction(a) == IF a = "restrict" THEN None ELSE a

FamilySameConstraint(d, e, o) ==
  /\ e.form = o.form
  /\ e.form = "unique" => e.cols = o.cols
  /\ e.form = "check" => ExpressionsEqual(d, e.expr, o.expr)

\* An undeclared character set accepts any, an undeclared comment only none.
FamilySameColumn(d, p, e, o) ==
  CASE p = "type"    -> TypeComparisonKey(e.type) = TypeComparisonKey(o.type)
    [] p \in {"dflt", "gen"} ->
         OptionalExpression(e[p], o[p], ExpressionsEqual(d, e[p], o[p]))
    [] p = "charset" -> e.charset \in {None, o.charset}
    [] p = "comment" -> e.comment = o.comment \/ {e.comment, o.comment} \subseteq {None, ""}
    [] OTHER         -> Exact(p, e, o)

FamilySame(d, kind, p, e, o) ==
  CASE kind = "column"     -> FamilySameColumn(d, p, e, o)
    [] kind = "constraint" -> FamilySameConstraint(d, e, o)
    [] p = "del"           -> EffectiveForeignKeyAction(e.del) = EffectiveForeignKeyAction(o.del)
    [] OTHER               -> Exact(p, e, o)

\* A generated column of MariaDB has no nullability of its own.
MariadbSame(kind, p, e, o) ==
  \/ kind = "column" /\ p = "nullable" /\ e.gen # None /\ o.gen # None
  \/ FamilySame("mariadb", kind, p, e, o)

Same(d, kind, p, e, o) ==
  CASE d = "postgres" -> PostgresSame(kind, p, e, o)
    [] d = "sqlite"   -> SqliteSame(kind, p, e, o)
    [] d = "mysql"    -> FamilySame(d, kind, p, e, o)
    [] d = "mariadb"  -> MariadbSame(kind, p, e, o)

IsOpaque(k, def) ==
  k.kind \in {"constraint", "index", "trigger", "function", "view"} /\ def.opaque

-----------------------------------------------------------------------------
(* The findings.                                                           *)

Missing(k)    == [key |-> k, property |-> "presence"]
Differs(k, p) == [key |-> k, property |-> p]

\* Children of a missing table are not looked at.
Looked(e, o) == {k \in DOMAIN e : k.table # None => OwnerKey(k) \in DOMAIN o}

\* A declared primary key is compared with the table; a missing one has no
\* operation, neither has another one.
PrimaryKeyFindings(d, k, e, o) ==
  IF e.pk = None THEN {}
  ELSE IF o.pk = None THEN {Differs(k, "primary_key")}
  ELSE IF \A p \in Registry(d).primary_key : Same(d, "primary_key", p, e.pk, o.pk)
       THEN {} ELSE {Differs(k, "primary_key")}

DifferingProperties(d, kind, e, o) == {p \in Registry(d)[kind] : ~Same(d, kind, p, e, o)}

FindingsOn(d, k, e, o) ==
  IF k \notin DOMAIN o THEN {Missing(k)}
  ELSE IF k.kind = "table" THEN PrimaryKeyFindings(d, k, e[k], o[k])
  ELSE IF IsOpaque(k, e[k]) THEN {}
  ELSE {Differs(k, p) : p \in DifferingProperties(d, k.kind, e[k], o[k])}

Findings(d, e, o) == UNION {FindingsOn(d, k, e, o) : k \in Looked(e, o)}

=============================================================================
