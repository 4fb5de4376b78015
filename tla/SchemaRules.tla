---------------------------- MODULE SchemaRules ----------------------------
(***************************************************************************)
(* What a schema must satisfy before it is compared or replayed further    *)
(* (states/validate.rs, managed_rows/validation.rs): the references        *)
(* between its entities.                                                   *)
(***************************************************************************)
EXTENDS SchemaOps

CONSTANT Bare   \* the name of a table without its database schema

Columns(s, t) == {k.name : k \in {x \in DOMAIN s : x.kind = "column" /\ x.table = t}}

\* A table is found by its own name or, when only one has it, by its bare name.
Referenced(s, name) ==
  IF name \in Tables(s) THEN {name}
  ELSE LET found == {t \in Tables(s) : Bare[t] = name}
       IN  IF Cardinality(found) = 1 THEN found ELSE {}

\* A foreign key may point at the primary key, a UNIQUE constraint or a unique index.
UniqueKeys(s, t) ==
  {k \in Children(s, t) : k.kind = "constraint" \/ (k.kind = "index" /\ s[k].unique)}
IsKeyColumn(s, t, c) ==
  \/ s[TableKey(t)].pk.cols = {c}
  \/ \E k \in UniqueKeys(s, t) : s[k].col = c

ValidChild(s, k) ==
  CASE k.kind \in {"index", "constraint"} -> s[k].col \in Columns(s, k.table) \cup {None}
    [] k.kind = "foreign_key" ->
         /\ s[k].col \in Columns(s, k.table)
         /\ \E t \in Referenced(s, s[k].to) :
              s[k].tocol \in Columns(s, t) /\ IsKeyColumn(s, t, s[k].tocol)
    [] OTHER -> TRUE

\* The primary key names columns of the table, none of them nullable, and agrees
\* with the flags of the columns.
ValidPrimaryKey(s, t) ==
  LET cols == {k \in Children(s, t) : k.kind = "column"}
      flagged == {k.name : k \in {x \in cols : s[x].pk}}
      pk == s[TableKey(t)].pk.cols
  IN  /\ pk \subseteq Columns(s, t)
      /\ \A k \in cols : k.name \in pk => ~s[k].nullable
      /\ pk # {} /\ flagged # {} => flagged = pk

\* A managed row names columns of its table, all of those that must have a value.
ValidRow(s, k) ==
  /\ OwnerKey(k) \in DOMAIN s
  /\ DOMAIN s[k].vals \subseteq Columns(s, k.table)
  /\ \A c \in {x \in Children(s, k.table) : x.kind = "column"} :
       ~s[c].nullable /\ s[c].dflt = None => c.name \in DOMAIN s[k].vals

\* The rows of one table have one shape.
SameShape(s) ==
  \A j, k \in {x \in DOMAIN s : x.kind = "row"} :
     j.table = k.table => DOMAIN s[j].vals = DOMAIN s[k].vals

\* A dependency a function declares exists, and no function depends on itself
\* through others.
Resolves(s, d) == Key(d.kind, None, d.name) \in DOMAIN s
ValidFunction(s, k) == \A d \in s[k].deps : Resolves(s, d)
FunctionsAcyclic(s) ==
  \A F \in SUBSET {k \in DOMAIN s : k.kind = "function"} :
    F # {} => \E f \in F : \A g \in F : Dep("function", g.name) \notin s[f].deps

Valid(s) ==
  /\ \A k \in DOMAIN s : k.kind \in ChildKinds => ValidChild(s, k)
  /\ \A t \in Tables(s) : ValidPrimaryKey(s, t)
  /\ \A k \in DOMAIN s : k.kind = "row" => ValidRow(s, k)
  /\ \A k \in DOMAIN s : k.kind = "function" => ValidFunction(s, k)
  /\ FunctionsAcyclic(s)
  /\ SameShape(s)
=============================================================================
