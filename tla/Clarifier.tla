----------------------------- MODULE Clarifier -----------------------------
(***************************************************************************)
(* The clarifier (clarifier/analyze.rs, resolve.rs, ids.rs): the questions *)
(* a list of operations raises, and the operations that the answers leave. *)
(*                                                                         *)
(* A question is identified by what it asks (rename, not null, type cast,  *)
(* accept), the entity it is about and, for an enum value, the value; its  *)
(* choices are the answers the code accepts, names for the candidates of a *)
(* rename.  Decisions are a function from the identities that have been    *)
(* answered to the answer.                                                 *)
(***************************************************************************)
EXTENDS SchemaDiff

CONSTANT Family   \* the conversion family of a type

Compatible(a, b) == Family[a] = Family[b]

Question(ask, key, of, choices) ==
  [id |-> [ask |-> ask, key |-> key, of |-> of], choices |-> choices]

Made(ops, kind) == {o \in Range(ops) : o.act = "create" /\ o.key.kind = kind}
Gone(ops, kind) == {o \in Range(ops) : o.act = "drop" /\ o.key.kind = kind}

-----------------------------------------------------------------------------
(* What is asked (all_clarifications_raw).                                 *)

\* A dropped column may be any added column of the same table it converts to.
ColumnCandidates(ops, o) ==
  {a.key.name : a \in {x \in Made(ops, "column") :
     x.key.table = o.key.table /\ x.key.name # o.key.name /\ Compatible(o.old.type, x.new.type)}}

\* A dropped table may be a created one that has a counterpart for more than
\* half of the columns of the smaller of the two.
ColumnKeys(o) == {k \in DOMAIN o.sub : k.kind = "column"}
AlikeTables(o, n) ==
  LET matched == {k \in ColumnKeys(o) : \E x \in ColumnKeys(n) : Compatible(o.sub[k].type, n.sub[x].type)}
      fewer   == IF Cardinality(ColumnKeys(o)) <= Cardinality(ColumnKeys(n))
                 THEN Cardinality(ColumnKeys(o)) ELSE Cardinality(ColumnKeys(n))
  IN  2 * Cardinality(matched) > fewer

TableCandidates(ops, o) ==
  {Bare[n.key.name] : n \in {x \in Made(ops, "table") :
     Bare[x.key.name] # Bare[o.key.name] /\ AlikeTables(o, x)}}

\* A value of a recreated enum may have become an added one when nothing but
\* additions remain after that.
ValueCandidates(old, new, value) ==
  {v \in Range(new) \ Range(old) : IsSubsequence(ReplaceFirst(old, value, v), new)}

RenameQuestions(ops) ==
  {Question("rename", o.key, None, ColumnCandidates(ops, o) \cup {"no"}) :
     o \in {x \in Gone(ops, "column") : ColumnCandidates(ops, x) # {}}}
  \cup
  {Question("rename", TableKey(Bare[o.key.name]), None, TableCandidates(ops, o) \cup {"no"}) :
     o \in {x \in Gone(ops, "table") : TableCandidates(ops, x) # {}}}
  \cup
  UNION {UNION {{Question("rename", o.key, v, ValueCandidates(o.old.values, n.new.values, v) \cup {"no"}) :
                   v \in {x \in Range(o.old.values) \ Range(n.new.values) :
                            ValueCandidates(o.old.values, n.new.values, x) # {}}} :
                n \in {x \in Made(ops, "enum") : x.key = o.key}} :
         o \in Gone(ops, "enum")}

RiskQuestions(ops) ==
  {Question("add not null", o.key, None, {"default", "nullable", "manual"}) :
     o \in {x \in Made(ops, "column") : ~x.new.nullable /\ x.new.dflt = None /\ ~x.new.pk}}
  \cup
  {Question("set not null", o.key, None, {"default", "nullable", "manual"}) :
     o \in {x \in Range(ops) : /\ x.act = "alter" /\ x.key.kind = "column"
                               /\ x.old.nullable /\ ~x.new.nullable}}
  \cup
  {Question("cast", o.key, None, {"using", "implicit"}) :
     o \in {x \in Range(ops) : x.act = "alter" /\ x.key.kind = "column" /\ x.old.type # x.new.type}}

\* Options the model of a table does not hold, and rows to delete.
AcceptQuestions(ops) ==
  {Question("accept", o.key, None, {"accept"}) :
     o \in {x \in Range(ops) : \/ x.act = "acknowledge"
                               \/ x.act = "create" /\ x.key.kind = "table" /\ x.new.opts # None
                               \/ x.act = "drop" /\ x.key.kind = "row"}}

Questions(ops) == RenameQuestions(ops) \cup RiskQuestions(ops) \cup AcceptQuestions(ops)

-----------------------------------------------------------------------------
(* Which answers are taken (validate_decisions, pending_clarifications).   *)

NoDecisions == [id \in {} |-> None]

\* The name a rename was answered with, None when there is none.
RenamedTo(decisions, key, of) ==
  LET id == [ask |-> "rename", key |-> key, of |-> of]
  IN  IF id \in DOMAIN decisions /\ decisions[id] # "no" THEN decisions[id] ELSE None

\* Renames of one scope (the columns of a table, the tables, the values of an
\* enum) may not share a target.
Scope(id) == IF id.key.kind = "enum" THEN id.key ELSE [id.key EXCEPT !.name = None]
Renames(decisions) == {id \in DOMAIN decisions : id.ask = "rename" /\ decisions[id] # "no"}
Conflicting(decisions) ==
  \E i, j \in Renames(decisions) : i # j /\ Scope(i) = Scope(j) /\ decisions[i] = decisions[j]

ValidDecisions(ops, decisions) ==
  \A id \in DOMAIN decisions : \E q \in Questions(ops) : q.id = id /\ decisions[id] \in q.choices

\* What is left to ask: a claimed target is no candidate any more, a rename
\* without candidates is not asked.
Unclaimed(q, decisions) ==
  IF q.id.ask # "rename" THEN q
  ELSE [q EXCEPT !.choices = @ \ {decisions[i] : i \in {x \in Renames(decisions) : Scope(x) = Scope(q.id)}}]

Pending(ops, decisions) ==
  {q \in {Unclaimed(x, decisions) : x \in {y \in Questions(ops) : y.id \notin DOMAIN decisions}} :
     q.choices # {"no"}}

-----------------------------------------------------------------------------
(* What the answers leave (apply_decisions).                               *)

Answer(decisions, ask, key) ==
  LET id == [ask |-> ask, key |-> key, of |-> None]
  IN  IF id \in DOMAIN decisions THEN decisions[id] ELSE None

RenameTarget(decisions, key) ==
  \E id \in Renames(decisions) : id.key.kind = key.kind /\ id.key.table = key.table /\ decisions[id] = key.name

\* Slip: a default is taken for leave to stay nullable.
NullableAnswer_Default(decisions, ask, key, column) ==
  IF Answer(decisions, ask, key) \in {"nullable", "default"} THEN [column EXCEPT !.nullable = TRUE] ELSE column

NullableAnswer(decisions, ask, key, column) ==
  IF Answer(decisions, ask, key) = "nullable" THEN [column EXCEPT !.nullable = TRUE] ELSE column

\* An enum with renamed values: one rename each, then what is left to add.
ValuesRenamed(decisions, op) ==
  [i \in DOMAIN op.old.values |->
     LET to == RenamedTo(decisions, op.key, op.old.values[i])
     IN  IF to = None THEN op.old.values[i] ELSE to]

ValueRenames(op, renamed) ==
  LET changed == Selected([i \in DOMAIN renamed |-> i], {i \in DOMAIN renamed : renamed[i] # op.old.values[i]})
  IN  [n \in DOMAIN changed |-> Op("rename_value", op.key, op.old.values[changed[n]], renamed[changed[n]])]

EnumRewritten(op, renamed, wanted) ==
  IF renamed = op.old.values THEN <<op>>
  ELSE ValueRenames(op, renamed)
       \o (IF renamed = wanted.values THEN <<>>
           ELSE <<Alter(op.key, [op.old EXCEPT !.values = renamed], wanted)>>)

EnumApplied(ops, decisions, op) ==
  EnumRewritten(op, ValuesRenamed(decisions, op), (CHOOSE n \in Made(ops, "enum") : n.key = op.key).new)

\* An altered column: NULLs are filled first when a default was given, and the
\* cast is the one that was answered.
ColumnApplied(decisions, op) ==
  LET fill == IF op.old.nullable /\ ~op.new.nullable /\ Answer(decisions, "set not null", op.key) = "default"
              THEN <<Statement("fill", None)>> ELSE <<>>
      cast == CASE Answer(decisions, "cast", op.key) = "using"    -> "using"
                [] Answer(decisions, "cast", op.key) = "implicit" -> None
                [] OTHER                                          -> op.cast
  IN  fill \o <<[op EXCEPT !.new = IF op.old.nullable THEN NullableAnswer(decisions, "set not null", op.key, @) ELSE @,
                           !.cast = IF op.old.type # op.new.type THEN cast ELSE @]>>

\* A row's expected old values follow the renames of its table's columns.
RowApplied(decisions, op) ==
  LET to(c) == RenamedTo(decisions, Key("column", op.key.table, c), None)
      name(c) == IF to(c) = None THEN c ELSE to(c)
      old == [n \in {name(c) : c \in DOMAIN op.old.vals} |->
                op.old.vals[CHOOSE c \in DOMAIN op.old.vals : name(c) = n]]
  IN  IF old = op.new.vals THEN <<>> ELSE <<[op EXCEPT !.old = [@ EXCEPT !.vals = old]]>>

Applied(ops, decisions, i) ==
  LET op == ops[i]
      bare == IF op.key.kind = "table" THEN TableKey(Bare[op.key.name]) ELSE op.key
      to == RenamedTo(decisions, bare, None)
      added == NullableAnswer(decisions, "add not null", op.key, op.new)
  IN
  CASE op.act = "drop" /\ op.key.kind \in {"column", "table"} ->
         IF to = None THEN <<op>> ELSE <<Op("rename", bare, None, to)>>
    [] op.act = "create" /\ op.key.kind \in {"column", "table"} /\ RenameTarget(decisions, bare) -> <<>>
    [] op.act = "create" /\ op.key.kind = "column" /\ ~RenameTarget(decisions, bare) ->
         <<[op EXCEPT !.new = IF Answer(decisions, "add not null", op.key) = "default"
                              THEN [added EXCEPT !.dflt = "answered"] ELSE added]>>
    \* the rows of a renamed table move with it
    [] op.act = "create" /\ op.key.kind = "row" /\ RenameTarget(decisions, OwnerKey(op.key)) -> <<>>
    [] op.act = "alter" /\ op.key.kind = "row"    -> RowApplied(decisions, op)
    [] op.act = "alter" /\ op.key.kind = "column" -> ColumnApplied(decisions, op)
    [] op.act = "drop" /\ op.key.kind = "enum"    -> EnumApplied(ops, decisions, op)
    [] op.act = "create" /\ op.key.kind = "enum" /\
         (\E j \in 1 .. i - 1 : ops[j].act = "drop" /\ ops[j].key = op.key
                                /\ ValuesRenamed(decisions, ops[j]) # ops[j].old.values) -> <<>>
    [] OTHER -> <<op>>

ApplyDecisions(ops, decisions) == FlattenSeq([i \in DOMAIN ops |-> Applied(ops, decisions, i)])

\* ClarifyPlan::process.
Process(ops, decisions) ==
  LET outcome(kind, ask, left) == [kind |-> kind, ask |-> ask, ops |-> left]
  IN  IF ~ValidDecisions(ops, decisions) THEN outcome("unknown answer", {}, <<>>)
      ELSE IF Conflicting(decisions) THEN outcome("conflict", {}, <<>>)
      ELSE IF Pending(ops, decisions) # {} THEN outcome("needs input", Pending(ops, decisions), <<>>)
      ELSE outcome("resolved", {}, ApplyDecisions(ops, decisions))
=============================================================================
