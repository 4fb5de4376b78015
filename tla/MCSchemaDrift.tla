---------------------------- MODULE MCSchemaDrift ----------------------------
(***************************************************************************)
(* Projects for TLC: one or two tables and a few objects per dialect, each *)
(* property of the registries declared in at least one of them, with what  *)
(* somebody may add, overwrite or drop.                                    *)
(***************************************************************************)
EXTENDS SchemaDrift

MCNames == <<"a", "audit", "b", "billing", "c", "cnt", "d", "e", "fn", "g", "ix", "j",
             "main", "public", "t", "t_chk", "t_pkey", "t_uq", "tracking", "trg", "trg2",
             "u", "u_a_fkey", "u_own", "u_pkey", "v", "x">>

TableDef(name, cols) == [pk |-> [name |-> name, cols |-> cols]]
Field(type)    == [type |-> type, nullable |-> TRUE, dflt |-> None, gen |-> None,
                   charset |-> None, comment |-> None]
Needed(type)   == [Field(type) EXCEPT !.nullable = FALSE]
Draws(type, x) == [Field(type) EXCEPT !.dflt = x]
Computed(type, x) == [Field(type) EXCEPT !.gen = x]
RefersTo(cols, to, tocols, del) == [cols |-> cols, to |-> to, tocols |-> tocols, del |-> del]
IndexOn(cols)  == [cols |-> cols, unique |-> FALSE, pred |-> None, opaque |-> FALSE]
UniqueOn(cols) == [form |-> "unique", cols |-> cols, expr |-> None, formula |-> None,
                   opaque |-> FALSE]
CheckOf(f)     == [form |-> "check", cols |-> <<>>, expr |-> Authored(f), formula |-> f,
                   opaque |-> FALSE]
ViewOf(body)   == [body |-> body, opaque |-> FALSE]   \* of the table of that name, if any
TriggerOn(events, fn) == [events |-> events, fn |-> fn, when |-> None, query |-> None,
                          opaque |-> FALSE]

Of(kind, table, name)     == Key(kind, None, table, name)
Root(kind, name)          == Key(kind, None, None, name)
Id(table)                 == Of("column", table, "a") :> Needed("integer")
Table(name)               == Root("table", name) :> TableDef(name \o "_pkey", <<"a">>)
Put(d, k, def)            == Stored(d, k, def)
Home1(d, kind, table, name) == AbsoluteKey(d, Of(kind, table, name))

\* Something gaman does not manage: a table with a column.
Audit(d) == Put(d, Root("table", "audit"), [pk |-> None]) @@ Put(d, Of("column", "audit", "a"), Field("integer"))
History(d) == Home1(d, "table", None, "tracking") :> [pk |-> None, tracking |-> TRUE]

-----------------------------------------------------------------------------
(* Tables, in every dialect: t, and u which refers to t.                   *)

Comparison == Bin("and", Bin("or", Above("b", "0"), Col("c")), Above("b", "1"))
Doubled    == Bin("and", Col("c"), Above("b", "1"))    \* another meaning
Grouped    == Bin("or", Above("b", "0"), Bin("and", Col("c"), Above("b", "1")))
Ranged     == Bin("and", Within("b", "a", "c"), Col("c"))
XorFirst   == Bin("and", Bin("xor", Col("a"), Col("b")), Col("c"))
XorLast    == Bin("xor", Col("a"), Bin("and", Col("b"), Col("c")))

Pair(text, number) ==
  Table("t") @@ Id("t") @@ Table("u") @@ Id("u")
    @@ (Of("column", "t", "b") :> Draws(number, <<"-1">>))
    @@ (Of("column", "t", "c") :> Draws(text, <<"'x'">>))
    @@ (Of("column", "u", "b") :> Field("integer"))
    @@ (Of("index", "t", "ix") :> IndexOn(<<"b", "c">>))
    @@ (Of("constraint", "t", "t_uq") :> UniqueOn(<<"b">>))
    @@ (Of("foreign_key", "u", "u_a_fkey") :> RefersTo(<<"a">>, <<None, "t">>, <<"a">>, None))

\* What everybody does to tables, each in one dialect or more.
Meddling(d, s) ==
  LET t(kind, name) == Of(kind, "t", name)
      b == s[t("column", "b")]
      fk == Of("foreign_key", "u", "u_a_fkey")
  IN  {Put(d, t("column", "b"), [b EXCEPT !.dflt = None]),
       Put(d, t("column", "b"), [b EXCEPT !.nullable = FALSE]),
       Put(d, t("column", "x"), Field("integer")),
       Put(d, t("index", "ix"), IndexOn(<<"c">>)),
       Put(d, t("constraint", "t_uq"), UniqueOn(<<"c">>)),
       Put(d, fk, [s[fk] EXCEPT !.del = "cascade"]),
       Put(d, fk, [s[fk] EXCEPT !.cols = <<"b">>]),
       Put(d, Root("table", "u"), TableDef("x", <<"a">>)),
       Put(d, Root("table", "u"), [pk |-> None]),
       Audit(d) @@ History(d)}
Losses(d, s) ==
  {AbsoluteKey(d, k) : k \in {Root("table", "t"), Root("table", "u"), Of("column", "t", "b"),
                              Of("index", "t", "ix"), Of("constraint", "t", "t_uq")}}

Project(d, schemas, declared, puts, drops) ==
  [dialect |-> d, schemas |-> schemas, declared |-> declared, puts |-> puts, drops |-> drops]

-----------------------------------------------------------------------------
(* PostgreSQL.                                                             *)

PgTables ==
  LET s == Pair("varchar", "numeric")
             @@ (Of("column", "t", "d") :> Computed("text", <<"lower", "(", "c", ")">>))
             @@ (Of("column", "u", "c") :> Field("varchar"))
             @@ (Of("column", "u", "d") :> Field("numeric"))
             @@ (Of("column", "u", "e") :> Needed("serial"))
             @@ (Of("constraint", "t", "t_chk") :> CheckOf(Grouped))
             @@ (Of("index", "u", "ix") :> [IndexOn(<<"a">>) EXCEPT !.pred = Authored(Above("a", "0"))])
      check(f) == Put("postgres", Of("constraint", "t", "t_chk"), CheckOf(f))
  IN  Project("postgres", <<"public">>, s,
        Meddling("postgres", s)
          \cup {check(Comparison), check(Doubled),
                Put("postgres", Of("index", "t", "ix"), [IndexOn(<<>>) EXCEPT !.opaque = TRUE]),
                Put("postgres", Of("column", "t", "d"), Field("text")),
                Put("postgres", Of("column", "u", "c"), Field("numeric")),
                Put("postgres", Of("column", "u", "d"), Field("text")),
                Put("postgres", Of("column", "u", "e"), Needed("integer")),
                Put("postgres", Of("column", "u", "e"), Draws("bigint", <<"5">>))},
        Losses("postgres", s) \cup {Key("constraint", "public", "t", "t_chk")})

PgObjects ==
  LET fn(body, vol) == [volatility |-> vol, body |-> body, opaque |-> FALSE]
      s == Table("t") @@ Id("t")
             @@ (Of("column", "t", "b") :> Field("e"))
             @@ (Root("function", "fn") :> fn("f1", "volatile"))
             @@ (Root("view", "v") :> ViewOf("v1"))
             @@ (Root("enum", "e") :> [values |-> <<"on", "off">>])
             @@ (Root("enum", "g") :> [values |-> <<"on", "off">>])
             @@ (Root("extension", "x") :> [version |-> None])
             @@ (Of("trigger", "t", "trg") :> TriggerOn(<<"insert", "delete">>, <<None, "fn">>))
             @@ (Of("trigger", "t", "trg2") :>
                   [TriggerOn(<<"update">>, <<None, "fn">>) EXCEPT !.opaque = TRUE])
      put(k, def) == Put("postgres", k, def)
  IN  Project("postgres", <<"public">>, s,
        {put(Root("function", "fn"), fn("f2", "stable")),
         put(Root("view", "v"), ViewOf("v2")),
         put(Root("enum", "g"), [values |-> <<"off", "on", "idle">>]),
         put(Root("enum", "g"), [values |-> <<"on">>]),
         put(Root("extension", "x"), [version |-> "1"]),
         put(Of("trigger", "t", "trg"), TriggerOn(<<"insert">>, <<None, "fn">>)),
         put(Root("sequence", "cnt"), [raw |-> "s"]),
         put(Of("index", "t", "ix"), IndexOn(<<"a">>))},
        {AbsoluteKey("postgres", k) :
           k \in {Root("function", "fn"), Root("view", "v"), Root("extension", "x"),
                  Root("enum", "g"), Of("trigger", "t", "trg"), Of("trigger", "t", "trg2")}})

\* What PostgreSQL gives back in other words than it was declared in.
PgSpelled ==
  LET s == Table("t") @@ Id("t")
             @@ (Of("column", "t", "b") :> Field("numeric"))
             @@ (Of("column", "t", "c") :> Field("numeric"))
             @@ (Of("column", "t", "d") :> Computed("numeric", <<"a", "+", "1">>))
             @@ (Of("constraint", "t", "t_chk") :> CheckOf(Within("b", "a", "c")))
             @@ (Of("index", "t", "ix") :> [IndexOn(<<"a">>) EXCEPT !.pred = Authored(Above("b", "0"))])
             @@ (Root("function", "fn") :> [volatility |-> "volatile", body |-> "f1", opaque |-> FALSE])
             @@ (Of("trigger", "t", "trg") :> TriggerOn(<<"delete", "insert">>, <<None, "fn">>))
             @@ (Of("trigger", "t", "trg2") :>
                   [TriggerOn(<<"insert">>, None) EXCEPT !.query = "q"])
      put(k, def) == Put("postgres", k, def)
  IN  Project("postgres", <<"public">>, s,
        {put(Of("column", "t", "d"), Field("numeric")),
         put(Of("index", "t", "ix"), IndexOn(<<"a">>)),
         put(Of("constraint", "t", "t_chk"), CheckOf(Above("b", "1"))),
         put(Of("trigger", "t", "trg"), TriggerOn(<<"insert">>, <<None, "fn">>)),
         put(Of("column", "t", "x"), Field("integer"))},
        {AbsoluteKey("postgres", k) :
           k \in {Of("constraint", "t", "t_chk"), Of("trigger", "t", "trg2"),
                  Root("function", OwnFunction(Of("trigger", "t", "trg2")))}})

PgSchemas ==
  LET in(k) == [k EXCEPT !.schema = "billing"]
      s == Table("t") @@ Id("t")
             @@ (in(Root("table", "u")) :> TableDef("u_pkey", <<"a">>))
             @@ (in(Of("column", "u", "a")) :> Needed("integer"))
             @@ (in(Of("foreign_key", "u", "u_a_fkey")) :>
                   RefersTo(<<"a">>, <<None, "t">>, <<"a">>, "cascade"))
             @@ (in(Of("index", "u", "ix")) :> IndexOn(<<"a">>))
      fk == in(Of("foreign_key", "u", "u_a_fkey"))
      put(k, def) == Put("postgres", k, def)
  IN  {Project("postgres", schemas, s,
         {put(in(Of("column", "u", "a")), Needed("bigint")),
          put(Of("column", "t", "a"), Needed("bigint")),
          put(fk, [s[fk] EXCEPT !.del = None]),
          put(in(Of("index", "u", "ix")), [IndexOn(<<"a">>) EXCEPT !.unique = TRUE]),
          put(in(Root("table", "v")), TableDef("v_pkey", <<"a">>))},
         {AbsoluteKey("postgres", k) : k \in {Root("table", "t"), in(Root("table", "u")), fk}})
       : schemas \in {<<"public", "billing">>}}

-----------------------------------------------------------------------------
(* SQLite, MySQL and MariaDB.                                              *)

SqliteTables ==
  LET s == Pair("text", "integer")
             @@ (Of("constraint", "t", "t_chk") :> CheckOf(Grouped))
             @@ (Of("trigger", "t", "trg") :>
                   [TriggerOn(<<"insert">>, None) EXCEPT !.query = "q"])
             @@ (Root("view", "v") :> ViewOf("t"))
  IN  Project("sqlite", <<>>, s,
        Meddling("sqlite", s)
          \cup {Put("sqlite", Of("constraint", "t", "t_chk"), CheckOf(Doubled)),
                Put("sqlite", Of("column", "t", "c"), Draws("varchar", <<"'x'">>))},
        Losses("sqlite", s)
          \cup {Key("view", "main", None, "v"), Key("trigger", "main", "t", "trg")})

\* Tables that nothing else refers to, so that they may be built anew; u refers to
\* itself, by a name SQLite does not give back.
SqliteAlone ==
  LET s == Table("t") @@ Id("t") @@ Table("u") @@ Id("u")
             @@ (Of("column", "t", "b") :> Draws("integer", <<"-1">>))
             @@ (Of("column", "t", "c") :> Field("text"))
             @@ (Of("column", "t", "d") :> Computed("text", <<"lower", "(", "c", ")">>))
             @@ (Of("constraint", "t", "t_chk") :> CheckOf(Grouped))
             @@ (Of("index", "t", "ix") :> IndexOn(<<"b">>))
             @@ (Of("column", "u", "b") :> Field("integer"))
             @@ (Of("foreign_key", "u", "u_own") :> RefersTo(<<"b">>, <<None, "u">>, <<"a">>, None))
      t(kind, name) == Of(kind, "t", name)
      put(k, def)   == Put("sqlite", k, def)
  IN  Project("sqlite", <<>>, s,
        {put(t("column", "a"), Needed("text")),
         put(t("column", "b"), Draws("text", <<"-1">>)),
         put(t("column", "b"), Draws("bigint", <<"5">>)),
         put(t("column", "c"), Needed("text")),
         put(t("column", "x"), Field("integer")),
         put(t("index", "g"), IndexOn(<<"b">>)),
         put(t("trigger", "trg"), [TriggerOn(<<"insert">>, None) EXCEPT !.query = "q"]),
         put(t("constraint", "t_chk"), CheckOf(Doubled)),
         put(Root("table", "t"), TableDef("x", <<"a">>)),
         put(Root("view", "x"), ViewOf("t"))},
        {AbsoluteKey("sqlite", k) :
           k \in {t("column", "b"), t("column", "d"), t("constraint", "t_chk"), t("index", "ix")}})

\* A trigger on the update of some columns is kept as its text.
SqliteOdd ==
  LET s == Table("t") @@ Id("t")
             @@ (Of("column", "t", "b") :> Draws("integer", <<"5">>))
             @@ (Of("trigger", "t", "trg") :>
                   [TriggerOn(<<"update of">>, None) EXCEPT !.query = "q", !.opaque = TRUE])
  IN  Project("sqlite", <<>>, s,
        {Put("sqlite", Of("column", "t", "b"), Field("integer")),
         Put("sqlite", Of("column", "t", "x"), Field("integer"))},
        {AbsoluteKey("sqlite", Of("trigger", "t", "trg")), AbsoluteKey("sqlite", Of("column", "t", "b"))})

FamilyTables(d) ==
  LET s == Pair("varchar", "integer")
             @@ (Of("column", "t", "d") :> [Field("text") EXCEPT !.charset = "latin1", !.comment = "note"])
             @@ (Of("column", "u", "c") :> Field("integer"))
             @@ (Of("column", "u", "d") :> Draws("datetime", <<"current_timestamp">>))
             @@ (Of("column", "u", "j") :> Field(IF d = "mariadb" THEN "json" ELSE "text"))
             @@ (Of("constraint", "t", "t_chk") :> CheckOf(Ranged))
             @@ (Of("constraint", "u", "t_chk") :>
                   CheckOf(Bin("and", LengthOf("a"), Bin("or", Col("b"), Col("c")))))
      check(t, f) == Put(d, Of("constraint", t, "t_chk"), CheckOf(f))
      c == s[Of("column", "t", "c")]
      dd == s[Of("column", "t", "d")]
      fk == Of("foreign_key", "u", "u_a_fkey")
  IN  Project(d, <<>>, s,
        Meddling(d, s)
          \cup {check("t", Bin("or", Within("b", "a", "c"), Col("c"))),
                check("u", Bin("or", Bin("and", LengthOf("a"), Col("b")), Col("c"))),
                Put(d, Of("column", "t", "b"), Draws("varchar", <<"'x'">>)),
                Put(d, Of("column", "t", "c"), Field("integer")),
                Put(d, Of("column", "t", "c"), [c EXCEPT !.charset = "latin1"]),
                Put(d, Of("column", "t", "c"), [c EXCEPT !.comment = "other"]),
                Put(d, Of("column", "t", "d"), [dd EXCEPT !.charset = "ascii"]),
                Put(d, Of("column", "t", "d"), [dd EXCEPT !.comment = "other"]),
                Put(d, Of("column", "u", "j"), Draws("varchar", <<"'x'">>)),
                Put(d, fk, [s[fk] EXCEPT !.del = "restrict"]),
                Put(d, fk, [s[fk] EXCEPT !.to = <<"billing", "t">>])
                  @@ Put(d, Key("table", "billing", None, "t"), TableDef("t_pkey", <<"a">>))
                  @@ Put(d, Key("column", "billing", "t", "a"), Needed("integer"))},
        Losses(d, s) \cup {Key("constraint", "main", "u", "t_chk")})

\* Checks with XOR.
FamilyXor(d) ==
  LET s == Table("t") @@ Id("t")
             @@ (Of("column", "t", "b") :> Field("integer"))
             @@ (Of("column", "t", "c") :> Field("integer"))
             @@ (Of("constraint", "t", "g") :> CheckOf(XorFirst))
             @@ (Of("constraint", "t", "t_chk") :> CheckOf(XorLast))
      check(name, f) == Put(d, Of("constraint", "t", name), CheckOf(f))
  IN  Project(d, <<>>, s,
        {check("g", XorLast), check("t_chk", XorFirst), check("t_chk", Ranged),
         Put(d, Of("column", "t", "b"), Needed("integer"))},
        {Key("constraint", "main", "t", "g")})

\* A call as a default.
FamilyCall(d) ==
  LET e == Of("column", "t", "e")
      s == Table("t") @@ Id("t") @@ (e :> Draws("varchar", <<"upper", "(", "'x'", ")">>))
  IN  Project(d, <<>>, s, {Put(d, e, Field("varchar")), Put(d, e, Needed("varchar"))},
              {AbsoluteKey(d, e)})

MCProjects ==
  {PgTables, PgObjects, PgSpelled, SqliteTables, SqliteAlone, SqliteOdd}
    \cup PgSchemas \cup UNION {{FamilyTables(d), FamilyXor(d), FamilyCall(d)} : d \in MysqlFamily}

=============================================================================
