-------------------------- MODULE CatalogExpressions --------------------------
(***************************************************************************)
(* Expressions of checks, defaults and generated columns as sequences of   *)
(* tokens, the way gaman-core/src/drift compares them with the text a      *)
(* database server gives back.                                             *)
(*                                                                         *)
(* The comparisons see tokens only.  What an expression means is kept      *)
(* beside them as a formula, so that an answer of a comparison can be      *)
(* judged: a formula is                                                    *)
(*   [op |-> "col", x]  a test of x that every server gives back as it is, *)
(*   [op |-> "length", x], [op |-> "above", x, n] (x > n),                 *)
(*   [op |-> "between", x, lo, hi], or [op, l, r] for "and", "or", "xor"   *)
(* over columns that hold 0 or 1.  A chain of one operator, which servers  *)
(* flatten, is not among the formulas used.                                *)
(***************************************************************************)
EXTENDS Naturals, Sequences, FiniteSets, SequencesExt

CONSTANT None   \* the absent value

ExprColumns == {"a", "b", "c"}
Digits      == {"0", "1", "5"}
Col(x)        == [op |-> "col", x |-> x]
Above(x, n)   == [op |-> "above", x |-> x, n |-> n]
LengthOf(x)   == [op |-> "length", x |-> x]
Within(x, lo, hi) == [op |-> "between", x |-> x, lo |-> lo, hi |-> hi]
Bin(op, f, g) == [op |-> op, l |-> f, r |-> g]

RECURSIVE Holds(_, _)
Holds(f, v) ==
  CASE f.op \in {"col", "length"} -> v[f.x] = 1
    [] f.op = "above"   -> v[f.x] > (IF f.n = "0" THEN 0 ELSE 1)
    [] f.op = "between" -> v[f.lo] <= v[f.x] /\ v[f.x] <= v[f.hi]
    [] f.op = "and"     -> Holds(f.l, v) /\ Holds(f.r, v)
    [] f.op = "or"      -> Holds(f.l, v) \/ Holds(f.r, v)
    [] f.op = "xor"     -> Holds(f.l, v) # Holds(f.r, v)

SameFormula(f, g) == \A v \in [ExprColumns -> {0, 1}] : Holds(f, v) <=> Holds(g, v)

Strength(f) ==
  CASE f.op = "or" -> 1 [] f.op = "xor" -> 2 [] f.op = "and" -> 3 [] OTHER -> 4

Paren(ts) == <<"(">> \o ts \o <<")">>

\* How a formula is written: an author and a pretty-printing server set only
\* the parentheses the operators' strength asks for; a grouping server sets
\* them around every operator; casts says that numbers come back with a cast and
\* BETWEEN as two comparisons, length how the LENGTH function is called.
RECURSIVE Written(_, _)
Written(f, style) ==
  LET Part(g, weaker) == IF style.grouped \/ ~weaker THEN Written(g, style)
                         ELSE Paren(Written(g, style))
      Whole(ts)       == IF style.grouped THEN Paren(ts) ELSE ts
      number          == IF style.casts THEN <<f.n, "::", "numeric">> ELSE <<f.n>>
  IN  CASE f.op = "col"     -> <<f.x>>
        [] f.op = "length"  -> <<style.length, "(", f.x, ")">>
        [] f.op = "above"   -> Whole(<<f.x, ">">> \o number)
        [] f.op = "between" ->
             IF style.casts THEN <<f.x, ">=", f.lo, "and", f.x, "<=", f.hi>>
             ELSE Whole(<<f.x, "between", f.lo, "and", f.hi>>)
        [] OTHER ->
             Whole(Part(f.l, Strength(f.l) < Strength(f)) \o <<f.op>>
                     \o Part(f.r, Strength(f.r) <= Strength(f)))

\* A part of a formula.
RECURSIVE Parts(_)
Parts(f) == {f} \cup (IF f.op \in {"and", "or", "xor"} THEN Parts(f.l) \cup Parts(f.r) ELSE {})
HasBetween(f) == \E g \in Parts(f) : g.op = "between"
\* `a xor b and c`, and what stands in an XOR without parentheses of its own.
XorOverAnd(f) == \E g \in Parts(f) : g.op = "xor" /\ "and" \in {g.l.op, g.r.op}
XorOverOperators(f) ==
  \E g \in Parts(f) : g.op = "xor" /\ {g.l.op, g.r.op} \cap {"and", "above", "between"} # {}

AuthorStyle == [grouped |-> FALSE, casts |-> FALSE, length |-> "length"]
Authored(f) == Written(f, AuthorStyle)

-----------------------------------------------------------------------------
(* MySQL and MariaDB (drift/mysql_family.rs).                              *)

Temporals == {"current_timestamp", "current_date"}

\* Whether the sequence is one group: its first parenthesis closes at its end.
WrapsExpression(ts) ==
  LET DepthAfter(i) == Cardinality({j \in 1..i : ts[j] = "("})
                       - Cardinality({j \in 1..i : ts[j] = ")"})
  IN  /\ Len(ts) >= 2 /\ Head(ts) = "(" /\ Last(ts) = ")"
      /\ \A i \in 1..(Len(ts) - 1) : DepthAfter(i) > 0

\* A slip: drops every parenthesis.
StripOuterParentheses_All(ts) == SelectSeq(ts, LAMBDA t : t \notin {"(", ")"})

RECURSIVE StripOuterParentheses(_)
StripOuterParentheses(ts) ==
  IF WrapsExpression(ts) THEN StripOuterParentheses(SubSeq(ts, 2, Len(ts) - 1)) ELSE ts

\* A slip: takes the AND of a BETWEEN for an operator.
SplitLogical_NoBetween(ts, operator) ==
  LET Read(st, t) ==
        CASE t = "(" -> [st EXCEPT !.depth = @ + 1, !.part = Append(@, t)]
          [] t = ")" -> [st EXCEPT !.depth = @ - 1, !.part = Append(@, t)]
          [] t = operator /\ st.depth = 0 ->
               [st EXCEPT !.done = Append(@, st.part), !.part = <<>>]
          [] OTHER -> [st EXCEPT !.part = Append(@, t)]
      end == FoldLeft(Read, [depth |-> 0, part |-> <<>>, done |-> <<>>], ts)
  IN  Append(end.done, end.part)

\* The parts between the top-level occurrences of operator.  The AND of a
\* BETWEEN is no operator; nothing is known of XOR.
SplitLogical(ts, operator) ==
  LET Read(st, t) ==
        CASE t = "(" -> [st EXCEPT !.depth = @ + 1, !.part = Append(@, t)]
          [] t = ")" -> [st EXCEPT !.depth = @ - 1, !.part = Append(@, t)]
          [] t = "between" /\ st.depth = 0 ->
               [st EXCEPT !.between = TRUE, !.part = Append(@, t)]
          [] t = "and" /\ st.depth = 0 /\ st.between ->
               [st EXCEPT !.between = FALSE, !.part = Append(@, t)]
          [] t = operator /\ st.depth = 0 ->
               [st EXCEPT !.done = Append(@, st.part), !.part = <<>>]
          [] OTHER -> [st EXCEPT !.part = Append(@, t)]
      end == FoldLeft(Read, [depth |-> 0, between |-> FALSE, part |-> <<>>, done |-> <<>>], ts)
  IN  Append(end.done, end.part)

RECURSIVE CanonicalExpression(_)
CanonicalExpression(ts) ==
  LET inner == StripOuterParentheses(ts)
      ors   == SplitLogical(inner, "or")
      ands  == SplitLogical(inner, "and")
      Each(parts) == [i \in DOMAIN parts |-> CanonicalExpression(parts[i])]
  IN  IF Len(ors) > 1 THEN <<"or", Each(ors)>>
      ELSE IF Len(ands) > 1 THEN <<"and", Each(ands)>>
      ELSE <<"tokens", inner>>

\* `current_timestamp ()` is `current_timestamp`.
RECURSIVE NormalizeEmptyTemporalCalls(_)
NormalizeEmptyTemporalCalls(ts) ==
  IF ts = <<>> THEN <<>>
  ELSE LET call == /\ Head(ts) \in Temporals /\ Len(ts) >= 3
                   /\ ts[2] = "(" /\ ts[3] = ")"
       IN  <<Head(ts)>> \o NormalizeEmptyTemporalCalls(
             SubSeq(ts, IF call THEN 4 ELSE 2, Len(ts)))

FamilyTokens(dialect, ts) ==
  NormalizeEmptyTemporalCalls(
    [i \in DOMAIN ts |-> IF dialect = "mariadb" /\ ts[i] = "length"
                         THEN "octet_length" ELSE ts[i]])

ExpressionsEqual(dialect, s, t) ==
  \/ s = t
  \/ CanonicalExpression(FamilyTokens(dialect, s))
       = CanonicalExpression(FamilyTokens(dialect, t))

-----------------------------------------------------------------------------
(* PostgreSQL (drift/postgres.rs).                                         *)

NumericTypes == {"numeric", "integer", "bigint"}
TextTypes    == {"text", "varchar"}
NumberIn(t)  == CASE t = "'5'" -> "5" [] t = "'-1'" -> "-1" [] OTHER -> None
Quoted       == {"'x'", "'y'", "'5'", "'-1'"}

\* A cast is dropped after a number only.
RECURSIVE CheckExpressionTokens(_)
CheckExpressionTokens(ts) ==
  IF ts = <<>> THEN <<>>
  ELSE LET cast == /\ Head(ts) \in Digits /\ Len(ts) >= 3
                   /\ ts[2] = "::" /\ ts[3] \in NumericTypes
       IN  <<Head(ts)>> \o CheckExpressionTokens(SubSeq(ts, IF cast THEN 4 ELSE 2, Len(ts)))

\* `(a)::text` is `a` in a generated expression.
RECURSIVE GeneratedExpressionTokens(_)
GeneratedExpressionTokens(ts) ==
  IF ts = <<>> THEN <<>>
  ELSE LET cast == /\ Len(ts) >= 5 /\ ts[1] = "(" /\ ts[2] \in ExprColumns
                   /\ ts[3] = ")" /\ ts[4] = "::" /\ ts[5] = "text"
       IN  <<IF cast THEN ts[2] ELSE Head(ts)>>
             \o GeneratedExpressionTokens(SubSeq(ts, IF cast THEN 6 ELSE 2, Len(ts)))

\* As long as the text starts and ends with a parenthesis, both are dropped.
RECURSIVE StripWrappingParens(_)
StripWrappingParens(ts) ==
  IF Len(ts) >= 2 /\ Head(ts) = "(" /\ Last(ts) = ")"
  THEN StripWrappingParens(SubSeq(ts, 2, Len(ts) - 1)) ELSE ts

CanonicalDefault(ts) ==
  IF ts = None THEN None
  ELSE LET v    == StripWrappingParens(ts)
           cast == Len(v) = 3 /\ v[1] \in Quoted /\ v[2] = "::"
       IN  IF cast /\ v[3] \in NumericTypes /\ NumberIn(v[1]) # None THEN <<NumberIn(v[1])>>
           ELSE IF cast /\ v[3] \in TextTypes THEN <<v[1]>>
           ELSE IF v = <<"TRUE">> THEN <<"true">> ELSE v

=============================================================================
