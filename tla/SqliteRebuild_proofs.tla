------------------------ MODULE SqliteRebuild_proofs ------------------------
(***************************************************************************)
(* That the SQL rendered for a migration on SQLite (sql_plan.rs), table    *)
(* rebuilds included, turns the schema it was rendered for into the one    *)
(* that replay (states/replay.rs) computes, for every schema and migration.*)
(***************************************************************************)
EXTENDS SqliteRebuild, SchemaOps_proofs, GraphOps_proofs

-----------------------------------------------------------------------------
(* The four loops, as folds of one operator.                               *)

AddedTo(groups, op) ==
  IF groups # <<>> /\ SameRebuild(Last(Last(groups)), op)
  THEN [groups EXCEPT ![Len(groups)] = Append(@, op)]
  ELSE Append(groups, <<op>>)

Stepped(r, step) ==
  IF ~r.ok \/ Fails(r.db, step) THEN [r EXCEPT !.ok = FALSE]
  ELSE [ok |-> TRUE, db |-> After(r.db, step), acted |-> r.acted \/ Acts(r.db, step)]

Taken(loop, atomic, acc, x) ==
  IF loop = "groups" THEN AddedTo(acc, x)
  ELSE IF loop = "render" THEN WithGroup(acc, x, atomic)
  ELSE IF loop = "inplace" THEN InPlace(acc, x)
  ELSE Stepped(acc, x)

Loop(it, loop, atomic, base, seq, s) ==
  IF s = {} THEN base ELSE Taken(loop, atomic, it[s \ {Max(s)}], seq[Max(s)])

IsLoop(it, loop, atomic, base, seq, n) ==
  it = [s \in SUBSET (1 .. n) |-> Loop(it, loop, atomic, base, seq, s)]

LoopSteps(acc, loop, atomic, base, seq, n) ==
  acc[0] = base /\ \A i \in 1 .. n : acc[i] = Taken(loop, atomic, acc[i - 1], seq[i])

\* What a fold recurses over exists.
LEMMA LoopDefined ==
  ASSUME NEW loop, NEW atomic, NEW base, NEW seq, NEW n \in Nat
  PROVE  \E it : IsLoop(it, loop, atomic, base, seq, n)
<1> DEFINE D == SUBSET (1 .. n)
           Body(f, s) == Loop(f, loop, atomic, base, seq, s)
           Good(j) == \E f : \A s \in D : Cardinality(s) <= j => f[s] = Body(f, s)
           T == {j \in Nat : Good(j)}
<1>0. ASSUME NEW s \in D
      PROVE  /\ Cardinality(s) \in 0 .. n
             /\ Cardinality(s) <= 0 => s = {}
             /\ s # {} => /\ s \ {Max(s)} \in D
                          /\ Cardinality(s \ {Max(s)}) = Cardinality(s) - 1
  <2>1. s \in SUBSET (1 .. n)
    OBVIOUS
  <2>2. IsFiniteSet(s) => (Cardinality(s) = 0 <=> s = {})
    BY FS_EmptySet
  <2>3. /\ IsFiniteSet(s) /\ Cardinality(s) \in 0 .. n
        /\ s # {} => /\ s \ {Max(s)} \in SUBSET (1 .. n)
                     /\ Cardinality(s \ {Max(s)}) = Cardinality(s) - 1
    BY ONLY <2>1, n \in Nat, PositionsInductively
  <2> QED BY <2>2, <2>3
<1>1. 0 \in T
  <2> DEFINE f == [s \in D |-> base]
  <2>1. ASSUME NEW s \in D, Cardinality(s) <= 0 PROVE f[s] = Body(f, s)
    <3>1. s = {}
      BY <1>0, <2>1
    <3> QED BY <3>1 DEF Loop
  <2> QED BY <2>1
<1>2. ASSUME NEW j \in Nat, j \in T PROVE j + 1 \in T
  <2> PICK f : \A s \in D : Cardinality(s) <= j => f[s] = Body(f, s)
    BY <1>2
  <2> DEFINE next == [s \in D |-> Body(f, s)]
  <2>1. ASSUME NEW s \in D, Cardinality(s) <= j + 1 PROVE next[s] = Body(next, s)
    <3>1. CASE s = {}
      BY <3>1 DEF Loop
    <3>2. CASE s # {}
      <4> DEFINE r == s \ {Max(s)}
      <4>1. r \in D /\ Cardinality(r) <= j
        BY <1>0, <2>1, <3>2
      <4>2. next[r] = f[r]
        BY <4>1
      <4> QED BY <3>2, <4>2 DEF Loop
    <3> QED BY <3>1, <3>2
  <2> HIDE DEF next
  <2> QED BY <2>1
<1> HIDE DEF T
<1>3. n \in T
  BY <1>1, <1>2, NatInduct
<1>4. PICK f0 : \A s \in D : Cardinality(s) <= n => f0[s] = Body(f0, s)
  BY <1>3 DEF T
<1> DEFINE it == [s \in D |-> f0[s]]
<1>5. ASSUME NEW s \in D PROVE it[s] = Body(it, s)
  <2>1. f0[s] = Body(f0, s)
    <3>1. Cardinality(s) \in 0 .. n
      BY <1>0, Zenon
    <3>2. Cardinality(s) <= n
      BY ONLY <3>1, n \in Nat
    <3> QED BY <1>4, <3>2, Zenon
  <2>2. CASE s = {}
    BY <2>1, <2>2 DEF Loop
  <2>3. CASE s # {}
    <3>1. s \ {Max(s)} \in D
      BY <1>0, <2>3
    <3> QED BY <2>1, <2>3, <3>1 DEF Loop
  <2> QED BY <2>2, <2>3
<1>6. it = [s \in D |-> it[s]]
  OBVIOUS
<1> HIDE DEF it
<1>7. it = [s \in D |-> Body(it, s)]
  BY <1>5, <1>6
<1> QED BY <1>7 DEF IsLoop

\* A fold goes through its sequence in order.
LEMMA LoopTrace ==
  ASSUME NEW loop, NEW atomic, NEW base, NEW seq, NEW n \in Nat, NEW it,
         IsLoop(it, loop, atomic, base, seq, n)
  PROVE  \E acc : LoopSteps(acc, loop, atomic, base, seq, n) /\ it[1 .. n] = acc[n]
<1> DEFINE D   == SUBSET (1 .. n)
           acc == [i \in 0 .. n |-> it[1 .. i]]
<1>0. it = [s \in D |-> Loop(it, loop, atomic, base, seq, s)]
  BY DEF IsLoop
<1>1. acc[0] = base
  <2>1. 1 .. 0 = {}
    OBVIOUS
  <2>2. it[{}] = base
    BY <1>0 DEF Loop
  <2> QED BY <2>1, <2>2
<1>2. ASSUME NEW i \in 1 .. n PROVE acc[i] = Taken(loop, atomic, acc[i - 1], seq[i])
  <2>1. 1 .. i \in D /\ 1 .. (i - 1) \in D /\ i \in 1 .. i /\ i - 1 \in 0 .. n /\ i \in 0 .. n
    <3>1. i \in Nat /\ i <= n /\ 1 <= i
      OBVIOUS
    <3>2. 1 .. i \subseteq 1 .. n /\ 1 .. (i - 1) \subseteq 1 .. n
      BY <3>1
    <3> QED BY <3>1, <3>2
  <2>2. Max(1 .. i) = i /\ (1 .. i) \ {i} = 1 .. (i - 1)
    BY PrefixMax
  <2>3. 1 .. i # {}
    BY <2>1
  <2>4. it[1 .. i] = Taken(loop, atomic, it[1 .. (i - 1)], seq[i])
    BY <1>0, <2>1, <2>2, <2>3 DEF Loop
  <2> QED BY <2>1, <2>4
<1>3. it[1 .. n] = acc[n]
  OBVIOUS
<1> HIDE DEF acc
<1> QED BY <1>1, <1>2, <1>3 DEF LoopSteps

\* Groups, operation by operation.
LEMMA GroupsTrace ==
  ASSUME NEW ops, NEW n \in Nat, DOMAIN ops = 1 .. n
  PROVE  \E acc : /\ acc[0] = <<>> /\ \A i \in 1 .. n : acc[i] = AddedTo(acc[i - 1], ops[i])
                  /\ Groups(ops) = acc[n]
<1> DEFINE D == SUBSET (1 .. n)
           Body(f, s) == IF s = {} THEN <<>> ELSE AddedTo(f[s \ {Max(s)}], ops[Max(s)])
           it == CHOOSE f : f = [s \in D |-> Body(f, s)]
<1>1. Groups(ops) = it[1 .. n]
  <2>1. Groups(ops) = (CHOOSE f : f = [s \in SUBSET DOMAIN ops |-> Body(f, s)])[DOMAIN ops]
    BY DEF Groups, FoldLeft, MapThenFoldSet, AddedTo
  <2> QED BY <2>1
<1>2. \A f, s : Loop(f, "groups", None, <<>>, ops, s) = Body(f, s)
  BY DEF Loop, Taken
<1>3. PICK f : IsLoop(f, "groups", None, <<>>, ops, n)
  BY LoopDefined
<1>4. f = [s \in D |-> Body(f, s)]
  BY <1>2, <1>3 DEF IsLoop
<1>5. it = [s \in D |-> Body(it, s)]
  BY <1>4
<1> HIDE DEF it
<1>6. IsLoop(it, "groups", None, <<>>, ops, n)
  BY <1>2, <1>5 DEF IsLoop
<1>7. PICK acc : LoopSteps(acc, "groups", None, <<>>, ops, n) /\ it[1 .. n] = acc[n]
  BY <1>6, LoopTrace
<1>8. acc[0] = <<>> /\ \A i \in 1 .. n : acc[i] = AddedTo(acc[i - 1], ops[i])
  BY <1>7 DEF LoopSteps, Taken
<1> QED BY <1>1, <1>7, <1>8

RenderGroups(s, groups, atomic) ==
  FoldLeft(LAMBDA plan, group : WithGroup(plan, group, atomic), Plan(TRUE, s, <<>>), groups)

\* acc holds the plan after each number of groups.
RenderSteps(acc, s0, groups, atomic) ==
  /\ acc[0] = Plan(TRUE, s0, <<>>)
  /\ \A j \in 1 .. Len(groups) : acc[j] = WithGroup(acc[j - 1], groups[j], atomic)

\* Rendering, group by group.
LEMMA RenderTrace ==
  ASSUME NEW s0, NEW groups, NEW atomic, Len(groups) \in Nat, DOMAIN groups = 1 .. Len(groups)
  PROVE  \E acc : /\ RenderSteps(acc, s0, groups, atomic)
                  /\ RenderGroups(s0, groups, atomic) = acc[Len(groups)]
<1> DEFINE n == Len(groups)
           D == SUBSET (1 .. n)
           base == Plan(TRUE, s0, <<>>)
           Body(f, s) == IF s = {} THEN base ELSE WithGroup(f[s \ {Max(s)}], groups[Max(s)], atomic)
           it == CHOOSE f : f = [s \in D |-> Body(f, s)]
<1>1. RenderGroups(s0, groups, atomic) = it[1 .. n]
  <2>1. RenderGroups(s0, groups, atomic)
          = (CHOOSE f : f = [s \in SUBSET DOMAIN groups |-> Body(f, s)])[DOMAIN groups]
    BY DEF RenderGroups, FoldLeft, MapThenFoldSet
  <2> QED BY <2>1
<1>2. \A f, s : Loop(f, "render", atomic, base, groups, s) = Body(f, s)
  BY DEF Loop, Taken
<1> HIDE DEF base
<1>3. PICK f : IsLoop(f, "render", atomic, base, groups, n)
  BY LoopDefined
<1>4. f = [s \in D |-> Body(f, s)]
  BY <1>2, <1>3 DEF IsLoop
<1>5. it = [s \in D |-> Body(it, s)]
  BY <1>4
<1> HIDE DEF it
<1>6. IsLoop(it, "render", atomic, base, groups, n)
  BY <1>2, <1>5 DEF IsLoop
<1>7. PICK acc : LoopSteps(acc, "render", atomic, base, groups, n) /\ it[1 .. n] = acc[n]
  BY <1>6, LoopTrace
<1>8. acc[0] = base /\ \A i \in 1 .. n : acc[i] = WithGroup(acc[i - 1], groups[i], atomic)
  BY <1>7 DEF LoopSteps, Taken
<1> QED BY <1>1, <1>7, <1>8 DEF base, RenderSteps

\* run holds the state after each number of steps.
ExecuteSteps(run, d, steps, m) ==
  /\ run[0] = [ok |-> TRUE, db |-> d, acted |-> FALSE]
  /\ \A j \in 1 .. m : run[j] = Stepped(run[j - 1], steps[j])

\* Execution, step by step.
LEMMA ExecuteTrace ==
  ASSUME NEW d, NEW steps, NEW n \in Nat, DOMAIN steps = 1 .. n
  PROVE  \E run : ExecuteSteps(run, d, steps, n) /\ Execute(d, steps) = run[n]
<1> DEFINE D == SUBSET (1 .. n)
           base == [ok |-> TRUE, db |-> d, acted |-> FALSE]
           Body(f, s) == IF s = {} THEN base ELSE Stepped(f[s \ {Max(s)}], steps[Max(s)])
           it == CHOOSE f : f = [s \in D |-> Body(f, s)]
<1>1. Execute(d, steps) = it[1 .. n]
  <2>1. Execute(d, steps) = (CHOOSE f : f = [s \in SUBSET DOMAIN steps |-> Body(f, s)])[DOMAIN steps]
    BY DEF Execute, FoldLeft, MapThenFoldSet, Stepped
  <2> QED BY <2>1
<1>2. \A f, s : Loop(f, "execute", None, base, steps, s) = Body(f, s)
  BY DEF Loop, Taken
<1> HIDE DEF base
<1>3. PICK f : IsLoop(f, "execute", None, base, steps, n)
  BY LoopDefined
<1>4. f = [s \in D |-> Body(f, s)]
  BY <1>2, <1>3 DEF IsLoop
<1>5. it = [s \in D |-> Body(it, s)]
  BY <1>4
<1> HIDE DEF it
<1>6. IsLoop(it, "execute", None, base, steps, n)
  BY <1>2, <1>5 DEF IsLoop
<1>7. PICK acc : LoopSteps(acc, "execute", None, base, steps, n) /\ it[1 .. n] = acc[n]
  BY <1>6, LoopTrace
<1>8. acc[0] = base /\ \A i \in 1 .. n : acc[i] = Stepped(acc[i - 1], steps[i])
  BY <1>7 DEF LoopSteps, Taken
<1> QED BY <1>1, <1>7, <1>8 DEF base, ExecuteSteps

-----------------------------------------------------------------------------
(* One rebuild.                                                            *)

IsMap(s)   == s = [k \in DOMAIN s |-> s[k]]
Own(s, t)  == {TableKey(t)} \cup Children(s, t)
Rest(s, t) == Without(s, Own(s, t))

\* What an operation that rebuilds a table changes belongs to that table.
TouchesOnly(s, n, t) ==
  /\ Rest(n, t) = Rest(s, t)
  /\ TableKey(t) \in DOMAIN n
  /\ IsMap(n)
  /\ NoRow(n)

LEMMA RebuildTouchesOne ==
  ASSUME NEW s, NEW op, RebuildsTable(op), Accepts(s, op), NoRow(s)
  PROVE  TouchesOnly(s, Result(s, op), op.key.table)
<1> DEFINE k == op.key
           t == op.key.table
           n == Result(s, op)
<1>1. /\ k.kind \in {"column", "foreign_key", "constraint"}
      /\ op.act \in {"create", "drop", "alter"} /\ (op.act = "alter" => k.kind = "column")
  BY DEF RebuildsTable
<1>2. /\ TableKey(t) \in DOMAIN s /\ TableKey(t) # k
      /\ op.act = "create" => k \notin DOMAIN s
      /\ op.act \in {"drop", "alter"} => k \in DOMAIN s
  <2>1. OwnerExists(s, k)
    BY <1>1 DEF Accepts, AcceptsItem, AcceptsAlter, ChildKinds
  <2>2. TableKey(t) # k
    BY <1>1 DEF TableKey, Key
  <2>3. k.kind \in ChildKinds
    BY <1>1 DEF ChildKinds
  <2>4. op.act \in {"create", "drop"} => (k \in DOMAIN s <=> op.act = "drop")
    BY <1>1, <2>3 DEF Accepts, AcceptsItem
  <2>5. op.act = "alter" => k \in DOMAIN s
    BY DEF Accepts, AcceptsAlter
  <2> QED BY <1>1, <2>1, <2>2, <2>3, <2>4, <2>5 DEF OwnerExists, OwnerKey
<1>3. k.table = t /\ k.kind \in ChildKinds /\ k.kind # "table" /\ k.kind # "row"
  BY <1>1 DEF ChildKinds
<1> HIDE DEF k, t
<1>4. CASE op.act = "create"
  <2>1. n = Put(s, k, op.new)
    BY <1>3, <1>4 DEF Result, ResultCreate, k
  <2> HIDE DEF n
  <2>2. /\ DOMAIN n = DOMAIN s \cup {k} /\ IsMap(n)
        /\ \A x \in DOMAIN s : n[x] = s[x]
    BY <1>2, <1>4, <2>1 DEF Put, IsMap
  <2>3. DOMAIN n \ Own(n, t) = DOMAIN s \ Own(s, t)
    BY <1>3, <2>2 DEF Own, Children
  <2>4. Rest(n, t) = Rest(s, t)
    BY <2>2, <2>3 DEF Rest, Without
  <2> QED BY <1>2, <1>3, <2>2, <2>4 DEF TouchesOnly, NoRow, n, t
<1>5. CASE op.act = "drop"
  <2>1. n = [x \in DOMAIN s \ {k} |-> s[x]]
    <3>1. n = ResultDrop(s, op)
      BY <1>5 DEF Result
    <3>2. \A x \in DOMAIN s : x \notin RowsOf(s, k.table)
      BY DEF NoRow, RowsOf
    <3>3. CASE k.kind = "column"
      BY <1>3, <3>1, <3>2, <3>3 DEF ResultDrop, k
    <3>4. CASE k.kind # "column"
      BY <1>3, <3>1, <3>4 DEF ResultDrop, Without, k
    <3> QED BY <3>3, <3>4
  <2> HIDE DEF n
  <2>2. /\ DOMAIN n = DOMAIN s \ {k} /\ IsMap(n)
        /\ \A x \in DOMAIN n : n[x] = s[x]
    BY <2>1 DEF IsMap
  <2>3. DOMAIN n \ Own(n, t) = DOMAIN s \ Own(s, t)
    BY <1>3, <2>2 DEF Own, Children
  <2>4. Rest(n, t) = Rest(s, t)
    BY <2>2, <2>3 DEF Rest, Without
  <2> QED BY <1>2, <1>3, <2>2, <2>4 DEF TouchesOnly, NoRow, n, t
<1>6. CASE op.act = "alter"
  <2>1. n = [s EXCEPT ![k] = op.new]
    BY <1>6 DEF Result, k
  <2> HIDE DEF n
  <2>2. /\ DOMAIN n = DOMAIN s /\ IsMap(n)
        /\ \A x \in DOMAIN s : x # k => n[x] = s[x]
    BY <2>1 DEF IsMap
  <2>3. DOMAIN n \ Own(n, t) = DOMAIN s \ Own(s, t) /\ k \notin DOMAIN s \ Own(s, t)
    BY <1>3, <2>2 DEF Own, Children
  <2>4. Rest(n, t) = Rest(s, t)
    BY <2>2, <2>3 DEF Rest, Without
  <2> QED BY <1>2, <1>3, <2>2, <2>4 DEF TouchesOnly, NoRow, n, t
<1> QED BY <1>1, <1>4, <1>5, <1>6 DEF k, t

\* Several in a row.
IsRebuildOf(group, t) ==
  /\ Len(group) \in Nat /\ Len(group) >= 1
  /\ \A x \in 1 .. Len(group) : RebuildsTable(group[x]) /\ group[x].key.table = t

LEMMA GroupTouchesOne ==
  ASSUME NEW s, NEW group, NEW t, IsRebuildOf(group, t), NoRow(s), Replay(s, group).ok
  PROVE  TouchesOnly(s, Replay(s, group).schema, t)
<1> DEFINE n == Len(group)
<1>1. n \in Nat /\ n >= 1
  BY DEF IsRebuildOf
<1>2. PICK st : ReplaySteps(st, s, group, n) /\ Replay(s, group) = st[n]
  BY <1>1, ReplayTrace
<1>3. \A i \in 1 .. n : /\ Accepts(st[i - 1].schema, group[i])
                        /\ st[i].schema = Result(st[i - 1].schema, group[i])
  BY <1>1, <1>2, ReplayedAllAlong
<1>4. st[0].schema = s
  BY <1>2, BegunIs DEF ReplaySteps
<1> DEFINE T == {i \in 0 .. n : i = 0 \/ TouchesOnly(s, st[i].schema, t)}
<1>5. 0 \in T
  BY <1>1
<1>6. ASSUME NEW i \in 0 .. n - 1, i \in T PROVE i + 1 \in T
  <2>1. i + 1 \in 1 .. n /\ i + 1 \in 0 .. n /\ (i + 1) - 1 = i
    BY <1>1
  <2>2. NoRow(st[i].schema) /\ Rest(st[i].schema, t) = Rest(s, t)
    BY <1>4, <1>6 DEF TouchesOnly
  <2>3. TouchesOnly(st[i].schema, Result(st[i].schema, group[i + 1]), t)
    BY <1>3, <2>1, <2>2, RebuildTouchesOne DEF IsRebuildOf
  <2>4. st[i + 1].schema = Result(st[i].schema, group[i + 1])
    BY <1>3, <2>1
  <2>5. TouchesOnly(s, st[i + 1].schema, t)
    BY <2>2, <2>3, <2>4 DEF TouchesOnly
  <2> QED BY <2>1, <2>5
<1> HIDE DEF T
<1>7. 0 .. n \subseteq T
  BY <1>1, <1>5, <1>6, UpToInduct
<1>8. n \in T /\ n # 0
  BY <1>1, <1>7
<1> QED BY <1>2, <1>8 DEF T

\* The table is replaced by what replay makes of it, and the rest stays: that is
\* the schema after the whole group.
LEMMA ReplacedIsReplayed ==
  ASSUME NEW s, NEW n, NEW t, TouchesOnly(s, n, t)
  PROVE  Over(Without(s, Own(s, t)), Whole(n, t)) = n
<1> DEFINE made == Over(Without(s, Own(s, t)), Whole(n, t))
<1>1. /\ Without(s, Own(s, t)) = Without(n, Own(n, t))
      /\ TableKey(t) \in DOMAIN n /\ n = [k \in DOMAIN n |-> n[k]]
  BY DEF TouchesOnly, Rest, IsMap
<1>2. DOMAIN Without(n, Own(n, t)) = DOMAIN n \ Own(n, t)
      /\ \A k \in DOMAIN n \ Own(n, t) : Without(n, Own(n, t))[k] = n[k]
  BY DEF Without
<1>3. DOMAIN Whole(n, t) = Own(n, t) /\ \A k \in Own(n, t) : Whole(n, t)[k] = n[k]
  BY DEF Whole, Own
<1>4. Own(n, t) \subseteq DOMAIN n
  BY <1>1 DEF Own, Children
<1>5. made = [k \in DOMAIN n |-> n[k]]
  BY <1>1, <1>2, <1>3, <1>4 DEF Over
<1> QED BY <1>1, <1>5

-----------------------------------------------------------------------------
(* One group, rendered and executed.                                       *)

LEMMA ResultIsMap ==
  ASSUME NEW s, IsMap(s), NEW op
  PROVE  IsMap(Result(s, op))
<1> DEFINE n == Result(s, op)
<1>1. CASE op.act = "create"
  <2>1. n = ResultCreate(s, op)
    BY <1>1 DEF Result
  <2>2. CASE op.key.kind = "table"
    <3> DEFINE made == WithPrimaryKey(op.key.name, op.new, op.sub)
    <3>1. n = Over(Put(s, op.key, made.def), made.sub)
      BY <2>1, <2>2 DEF ResultCreate
    <3> HIDE DEF n, made
    <3> QED BY <3>1 DEF Over, IsMap, n
  <2>3. CASE op.key.kind # "table"
    BY <2>1, <2>3 DEF ResultCreate, Put, IsMap
  <2> QED BY <2>2, <2>3
<1>2. CASE op.act = "drop"
  <2>1. n = ResultDrop(s, op)
    BY <1>2 DEF Result
  <2>2. CASE op.key.kind = "column"
    BY <2>1, <2>2 DEF ResultDrop, IsMap
  <2>3. CASE op.key.kind # "column"
    BY <2>1, <2>3 DEF ResultDrop, Without, IsMap
  <2> QED BY <2>2, <2>3
<1>3. CASE op.act \in {"alter", "acknowledge", "rename_value"}
  <2>1. CASE op.act = "alter"
    BY <2>1 DEF Result, IsMap
  <2>2. CASE op.act = "acknowledge"
    BY <2>2 DEF Result, IsMap
  <2>3. CASE op.act = "rename_value"
    BY <2>3 DEF Result, IsMap
  <2> QED BY <1>3, <2>1, <2>2, <2>3
<1>4. CASE op.act = "rename"
  <2>1. CASE op.key.kind = "table"
    BY <1>4, <2>1 DEF Result, ResultRenameTable, IsMap
  <2>2. CASE op.key.kind # "table"
    BY <1>4, <2>2 DEF Result, ResultRenameColumn, IsMap
  <2> QED BY <2>1, <2>2
<1>5. CASE op.act \notin {"create", "drop", "alter", "acknowledge", "rename", "rename_value"}
  <2>1. n = s
    BY <1>5 DEF Result
  <2> QED BY <2>1
<1> QED BY <1>1, <1>2, <1>3, <1>4, <1>5

LEMMA NothingToRefer ==
  ASSUME NEW n, IsMap(n), NEW op, NoOldName(n, op)
  PROVE  ReferAll(n, op) = n
<1>1. ASSUME NEW k \in DOMAIN n PROVE Refer(k, n[k], op) = n[k]
  BY DEF Refer, NoOldName
<1>2. ReferAll(n, op) = [k \in DOMAIN n |-> n[k]]
  BY <1>1 DEF ReferAll
<1> QED BY <1>2 DEF IsMap

Reached(s, group) == IF RebuildsTable(group[1]) THEN Replay(s, group).schema ELSE Result(s, group[1])

StepOf(s, group) ==
  IF RebuildsTable(group[1])
  THEN LET t == group[1].key.table
           n == Replay(s, group).schema
       IN  Rebuild(t, Whole(n, t), CopyMapping(s, n, t, group))
  ELSE Direct(group[1])

PlanFields == {"ok", "schema", "steps"}

\* A group is refused, or its one step is added.
AddsGroup(plan, next, group) ==
  /\ plan.ok
  /\ next.schema = Reached(plan.schema, group)
  /\ next.steps = Append(plan.steps, StepOf(plan.schema, group))
  /\ RebuildsTable(group[1]) => Replay(plan.schema, group).ok
  /\ ~RebuildsTable(group[1]) => Accepts(plan.schema, group[1])

LEMMA WithGroupIs ==
  ASSUME NEW plan, DOMAIN plan = PlanFields, NEW group, NEW atomic,
         NEW next, next = WithGroup(plan, group, atomic)
  PROVE  DOMAIN next = PlanFields /\ (next.ok => AddsGroup(plan, next, group))
<1> DEFINE refused == [plan EXCEPT !.ok = FALSE]
           t == group[1].key.table
           n == Replay(plan.schema, group)
           added == Plan(TRUE, Reached(plan.schema, group), Append(plan.steps, StepOf(plan.schema, group)))
<1>1. DOMAIN refused = PlanFields /\ refused.ok = FALSE
  BY DEF PlanFields
<1>2. /\ added.ok /\ added.schema = Reached(plan.schema, group)
      /\ added.steps = Append(plan.steps, StepOf(plan.schema, group)) /\ DOMAIN added = PlanFields
  BY DEF Plan, PlanFields
<1> HIDE DEF refused, added
<1>3. CASE next = refused
  BY <1>1, <1>3
<1>4. CASE ~plan.ok
  <2>1. next = plan
    BY <1>4 DEF WithGroup
  <2> QED BY <1>4, <2>1
<1>5. CASE plan.ok /\ RebuildsTable(group[1])
  <2>1. next = IF atomic THEN WithRebuild(plan, t, group, n) ELSE refused
    BY <1>5 DEF WithGroup, refused
  <2>2. WithRebuild(plan, t, group, n) =
          IF ~n.ok \/ TableKey(t) \notin DOMAIN plan.schema THEN refused
          ELSE IF RebuildRefused(plan.schema, n.schema, t) \/ MappingRefused(plan.schema, n.schema, t, group)
          THEN refused
          ELSE added
    BY <1>5 DEF WithRebuild, StepOf, Reached, refused, added
  <2>3. next = refused \/ (next = added /\ n.ok)
    <3> HIDE DEF n, t
    <3> QED BY <2>1, <2>2
  <2> QED BY <1>2, <1>3, <1>5, <2>3 DEF AddsGroup
<1>6. CASE plan.ok /\ ~RebuildsTable(group[1])
  <2>1. next = IF Accepts(plan.schema, group[1]) THEN added ELSE refused
    BY <1>6 DEF WithGroup, StepOf, Reached, refused, added
  <2> QED BY <1>2, <1>3, <1>6, <2>1 DEF AddsGroup
<1> QED BY <1>4, <1>5, <1>6

\* A group as Groups makes it.
IsGroup(group) ==
  /\ Len(group) \in Nat /\ Len(group) >= 1
  /\ RebuildsTable(group[1]) => IsRebuildOf(group, group[1].key.table)
  /\ ~RebuildsTable(group[1]) => Len(group) = 1

\* What happens to rows that refer to a dropped table leaves the schema alone.
LEMMA AfterSchema ==
  ASSUME NEW d, NEW step
  PROVE  After(d, step).schema = Done(d, step).schema
  BY DEF After, Swept, Database

\* Executed on the schema it was rendered for, the step leads where the group does.
LEMMA StepReaches ==
  ASSUME NEW s, IsMap(s), NoRow(s), NEW group, IsGroup(group),
         RebuildsTable(group[1]) => Replay(s, group).ok,
         ~RebuildsTable(group[1]) => NoOldName(Result(s, group[1]), group[1]),
         NEW d, d.schema = s
  PROVE  After(d, StepOf(s, group)).schema = Reached(s, group)
<1>1. CASE RebuildsTable(group[1])
  <2> DEFINE t == group[1].key.table
             n == Replay(s, group).schema
             step == Rebuild(t, Whole(n, t), CopyMapping(s, n, t, group))
  <2>1. TouchesOnly(s, n, t)
    BY <1>1, GroupTouchesOne DEF IsGroup
  <2>2. StepOf(s, group) = step /\ Reached(s, group) = n
    BY <1>1 DEF StepOf, Reached
  <2>3. step.do = "rebuild" /\ step.table = t /\ step.after = Whole(n, t)
    BY DEF Rebuild
  <2> HIDE DEF step, n, t
  <2>4. After(d, step).schema = Replaced(d, step).schema
    BY <2>3, AfterSchema DEF Done
  <2>5. Replaced(d, step).schema = Over(Without(s, Own(s, t)), Whole(n, t))
    BY <2>3 DEF Replaced, Database, Own
  <2>6. Over(Without(s, Own(s, t)), Whole(n, t)) = n
    BY <2>1, ReplacedIsReplayed
  <2> QED BY <2>2, <2>4, <2>5, <2>6
<1>2. CASE ~RebuildsTable(group[1])
  <2> DEFINE op == group[1]
             n  == Result(s, op)
  <2>1. StepOf(s, group) = Direct(op) /\ Reached(s, group) = n
    BY <1>2 DEF StepOf, Reached
  <2>2. Direct(op).do = "op" /\ Direct(op).op = op
    BY DEF Direct
  <2>3. NoOldName(n, op)
    BY <1>2
  <2>4. IsMap(n)
    BY ResultIsMap
  <2> HIDE DEF op, n
  <2>5. After(d, Direct(op)).schema = InPlace(d, op).schema
    BY <2>2, AfterSchema DEF Done
  <2>6. InPlace(d, op).schema = ReferAll(n, op)
    BY DEF InPlace, InPlaceOn, Database, n
  <2> QED BY <2>1, <2>3, <2>4, <2>5, <2>6, NothingToRefer
<1> QED BY <1>1, <1>2

-----------------------------------------------------------------------------
(* The groups are the operations, cut into pieces.                         *)

AllGroups(groups) == \A j \in 1 .. Len(groups) : IsGroup(groups[j])

\* cut[j] operations are in the first j groups.
IsCut(groups, cut, ops, n) ==
  /\ cut[0] = 0 /\ cut[Len(groups)] = n
  /\ \A j \in 1 .. Len(groups) :
       /\ cut[j - 1] \in Nat /\ cut[j] = cut[j - 1] + Len(groups[j])
       /\ \A x \in 1 .. Len(groups[j]) : groups[j][x] = ops[cut[j - 1] + x]

LEMMA OpensGroup ==
  ASSUME NEW O, NEW groups \in Seq(Seq(O)), AllGroups(groups), NEW n \in Nat, NEW ops, ops[n + 1] \in O,
         NEW cut, IsCut(groups, cut, ops, n),
         NEW next, next = Append(groups, <<ops[n + 1]>>)
  PROVE  /\ next \in Seq(Seq(O)) /\ AllGroups(next)
         /\ \E c : IsCut(next, c, ops, n + 1)
<1> DEFINE op   == ops[n + 1]
           one  == <<op>>
           m    == Len(groups)
           c    == [j \in 0 .. m + 1 |-> IF j = m + 1 THEN n + 1 ELSE cut[j]]
<1>1. one \in Seq(O) /\ Len(one) = 1 /\ one[1] = op /\ m \in Nat
  OBVIOUS
<1>2. IsGroup(one)
  BY <1>1 DEF IsGroup, IsRebuildOf
<1>0. next = Append(groups, one)
  OBVIOUS
<1> HIDE DEF one
<1>3. /\ next \in Seq(Seq(O)) /\ Len(next) = m + 1 /\ next[m + 1] = one
      /\ \A j \in 1 .. m : next[j] = groups[j]
  BY <1>0, <1>1
<1>4. ASSUME NEW j \in 1 .. m + 1 PROVE IsGroup(next[j])
  <2>1. CASE j = m + 1
    BY <1>2, <1>3, <2>1
  <2>2. CASE j # m + 1
    <3>1. j \in 1 .. m
      BY <1>1, <2>2
    <3> QED BY <1>3, <3>1 DEF AllGroups
  <2> QED BY <2>1, <2>2
<1>5. c[0] = 0 /\ c[m + 1] = n + 1
  BY <1>1 DEF IsCut
<1>6. ASSUME NEW j \in 1 .. m + 1
      PROVE  /\ c[j - 1] \in Nat /\ c[j] = c[j - 1] + Len(next[j])
             /\ \A x \in 1 .. Len(next[j]) : next[j][x] = ops[c[j - 1] + x]
  <2>1. CASE j = m + 1
    <3>1. c[j - 1] = n /\ c[j] = n + 1
      BY <1>1, <2>1 DEF IsCut
    <3>2. /\ next[j] = one /\ Len(one) = 1 /\ one[1] = op
          /\ \A x \in 1 .. Len(one) : x = 1
      BY <1>1, <1>3, <2>1
    <3> HIDE DEF c, m
    <3> QED BY <3>1, <3>2
  <2>2. CASE j # m + 1
    <3>1. j \in 1 .. m /\ c[j - 1] = cut[j - 1] /\ c[j] = cut[j]
      BY <1>1, <2>2
    <3> HIDE DEF c
    <3> QED BY <1>3, <3>1 DEF IsCut
  <2> QED BY <2>1, <2>2
<1> HIDE DEF c
<1>7. IsCut(next, c, ops, n + 1)
  BY <1>3, <1>5, <1>6 DEF IsCut
<1>8. AllGroups(next)
  BY <1>3, <1>4 DEF AllGroups
<1> QED BY <1>3, <1>7, <1>8

LEMMA ExtendsGroup ==
  ASSUME NEW O, NEW groups \in Seq(Seq(O)), AllGroups(groups), NEW n \in Nat, NEW ops, ops[n + 1] \in O,
         NEW cut, IsCut(groups, cut, ops, n),
         groups # <<>>, SameRebuild(Last(Last(groups)), ops[n + 1]),
         NEW next, next = [groups EXCEPT ![Len(groups)] = Append(@, ops[n + 1])]
  PROVE  /\ next \in Seq(Seq(O)) /\ AllGroups(next)
         /\ \E c : IsCut(next, c, ops, n + 1)
<1> DEFINE op   == ops[n + 1]
           m    == Len(groups)
           tail == groups[m]
           more == Append(tail, op)
           c    == [j \in 0 .. m |-> IF j = m THEN n + 1 ELSE cut[j]]
<1>1. m \in Nat /\ m >= 1 /\ m \in 1 .. m /\ tail \in Seq(O)
  OBVIOUS
<1>2. IsGroup(tail)
  BY <1>1 DEF AllGroups
<1>3. SameRebuild(tail[Len(tail)], op) /\ next = [groups EXCEPT ![m] = more]
  BY DEF Last
<1> HIDE DEF op, tail
<1>4. /\ more \in Seq(O) /\ Len(more) = Len(tail) + 1 /\ more[Len(tail) + 1] = op
      /\ \A x \in 1 .. Len(tail) : more[x] = tail[x]
  BY <1>1 DEF op
<1> HIDE DEF more
<1>5. IsRebuildOf(tail, tail[1].key.table)
  <2>1. Len(tail) \in Nat /\ Len(tail) >= 1
    BY <1>2 DEF IsGroup
  <2>2. RebuildsTable(tail[1])
    BY <1>2, <1>3, <2>1 DEF IsGroup, SameRebuild
  <2> QED BY <1>2, <2>2 DEF IsGroup
<1>6. IsGroup(more)
  <2>1. Len(tail) \in Nat /\ Len(tail) >= 1 /\ Len(tail) \in 1 .. Len(tail) /\ 1 \in 1 .. Len(tail)
    BY <1>5 DEF IsRebuildOf
  <2>2. \A x \in 1 .. Len(tail) : RebuildsTable(tail[x]) /\ tail[x].key.table = tail[1].key.table
    BY <1>5 DEF IsRebuildOf
  <2>3. RebuildsTable(op) /\ op.key.table = tail[1].key.table
    BY <1>3, <2>1, <2>2 DEF SameRebuild
  <2>4. more[1] = tail[1]
    BY <1>4, <2>1
  <2>5. ASSUME NEW x \in 1 .. Len(more)
        PROVE  RebuildsTable(more[x]) /\ more[x].key.table = more[1].key.table
    <3>1. CASE x = Len(tail) + 1
      BY <1>4, <2>3, <2>4, <3>1
    <3>2. CASE x # Len(tail) + 1
      <4>1. x \in 1 .. Len(tail)
        BY <1>4, <2>1, <3>2
      <4> QED BY <1>4, <2>2, <2>4, <4>1
    <3> QED BY <3>1, <3>2
  <2>6. Len(more) \in Nat /\ Len(more) >= 1 /\ 1 \in 1 .. Len(more)
    BY <1>4, <2>1
  <2> QED BY <2>5, <2>6 DEF IsGroup, IsRebuildOf
<1>7. /\ next \in Seq(Seq(O)) /\ Len(next) = m /\ next[m] = more
      /\ \A j \in 1 .. m : j # m => next[j] = groups[j]
  BY <1>1, <1>3, <1>4
<1>8. AllGroups(next)
  BY <1>6, <1>7 DEF AllGroups
<1>9. c[0] = 0 /\ c[m] = n + 1
  BY <1>1 DEF IsCut
<1>10. cut[m - 1] \in Nat /\ cut[m - 1] + Len(tail) = n
  BY <1>1 DEF IsCut, tail
<1>11. ASSUME NEW j \in 1 .. m
      PROVE  /\ c[j - 1] \in Nat /\ c[j] = c[j - 1] + Len(next[j])
             /\ \A x \in 1 .. Len(next[j]) : next[j][x] = ops[c[j - 1] + x]
  <2>0. c[j - 1] = cut[j - 1]
    BY <1>1
  <2>1. CASE j = m
    <3>1. c[j] = n + 1 /\ Len(tail) \in Nat
      BY <1>1, <2>1
    <3>2. ASSUME NEW x \in 1 .. Len(more) PROVE more[x] = ops[cut[m - 1] + x]
      <4>1. CASE x = Len(tail) + 1
        <5>1. cut[m - 1] + x = n + 1
          <6> DEFINE p == cut[m - 1]
                     q == Len(tail)
          <6>1. p \in Nat /\ q \in Nat /\ p + q = n /\ x = q + 1
            BY <1>10, <3>1, <4>1
          <6> HIDE DEF p, q
          <6>2. p + x = n + 1
            BY ONLY <6>1
          <6> QED BY <6>2 DEF p
        <5> QED BY <1>4, <4>1, <5>1 DEF op
      <4>2. CASE x # Len(tail) + 1
        <5>1. x \in 1 .. Len(tail)
          BY <1>4, <3>1, <4>2
        <5> QED BY <1>1, <1>4, <5>1 DEF IsCut, tail
      <4> QED BY <4>1, <4>2
    <3>3. next[j] = more /\ c[j - 1] = cut[m - 1]
      BY <1>7, <2>0, <2>1
    <3> HIDE DEF c, m
    <3>4. n + 1 = cut[m - 1] + (Len(tail) + 1)
      <4> DEFINE p == cut[m - 1]
                 q == Len(tail)
      <4>1. p \in Nat /\ q \in Nat /\ p + q = n
        BY <1>10, <3>1
      <4> HIDE DEF p, q
      <4>2. n + 1 = p + (q + 1)
        BY ONLY <4>1
      <4> QED BY <4>2 DEF p, q
    <3> QED BY <1>4, <1>10, <3>1, <3>2, <3>3, <3>4
  <2>2. CASE j # m
    <3>1. c[j] = cut[j]
      BY <1>1, <2>2
    <3>2. next[j] = groups[j]
      BY <1>7, <2>2
    <3> HIDE DEF c
    <3> QED BY <2>0, <3>1, <3>2 DEF IsCut
  <2> QED BY <2>1, <2>2
<1> HIDE DEF c, m
<1>12. IsCut(next, c, ops, n + 1)
  BY <1>7, <1>9, <1>11 DEF IsCut
<1> QED BY <1>7, <1>8, <1>12

\* Groups loses no operation and keeps their order.
LEMMA Grouped ==
  ASSUME NEW O, NEW ops \in Seq(O)
  PROVE  /\ Groups(ops) \in Seq(Seq(O)) /\ AllGroups(Groups(ops))
         /\ \E cut : IsCut(Groups(ops), cut, ops, Len(ops))
<1> DEFINE n == Len(ops)
           Fine(groups, i) == /\ groups \in Seq(Seq(O)) /\ AllGroups(groups)
                              /\ \E cut : IsCut(groups, cut, ops, i)
<1>1. n \in Nat /\ DOMAIN ops = 1 .. n
  OBVIOUS
<1>2. PICK acc : /\ acc[0] = <<>> /\ \A i \in 1 .. n : acc[i] = AddedTo(acc[i - 1], ops[i])
                 /\ Groups(ops) = acc[n]
  BY <1>1, GroupsTrace
<1> DEFINE T == {i \in 0 .. n : Fine(acc[i], i)}
<1>3. 0 \in T
  <2> DEFINE cut == [j \in 0 .. 0 |-> 0]
  <2>1. <<>> \in Seq(Seq(O)) /\ Len(<<>>) = 0 /\ cut[0] = 0
    OBVIOUS
  <2>2. \A j \in 1 .. 0 : FALSE
    OBVIOUS
  <2> HIDE DEF cut
  <2>3. IsCut(<<>>, cut, ops, 0) /\ AllGroups(<<>>)
    BY <2>1, <2>2 DEF IsCut, AllGroups
  <2>4. Fine(<<>>, 0)
    BY <2>1, <2>3
  <2> HIDE DEF Fine
  <2> QED BY <1>1, <1>2, <2>4
<1>4. ASSUME NEW i \in 0 .. n - 1, i \in T PROVE i + 1 \in T
  <2>1. i + 1 \in 1 .. n /\ i + 1 \in 0 .. n /\ (i + 1) - 1 = i /\ i \in Nat /\ ops[i + 1] \in O
    BY <1>1
  <2>2. acc[i + 1] = AddedTo(acc[i], ops[i + 1])
    BY <1>2, <2>1
  <2>3. PICK cut : IsCut(acc[i], cut, ops, i)
    BY <1>4
  <2>4. acc[i] \in Seq(Seq(O)) /\ AllGroups(acc[i])
    BY <1>4
  <2>5. CASE acc[i] # <<>> /\ SameRebuild(Last(Last(acc[i])), ops[i + 1])
    <3>1. acc[i + 1] = [acc[i] EXCEPT ![Len(acc[i])] = Append(@, ops[i + 1])]
      BY <2>2, <2>5 DEF AddedTo
    <3>2. Fine(acc[i + 1], i + 1)
      BY <2>1, <2>3, <2>4, <2>5, <3>1, ExtendsGroup
    <3> QED BY <2>1, <3>2
  <2>6. CASE ~(acc[i] # <<>> /\ SameRebuild(Last(Last(acc[i])), ops[i + 1]))
    <3>1. acc[i + 1] = Append(acc[i], <<ops[i + 1]>>)
      BY <2>2, <2>6 DEF AddedTo
    <3>2. Fine(acc[i + 1], i + 1)
      BY <2>1, <2>3, <2>4, <3>1, OpensGroup
    <3> QED BY <2>1, <3>2
  <2> QED BY <2>5, <2>6
<1> HIDE DEF T, Fine
<1>5. 0 .. n \subseteq T
  BY <1>1, <1>3, <1>4, UpToInduct
<1>6. Fine(acc[n], n)
  BY <1>1, <1>5 DEF T
<1> QED BY <1>2, <1>6 DEF Fine

-----------------------------------------------------------------------------
(* What is rendered is what is replayed.                                   *)

RendersGroup(s, group) ==
  /\ RebuildsTable(group[1]) => Replay(s, group).ok
  /\ ~RebuildsTable(group[1]) => Accepts(s, group[1])

\* Where replay has come, a group leads to where rendering it leads.
LEMMA GroupReplayed ==
  ASSUME NEW s0, NEW ops, NEW N \in Nat, NEW st, ReplaySteps(st, s0, ops, N),
         NEW group, IsGroup(group), NEW a \in Nat, a + Len(group) <= N,
         PieceOf(group, ops, a),
         NEW s, st[a] = Begun(s), RendersGroup(s, group)
  PROVE  st[a + Len(group)] = Begun(Reached(s, group))
<1> DEFINE b == Len(group)
<1>1. b \in Nat /\ b >= 1 /\ 1 \in 1 .. b
  BY DEF IsGroup
<1>2. ASSUME NEW x \in 1 .. b PROVE st[a + x] = OneMore(st[a + (x - 1)], group[x], a + x)
  <2>1. a + x \in 1 .. N /\ (a + x) - 1 = a + (x - 1)
    BY <1>1
  <2>2. st[a + x] = OneMore(st[a + (x - 1)], ops[a + x], a + x)
    BY <2>1 DEF ReplaySteps
  <2> QED BY <2>2 DEF PieceOf
<1>3. CASE ~RebuildsTable(group[1])
  <2>1. b = 1 /\ Reached(s, group) = Result(s, group[1])
    BY <1>3 DEF IsGroup, Reached
  <2>2. st[a + 1] = OneMore(st[a + (1 - 1)], group[1], a + 1)
    BY <1>1, <1>2
  <2>3. a + (1 - 1) = a
    OBVIOUS
  <2>4. st[a + 1] = OneMore(Begun(s), group[1], a + 1)
    BY <2>2, <2>3
  <2>5. OneMore(Begun(s), group[1], a + 1) = Begun(Result(s, group[1]))
    BY <1>3, BegunIs DEF OneMore, RendersGroup
  <2> QED BY <2>1, <2>4, <2>5
<1>4. CASE RebuildsTable(group[1])
  BY <1>1, <1>4, PieceReplayed DEF RendersGroup, Reached
<1> QED BY <1>3, <1>4

LEMMA CutBounds ==
  ASSUME NEW O, NEW groups \in Seq(Seq(O)), NEW ops, NEW N \in Nat, NEW cut, IsCut(groups, cut, ops, N)
  PROVE  \A j \in 0 .. Len(groups) : cut[j] \in 0 .. N
<1> DEFINE m == Len(groups)
           T == {k \in 0 .. m : cut[m - k] \in 0 .. N}
<1>1. m \in Nat /\ \A j \in 1 .. m : Len(groups[j]) \in Nat
  OBVIOUS
<1>2. 0 \in T
  <2>1. m - 0 = m
    BY <1>1
  <2> QED BY <1>1, <2>1 DEF IsCut
<1>3. ASSUME NEW k \in 0 .. m - 1, k \in T PROVE k + 1 \in T
  <2> DEFINE j == m - k
             p == cut[j - 1]
             q == Len(groups[j])
  <2>1. j \in 1 .. m /\ k + 1 \in 0 .. m /\ m - (k + 1) = j - 1
    BY <1>1
  <2>2. p \in Nat /\ cut[j] = p + q /\ q \in Nat /\ cut[j] \in 0 .. N
    BY <1>1, <1>3, <2>1 DEF IsCut
  <2> HIDE DEF p, q, j
  <2>3. p \in 0 .. N
    BY <2>2
  <2> QED BY <2>1, <2>3 DEF p
<1> HIDE DEF T
<1>4. 0 .. m \subseteq T
  BY <1>1, <1>2, <1>3, UpToInduct
<1>5. ASSUME NEW j \in 0 .. m PROVE cut[j] \in 0 .. N
  <2>1. m - j \in 0 .. m /\ m - (m - j) = j
    BY <1>1
  <2> QED BY <1>4, <2>1 DEF T
<1> QED BY <1>5

\* A plan that is not refused was not refused all along.
LEMMA RenderedAllAlong ==
  ASSUME NEW s0, NEW O, NEW groups \in Seq(Seq(O)), NEW atomic,
         NEW acc, RenderSteps(acc, s0, groups, atomic), acc[Len(groups)].ok
  PROVE  \A j \in 1 .. Len(groups) : AddsGroup(acc[j - 1], acc[j], groups[j])
<1> DEFINE m == Len(groups)
           T == {j \in 0 .. m : DOMAIN acc[j] = PlanFields}
           U == {k \in 0 .. m : acc[m - k].ok}
<1>1. m \in Nat
  OBVIOUS
<1>2. 0 \in T
  BY <1>1 DEF RenderSteps, Plan, PlanFields
<1>3. ASSUME NEW j \in 0 .. m - 1, j \in T PROVE j + 1 \in T
  <2>1. j + 1 \in 1 .. m /\ j + 1 \in 0 .. m /\ (j + 1) - 1 = j
    BY <1>1
  <2>2. acc[j + 1] = WithGroup(acc[j], groups[j + 1], atomic)
    BY <2>1 DEF RenderSteps
  <2> QED BY <1>3, <2>1, <2>2, WithGroupIs
<1>4. \A j \in 0 .. m : DOMAIN acc[j] = PlanFields
  <2> HIDE DEF T
  <2>1. 0 .. m \subseteq T
    BY <1>1, <1>2, <1>3, UpToInduct
  <2> QED BY <2>1 DEF T
<1>5. ASSUME NEW j \in 1 .. m, acc[j].ok PROVE AddsGroup(acc[j - 1], acc[j], groups[j])
  <2>1. j - 1 \in 0 .. m /\ acc[j] = WithGroup(acc[j - 1], groups[j], atomic)
    BY <1>1 DEF RenderSteps
  <2> QED BY <1>4, <1>5, <2>1, WithGroupIs
<1>6. 0 \in U
  BY <1>1
<1>7. ASSUME NEW k \in 0 .. m - 1, k \in U PROVE k + 1 \in U
  <2>1. k + 1 \in 0 .. m /\ m - k \in 1 .. m /\ (m - k) - 1 = m - (k + 1)
    BY <1>1
  <2> QED BY <1>5, <1>7, <2>1 DEF AddsGroup
<1>8. \A j \in 0 .. m : acc[j].ok
  <2> HIDE DEF U
  <2>1. 0 .. m \subseteq U
    BY <1>1, <1>6, <1>7, UpToInduct
  <2>2. ASSUME NEW j \in 0 .. m PROVE acc[j].ok
    <3>1. m - j \in 0 .. m /\ m - (m - j) = j
      BY <1>1
    <3> QED BY <2>1, <3>1 DEF U
  <2> QED BY <2>2
<1>9. \A j \in 1 .. m : j \in 0 .. m
  OBVIOUS
<1> QED BY <1>5, <1>8, <1>9

\* A plan that renders, and the replay of the operations it groups.
PlanBesideReplay(s0, O, ops, N, groups, cut, atomic, acc, st) ==
  /\ N \in Nat /\ groups \in Seq(Seq(O)) /\ AllGroups(groups) /\ IsCut(groups, cut, ops, N)
  /\ RenderSteps(acc, s0, groups, atomic) /\ acc[Len(groups)].ok /\ ReplaySteps(st, s0, ops, N)

\* After each group, the plan's schema is the one replay has reached.
LEMMA PlanFollowsReplay ==
  ASSUME NEW s0, NEW O, NEW ops, NEW N, NEW groups, NEW cut, NEW atomic, NEW acc, NEW st,
         PlanBesideReplay(s0, O, ops, N, groups, cut, atomic, acc, st)
  PROVE  \A j \in 0 .. Len(groups) : st[cut[j]] = Begun(acc[j].schema)
<1>0. /\ N \in Nat /\ groups \in Seq(Seq(O)) /\ AllGroups(groups) /\ IsCut(groups, cut, ops, N)
      /\ RenderSteps(acc, s0, groups, atomic) /\ acc[Len(groups)].ok /\ ReplaySteps(st, s0, ops, N)
  BY DEF PlanBesideReplay
<1> USE <1>0
<1> DEFINE m == Len(groups)
           T == {j \in 0 .. m : st[cut[j]] = Begun(acc[j].schema)}
<1>1. m \in Nat
  OBVIOUS
<1>2. 0 \in T
  <2>1. acc[0].schema = s0
    BY DEF RenderSteps, Plan
  <2>2. st[cut[0]] = Begun(s0)
    BY DEF ReplaySteps, IsCut
  <2> QED BY <1>1, <2>1, <2>2
<1>3. ASSUME NEW j \in 0 .. m - 1, j \in T PROVE j + 1 \in T
  <2> DEFINE group == groups[j + 1]
             a == cut[j]
  <2>1. j + 1 \in 1 .. m /\ j + 1 \in 0 .. m /\ (j + 1) - 1 = j
    BY <1>1
  <2>2. /\ a \in Nat /\ cut[j + 1] = a + Len(group)
        /\ PieceOf(group, ops, a)
    BY <2>1 DEF IsCut, PieceOf
  <2>3. cut[j + 1] \in 0 .. N
    BY <2>1, CutBounds
  <2>4. AddsGroup(acc[j], acc[j + 1], group)
    BY <2>1, RenderedAllAlong
  <2>5. IsGroup(group)
    BY <2>1 DEF AllGroups
  <2>6. st[a] = Begun(acc[j].schema)
    BY <1>3
  <2>7. a + Len(group) <= N
    BY <2>2, <2>3
  <2> HIDE DEF group, a
  <2> DEFINE s == acc[j].schema
  <2>10. RendersGroup(s, group)
    BY <2>4 DEF AddsGroup, RendersGroup
  <2> HIDE DEF s
  <2>11. st[a] = Begun(s)
    BY <2>6 DEF s
  <2>8. st[a + Len(group)] = Begun(Reached(s, group))
    BY <2>2, <2>5, <2>7, <2>10, <2>11, GroupReplayed
  <2>9. st[cut[j + 1]] = Begun(acc[j + 1].schema)
    BY <2>2, <2>4, <2>8 DEF AddsGroup, s
  <2> QED BY <2>1, <2>9
<1> HIDE DEF T
<1>4. 0 .. m \subseteq T
  BY <1>1, <1>2, <1>3, UpToInduct
<1> QED BY <1>4 DEF T

\* The j-th step of the plan is that of the j-th group.
LEMMA PlanSteps ==
  ASSUME NEW s0, NEW O, NEW groups \in Seq(Seq(O)), NEW atomic,
         NEW acc, RenderSteps(acc, s0, groups, atomic), acc[Len(groups)].ok,
         NEW steps, steps = acc[Len(groups)].steps
  PROVE  /\ Len(steps) = Len(groups) /\ DOMAIN steps = 1 .. Len(groups)
         /\ \A j \in 1 .. Len(groups) : steps[j] = StepOf(acc[j - 1].schema, groups[j])
<1> DEFINE m == Len(groups)
           step == [j \in 1 .. m |-> StepOf(acc[j - 1].schema, groups[j])]
           X == {step[j] : j \in 1 .. m}
           T == {i \in 0 .. m : /\ acc[i].steps \in Seq(X) /\ Len(acc[i].steps) = i
                               /\ \A j \in 1 .. i : acc[i].steps[j] = step[j]}
<1>1. m \in Nat
  OBVIOUS
<1>2. 0 \in T
  <2>1. acc[0].steps = <<>>
    BY DEF RenderSteps, Plan
  <2>2. <<>> \in Seq(X) /\ Len(<<>>) = 0 /\ \A j \in 1 .. 0 : FALSE
    OBVIOUS
  <2>3. 0 \in 0 .. m
    BY <1>1
  <2> HIDE DEF X, step, m
  <2>4. acc[0].steps \in Seq(X) /\ Len(acc[0].steps) = 0
    BY <2>1, <2>2
  <2> QED BY <2>2, <2>3, <2>4
<1>3. ASSUME NEW i \in 0 .. m - 1, i \in T PROVE i + 1 \in T
  <2>1. i + 1 \in 1 .. m /\ i + 1 \in 0 .. m /\ (i + 1) - 1 = i
    BY <1>1
  <2>2. acc[i + 1].steps = Append(acc[i].steps, step[i + 1])
    <3>1. AddsGroup(acc[i], acc[i + 1], groups[i + 1])
      BY <2>1, RenderedAllAlong
    <3>2. step[i + 1] = StepOf(acc[i].schema, groups[i + 1])
      BY <2>1
    <3> QED BY <3>1, <3>2 DEF AddsGroup
  <2>3. step[i + 1] \in X
    BY <2>1
  <2> HIDE DEF X, step
  <2>4. acc[i].steps \in Seq(X) /\ Len(acc[i].steps) = i /\ \A j \in 1 .. i : acc[i].steps[j] = step[j]
    BY <1>3
  <2>5. /\ acc[i + 1].steps \in Seq(X) /\ Len(acc[i + 1].steps) = i + 1
        /\ acc[i + 1].steps[i + 1] = step[i + 1]
        /\ \A j \in 1 .. i : acc[i + 1].steps[j] = acc[i].steps[j]
    <3> DEFINE p == acc[i].steps
               q == acc[i + 1].steps
               e == step[i + 1]
    <3>1. p \in Seq(X) /\ Len(p) = i /\ e \in X /\ q = Append(p, e)
      BY <2>2, <2>3, <2>4
    <3> HIDE DEF p, q, e
    <3>2. /\ q \in Seq(X) /\ Len(q) = i + 1 /\ q[i + 1] = e
          /\ \A j \in 1 .. i : q[j] = p[j]
      BY <3>1
    <3> QED BY <3>2 DEF p, q, e
  <2>6. ASSUME NEW j \in 1 .. i + 1 PROVE acc[i + 1].steps[j] = step[j]
    <3>1. CASE j = i + 1
      BY <2>5, <3>1
    <3>2. CASE j # i + 1
      <4>1. j \in 1 .. i
        BY <3>2
      <4> QED BY <2>4, <2>5, <4>1
    <3> QED BY <3>1, <3>2
  <2> QED BY <2>1, <2>5, <2>6
<1> HIDE DEF T
<1>4. m \in T
  <2>1. 0 .. m \subseteq T
    BY <1>1, <1>2, <1>3, UpToInduct
  <2> QED BY <1>1, <2>1
<1>5. /\ acc[m].steps \in Seq(X) /\ Len(acc[m].steps) = m
      /\ \A j \in 1 .. m : acc[m].steps[j] = step[j]
  BY <1>4 DEF T
<1>6. DOMAIN acc[m].steps = 1 .. m
  <2> HIDE DEF X
  <2> QED BY <1>5
<1>7. \A j \in 1 .. m : step[j] = StepOf(acc[j - 1].schema, groups[j])
  OBVIOUS
<1> HIDE DEF X, step
<1> QED BY <1>5, <1>6, <1>7

-----------------------------------------------------------------------------
(* What is executed is what was rendered.                                  *)

RunFields == {"ok", "db", "acted"}

\* What the steps of a plan are read from.
PlanReads(s0, O, groups, atomic, acc, steps) ==
  /\ groups \in Seq(Seq(O)) /\ RenderSteps(acc, s0, groups, atomic) /\ acc[Len(groups)].ok
  /\ steps = acc[Len(groups)].steps

LEMMA PlanLength ==
  ASSUME NEW s0, NEW O, NEW groups, NEW atomic, NEW acc, NEW steps,
         PlanReads(s0, O, groups, atomic, acc, steps)
  PROVE  DOMAIN steps = 1 .. Len(groups)
BY PlanSteps DEF PlanReads

\* A step that does not fail is done.
DoesStep(before, run, step) ==
  /\ before.ok /\ ~Fails(before.db, step) /\ run.db = After(before.db, step)
  /\ ~run.acted => ~before.acted /\ ~Acts(before.db, step)

LEMMA SteppedIs ==
  ASSUME NEW before, DOMAIN before = RunFields, NEW step, NEW run, run = Stepped(before, step)
  PROVE  DOMAIN run = RunFields /\ (run.ok => DoesStep(before, run, step))
<1> DEFINE failed == [before EXCEPT !.ok = FALSE]
           done   == [ok |-> TRUE, db |-> After(before.db, step), acted |-> before.acted \/ Acts(before.db, step)]
<1>1. DOMAIN failed = RunFields /\ failed.ok = FALSE
  BY DEF RunFields
<1>2. DOMAIN done = RunFields /\ done.db = After(before.db, step)
      /\ done.acted = (before.acted \/ Acts(before.db, step))
  BY DEF RunFields
<1>3. IF ~before.ok \/ Fails(before.db, step) THEN run = failed ELSE run = done
  BY DEF Stepped
<1> HIDE DEF failed, done
<1> QED BY <1>1, <1>2, <1>3 DEF DoesStep

\* A run that succeeds succeeded all along.
LEMMA ExecutedAllAlong ==
  ASSUME NEW d, NEW steps, NEW m \in Nat, NEW run, ExecuteSteps(run, d, steps, m), run[m].ok
  PROVE  \A j \in 1 .. m : DoesStep(run[j - 1], run[j], steps[j])
<1> DEFINE T == {j \in 0 .. m : DOMAIN run[j] = RunFields}
           U == {k \in 0 .. m : run[m - k].ok}
<1>1. 0 \in T
  BY DEF ExecuteSteps, RunFields
<1>2. ASSUME NEW j \in 0 .. m - 1, j \in T PROVE j + 1 \in T
  <2>1. j + 1 \in 1 .. m /\ j + 1 \in 0 .. m /\ (j + 1) - 1 = j
    OBVIOUS
  <2>2. run[j + 1] = Stepped(run[j], steps[j + 1])
    BY <2>1 DEF ExecuteSteps
  <2> QED BY <1>2, <2>1, <2>2, SteppedIs
<1>3. \A j \in 0 .. m : DOMAIN run[j] = RunFields
  <2> HIDE DEF T
  <2>1. 0 .. m \subseteq T
    BY <1>1, <1>2, UpToInduct
  <2> QED BY <2>1 DEF T
<1>4. ASSUME NEW j \in 1 .. m, run[j].ok PROVE DoesStep(run[j - 1], run[j], steps[j])
  <2>1. j - 1 \in 0 .. m /\ run[j] = Stepped(run[j - 1], steps[j])
    BY DEF ExecuteSteps
  <2> QED BY <1>3, <1>4, <2>1, SteppedIs
<1>5. 0 \in U
  OBVIOUS
<1>6. ASSUME NEW k \in 0 .. m - 1, k \in U PROVE k + 1 \in U
  <2>1. k + 1 \in 0 .. m /\ m - k \in 1 .. m /\ (m - k) - 1 = m - (k + 1)
    OBVIOUS
  <2> QED BY <1>4, <1>6, <2>1 DEF DoesStep
<1>7. \A j \in 0 .. m : run[j].ok
  <2> HIDE DEF U
  <2>1. 0 .. m \subseteq U
    BY <1>5, <1>6, UpToInduct
  <2>2. ASSUME NEW j \in 0 .. m PROVE run[j].ok
    <3>1. m - j \in 0 .. m /\ m - (m - j) = j
      OBVIOUS
    <3> QED BY <2>1, <3>1 DEF U
  <2> QED BY <2>2
<1>8. \A j \in 1 .. m : j \in 0 .. m
  OBVIOUS
<1> QED BY <1>4, <1>7, <1>8

\* A run in which no rows were acted on had none all along.
LEMMA NothingActed ==
  ASSUME NEW d, NEW steps, NEW m \in Nat, NEW run, ExecuteSteps(run, d, steps, m), run[m].ok, ~run[m].acted
  PROVE  \A j \in 1 .. m : ~Acts(run[j - 1].db, steps[j])
<1> DEFINE U == {k \in 0 .. m : ~run[m - k].acted}
<1>1. \A j \in 1 .. m : DoesStep(run[j - 1], run[j], steps[j])
  BY ExecutedAllAlong
<1>2. 0 \in U
  OBVIOUS
<1>3. ASSUME NEW k \in 0 .. m - 1, k \in U PROVE k + 1 \in U
  <2>1. k + 1 \in 0 .. m /\ m - k \in 1 .. m /\ (m - k) - 1 = m - (k + 1)
    OBVIOUS
  <2> QED BY <1>1, <1>3, <2>1 DEF DoesStep
<1>4. ASSUME NEW j \in 1 .. m PROVE ~Acts(run[j - 1].db, steps[j])
  <2> HIDE DEF U
  <2>1. 0 .. m \subseteq U
    BY <1>2, <1>3, UpToInduct
  <2>2. m - j \in 0 .. m /\ m - (m - j) = j
    OBVIOUS
  <2>3. ~run[j].acted
    BY <2>1, <2>2 DEF U
  <2> QED BY <1>1, <2>3 DEF DoesStep
<1> QED BY <1>4

\* After each step, the database has the plan's schema.
LEMMA RunFollowsPlan ==
  ASSUME NEW O, NEW ops \in Seq(O), NEW groups \in Seq(Seq(O)), AllGroups(groups),
         NEW cut, IsCut(groups, cut, ops, Len(ops)), NEW atomic,
         NEW s0, IsMap(s0), PlainAlong(s0, ops),
         NEW acc, RenderSteps(acc, s0, groups, atomic), acc[Len(groups)].ok,
         NEW steps, steps = acc[Len(groups)].steps,
         NEW d, d.schema = s0,
         NEW run, ExecuteSteps(run, d, steps, Len(groups)), run[Len(groups)].ok
  PROVE  run[Len(groups)].db.schema = acc[Len(groups)].schema
<1> DEFINE m == Len(groups)
           N == Len(ops)
           T == {j \in 0 .. m : run[j].db.schema = acc[j].schema /\ IsMap(acc[j].schema)}
<1>1. m \in Nat /\ N \in Nat
  OBVIOUS
<1>2. PICK st : ReplaySteps(st, s0, ops, N)
  BY <1>1, ReplayTrace
<1>3. \A j \in 0 .. m : st[cut[j]] = Begun(acc[j].schema)
  <2>1. PlanBesideReplay(s0, O, ops, N, groups, cut, atomic, acc, st)
    BY <1>1, <1>2 DEF PlanBesideReplay
  <2> QED BY <2>1, PlanFollowsReplay
<1>4. \A j \in 0 .. m : cut[j] \in 0 .. N
  BY <1>1, CutBounds
<1>5. \A j \in 0 .. m : Halfway(s0, ops, cut[j]) = acc[j].schema
  <2>1. ASSUME NEW j \in 0 .. m PROVE Halfway(s0, ops, cut[j]) = acc[j].schema
    <3>1. Halfway(s0, ops, cut[j]) = st[cut[j]].schema
      BY <1>2, <1>4, HalfwayIs
    <3>2. st[cut[j]].schema = acc[j].schema
      BY <1>3, BegunIs
    <3> QED BY <3>1, <3>2
  <2> QED BY <2>1
<1>6. \A j \in 1 .. m : DoesStep(run[j - 1], run[j], steps[j])
  BY <1>1, ExecutedAllAlong
<1>7. \A j \in 1 .. m : steps[j] = StepOf(acc[j - 1].schema, groups[j])
  BY PlanSteps
<1>8. 0 \in T
  <2>1. run[0].db = d
    BY DEF ExecuteSteps
  <2>2. acc[0].schema = s0
    BY DEF RenderSteps, Plan
  <2> QED BY <1>1, <2>1, <2>2
<1>9. ASSUME NEW j \in 0 .. m - 1, j \in T PROVE j + 1 \in T
  <2> DEFINE group == groups[j + 1]
             s     == acc[j].schema
             next  == acc[j + 1].schema
             before == run[j].db
  <2>1. j + 1 \in 1 .. m /\ j + 1 \in 0 .. m /\ j \in 0 .. m /\ (j + 1) - 1 = j
    BY <1>1
  <2>2. before.schema = s /\ IsMap(s)
    BY <1>9
  <2>3. run[j + 1].db = After(before, steps[j + 1])
    BY <1>6, <2>1 DEF DoesStep
  <2>4. steps[j + 1] = StepOf(s, group)
    BY <1>7, <2>1
  <2>5. AddsGroup(acc[j], acc[j + 1], group)
    BY <2>1, RenderedAllAlong
  <2>6. next = Reached(s, group) /\ RendersGroup(s, group)
    BY <2>5 DEF AddsGroup, RendersGroup
  <2>7. IsGroup(group)
    BY <2>1 DEF AllGroups
  <2>8. NoRow(s)
    BY <1>4, <1>5, <2>1 DEF PlainAlong
  <2>9. ~RebuildsTable(group[1]) => next = Result(s, group[1]) /\ NoOldName(Result(s, group[1]), group[1])
    <3>1. SUFFICES ASSUME ~RebuildsTable(group[1])
                   PROVE  next = Result(s, group[1]) /\ NoOldName(next, group[1])
      BY Zenon
    <3>2. Len(group) = 1 /\ next = Result(s, group[1])
      BY <2>6, <2>7, <3>1 DEF IsGroup, Reached
    <3>3. cut[j] \in Nat /\ cut[j + 1] = cut[j] + 1 /\ group[1] = ops[cut[j] + 1]
      <4>1. /\ cut[j] \in Nat /\ cut[j + 1] = cut[j] + Len(group)
            /\ \A x \in 1 .. Len(group) : group[x] = ops[cut[j] + x]
        BY <2>1 DEF IsCut
      <4> HIDE DEF group
      <4>2. 1 \in 1 .. Len(group)
        BY <3>2
      <4> QED BY <3>2, <4>1, <4>2
    <3>4. cut[j + 1] \in 1 .. N
      <4>1. cut[j + 1] \in 0 .. N
        BY <1>4, <2>1
      <4> QED BY <3>3, <4>1
    <3>5. NoOldName(Halfway(s0, ops, cut[j + 1]), ops[cut[j + 1]])
      BY <3>4 DEF PlainAlong
    <3> QED BY <1>5, <2>1, <3>2, <3>3, <3>5
  <2> HIDE DEF group, s, next, before
  <2>10. IsMap(next)
    <3>1. CASE RebuildsTable(group[1])
      <4>1. next = Replay(s, group).schema /\ IsRebuildOf(group, group[1].key.table)
            /\ Replay(s, group).ok
        BY <2>6, <2>7, <3>1 DEF Reached, IsGroup, RendersGroup
      <4> QED BY <2>8, <4>1, GroupTouchesOne DEF TouchesOnly
    <3>2. CASE ~RebuildsTable(group[1])
      BY <2>2, <2>9, <3>2, ResultIsMap
    <3> QED BY <3>1, <3>2
  <2>11. After(before, StepOf(s, group)).schema = Reached(s, group)
    BY <2>2, <2>6, <2>7, <2>8, <2>9, StepReaches DEF RendersGroup
  <2>12. run[j + 1].db.schema = next
    BY <2>3, <2>4, <2>6, <2>11
  <2> QED BY <2>1, <2>10, <2>12 DEF next
<1> HIDE DEF T
<1>10. 0 .. m \subseteq T
  BY <1>1, <1>8, <1>9, UpToInduct
<1>11. m \in T
  BY <1>1, <1>10
<1> QED BY <1>11 DEF T

-----------------------------------------------------------------------------
(* The results.                                                            *)

\* A plan that is not refused ends in the schema that replaying the operations ends
\* in, whatever neighbours were put into one rebuild.
THEOREM RenderedAsReplayed ==
  ASSUME NEW O, NEW ops \in Seq(O), NEW s, NEW atomic, RenderGroups(s, Groups(ops), atomic).ok
  PROVE  Replay(s, ops) = Begun(RenderGroups(s, Groups(ops), atomic).schema)
<1> DEFINE groups == Groups(ops)
           m == Len(groups)
           N == Len(ops)
<1>1. groups \in Seq(Seq(O)) /\ AllGroups(groups) /\ N \in Nat
  BY Grouped
<1>2. PICK cut : IsCut(groups, cut, ops, N)
  BY Grouped
<1> HIDE DEF groups
<1>3. m \in Nat /\ DOMAIN groups = 1 .. m
  BY <1>1
<1>4. PICK acc : RenderSteps(acc, s, groups, atomic) /\ RenderGroups(s, groups, atomic) = acc[m]
  BY <1>3, RenderTrace
<1>5. acc[m].ok
  BY <1>4 DEF groups
<1>6. PICK st : ReplaySteps(st, s, ops, N) /\ Replay(s, ops) = st[N]
  BY <1>1, ReplayTrace
<1>7. \A j \in 0 .. m : st[cut[j]] = Begun(acc[j].schema)
  <2>1. PlanBesideReplay(s, O, ops, N, groups, cut, atomic, acc, st)
    BY <1>1, <1>2, <1>4, <1>5, <1>6 DEF PlanBesideReplay
  <2> QED BY <2>1, PlanFollowsReplay
<1>8. cut[m] = N /\ m \in 0 .. m
  BY <1>2, <1>3 DEF IsCut
<1> QED BY <1>4, <1>6, <1>7, <1>8 DEF groups

\* Executed on that schema without an error, it leaves the database with what replay
\* says: each rebuilt table has the columns, keys, constraints and indexes it should
\* have, and nothing else is touched.
THEOREM ExecutedAsReplayed ==
  ASSUME NEW O, NEW ops \in Seq(O), NEW s, IsMap(s), PlainAlong(s, ops),
         NEW atomic, NEW plan, plan = RenderGroups(s, Groups(ops), atomic), plan.ok,
         NEW d, d.schema = s, Execute(d, plan.steps).ok
  PROVE  Execute(d, plan.steps).db.schema = Replay(s, ops).schema
<1> DEFINE groups == Groups(ops)
           m == Len(groups)
<1>1. groups \in Seq(Seq(O)) /\ AllGroups(groups)
  BY Grouped
<1>2. PICK cut : IsCut(groups, cut, ops, Len(ops))
  BY Grouped
<1>3. Replay(s, ops).schema = plan.schema
  BY RenderedAsReplayed, BegunIs
<1>0. plan = RenderGroups(s, groups, atomic)
  OBVIOUS
<1> HIDE DEF groups
<1>4. m \in Nat /\ DOMAIN groups = 1 .. m
  BY <1>1
<1>5. PICK acc : RenderSteps(acc, s, groups, atomic) /\ RenderGroups(s, groups, atomic) = acc[m]
  BY <1>4, RenderTrace
<1>6. acc[m].ok /\ plan.steps = acc[m].steps /\ plan.schema = acc[m].schema
  BY <1>0, <1>5
<1> DEFINE steps == plan.steps
<1>7. steps = acc[m].steps /\ Execute(d, steps).ok
  BY <1>6
<1> HIDE DEF steps
<1>8. DOMAIN steps = 1 .. m
  BY <1>1, <1>5, <1>6, <1>7, PlanSteps
<1>9. PICK run : ExecuteSteps(run, d, steps, m) /\ Execute(d, steps) = run[m]
  BY <1>4, <1>8, ExecuteTrace
<1>10. run[m].ok
  BY <1>9, <1>7
<1>11. run[m].db.schema = acc[m].schema
  BY <1>1, <1>2, <1>5, <1>6, <1>9, <1>10, <1>7, RunFollowsPlan
<1> QED BY <1>3, <1>6, <1>9, <1>11 DEF steps

LEMMA RenderIs ==
  ASSUME NEW O, NEW ops \in Seq(O), NEW s, NEW atomic, Render(s, ops, atomic).ok, CreatedAsLeft(s, ops)
  PROVE  /\ Replay(s, ops).ok
         /\ Render(s, ops, atomic) = RenderGroups(s, Groups(ops), atomic)
<1> DEFINE target == Replay(s, ops)
           left   == [i \in DOMAIN ops |-> AsLeft(ops[i], target.schema)]
<1>1. left = ops
  BY DEF CreatedAsLeft
<1>2. RenderFrom(s, ops, atomic, target) = RenderGroups(s, Groups(left), atomic)
  BY DEF RenderFrom, RenderGroups
<1> HIDE DEF left, target
<1>3. Render(s, ops, atomic) = IF ~target.ok \/ ~Valid(s) \/ ~Valid(target.schema) THEN Plan(FALSE, s, <<>>)
                               ELSE RenderFrom(s, ops, atomic, target)
  BY DEF Render, RenderTo, target
<1>4. Plan(FALSE, s, <<>>).ok = FALSE
  BY DEF Plan
<1>5. target.ok /\ Render(s, ops, atomic) = RenderFrom(s, ops, atomic, target)
  BY <1>3, <1>4
<1> QED BY <1>1, <1>2, <1>5 DEF target

\* The SQL of a migration, executed where it was rendered for, leads where replay
\* leads.
THEOREM MigrationExecutedAsReplayed ==
  ASSUME NEW O, NEW ops \in Seq(O), NEW s, IsMap(s), PlainAlong(s, ops), CreatedAsLeft(s, ops),
         NEW atomic, Render(s, ops, atomic).ok,
         NEW d, d.schema = s, Execute(d, Render(s, ops, atomic).steps).ok
  PROVE  Execute(d, Render(s, ops, atomic).steps).db.schema = Replay(s, ops).schema
<1> DEFINE plan == Render(s, ops, atomic)
<1>1. plan = RenderGroups(s, Groups(ops), atomic)
  BY RenderIs
<1>2. plan.ok /\ Execute(d, plan.steps).ok
  OBVIOUS
<1> HIDE DEF plan
<1>3. Execute(d, plan.steps).db.schema = Replay(s, ops).schema
  BY <1>1, <1>2, ExecutedAsReplayed
<1> QED BY <1>3 DEF plan

LEMMA ReplayIsMap ==
  ASSUME NEW O, NEW ops \in Seq(O), NEW s, IsMap(s), Replay(s, ops).ok
  PROVE  IsMap(Replay(s, ops).schema)
<1> DEFINE n == Len(ops)
<1>1. n \in Nat
  OBVIOUS
<1>2. PICK st : ReplaySteps(st, s, ops, n) /\ Replay(s, ops) = st[n]
  BY <1>1, ReplayTrace
<1>3. st[n].ok
  BY <1>2
<1>4. \A i \in 1 .. n : st[i].schema = Result(st[i - 1].schema, ops[i])
  BY <1>1, <1>2, <1>3, ReplayedAllAlong
<1> DEFINE T == {i \in 0 .. n : IsMap(st[i].schema)}
<1>5. 0 \in T
  <2>1. st[0].schema = s
    BY <1>2, BegunIs DEF ReplaySteps
  <2> QED BY <1>1, <2>1
<1>6. ASSUME NEW i \in 0 .. n - 1, i \in T PROVE i + 1 \in T
  <2>1. i + 1 \in 1 .. n /\ i + 1 \in 0 .. n /\ (i + 1) - 1 = i
    BY <1>1
  <2>2. st[i + 1].schema = Result(st[i].schema, ops[i + 1])
    BY <1>4, <2>1
  <2> QED BY <1>6, <2>1, <2>2, ResultIsMap
<1> HIDE DEF T
<1>7. 0 .. n \subseteq T
  BY <1>1, <1>5, <1>6, UpToInduct
<1>8. n \in T
  BY <1>1, <1>7
<1> QED BY <1>2, <1>8 DEF T

-----------------------------------------------------------------------------
(* Along a history.                                                        *)

Committed(h, order, O) ==
  order \in Seq(DOMAIN h) /\ \A id \in DOMAIN h : h[id].ops \in Seq(O)

\* FlattenSeq, with one more sequence.
LEMMA FlattenOneMore ==
  ASSUME NEW S, NEW n \in Nat, NEW seqs, SequencesOver(seqs, S, n + 1),
         NEW some, SequencesOver(some, S, n), \A i \in 1 .. n : some[i] = seqs[i],
         n = 0 => some = <<>>
  PROVE  /\ FlattenSeq(some) \in Seq(S)
         /\ FlattenSeq(seqs) = FlattenSeq(some) \o seqs[n + 1]
<1>0. n + 1 \in Nat /\ n + 1 # 0 /\ n + 1 \in 1 .. n + 1
  OBVIOUS
<1>1. PICK flat \in [1 .. n + 1 -> Seq(S)] :
         FlatSteps(flat, seqs, n + 1) /\ FlattenSeq(seqs) = flat[n + 1]
  <2> DEFINE m == n + 1
  <2>1. m \in Nat /\ m # 0 /\ SequencesOver(seqs, S, m)
    BY <1>0
  <2> HIDE DEF m
  <2>2. \E flat \in [1 .. m -> Seq(S)] : FlatSteps(flat, seqs, m) /\ FlattenSeq(seqs) = flat[m]
    BY <2>1, FlattenTrace
  <2> QED BY <2>2 DEF m
<1>2. seqs[n + 1] \in Seq(S)
  BY <1>0 DEF SequencesOver
<1>3. CASE n = 0
  <2>1. FlattenSeq(some) = <<>>
    BY <1>3 DEF FlattenSeq
  <2>2. flat[1] = seqs[1]
    BY <1>1 DEF FlatSteps
  <2>3. <<>> \o seqs[n + 1] = seqs[n + 1] /\ <<>> \in Seq(S)
    BY <1>2
  <2> QED BY <1>1, <1>3, <2>1, <2>2, <2>3
<1>4. CASE n # 0
  <2>1. PICK less \in [1 .. n -> Seq(S)] : FlatSteps(less, some, n) /\ FlattenSeq(some) = less[n]
    BY <1>4, FlattenTrace
  <2> DEFINE T == {k \in 0 .. n : k = 0 \/ flat[k] = less[k]}
  <2>2. ASSUME NEW k \in 0 .. n - 1, k \in T PROVE k + 1 \in T
    <3>1. k + 1 \in 0 .. n /\ k + 1 \in 1 .. n
      OBVIOUS
    <3>2. CASE k = 0
      BY <1>1, <2>1, <3>1, <3>2 DEF FlatSteps
    <3>3. CASE k # 0
      <4>1. k + 1 \in 2 .. n /\ k + 1 \in 2 .. n + 1 /\ (k + 1) - 1 = k
        BY <3>3
      <4>2. flat[k + 1] = flat[k] \o seqs[k + 1] /\ less[k + 1] = less[k] \o some[k + 1]
        BY <1>1, <2>1, <4>1 DEF FlatSteps
      <4> QED BY <2>2, <3>1, <3>3, <4>2
    <3> QED BY <3>2, <3>3
  <2>3. 0 .. n \subseteq T
    <3>1. 0 \in T
      OBVIOUS
    <3> HIDE DEF T
    <3> QED BY <2>2, <3>1, UpToInduct
  <2>4. flat[n] = less[n]
    <3>1. n \in T
      BY <2>3
    <3> QED BY <1>4, <3>1
  <2>5. n + 1 \in 2 .. n + 1 /\ (n + 1) - 1 = n /\ n \in 1 .. n
    BY <1>4
  <2>6. flat[n + 1] = flat[n] \o seqs[n + 1]
    BY <1>1, <2>5 DEF FlatSteps
  <2> QED BY <1>1, <2>1, <2>4, <2>5, <2>6
<1> QED BY <1>3, <1>4

AddsOps(h, order, O, n) ==
  /\ OpsUpto(h, order, n - 1) \in Seq(O) /\ h[order[n]].ops \in Seq(O)
  /\ OpsUpto(h, order, n) = OpsUpto(h, order, n - 1) \o h[order[n]].ops

\* Each place in the order adds the operations of its migration.
LEMMA OpsOfNext ==
  ASSUME NEW O, NEW h, NEW order, Committed(h, order, O), NEW n \in 1 .. Len(order)
  PROVE  AddsOps(h, order, O, n)
<1> DEFINE m    == n - 1
           seqs == [i \in 1 .. n |-> h[order[i]].ops]
           some == [i \in 1 .. m |-> h[order[i]].ops]
<1>1. m \in Nat /\ m + 1 = n /\ n \in 1 .. n /\ n \in Nat
  BY DEF Committed
<1>2. \A i \in 1 .. n : h[order[i]].ops \in Seq(O)
  BY DEF Committed
<1>3. SequencesOver(seqs, O, n)
  <2>1. seqs \in Seq(Seq(O)) /\ DOMAIN seqs = 1 .. n /\ Len(seqs) = n
    BY <1>1, <1>2
  <2> QED BY <1>2, <2>1 DEF SequencesOver
<1>4. SequencesOver(some, O, m)
  <2>0. 1 .. m \subseteq 1 .. n
    BY <1>1
  <2>1. some \in Seq(Seq(O)) /\ DOMAIN some = 1 .. m /\ Len(some) = m
    BY <1>1, <1>2, <2>0
  <2> QED BY <1>2, <2>0, <2>1 DEF SequencesOver
<1>5. \A i \in 1 .. m : some[i] = seqs[i]
  BY <1>1
<1>6. m = 0 => some = <<>>
  OBVIOUS
<1>7. seqs[n] = h[order[n]].ops
  BY <1>1
<1>8. OpsUpto(h, order, n) = FlattenSeq(seqs) /\ OpsUpto(h, order, m) = FlattenSeq(some)
  BY DEF OpsUpto
<1> HIDE DEF seqs, some, m
<1>9. /\ FlattenSeq(some) \in Seq(O)
      /\ FlattenSeq(seqs) = FlattenSeq(some) \o seqs[m + 1]
  BY <1>1, <1>3, <1>4, <1>5, <1>6, FlattenOneMore
<1> QED BY <1>1, <1>2, <1>7, <1>8, <1>9 DEF m, AddsOps

\* Each place goes on where the one before it ended.
Continues(h, order, k) ==
  /\ Replay(SchemaAt(h, order, k - 1), h[order[k]].ops).ok
  /\ SchemaAt(h, order, k) = Replay(SchemaAt(h, order, k - 1), h[order[k]].ops).schema

LEMMA NothingReplayed ==
  ASSUME NEW h, NEW order
  PROVE  ReplayedAt(h, order, 0) = Begun(EmptySchema) /\ SchemaAt(h, order, 0) = EmptySchema
<1>1. OpsUpto(h, order, 0) = <<>>
  BY DEF OpsUpto, FlattenSeq
<1>2. PICK st : ReplaySteps(st, EmptySchema, <<>>, Len(<<>>)) /\ Replay(EmptySchema, <<>>) = st[Len(<<>>)]
  BY ReplayTrace
<1>3. Replay(EmptySchema, <<>>) = Begun(EmptySchema)
  BY <1>2 DEF ReplaySteps
<1> QED BY <1>1, <1>3, BegunIs DEF ReplayedAt, SchemaAt

\* A history that replays up to a place replays up to each place before it.
LEMMA HistoryReplays ==
  ASSUME NEW O, NEW h, NEW order, Committed(h, order, O), NEW n \in 0 .. Len(order),
         ReplayedAt(h, order, n).ok
  PROVE  /\ \A k \in 0 .. n : /\ ReplayedAt(h, order, k) = Begun(SchemaAt(h, order, k))
                             /\ IsMap(SchemaAt(h, order, k))
         /\ \A k \in 1 .. n : Continues(h, order, k)
<1> DEFINE At(k)  == SchemaAt(h, order, k)
           Ops(k) == h[order[k]].ops
           T == {i \in 0 .. n : ReplayedAt(h, order, n - i).ok}
           U == {k \in 0 .. n : ReplayedAt(h, order, k) = Begun(At(k)) /\ IsMap(At(k))}
<1>1. n \in Nat /\ \A k \in 1 .. n : k \in 1 .. Len(order)
  BY DEF Committed
<1>2. ASSUME NEW k \in 1 .. n, ReplayedAt(h, order, k).ok
      PROVE  /\ ReplayedAt(h, order, k - 1) = Begun(At(k - 1))
             /\ Continues(h, order, k)
             /\ IsMap(At(k - 1)) => ReplayedAt(h, order, k) = Begun(At(k)) /\ IsMap(At(k))
  <2>1. /\ OpsUpto(h, order, k - 1) \in Seq(O) /\ Ops(k) \in Seq(O)
        /\ OpsUpto(h, order, k) = OpsUpto(h, order, k - 1) \o Ops(k)
    <3>1. AddsOps(h, order, O, k)
      BY <1>1, OpsOfNext
    <3> QED BY <3>1 DEF AddsOps
  <2> DEFINE a == OpsUpto(h, order, k - 1)
             b == Ops(k)
             mid == Replay(EmptySchema, a).schema
  <2>2. Replay(EmptySchema, a \o b).ok
    BY <1>2, <2>1 DEF ReplayedAt
  <2>3. At(k - 1) = mid /\ ReplayedAt(h, order, k - 1) = Replay(EmptySchema, a)
    BY DEF SchemaAt, ReplayedAt
  <2>4. ReplayedAt(h, order, k) = Replay(EmptySchema, a \o b) /\ At(k) = Replay(EmptySchema, a \o b).schema
    BY <2>1 DEF SchemaAt, ReplayedAt
  <2> HIDE DEF a, b, At
  <2>5. Replay(EmptySchema, a) = Begun(mid) /\ Replay(mid, b).ok
    BY <2>1, <2>2, ConcatReplays DEF a, b
  <2> HIDE DEF mid
  <2>6. Replay(EmptySchema, a \o b) = Begun(Replay(mid, b).schema)
    BY <2>1, <2>5, ReplayConcat DEF a, b
  <2>7. At(k) = Replay(mid, b).schema /\ ReplayedAt(h, order, k) = Begun(At(k))
    BY <2>4, <2>6, BegunIs
  <2>8. Continues(h, order, k)
    BY <2>3, <2>5, <2>7 DEF Continues, At, b
  <2>9. IsMap(mid) => IsMap(At(k))
    BY <2>1, <2>5, <2>7, ReplayIsMap DEF b
  <2> QED BY <2>3, <2>5, <2>7, <2>8, <2>9, BegunIs
<1>3. 0 \in T
  <2>1. n - 0 = n
    BY <1>1
  <2> QED BY <1>1, <2>1
<1>4. ASSUME NEW i \in 0 .. n - 1, i \in T PROVE i + 1 \in T
  <2>1. i + 1 \in 0 .. n /\ n - i \in 1 .. n /\ (n - i) - 1 = n - (i + 1)
    BY <1>1
  <2> HIDE DEF At
  <2>2. ReplayedAt(h, order, n - (i + 1)).ok
    BY <1>2, <1>4, <2>1, BegunIs
  <2> QED BY <2>1, <2>2
<1>5. \A k \in 0 .. n : ReplayedAt(h, order, k).ok
  <2> HIDE DEF T
  <2>1. 0 .. n \subseteq T
    BY <1>1, <1>3, <1>4, UpToInduct
  <2>2. ASSUME NEW k \in 0 .. n PROVE ReplayedAt(h, order, k).ok
    <3>1. n - k \in 0 .. n /\ n - (n - k) = k
      BY <1>1
    <3> QED BY <2>1, <3>1 DEF T
  <2> QED BY <2>2
<1>6. 0 \in U
  <2>1. IsMap(EmptySchema)
    BY DEF IsMap, EmptySchema
  <2> QED BY <1>1, <2>1, NothingReplayed
<1>7. ASSUME NEW k \in 0 .. n - 1, k \in U PROVE k + 1 \in U
  <2>1. k + 1 \in 1 .. n /\ k + 1 \in 0 .. n /\ (k + 1) - 1 = k
    BY <1>1
  <2> HIDE DEF At
  <2>2. ReplayedAt(h, order, k + 1) = Begun(At(k + 1)) /\ IsMap(At(k + 1))
    BY <1>2, <1>5, <1>7, <2>1
  <2> QED BY <2>1, <2>2
<1>8. 0 .. n \subseteq U
  <2> HIDE DEF U
  <2> QED BY <1>1, <1>6, <1>7, UpToInduct
<1>9. \A k \in 1 .. n : Continues(h, order, k)
  <2>1. \A k \in 1 .. n : k \in 0 .. n
    BY <1>1
  <2> HIDE DEF At
  <2> QED BY <1>2, <1>5, <2>1
<1> QED BY <1>8, <1>9

\* A plan that is not refused was rendered on a history that replays.
LEMMA RenderedAfter ==
  ASSUME NEW replayed, NEW ops, NEW atomic, RenderAfter(replayed, ops, atomic).ok
  PROVE  /\ replayed.ok /\ Replay(replayed.schema, ops).ok
         /\ RenderAfter(replayed, ops, atomic) = Render(replayed.schema, ops, atomic)
<1> DEFINE s == replayed.schema
<1>1. Plan(FALSE, s, <<>>).ok = FALSE
  BY DEF Plan
<1>2. replayed.ok /\ RenderAfter(replayed, ops, atomic) = Render(s, ops, atomic)
  BY <1>1 DEF RenderAfter
<1>3. Render(s, ops, atomic) = RenderTo(s, ops, atomic, Replay(s, ops)) /\ Render(s, ops, atomic).ok
  BY <1>2 DEF Render
<1> HIDE DEF s
<1>4. Replay(s, ops).ok
  BY <1>1, <1>3 DEF RenderTo
<1> QED BY <1>2, <1>4 DEF s

\* A history whose plans render up to a place replays up to it.
LEMMA RendersReplays ==
  ASSUME NEW O, NEW h, NEW order, Committed(h, order, O), NEW n \in 0 .. Len(order),
         Renders(h, order, n)
  PROVE  ReplayedAt(h, order, n).ok
<1>1. n \in Nat
  BY DEF Committed
<1>2. CASE n = 0
  BY <1>2, NothingReplayed, BegunIs
<1>3. CASE n # 0
  <2> DEFINE m   == n - 1
             mid == ReplayedAt(h, order, m)
             ops == h[order[n]].ops
             prefix == OpsUpto(h, order, m)
  <2>1. n \in 1 .. n /\ n \in 1 .. Len(order) /\ m \in 0 .. Len(order) /\ m \in 0 .. m
    BY <1>1, <1>3
  <2>2. Forward(h, order, n).ok
    BY <2>1 DEF Renders
  <2>3. mid.ok /\ Replay(mid.schema, ops).ok
    BY <2>2, RenderedAfter DEF Forward
  <2>4. mid = Begun(SchemaAt(h, order, m))
    <3>1. \A k \in 0 .. m : ReplayedAt(h, order, k) = Begun(SchemaAt(h, order, k))
      BY <2>1, <2>3, HistoryReplays
    <3> QED BY <2>1, <3>1
  <2>5. prefix \in Seq(O) /\ ops \in Seq(O) /\ OpsUpto(h, order, n) = prefix \o ops
    <3>1. AddsOps(h, order, O, n)
      BY ONLY Committed(h, order, O), <2>1, OpsOfNext
    <3> QED BY <3>1 DEF AddsOps
  <2>6. mid = Replay(EmptySchema, prefix) /\ ReplayedAt(h, order, n) = Replay(EmptySchema, OpsUpto(h, order, n))
    BY DEF ReplayedAt
  <2> DEFINE s == SchemaAt(h, order, m)
  <2> HIDE DEF mid, ops, prefix, s
  <2>7. Replay(EmptySchema, prefix) = Begun(s) /\ Replay(s, ops).ok
    BY <2>3, <2>4, <2>6, BegunIs DEF s
  <2>8. Replay(EmptySchema, prefix \o ops) = Begun(Replay(s, ops).schema)
    BY <2>5, <2>7, ReplayConcat
  <2> QED BY <2>5, <2>6, <2>8, BegunIs
<1> QED BY <1>2, <1>3

\* Where a history renders, its plans are those of its places.
LEMMA PlacesOf ==
  ASSUME NEW O, NEW h, NEW order, Committed(h, order, O), NEW n \in 1 .. Len(order),
         Renders(h, order, n)
  PROVE  /\ h[order[n]].ops \in Seq(O)
         /\ IsMap(SchemaAt(h, order, n - 1)) /\ IsMap(SchemaAt(h, order, n))
         /\ Continues(h, order, n)
         /\ Forward(h, order, n) = Render(SchemaAt(h, order, n - 1), h[order[n]].ops, h[order[n]].atomic)
         /\ Forward(h, order, n).ok
         /\ Backward(h, order, n).ok =>
              /\ Reversible(h[order[n]].ops)
              /\ Backward(h, order, n) = Render(SchemaAt(h, order, n), RollbackOps(h[order[n]].ops),
                                                h[order[n]].atomic)
<1>1. n \in 0 .. Len(order) /\ n \in 1 .. n /\ n \in 0 .. n /\ n - 1 \in 0 .. n
  BY DEF Committed
<1>2. ReplayedAt(h, order, n).ok
  BY <1>1, RendersReplays
<1>3. /\ \A k \in 0 .. n : /\ ReplayedAt(h, order, k) = Begun(SchemaAt(h, order, k))
                            /\ IsMap(SchemaAt(h, order, k))
      /\ \A k \in 1 .. n : Continues(h, order, k)
  BY <1>1, <1>2, HistoryReplays
<1>4. h[order[n]].ops \in Seq(O)
  BY OpsOfNext DEF AddsOps
<1>5. Forward(h, order, n).ok
  BY <1>1 DEF Renders
<1>6. Forward(h, order, n) = Render(SchemaAt(h, order, n - 1), h[order[n]].ops, h[order[n]].atomic)
  BY <1>5, RenderedAfter DEF Forward, SchemaAt
<1>7. ASSUME Backward(h, order, n).ok
      PROVE  /\ Reversible(h[order[n]].ops)
             /\ Backward(h, order, n) = Render(SchemaAt(h, order, n), RollbackOps(h[order[n]].ops),
                                               h[order[n]].atomic)
  <2>1. Plan(FALSE, EmptySchema, <<>>).ok = FALSE
    BY DEF Plan
  <2>2. /\ Reversible(h[order[n]].ops)
        /\ Backward(h, order, n) = RenderAfter(ReplayedAt(h, order, n), RollbackOps(h[order[n]].ops),
                                               h[order[n]].atomic)
    BY <1>7, <2>1 DEF Backward
  <2> QED BY <1>7, <2>2, RenderedAfter DEF SchemaAt
<1> QED BY <1>1, <1>3, <1>4, <1>5, <1>6, <1>7

LEMMA UndosAreOps ==
  ASSUME NEW O, NEW ops \in Seq(O)
  PROVE  RollbackOps(ops) \in Seq({Undo(op) : op \in O})
<1> DEFINE B    == {Undo(op) : op \in O}
           back == RollbackOps(ops)
<1>1. Len(ops) \in Nat /\ DOMAIN ops = 1 .. Len(ops)
  OBVIOUS
<1>2. ASSUME NEW i \in 1 .. Len(ops) PROVE Undo(ops[Len(ops) + 1 - i]) \in B
  <2>1. Len(ops) + 1 - i \in DOMAIN ops
    BY <1>1
  <2>2. ops[Len(ops) + 1 - i] \in O
    BY <2>1
  <2> QED BY <2>2
<1>3. back = [i \in 1 .. Len(ops) |-> Undo(ops[Len(ops) + 1 - i])]
  BY <1>1 DEF RollbackOps
<1> HIDE DEF B, back
<1>4. back \in Seq(B)
  BY <1>1, <1>2, <1>3
<1> QED BY <1>4 DEF B, back

\* A migration executed on the schema of its place in a history that preflight
\* rendered up to there takes the database to the schema of the next place.
THEOREM AppliedIsNextSchema ==
  ASSUME NEW O, NEW h, NEW order, Committed(h, order, O), NEW n \in 1 .. Len(order),
         Renders(h, order, n), PlainForward(h, order, n),
         NEW d, d.schema = SchemaAt(h, order, n - 1),
         Execute(d, Forward(h, order, n).steps).ok
  PROVE  Execute(d, Forward(h, order, n).steps).db.schema = SchemaAt(h, order, n)
<1> DEFINE s   == SchemaAt(h, order, n - 1)
           ops == h[order[n]].ops
           atomic == h[order[n]].atomic
<1>1. /\ IsMap(s) /\ SchemaAt(h, order, n) = Replay(s, ops).schema /\ ops \in Seq(O)
      /\ Forward(h, order, n) = Render(s, ops, atomic) /\ Forward(h, order, n).ok
  BY PlacesOf DEF Continues
<1>2. PlainAlong(s, ops) /\ CreatedAsLeft(s, ops) /\ d.schema = s
  BY DEF PlainForward, PlainRender
<1>3. Execute(d, Render(s, ops, atomic).steps).ok
  BY <1>1
<1> HIDE DEF s, ops, atomic
<1>4. Execute(d, Render(s, ops, atomic).steps).db.schema = Replay(s, ops).schema
  BY ONLY <1>1, <1>2, <1>3, MigrationExecutedAsReplayed
<1> QED BY <1>1, <1>4

\* The rollback of a migration leads replay from the schema of its place to the one
\* before, when nothing is lost on the way.
LEMMA UndoneAt ==
  ASSUME NEW O, NEW h, NEW order, Committed(h, order, O), NEW n \in 1 .. Len(order),
         Continues(h, order, n), LosslessAt(h, order, n)
  PROVE  Replay(SchemaAt(h, order, n), RollbackOps(h[order[n]].ops)) = Begun(SchemaAt(h, order, n - 1))
<1> DEFINE before == SchemaAt(h, order, n - 1)
           ops    == h[order[n]].ops
<1>1. ops \in Seq(O)
  BY OpsOfNext DEF AddsOps
<1>2. Replay(before, ops).ok /\ SchemaAt(h, order, n) = Replay(before, ops).schema
  BY DEF Continues
<1>3. \A i \in DOMAIN ops : /\ WellShaped(Halfway(before, ops, i - 1))
                            /\ Lossless(Halfway(before, ops, i - 1), ops[i])
  BY DEF LosslessAt
<1> HIDE DEF before, ops
<1>4. Replay(Replay(before, ops).schema, RollbackOps(ops)) = Begun(before)
  BY <1>1, <1>2, <1>3, MigrationUndone
<1> QED BY <1>2, <1>4 DEF before, ops

\* And executed on the schema of its place, it takes the database back.
THEOREM RolledBackIsPreviousSchema ==
  ASSUME NEW O, NEW h, NEW order, Committed(h, order, O), NEW n \in 1 .. Len(order),
         Renders(h, order, n), LosslessAt(h, order, n), PlainBackward(h, order, n),
         NEW d, d.schema = SchemaAt(h, order, n),
         Backward(h, order, n).ok, Execute(d, Backward(h, order, n).steps).ok
  PROVE  Execute(d, Backward(h, order, n).steps).db.schema = SchemaAt(h, order, n - 1)
<1> DEFINE s    == SchemaAt(h, order, n)
           before == SchemaAt(h, order, n - 1)
           ops  == h[order[n]].ops
           back == RollbackOps(ops)
           atomic == h[order[n]].atomic
           B    == {Undo(op) : op \in O}
<1>1. /\ IsMap(s) /\ ops \in Seq(O) /\ Continues(h, order, n)
      /\ Backward(h, order, n) = Render(s, back, atomic)
  BY PlacesOf
<1>2. back \in Seq(B)
  BY <1>1, UndosAreOps
<1>3. Replay(s, back) = Begun(before)
  BY <1>1, UndoneAt
<1>4. PlainAlong(s, back) /\ CreatedAsLeft(s, back) /\ d.schema = s
  BY DEF PlainBackward, PlainRender
<1>5. Render(s, back, atomic).ok /\ Execute(d, Render(s, back, atomic).steps).ok
  BY <1>1
<1> HIDE DEF s, back, atomic, B, before
<1>6. Execute(d, Render(s, back, atomic).steps).db.schema = Replay(s, back).schema
  BY ONLY <1>1, <1>2, <1>4, <1>5, MigrationExecutedAsReplayed
<1> QED BY <1>1, <1>3, <1>6, BegunIs DEF before

-----------------------------------------------------------------------------
(* The values.                                                             *)

LEMMA LastOf ==
  ASSUME NEW a \in Nat, NEW b \in Nat, NEW S \in SUBSET (a .. b), S # {}
  PROVE  Max(S) \in a .. b
<1>1. S \in SUBSET Nat /\ \A x \in S : x <= b
  OBVIOUS
<1> QED BY <1>1, MaxExists

LEMMA FirstOf ==
  ASSUME NEW a \in Nat, NEW b \in Nat, NEW S \in SUBSET (a .. b), S # {}
  PROVE  Min(S) \in a .. b
<1>1. S \in SUBSET Nat
  OBVIOUS
<1>2. \E x \in S : \A y \in S : x <= y
  BY <1>1, LeastElement
<1>3. Min(S) \in S
  BY <1>2 DEF Min
<1> QED BY <1>3

\* There is a value for each column, and a table has rows in all of its columns or
\* in none.
Tidy(d) ==
  /\ DOMAIN d.data = AllColumns(d.schema)
  /\ \A k \in AllColumns(d.schema) : d.data[k] = "none" <=> ~HasRows(d, k.table)

\* A column belongs to the columns of its table.
LEMMA ColumnsOfTables ==
  ASSUME NEW s
  PROVE  /\ \A k \in AllColumns(s) : k \in ColumnKeys(s, k.table) /\ k \in DOMAIN s
         /\ \A t : \A k \in ColumnKeys(s, t) : k \in AllColumns(s) /\ k.table = t
  BY DEF AllColumns, ColumnKeys, Children, ChildKinds

\* What is "none" exactly where a table had no rows leaves a tidy database.
LEMMA TidyBy ==
  ASSUME NEW n, DOMAIN n.data = AllColumns(n.schema), NEW full,
         \A k \in AllColumns(n.schema) : n.data[k] = "none" <=> k.table \notin full
  PROVE  /\ Tidy(n)
         /\ \A t : ColumnKeys(n.schema, t) # {} => (HasRows(n, t) <=> t \in full)
<1>1. ASSUME NEW t
      PROVE  /\ HasRows(n, t) => t \in full
             /\ t \in full /\ ColumnKeys(n.schema, t) # {} => HasRows(n, t)
  <2>1. \A k \in ColumnKeys(n.schema, t) : n.data[k] = "none" <=> t \notin full
    BY ColumnsOfTables
  <2> QED BY <2>1 DEF HasRows
<1>2. ASSUME NEW k \in AllColumns(n.schema) PROVE n.data[k] = "none" <=> ~HasRows(n, k.table)
  <2>1. ColumnKeys(n.schema, k.table) # {}
    BY ColumnsOfTables
  <2> QED BY <1>1, <2>1
<1> QED BY <1>1, <1>2 DEF Tidy

\* A value that is filled or cast was there.
LEMMA ChangedValue ==
  ASSUME NEW v, NEW cast, NEW fill
  PROVE  Filled(CastTo(v, cast), fill) = "none" <=> v = "none"
  BY DEF Filled, CastTo

InPlaceIs(d, op, n) ==
  /\ n.schema = Result(d.schema, op)
  /\ DOMAIN n.data = AllColumns(n.schema)
  /\ \A k \in AllColumns(n.schema) : n.data[k] = Value(d, k, op)
  /\ n = Database(n.schema, n.data)
  /\ n.data = [k \in AllColumns(n.schema) |-> n.data[k]]

LEMMA DoneInPlace ==
  ASSUME NEW d, IsMap(d.schema), NEW op, NoOldName(Result(d.schema, op), op),
         NEW n, n = InPlace(d, op)
  PROVE  InPlaceIs(d, op, n)
<1> DEFINE s == Result(d.schema, op)
           values == [k \in AllColumns(s) |-> Value(d, k, op)]
<1>1. ReferAll(s, op) = s
  BY ResultIsMap, NothingToRefer
<1>2. n = Database(s, values)
  BY <1>1 DEF InPlace, InPlaceOn
<1>3. DOMAIN values = AllColumns(s) /\ \A k \in AllColumns(s) : values[k] = Value(d, k, op)
  OBVIOUS
<1>4. values = [k \in AllColumns(s) |-> values[k]]
  OBVIOUS
<1> HIDE DEF values, s
<1>5. n.schema = s /\ n.data = values
  BY <1>2 DEF Database
<1> QED BY <1>2, <1>3, <1>4, <1>5 DEF InPlaceIs, s

\* The rows stay where they are, whatever else an operation does.
LEMMA StaysTidy ==
  ASSUME NEW d, Tidy(d), NEW op, op.act # "rename", NEW n, InPlaceIs(d, op, n)
  PROVE  /\ Tidy(n)
         /\ \A t : ColumnKeys(n.schema, t) # {} => (HasRows(n, t) <=> HasRows(d, t))
<1> DEFINE full == {t \in {k.table : k \in AllColumns(n.schema)} : HasRows(d, t)}
<1>1. ASSUME NEW k \in AllColumns(n.schema) PROVE n.data[k] = "none" <=> ~HasRows(d, k.table)
  <2>1. n.data[k] = Value(d, k, op) /\ Origin(k, op) = k
    BY DEF InPlaceIs, Origin
  <2>2. CASE k \in DOMAIN d.data
    <3>1. d.data[k] = "none" <=> ~HasRows(d, k.table)
      BY <2>2 DEF Tidy
    <3>2. n.data[k] = "none" <=> d.data[k] = "none"
      <4>1. CASE op.act = "alter" /\ op.key = k
        BY <2>1, <2>2, <4>1, ChangedValue DEF Value
      <4>2. CASE ~(op.act = "alter" /\ op.key = k)
        BY <2>1, <2>2, <4>2 DEF Value
      <4> QED BY <4>1, <4>2
    <3> QED BY <3>1, <3>2
  <2>3. CASE k \notin DOMAIN d.data
    BY <2>1, <2>3 DEF Value
  <2> QED BY <2>2, <2>3
<1>2. \A k \in AllColumns(n.schema) : n.data[k] = "none" <=> k.table \notin full
  BY <1>1
<1>3. \A t : ColumnKeys(n.schema, t) # {} => (t \in full <=> HasRows(d, t))
  BY ColumnsOfTables
<1> HIDE DEF full
<1>4. /\ Tidy(n)
      /\ \A t : ColumnKeys(n.schema, t) # {} => (HasRows(n, t) <=> t \in full)
  BY <1>2, TidyBy DEF InPlaceIs
<1> QED BY <1>3, <1>4

\* A column that is renamed takes its values with it.
LEMMA ColumnRenamedTidy ==
  ASSUME NEW d, Tidy(d), NEW op, op.act = "rename", op.key = Key("column", op.key.table, op.key.name),
         Accepts(d.schema, op), NEW n, InPlaceIs(d, op, n)
  PROVE  Tidy(n)
<1> DEFINE s   == d.schema
           to  == Key("column", op.key.table, op.new)
           full == {t \in {k.table : k \in AllColumns(n.schema)} : HasRows(d, t)}
<1>1. op.key.kind = "column" /\ op.key \in DOMAIN s /\ [op.key EXCEPT !.name = op.new] = to
      /\ to.kind = "column" /\ to.table = op.key.table
  <2>1. op.key.kind = "column" /\ [op.key EXCEPT !.name = op.new] = to
        /\ to.kind = "column" /\ to.table = op.key.table
    BY DEF Key
  <2>2. AcceptsRename(s, op)
    BY DEF Accepts
  <2> QED BY <2>1, <2>2 DEF AcceptsRename
<1>2. DOMAIN n.schema = (DOMAIN s \ {op.key}) \cup {to}
  BY <1>1 DEF InPlaceIs, Result, ResultRenameColumn
<1>3. ASSUME NEW k \in AllColumns(n.schema) PROVE n.data[k] = "none" <=> ~HasRows(d, k.table)
  <2> DEFINE from == IF k = to THEN op.key ELSE k
  <2>1. Origin(k, op) = from
    BY <1>1 DEF Origin
  <2>2. from \in AllColumns(s) /\ from.table = k.table
    BY <1>1, <1>2 DEF AllColumns
  <2>3. n.data[k] = d.data[from]
    BY <2>1, <2>2 DEF InPlaceIs, Value, Tidy
  <2> QED BY <2>2, <2>3 DEF Tidy
<1>4. \A k \in AllColumns(n.schema) : n.data[k] = "none" <=> k.table \notin full
  BY <1>3
<1> HIDE DEF full
<1> QED BY <1>4, TidyBy DEF InPlaceIs

\* So does a table.
LEMMA TableRenamedTidy ==
  ASSUME NEW d, Tidy(d), Orderly(d.schema), NEW op, op.act = "rename", op.key = TableKey(op.key.name),
         Accepts(d.schema, op), NEW n, InPlaceIs(d, op, n)
  PROVE  Tidy(n)
<1> DEFINE s   == d.schema
           old == op.key.name
           new == op.new
           was(t) == IF t = new THEN old ELSE t
           full == {t \in {k.table : k \in AllColumns(n.schema)} : HasRows(d, was(t))}
<1>1. op.key.kind = "table" /\ (new = old \/ TableKey(new) \notin DOMAIN s)
  <2>1. op.key.kind = "table"
    BY DEF TableKey, Key
  <2>2. AcceptsRename(s, op)
    BY DEF Accepts
  <2> QED BY <2>1, <2>2 DEF AcceptsRename
<1>2. DOMAIN n.schema = {Renamed(x, old, new) : x \in DOMAIN s}
  BY <1>1 DEF InPlaceIs, Result, ResultRenameTable
<1>3. ASSUME NEW k \in AllColumns(n.schema) PROVE n.data[k] = "none" <=> ~HasRows(d, was(k.table))
  <2>1. k \in DOMAIN n.schema /\ k.kind = "column"
    BY DEF AllColumns
  <2>2. PICK x \in DOMAIN s : k = Renamed(x, old, new)
    BY <1>2, <2>1
  <2>3. x # TableKey(old) /\ x.kind = "column" /\ k # TableKey(new)
    <3>1. TableKey(new).kind = "table"
      BY DEF TableKey, Key
    <3>2. x # TableKey(old) /\ k # TableKey(new)
      BY <2>1, <2>2, <3>1 DEF Renamed
    <3> QED BY <2>1, <2>2, <3>2 DEF Renamed
  <2>4. x \in AllColumns(s) /\ x = Key("column", x.table, x.name) /\ TableKey(x.table) \in DOMAIN s
    BY <2>3 DEF AllColumns, Orderly
  <2>5. Renamed(k, new, old) = x /\ was(k.table) = x.table
    <3>1. CASE x.table = old
      <4>1. k = Key("column", new, x.name)
        <5>1. k = [x EXCEPT !.table = new]
          BY <2>2, <2>3, <3>1 DEF Renamed
        <5> QED BY <2>4, <5>1 DEF Key
      <4>2. k.table = new /\ Renamed(k, new, old) = [k EXCEPT !.table = old]
        BY <2>3, <4>1 DEF Renamed, Key
      <4>3. Renamed(k, new, old) = Key("column", old, x.name)
        BY <4>1, <4>2 DEF Key
      <4> QED BY <2>4, <3>1, <4>2, <4>3
    <3>2. CASE x.table # old
      <4>1. k = x /\ x.table # new
        BY <1>1, <2>2, <2>3, <2>4, <3>2 DEF Renamed
      <4> QED BY <2>3, <4>1 DEF Renamed
    <3> QED BY <3>1, <3>2
  <2>6. Origin(k, op) = x
    BY <1>1, <2>5 DEF Origin
  <2>7. n.data[k] = d.data[x]
    BY <2>4, <2>6 DEF InPlaceIs, Value, Tidy
  <2> QED BY <2>4, <2>5, <2>7 DEF Tidy
<1>4. \A k \in AllColumns(n.schema) : n.data[k] = "none" <=> k.table \notin full
  BY <1>3
<1> HIDE DEF full
<1> QED BY <1>4, TidyBy DEF InPlaceIs

LEMMA InPlaceTidy ==
  ASSUME NEW d, Tidy(d), IsMap(d.schema), Orderly(d.schema), NEW op, Accepts(d.schema, op),
         SaysWhatItIs(d.schema, op), NoOldName(Result(d.schema, op), op),
         NEW n, n = InPlace(d, op)
  PROVE  Tidy(n) /\ InPlaceIs(d, op, n)
<1>1. InPlaceIs(d, op, n)
  BY DoneInPlace
<1>2. CASE op.act # "rename"
  BY <1>1, <1>2, StaysTidy
<1>3. CASE op.act = "rename" /\ op.key = TableKey(op.key.name)
  BY <1>1, <1>3, TableRenamedTidy
<1>4. CASE op.act = "rename" /\ op.key = Key("column", op.key.table, op.key.name)
  BY <1>1, <1>4, ColumnRenamedTidy
<1>5. op.act = "rename" => op.key = TableKey(op.key.name) \/ op.key = Key("column", op.key.table, op.key.name)
  BY DEF SaysWhatItIs
<1> QED BY <1>1, <1>2, <1>3, <1>4, <1>5

-----------------------------------------------------------------------------
(* A rebuild, one operation at a time.                                     *)

\* An operation that rebuilds a table changes one entity of it.
ChangesOne(s, n, op) ==
  /\ op.act \in {"create", "drop", "alter"}
  /\ op.act = "create" => op.key \notin DOMAIN s /\ DOMAIN n = DOMAIN s \cup {op.key}
  /\ op.act = "drop" => DOMAIN n = DOMAIN s \ {op.key}
  /\ op.act = "alter" => op.key.kind = "column" /\ op.key \in DOMAIN s /\ DOMAIN n = DOMAIN s
  /\ op.act # "drop" => n[op.key] = op.new
  /\ \A k \in DOMAIN n : k # op.key => n[k] = s[k]

LEMMA RebuildChangesOne ==
  ASSUME NEW s, NEW op, RebuildsTable(op), Accepts(s, op), NoRow(s), NEW n, n = Result(s, op)
  PROVE  ChangesOne(s, n, op)
<1> DEFINE k == op.key
<1>1. /\ k.kind \in {"column", "foreign_key", "constraint"}
      /\ op.act \in {"create", "drop", "alter"} /\ (op.act = "alter" => k.kind = "column")
  BY DEF RebuildsTable
<1>2. k.kind \in ChildKinds /\ k.kind # "table"
  BY <1>1 DEF ChildKinds
<1>3. CASE op.act = "create"
  <2>1. n = Put(s, k, op.new)
    BY <1>2, <1>3 DEF Result, ResultCreate
  <2>2. k \notin DOMAIN s
    BY <1>2, <1>3 DEF Accepts, AcceptsItem
  <2> QED BY <1>3, <2>1, <2>2 DEF ChangesOne, Put
<1>4. CASE op.act = "drop"
  <2>1. n = ResultDrop(s, op)
    BY <1>4 DEF Result
  <2>2. \A x \in DOMAIN s : x \notin RowsOf(s, k.table)
    BY DEF NoRow, RowsOf
  <2>3. n = [x \in DOMAIN s \ {k} |-> s[x]]
    <3>1. CASE k.kind = "column"
      BY <1>2, <2>1, <2>2, <3>1 DEF ResultDrop
    <3>2. CASE k.kind # "column"
      BY <1>2, <2>1, <3>2 DEF ResultDrop, Without
    <3> QED BY <3>1, <3>2
  <2> QED BY <1>4, <2>3 DEF ChangesOne
<1>5. CASE op.act = "alter"
  <2>1. n = [s EXCEPT ![k] = op.new]
    BY <1>5 DEF Result
  <2>2. k \in DOMAIN s
    BY <1>5 DEF Accepts, AcceptsAlter
  <2>3. DOMAIN n = DOMAIN s /\ n[k] = op.new /\ \A x \in DOMAIN s : x # k => n[x] = s[x]
    BY <2>1, <2>2
  <2> HIDE DEF k
  <2> QED BY <1>1, <1>5, <2>2, <2>3 DEF ChangesOne, k
<1> QED BY <1>1, <1>3, <1>4, <1>5

\* The schemas that the operations of a group lead through, and the databases if each
\* is done in place.
InPlaceSteps(e, d, ops, n) == e[0] = d /\ \A i \in 1 .. n : e[i] = InPlace(e[i - 1], ops[i])

Path(at, s, group, m) ==
  /\ at[0] = s
  /\ \A i \in 1 .. m : /\ Accepts(at[i - 1], group[i])
                       /\ at[i] = Result(at[i - 1], group[i])

PlainPath(at, group, m) ==
  /\ \A i \in 0 .. m : NoRow(at[i]) /\ Orderly(at[i])
  /\ \A i \in 1 .. m : NoOldName(at[i], group[i]) /\ SaysWhatItIs(at[i - 1], group[i])
  /\ \A i, j \in 1 .. m : i # j /\ RebuildsTable(group[i]) /\ RebuildsTable(group[j])
                              /\ group[i].key.kind = "column" => group[i].key # group[j].key

Untouched(group, i, k) == \A j \in 1 .. i : group[j].key # k

\* After i of the operations: a column that none of them is about is as before, and
\* one that the j-th is about is as it makes it from what was before.
Follows(s, d, t, group, now, e, i) ==
  /\ e.schema = now /\ Tidy(e)
  /\ HasRows(e, t) <=> HasRows(d, t)
  /\ \A k : Untouched(group, i, k) => (k \in DOMAIN now <=> k \in DOMAIN s)
  /\ \A k \in AllColumns(now) : Untouched(group, i, k) => now[k] = s[k] /\ e.data[k] = d.data[k]
  /\ \A j \in 1 .. i : \A k \in AllColumns(now) : group[j].key = k =>
       /\ now[k] = group[j].new /\ e.data[k] = Value(d, k, group[j])
       /\ group[j].act = "alter" => k \in DOMAIN s /\ group[j].old = s[k]
       /\ group[j].act # "alter" => k \notin DOMAIN s

LEMMA FollowsOneMore ==
  ASSUME NEW s, NEW d, d.schema = s, Tidy(d), NEW t, NEW group, NEW i \in Nat,
         NEW now, NEW e, Follows(s, d, t, group, now, e, i),
         NEW op, op = group[i + 1], RebuildsTable(op), op.key.table = t,
         NEW next, ChangesOne(now, next, op), NEW n, InPlaceIs(e, op, n), n.schema = next,
         Tidy(n), HasRows(n, t) <=> HasRows(e, t),
         op.key.kind = "column" => Untouched(group, i, op.key),
         op.act = "alter" => op.old = now[op.key]
  PROVE  Follows(s, d, t, group, next, n, i + 1)
<1>1. \A k : Untouched(group, i + 1, k) <=> Untouched(group, i, k) /\ k # op.key
  <2>1. 1 .. i + 1 = (1 .. i) \cup {i + 1}
    OBVIOUS
  <2> QED BY <2>1 DEF Untouched
<1>2. HasRows(n, t) <=> HasRows(d, t)
  BY DEF Follows
<1>3. \A k : Untouched(group, i + 1, k) => (k \in DOMAIN next <=> k \in DOMAIN s)
  BY <1>1 DEF Follows, ChangesOne
<1>4. ASSUME NEW k \in AllColumns(next), k # op.key
      PROVE  k \in AllColumns(now) /\ next[k] = now[k] /\ n.data[k] = e.data[k]
  <2>1. k \in AllColumns(now) /\ next[k] = now[k]
    BY <1>4 DEF ChangesOne, AllColumns
  <2>2. k \in DOMAIN e.data
    BY <2>1 DEF Follows, Tidy
  <2>3. op.act # "rename"
    BY DEF ChangesOne
  <2>4. n.data[k] = Value(e, k, op) /\ Origin(k, op) = k
    BY <2>3 DEF InPlaceIs, Origin
  <2>5. n.data[k] = e.data[k]
    BY <1>4, <2>2, <2>4 DEF Value
  <2> QED BY <2>1, <2>5
<1>5. ASSUME NEW k \in AllColumns(next), k = op.key
      PROVE  /\ next[k] = op.new /\ n.data[k] = Value(d, k, op)
             /\ op.act = "alter" => k \in DOMAIN s /\ op.old = s[k]
             /\ op.act # "alter" => k \notin DOMAIN s
  <2>1. k.kind = "column" /\ k \in DOMAIN next /\ k.table = t
    BY <1>5 DEF AllColumns
  <2>2. Untouched(group, i, k)
    BY <1>5, <2>1
  <2>3. k \in DOMAIN now <=> k \in DOMAIN s
    BY <2>2 DEF Follows
  <2>4. n.data[k] = Value(e, k, op) /\ Origin(k, op) = k
    BY DEF InPlaceIs, Origin, ChangesOne
  <2>5. k \in DOMAIN e.data <=> k \in DOMAIN now
    BY <2>1 DEF Follows, Tidy, AllColumns
  <2>6. k \in DOMAIN d.data <=> k \in DOMAIN s
    BY <2>1 DEF Tidy, AllColumns
  <2>7. CASE op.act = "alter"
    <3>1. k \in DOMAIN now /\ k \in AllColumns(now)
      BY <1>5, <2>1, <2>7 DEF ChangesOne, AllColumns
    <3>2. now[k] = s[k] /\ e.data[k] = d.data[k]
      BY <2>2, <3>1 DEF Follows
    <3>3. Value(e, k, op) = Value(d, k, op)
      BY <1>5, <2>3, <2>4, <2>5, <2>6, <2>7, <3>1, <3>2 DEF Value
    <3>4. next[k] = op.new
      BY <1>5, <2>7 DEF ChangesOne
    <3> QED BY <1>5, <2>3, <2>4, <2>7, <3>1, <3>2, <3>3, <3>4
  <2>8. CASE op.act # "alter"
    <3>1. op.act = "create" /\ k \notin DOMAIN now /\ next[k] = op.new
      BY <1>5, <2>1, <2>8 DEF ChangesOne
    <3>2. HasRows(e, k.table) <=> HasRows(d, k.table)
      BY <2>1 DEF Follows
    <3>3. Value(e, k, op) = Value(d, k, op)
      BY <2>3, <2>4, <2>5, <2>6, <3>1, <3>2 DEF Value
    <3> QED BY <2>3, <2>4, <2>8, <3>1, <3>3
  <2> QED BY <2>7, <2>8
<1>6. \A k \in AllColumns(next) : Untouched(group, i + 1, k) => next[k] = s[k] /\ n.data[k] = d.data[k]
  BY <1>1, <1>4 DEF Follows
<1>7. ASSUME NEW j \in 1 .. i + 1, NEW k \in AllColumns(next), group[j].key = k
      PROVE  /\ next[k] = group[j].new /\ n.data[k] = Value(d, k, group[j])
             /\ group[j].act = "alter" => k \in DOMAIN s /\ group[j].old = s[k]
             /\ group[j].act # "alter" => k \notin DOMAIN s
  <2>1. CASE j = i + 1
    BY <1>5, <1>7, <2>1
  <2>2. CASE j # i + 1
    <3>1. j \in 1 .. i
      BY <2>2
    <3>2. k # op.key
      BY <1>7, <3>1 DEF AllColumns, Untouched
    <3> QED BY <1>4, <1>7, <3>1, <3>2 DEF Follows
  <2> QED BY <2>1, <2>2
<1> QED BY <1>2, <1>3, <1>6, <1>7 DEF Follows

LEMMA FollowsThroughout ==
  ASSUME NEW s, IsMap(s), NEW d, d.schema = s, Tidy(d), NEW t, NEW group, NEW m, m = Len(group),
         IsRebuildOf(group, t),
         NEW at, Path(at, s, group, m), PlainPath(at, group, m),
         NEW e, InPlaceSteps(e, d, group, m)
  PROVE  /\ Follows(s, d, t, group, at[m], e[m], m)
         /\ IsMap(at[m]) /\ InPlaceIs(e[m - 1], group[m], e[m])
<1> DEFINE T == {i \in 0 .. m : Follows(s, d, t, group, at[i], e[i], i) /\ IsMap(at[i])}
<1>1. m \in Nat /\ m >= 1
  BY DEF IsRebuildOf
<1>2. 0 \in T
  <2>1. at[0] = s /\ e[0] = d
    BY DEF Path, InPlaceSteps
  <2>2. Follows(s, d, t, group, s, d, 0)
    BY DEF Follows
  <2> QED BY <1>1, <2>1, <2>2
<1>3. ASSUME NEW i \in 0 .. m - 1, Follows(s, d, t, group, at[i], e[i], i), IsMap(at[i])
      PROVE  /\ Follows(s, d, t, group, at[i + 1], e[i + 1], i + 1)
             /\ IsMap(at[i + 1]) /\ InPlaceIs(e[i], group[i + 1], e[i + 1])
  <2> DEFINE op   == group[i + 1]
             now  == at[i]
             next == at[i + 1]
             n    == e[i + 1]
  <2>1. i + 1 \in 1 .. m /\ i + 1 \in 0 .. m /\ i \in 0 .. m /\ (i + 1) - 1 = i /\ i \in Nat
    BY <1>1
  <2>2. RebuildsTable(op) /\ op.key.table = t
    BY <1>1, <2>1 DEF IsRebuildOf
  <2>3. Accepts(now, op) /\ next = Result(now, op)
    BY <2>1 DEF Path
  <2>4. NoRow(now) /\ Orderly(now) /\ Orderly(next) /\ NoOldName(next, op) /\ SaysWhatItIs(now, op)
    BY <2>1 DEF PlainPath
  <2>5. n = InPlace(e[i], op) /\ e[i].schema = now /\ Tidy(e[i])
    BY <1>3, <2>1 DEF InPlaceSteps, Follows
  <2>6. op.key.kind = "column" => Untouched(group, i, op.key)
    <3>1. \A j \in 1 .. i : j \in 1 .. m /\ j # i + 1 /\ RebuildsTable(group[j])
      BY <1>1, <2>1 DEF IsRebuildOf
    <3> QED BY <2>1, <2>2, <3>1 DEF PlainPath, Untouched
  <2> HIDE DEF op, now, next, n
  <2>7. InPlaceIs(e[i], op, n) /\ Tidy(n) /\ n.schema = next
    <3>1. InPlaceIs(e[i], op, n) /\ Tidy(n)
      BY <1>3, <2>3, <2>4, <2>5, InPlaceTidy DEF now
    <3> QED BY <2>3, <2>5, <3>1 DEF InPlaceIs
  <2>8. ChangesOne(now, next, op)
    BY <2>2, <2>3, <2>4, RebuildChangesOne
  <2>9. HasRows(n, t) <=> HasRows(e[i], t)
    <3>1. TableKey(t) \in DOMAIN next
      BY <2>2, <2>3, <2>4, RebuildTouchesOne DEF TouchesOnly
    <3>2. t \in Tables(next)
      <4>1. TableKey(t).kind = "table" /\ TableKey(t).name = t
        BY DEF TableKey, Key
      <4> QED BY <3>1, <4>1 DEF Tables
    <3>3. ColumnKeys(next, t) # {}
      BY <2>4, <3>2 DEF Orderly
    <3>4. op.act # "rename"
      BY <2>8 DEF ChangesOne
    <3> QED BY <2>5, <2>7, <3>3, <3>4, StaysTidy
  <2>10. op.act = "alter" => op.old = now[op.key]
    BY <2>4, <2>8 DEF SaysWhatItIs, ChangesOne
  <2>11. Follows(s, d, t, group, next, n, i + 1)
    BY <1>3, <2>1, <2>2, <2>6, <2>7, <2>8, <2>9, <2>10, FollowsOneMore DEF op, now
  <2>12. IsMap(next)
    BY <1>3, <2>3, ResultIsMap DEF now
  <2> QED BY <2>7, <2>11, <2>12 DEF op, next, n
<1>4. ASSUME NEW i \in 0 .. m - 1, i \in T PROVE i + 1 \in T
  <2>1. i + 1 \in 0 .. m
    BY <1>1
  <2> QED BY <1>3, <1>4, <2>1
<1>5. 0 .. m \subseteq T
  <2> HIDE DEF T
  <2> QED BY <1>1, <1>2, <1>4, UpToInduct
<1>6. m \in 0 .. m /\ m - 1 \in 0 .. m - 1 /\ m - 1 \in 0 .. m /\ (m - 1) + 1 = m
  BY <1>1
<1> QED BY <1>3, <1>5, <1>6

LEMMA OnlyCast ==
  ASSUME NEW O, NEW group \in Seq(O), NEW k,
         \A i, j \in 1 .. Len(group) : i # j /\ group[i].key = k => group[i].key # group[j].key
  PROVE  /\ Untouched(group, Len(group), k) => CastOf(group, k) = None
         /\ \A j \in 1 .. Len(group) : group[j].key = k /\ group[j].act = "alter"
              => CastOf(group, k) = group[j].cast
<1> DEFINE alters == {i \in DOMAIN group : group[i].act = "alter" /\ group[i].key = k}
<1>1. CastOf(group, k) = IF alters = {} THEN None ELSE group[Min(alters)].cast
  BY DEF CastOf
<1>2. ASSUME Untouched(group, Len(group), k) PROVE alters = {}
  BY <1>2 DEF Untouched
<1>3. ASSUME NEW j \in 1 .. Len(group), group[j].key = k, group[j].act = "alter"
      PROVE  alters # {} /\ Min(alters) = j
  <2>1. alters = {j}
    BY <1>3
  <2>2. j \in Nat
    OBVIOUS
  <2> HIDE DEF alters
  <2>3. {j} \in SUBSET (j .. j) /\ {j} # {}
    BY <2>2
  <2>4. Min({j}) \in j .. j
    BY ONLY <2>2, <2>3, FirstOf
  <2>5. Min({j}) = j
    BY ONLY <2>2, <2>4
  <2> QED BY <2>1, <2>5
<1> HIDE DEF alters
<1> QED BY <1>1, <1>2, <1>3

LEMMA CopyExprIs ==
  /\ \A source, target, name, cast :
       LET expr == CopyExpr(source, target, name, cast)
       IN  /\ expr.from = name
           /\ expr.cast <=> cast # None \/ Affinity[source.type] # Affinity[target.type]
           /\ expr.fill <=> source.nullable /\ ~target.nullable /\ ~target.pk /\ cast = None
  /\ \A target : /\ NewColumnExpr(target).from = None
                 /\ NewColumnExpr(target).fill <=> target.dflt # None
  BY DEF CopyExpr, MustFill, NewColumnExpr

\* What is copied into a column is what its operation, if there is one, would have
\* made of it; a NULL that it would have filled in and the copy does not is refused
\* by the new table.
LEMMA CopiedColumn ==
  ASSUME NEW s, Orderly(s), NEW d, d.schema = s, Tidy(d), NEW t,
         NEW O, NEW group \in Seq(O), NEW m, m = Len(group),
         IsRebuildOf(group, t),
         \A i, j \in 1 .. m : i # j /\ group[i].key.kind = "column" => group[i].key # group[j].key,
         NEW n, NEW e, Follows(s, d, t, group, n, e, m),
         NEW k \in ColumnKeys(n, t), NEW expr, expr = CopyMapping(s, n, t, group)[k],
         ~(~n[k].nullable /\ Copied(d, t, expr) = "null")
  PROVE  Copied(d, t, expr) = e.data[k]
<1>1. k \in AllColumns(n) /\ k.table = t /\ k.kind = "column"
  BY ColumnsOfTables DEF AllColumns
<1>2. expr = IF k \in DOMAIN s THEN CopyExpr(s[k], n[k], k.name, CastOf(group, k)) ELSE NewColumnExpr(n[k])
  BY DEF CopyMapping
<1>3. /\ Untouched(group, m, k) => CastOf(group, k) = None
      /\ \A j \in 1 .. m : group[j].key = k /\ group[j].act = "alter" => CastOf(group, k) = group[j].cast
  BY <1>1, OnlyCast
<1>4. k \in DOMAIN s => /\ k \in AllColumns(s) /\ k \in DOMAIN d.data
                        /\ k = Key("column", t, k.name) /\ k.name # None
                        /\ d.data[k] = "none" <=> ~HasRows(d, t)
  BY <1>1 DEF AllColumns, Orderly, Tidy
<1>5. k \notin DOMAIN s => k \notin DOMAIN d.data
  BY DEF Tidy, AllColumns
<1>6. ASSUME k \in DOMAIN s
      PROVE  Copied(d, t, expr) = IF ~HasRows(d, t) THEN "none"
                                  ELSE Filled(CastTo(d.data[k], expr.cast), expr.fill)
  <2>1. expr.from = k.name
    BY <1>2, <1>6 DEF CopyExpr
  <2> QED BY <1>4, <1>6, <2>1 DEF Copied
<1>7. CASE Untouched(group, m, k)
  <2>1. k \in DOMAIN s /\ n[k] = s[k] /\ e.data[k] = d.data[k]
    BY <1>1, <1>7 DEF Follows, AllColumns
  <2>2. expr = CopyExpr(s[k], s[k], k.name, None)
    BY <1>2, <1>3, <1>7, <2>1
  <2>3. ~expr.cast /\ ~expr.fill
    BY <2>2, CopyExprIs
  <2>4. \A v : Filled(CastTo(v, expr.cast), expr.fill) = v
    BY <2>3 DEF Filled, CastTo
  <2> QED BY <1>4, <1>6, <2>1, <2>4
<1>8. ASSUME NEW j \in 1 .. m, group[j].key = k PROVE Copied(d, t, expr) = e.data[k]
  <2> DEFINE op == group[j]
  <2>1. /\ n[k] = op.new /\ e.data[k] = Value(d, k, op)
        /\ op.act = "alter" => k \in DOMAIN s /\ op.old = s[k]
        /\ op.act # "alter" => k \notin DOMAIN s
    BY <1>1, <1>8 DEF Follows
  <2>2. op.key = k
    BY <1>8
  <2>3. op.act = "alter" => CastOf(group, k) = op.cast
    BY <1>3, <1>8
  <2> HIDE DEF op
  <2>4. CASE op.act = "alter"
    <3> DEFINE cast == op.cast # None \/ Affinity[op.old.type] # Affinity[op.new.type]
               v    == CastTo(d.data[k], cast)
    <3>1. k \in DOMAIN s /\ op.old = s[k] /\ Origin(k, op) = k
      BY <2>1, <2>4 DEF Origin
    <3>2. e.data[k] = Filled(v, ~n[k].nullable)
      BY <1>4, <2>1, <2>2, <2>4, <3>1 DEF Value
    <3>3. (expr.cast <=> cast) /\ (expr.fill => ~n[k].nullable)
      BY <1>2, <2>1, <2>3, <2>4, <3>1, CopyExprIs
    <3>4. Copied(d, t, expr) = IF ~HasRows(d, t) THEN "none" ELSE Filled(v, expr.fill)
      <4>1. CastTo(d.data[k], expr.cast) = v
        BY <3>3 DEF CastTo
      <4> QED BY <1>6, <3>1, <4>1
    <3>5. v = "none" <=> ~HasRows(d, t)
      BY <1>4, <3>1 DEF CastTo
    <3> HIDE DEF v, cast
    <3>6. CASE v = "none"
      BY <3>2, <3>4, <3>5, <3>6 DEF Filled
    <3>7. CASE v # "none" /\ v # "null"
      BY <3>2, <3>4, <3>5, <3>7 DEF Filled
    <3>8. CASE v = "null"
      <4>1. Copied(d, t, expr) = Filled(v, expr.fill)
        BY <3>4, <3>5, <3>8
      <4>2. CASE expr.fill
        BY <3>2, <3>3, <3>8, <4>1, <4>2 DEF Filled
      <4>3. CASE ~expr.fill
        <5>1. Copied(d, t, expr) = "null"
          BY <3>8, <4>1, <4>3 DEF Filled
        <5>2. n[k].nullable
          BY <5>1
        <5> QED BY <3>2, <3>8, <5>1, <5>2 DEF Filled
      <4> QED BY <4>2, <4>3
    <3> QED BY <3>6, <3>7, <3>8
  <2>5. CASE op.act # "alter"
    <3>1. k \notin DOMAIN s /\ k \notin DOMAIN d.data /\ expr = NewColumnExpr(n[k])
      BY <1>2, <1>5, <2>1, <2>5
    <3>2. Copied(d, t, expr) = IF ~HasRows(d, t) THEN "none" ELSE IF n[k].dflt # None THEN "default" ELSE "null"
      BY <3>1, CopyExprIs DEF Copied
    <3>3. Origin(k, op) = k
      BY DEF Origin, RebuildsTable, IsRebuildOf, op
    <3>4. Value(d, k, op) = IF ~HasRows(d, t) THEN "none" ELSE IF op.new.dflt # None THEN "default" ELSE "null"
      BY <1>1, <3>1, <3>3 DEF Value
    <3> QED BY <2>1, <3>2, <3>4
  <2> QED BY <2>4, <2>5
<1> QED BY <1>7, <1>8 DEF Untouched

\* The rebuild leaves what its operations, each done in place, would have left.
LEMMA RebuiltAsInPlace ==
  ASSUME NEW s, IsMap(s), Orderly(s), NEW d, d.schema = s, Tidy(d), NEW t,
         NEW O, NEW group \in Seq(O), NEW m, m = Len(group), IsRebuildOf(group, t),
         NEW at, Path(at, s, group, m), PlainPath(at, group, m), TouchesOnly(s, at[m], t),
         NEW e, InPlaceSteps(e, d, group, m),
         NEW step, step = Rebuild(t, Whole(at[m], t), CopyMapping(s, at[m], t, group)),
         ~RebuildFails(d, step)
  PROVE  Replaced(d, step) = e[m] /\ Tidy(e[m]) /\ e[m].schema = at[m]
<1> DEFINE n    == at[m]
           done == e[m]
           copy == CopyMapping(s, n, t, group)
           Val(k) == IF k \in DOMAIN copy THEN Copied(d, t, copy[k]) ELSE d.data[k]
<1>1. Follows(s, d, t, group, n, done, m) /\ IsMap(n) /\ InPlaceIs(e[m - 1], group[m], done)
  BY FollowsThroughout
<1>2. /\ done.schema = n /\ Tidy(done)
      /\ done = Database(n, done.data) /\ done.data = [k \in AllColumns(n) |-> done.data[k]]
  BY <1>1 DEF Follows, InPlaceIs
<1>3. step.table = t /\ step.after = Whole(n, t) /\ step.copy = copy
  BY DEF Rebuild
<1>4. DOMAIN copy = ColumnKeys(n, t)
  BY DEF CopyMapping
<1>5. \A i, j \in 1 .. m : i # j /\ group[i].key.kind = "column" => group[i].key # group[j].key
  BY DEF PlainPath, IsRebuildOf
<1> HIDE DEF n, done, copy
<1>6. Over(Without(s, Own(s, t)), Whole(n, t)) = n
  BY ReplacedIsReplayed DEF n
<1>7. Replaced(d, step) = Database(n, [k \in AllColumns(n) |-> Val(k)])
  BY <1>3, <1>6 DEF Replaced, Own
<1>8. ASSUME NEW k \in AllColumns(n) PROVE Val(k) = done.data[k]
  <2>1. CASE k.table = t
    <3>1. k \in ColumnKeys(n, t) /\ k \in DOMAIN Whole(n, t) /\ Whole(n, t)[k] = n[k]
      BY <2>1, ColumnsOfTables DEF Whole, ColumnKeys
    <3>2. ~(~n[k].nullable /\ Copied(d, t, copy[k]) = "null")
      BY <1>3, <1>4, <3>1 DEF RebuildFails
    <3>3. Copied(d, t, copy[k]) = done.data[k]
      BY <1>1, <1>5, <3>1, <3>2, CopiedColumn DEF copy
    <3> QED BY <1>4, <3>1, <3>3
  <2>2. CASE k.table # t
    <3>1. k \notin DOMAIN copy
      BY <1>4, <2>2, ColumnsOfTables
    <3>2. Untouched(group, m, k)
      BY <2>2 DEF Untouched, IsRebuildOf
    <3> QED BY <1>1, <3>1, <3>2 DEF Follows
  <2> QED BY <2>1, <2>2
<1> HIDE DEF Val
<1>9. [k \in AllColumns(n) |-> Val(k)] = done.data
  BY <1>2, <1>8
<1> QED BY <1>2, <1>7, <1>9 DEF done, n

-----------------------------------------------------------------------------
(* A migration, one operation at a time.                                   *)

IsShift(part, whole, a, b) == part = [x \in 0 .. b |-> whole[a + x]]

\* A piece of the operations goes along a piece of their way.
LEMMA PartOfPath ==
  ASSUME NEW s, NEW ops, NEW N \in Nat, NEW at, Path(at, s, ops, N), PlainPath(at, ops, N),
         NEW d, NEW e, InPlaceSteps(e, d, ops, N),
         NEW a \in Nat, NEW b \in Nat, a + b <= N,
         NEW group, Len(group) = b, PieceOf(group, ops, a),
         NEW way, IsShift(way, at, a, b), NEW dbs, IsShift(dbs, e, a, b)
  PROVE  /\ Path(way, at[a], group, b) /\ PlainPath(way, group, b)
         /\ InPlaceSteps(dbs, e[a], group, b)
<1>1. /\ \A x \in 0 .. b : way[x] = at[a + x] /\ dbs[x] = e[a + x] /\ a + x \in 0 .. N
      /\ way[0] = at[a] /\ dbs[0] = e[a]
  BY DEF IsShift
<1>2. ASSUME NEW x \in 1 .. b
      PROVE  /\ way[x] = at[a + x] /\ way[x - 1] = at[(a + x) - 1]
             /\ dbs[x] = e[a + x] /\ dbs[x - 1] = e[(a + x) - 1]
             /\ group[x] = ops[a + x] /\ a + x \in 1 .. N
  <2>1. x \in 0 .. b /\ x - 1 \in 0 .. b /\ a + (x - 1) = (a + x) - 1 /\ a + x \in 1 .. N
    OBVIOUS
  <2>2. group[x] = ops[a + x]
    BY DEF PieceOf
  <2> QED BY <1>1, <2>1, <2>2
<1>3. Path(way, at[a], group, b)
  BY <1>1, <1>2 DEF Path
<1>4. InPlaceSteps(dbs, e[a], group, b)
  BY <1>1, <1>2 DEF InPlaceSteps
<1>5. \A x \in 0 .. b : NoRow(way[x]) /\ Orderly(way[x])
  BY <1>1 DEF PlainPath
<1>6. \A x \in 1 .. b : NoOldName(way[x], group[x]) /\ SaysWhatItIs(way[x - 1], group[x])
  BY <1>2 DEF PlainPath
<1>7. ASSUME NEW x \in 1 .. b, NEW y \in 1 .. b, x # y, RebuildsTable(group[x]), RebuildsTable(group[y]),
             group[x].key.kind = "column"
      PROVE  group[x].key # group[y].key
  <2> DEFINE i == a + x
             j == a + y
  <2>0. i # j
    <3>1. x \in Nat /\ y \in Nat /\ x # y
      BY <1>7
    <3> QED BY ONLY <3>1, a \in Nat
  <2>1. i \in 1 .. N /\ j \in 1 .. N /\ i # j /\ group[x] = ops[i] /\ group[y] = ops[j]
    BY <1>2, <2>0
  <2> HIDE DEF i, j
  <2> QED BY <1>7, <2>1 DEF PlainPath
<1> QED BY <1>3, <1>4, <1>5, <1>6, <1>7 DEF PlainPath

\* Every operation done in place, one after the other.
LEMMA InPlaceTrace ==
  ASSUME NEW d, NEW ops, NEW n \in Nat, DOMAIN ops = 1 .. n
  PROVE  \E e : InPlaceSteps(e, d, ops, n) /\ AllInPlace(d, ops) = e[n]
<1> DEFINE D == SUBSET (1 .. n)
           Body(f, s) == IF s = {} THEN d ELSE InPlace(f[s \ {Max(s)}], ops[Max(s)])
           it == CHOOSE f : f = [s \in D |-> Body(f, s)]
<1>1. AllInPlace(d, ops) = it[1 .. n]
  <2>1. AllInPlace(d, ops) = (CHOOSE f : f = [s \in SUBSET DOMAIN ops |-> Body(f, s)])[DOMAIN ops]
    BY DEF AllInPlace, FoldLeft, MapThenFoldSet
  <2> QED BY <2>1
<1>2. \A f, s : Loop(f, "inplace", None, d, ops, s) = Body(f, s)
  BY DEF Loop, Taken
<1>3. PICK f : IsLoop(f, "inplace", None, d, ops, n)
  BY LoopDefined
<1>4. f = [s \in D |-> Body(f, s)]
  BY <1>2, <1>3 DEF IsLoop
<1>5. it = [s \in D |-> Body(it, s)]
  BY <1>4
<1> HIDE DEF it
<1>6. IsLoop(it, "inplace", None, d, ops, n)
  BY <1>2, <1>5 DEF IsLoop
<1>7. PICK acc : LoopSteps(acc, "inplace", None, d, ops, n) /\ it[1 .. n] = acc[n]
  BY <1>6, LoopTrace
<1>8. \A x, y : Taken("inplace", None, x, y) = InPlace(x, y)
  BY DEF Taken
<1>9. acc[0] = d /\ \A i \in 1 .. n : acc[i] = InPlace(acc[i - 1], ops[i])
  BY <1>7, <1>8 DEF LoopSteps
<1> QED BY <1>1, <1>7, <1>9 DEF InPlaceSteps

\* The schemas a migration leads through.
LEMMA PathOfReplay ==
  ASSUME NEW O, NEW ops \in Seq(O), NEW s0, PlainAlong(s0, ops), ValuesAlong(s0, ops),
         NEW N, N = Len(ops), NEW st, ReplaySteps(st, s0, ops, N), st[N].ok,
         NEW at, at = [i \in 0 .. N |-> st[i].schema]
  PROVE  Path(at, s0, ops, N) /\ PlainPath(at, ops, N)
<1>1. N \in Nat /\ DOMAIN ops = 1 .. N
  OBVIOUS
<1>2. \A i \in 0 .. N : Halfway(s0, ops, i) = at[i]
  BY <1>1, HalfwayIs
<1>3. \A i \in 1 .. N : /\ i \in 0 .. N /\ i - 1 \in 0 .. N
                        /\ Accepts(st[i - 1].schema, ops[i])
                        /\ st[i].schema = Result(st[i - 1].schema, ops[i])
  BY <1>1, ReplayedAllAlong
<1>4. at[0] = s0
  <2>1. st[0].schema = s0
    BY BegunIs DEF ReplaySteps
  <2> QED BY <1>1, <2>1
<1>5. \A i \in 1 .. N : Accepts(at[i - 1], ops[i]) /\ at[i] = Result(at[i - 1], ops[i])
  BY <1>3
<1>6. Path(at, s0, ops, N)
  BY <1>4, <1>5 DEF Path
<1>7. \A i \in 0 .. N : NoRow(at[i]) /\ Orderly(at[i])
  BY <1>1, <1>2 DEF PlainAlong, ValuesAlong
<1>8. \A i \in 1 .. N : NoOldName(at[i], ops[i]) /\ SaysWhatItIs(at[i - 1], ops[i])
  <2>1. ASSUME NEW i \in 1 .. N PROVE NoOldName(at[i], ops[i]) /\ SaysWhatItIs(at[i - 1], ops[i])
    <3>1. /\ NoOldName(Halfway(s0, ops, i), ops[i])
          /\ SaysWhatItIs(Halfway(s0, ops, i - 1), ops[i])
      BY DEF PlainAlong, ValuesAlong
    <3>2. Halfway(s0, ops, i) = at[i] /\ Halfway(s0, ops, i - 1) = at[i - 1]
      BY <1>2, <1>3
    <3> QED BY <3>1, <3>2
  <2> QED BY <2>1
<1>9. ChangedOnce(ops)
  BY DEF ValuesAlong
<1> QED BY <1>1, <1>6, <1>7, <1>8, <1>9 DEF PlainPath, ChangedOnce

\* A step of the plan does what the operations of its group do in place.
LEMMA StepAsInPlace ==
  ASSUME NEW s, IsMap(s), NEW d, d.schema = s, Tidy(d),
         NEW O, NEW group \in Seq(O), IsGroup(group), NEW m, m = Len(group),
         NEW way, Path(way, s, group, m), PlainPath(way, group, m),
         NEW dbs, InPlaceSteps(dbs, d, group, m),
         RebuildsTable(group[1]) => Replay(s, group).ok /\ way[m] = Replay(s, group).schema,
         NEW step, step = StepOf(s, group), ~Fails(d, step), ~Acts(d, step)
  PROVE  After(d, step) = dbs[m] /\ Tidy(dbs[m]) /\ dbs[m].schema = way[m]
<1>0. NoRow(s) /\ Orderly(s) /\ m \in Nat /\ m >= 1 /\ way[0] = s /\ dbs[0] = d
  BY DEF PlainPath, Path, InPlaceSteps, IsGroup
<1>1. CASE RebuildsTable(group[1])
  <2> DEFINE t == group[1].key.table
             n == Replay(s, group).schema
             rebuild == Rebuild(t, Whole(n, t), CopyMapping(s, n, t, group))
  <2>1. IsRebuildOf(group, t) /\ Replay(s, group).ok
    BY <1>1 DEF IsGroup
  <2>2. TouchesOnly(s, n, t)
    BY <1>0, <2>1, GroupTouchesOne
  <2>3. step = rebuild /\ way[m] = n
    BY <1>1 DEF StepOf
  <2>4. rebuild.do = "rebuild"
    BY DEF Rebuild
  <2> HIDE DEF rebuild, n, t
  <2>5. ~RebuildFails(d, step) /\ After(d, step) = Replaced(d, step)
    BY <2>3, <2>4 DEF Fails, Acts, Done
  <2>6. TouchesOnly(s, way[m], t) /\ step = Rebuild(t, Whole(way[m], t), CopyMapping(s, way[m], t, group))
    BY <2>2, <2>3 DEF rebuild
  <2>7. Replaced(d, step) = dbs[m] /\ Tidy(dbs[m]) /\ dbs[m].schema = way[m]
    BY <1>0, <2>1, <2>5, <2>6, RebuiltAsInPlace
  <2> QED BY <2>5, <2>7
<1>2. CASE ~RebuildsTable(group[1])
  <2> DEFINE op == group[1]
  <2>1. m = 1 /\ step = Direct(op)
    BY <1>2 DEF IsGroup, StepOf
  <2>2. Direct(op).do = "op" /\ Direct(op).op = op
    BY DEF Direct
  <2>3. After(d, step) = InPlace(d, op)
    BY <2>1, <2>2 DEF Acts, Done
  <2>4. 1 \in 1 .. m /\ 1 - 1 = 0
    BY <2>1
  <2>5. dbs[1] = InPlace(d, op) /\ Accepts(s, op) /\ way[1] = Result(s, op)
        /\ NoOldName(way[1], op) /\ SaysWhatItIs(s, op)
    BY <1>0, <2>4 DEF InPlaceSteps, Path, PlainPath
  <2> HIDE DEF op
  <2>6. Tidy(dbs[1]) /\ InPlaceIs(d, op, dbs[1])
    BY <1>0, <2>5, InPlaceTidy
  <2> QED BY <2>1, <2>3, <2>5, <2>6 DEF InPlaceIs
<1> QED BY <1>1, <1>2

\* What such a rebuild drops only takes rows of a table that refers to itself with ON
\* DELETE CASCADE or SET NULL: the other tables that refer to it make it refused.
THEOREM RebuildActsOnItself ==
  ASSUME NEW s, NEW n, NEW t, ~RebuildRefused(s, n, t), NEW copy,
         NEW d, d.schema = s,
         \A k \in ForeignKeys(n) : k.table = t /\ n[k].to = t
            => OnDelete[k.name] \notin {"cascade", "set null"}
  PROVE  ~Acts(d, Rebuild(t, Whole(n, t), copy))
<1> DEFINE step == Rebuild(t, Whole(n, t), copy)
           e    == Replaced(d, step)
           now  == Over(Without(s, {TableKey(t)} \cup Children(s, t)), Whole(n, t))
<1>1. step.do = "rebuild" /\ step.table = t /\ step.after = Whole(n, t) /\ step.copy = copy
  BY DEF Rebuild
<1> HIDE DEF step
<1>2. /\ e = Database(e.schema, e.data) /\ e.schema = now
      /\ e.data = [k \in DOMAIN e.data |-> e.data[k]]
  BY <1>1 DEF Replaced, Database
<1>3. ASSUME NEW k \in ForeignKeys(now), now[k].to = t PROVE OnDelete[k.name] \notin {"cascade", "set null"}
  <2>1. k.kind = "foreign_key" /\ k # TableKey(t)
    <3> HIDE DEF now
    <3>1. k.kind = "foreign_key"
      BY <1>3 DEF ForeignKeys
    <3>2. TableKey(t).kind = "table"
      BY DEF TableKey, Key
    <3> QED BY <3>1, <3>2
  <2>2. CASE k \in DOMAIN Whole(n, t)
    <3>1. k \in Children(n, t) /\ now[k] = n[k]
      BY <2>1, <2>2 DEF Whole, Over
    <3> QED BY <1>3, <2>1, <3>1 DEF Children, ForeignKeys
  <2>3. CASE k \notin DOMAIN Whole(n, t)
    <3>1. k \in DOMAIN s /\ k \notin Children(s, t) /\ now[k] = s[k]
      BY <1>3, <2>3 DEF ForeignKeys, Over, Without
    <3>2. k.table # t
      BY <2>1, <3>1 DEF Children, ChildKinds
    <3> QED BY <1>3, <2>1, <3>1, <3>2 DEF RebuildRefused
  <2> QED BY <2>2, <2>3
<1> HIDE DEF now
<1>4. ActsOn(e, "cascade", {t}) = {} /\ ActsOn(e, "set null", {t}) = {}
  BY <1>2, <1>3 DEF ActsOn
<1> HIDE DEF e
<1>5. Wiped(e, t) = {}
  <2>1. {} \in SUBSET Tables(e.schema) /\ {t} \cup {} = {t}
    OBVIOUS
  <2>2. {k.table : k \in ActsOn(e, "cascade", {t} \cup {})} \subseteq {}
    BY <1>4, <2>1
  <2> QED BY <2>1, <2>2 DEF Wiped
<1>6. Nulled(e, t) = {}
  <2>1. {t} \cup {} = {t}
    OBVIOUS
  <2> QED BY <1>4, <1>5, <2>1 DEF Nulled
<1>7. Swept(e, t) = e
  BY <1>2, <1>5, <1>6 DEF Swept
<1>8. Done(d, step) = e /\ Dropped(step) = t
  BY <1>1 DEF Done, Dropped, e
<1> QED BY <1>7, <1>8 DEF Acts, After, step

LEMMA PathOfMaps ==
  ASSUME NEW s, IsMap(s), NEW ops, NEW N \in Nat, NEW at, Path(at, s, ops, N)
  PROVE  \A i \in 0 .. N : IsMap(at[i])
<1> DEFINE T == {i \in 0 .. N : IsMap(at[i])}
<1>1. 0 \in T
  BY DEF Path
<1>2. ASSUME NEW i \in 0 .. N - 1, i \in T PROVE i + 1 \in T
  <2>1. i + 1 \in 1 .. N /\ i + 1 \in 0 .. N /\ (i + 1) - 1 = i
    OBVIOUS
  <2>2. at[i + 1] = Result(at[i], ops[i + 1])
    BY <2>1 DEF Path
  <2> QED BY <1>2, <2>1, <2>2, ResultIsMap
<1> HIDE DEF T
<1>3. 0 .. N \subseteq T
  BY <1>1, <1>2, UpToInduct
<1> QED BY <1>3 DEF T

\* After each step, the database is what the operations so far, each done in place,
\* make of it.
LEMMA RunInPlace ==
  ASSUME NEW O, NEW ops \in Seq(O), NEW groups \in Seq(Seq(O)), AllGroups(groups),
         NEW cut, IsCut(groups, cut, ops, Len(ops)), NEW atomic,
         NEW s0, IsMap(s0), PlainAlong(s0, ops), ValuesAlong(s0, ops),
         NEW acc, RenderSteps(acc, s0, groups, atomic), acc[Len(groups)].ok,
         NEW steps, steps = acc[Len(groups)].steps,
         NEW d, d.schema = s0, Tidy(d),
         NEW run, ExecuteSteps(run, d, steps, Len(groups)), run[Len(groups)].ok, ~run[Len(groups)].acted,
         NEW e, InPlaceSteps(e, d, ops, Len(ops))
  PROVE  run[Len(groups)].db = e[Len(ops)] /\ Tidy(e[Len(ops)])
<1> DEFINE m == Len(groups)
           N == Len(ops)
<1>1. m \in Nat /\ N \in Nat
  OBVIOUS
<1>2. PICK st : ReplaySteps(st, s0, ops, N)
  BY <1>1, ReplayTrace
<1>3. \A j \in 0 .. m : st[cut[j]] = Begun(acc[j].schema) /\ cut[j] \in 0 .. N
  <2>1. \A j \in 0 .. m : st[cut[j]] = Begun(acc[j].schema)
    <3>1. PlanBesideReplay(s0, O, ops, N, groups, cut, atomic, acc, st)
      BY <1>1, <1>2 DEF PlanBesideReplay
    <3> QED BY <3>1, PlanFollowsReplay
  <2>2. \A j \in 0 .. m : cut[j] \in 0 .. N
    BY <1>1, CutBounds
  <2> QED BY <2>1, <2>2
<1> DEFINE at == [i \in 0 .. N |-> st[i].schema]
<1>4. \A j \in 0 .. m : at[cut[j]] = acc[j].schema
  BY <1>3, BegunIs
<1>5. cut[m] = N /\ m \in 0 .. m /\ cut[0] = 0
  BY <1>1 DEF IsCut
<1>6. Path(at, s0, ops, N) /\ PlainPath(at, ops, N)
  <2>1. st[N].ok
    BY <1>3, <1>5, BegunIs
  <2> HIDE DEF m
  <2> QED BY <1>2, <2>1, PathOfReplay
<1> HIDE DEF at
<1>7. \A i \in 0 .. N : IsMap(at[i])
  BY <1>1, <1>6, PathOfMaps
<1>8. \A j \in 1 .. m : /\ DoesStep(run[j - 1], run[j], steps[j]) /\ steps[j] = StepOf(acc[j - 1].schema, groups[j])
                        /\ ~Acts(run[j - 1].db, steps[j])
  BY <1>1, ExecutedAllAlong, NothingActed, PlanSteps
<1> DEFINE T == {j \in 0 .. m : /\ run[j].db = e[cut[j]] /\ Tidy(e[cut[j]])
                               /\ e[cut[j]].schema = at[cut[j]]}
<1>9. 0 \in T
  <2>1. run[0].db = d /\ e[0] = d /\ at[0] = s0
    BY <1>6 DEF ExecuteSteps, InPlaceSteps, Path
  <2> QED BY <1>1, <1>5, <2>1
<1>10. ASSUME NEW j \in 0 .. m - 1, j \in T PROVE j + 1 \in T
  <2> DEFINE group == groups[j + 1]
             a     == cut[j]
             b     == Len(group)
             s     == at[a]
             way   == [x \in 0 .. b |-> at[a + x]]
             dbs   == [x \in 0 .. b |-> e[a + x]]
             step  == steps[j + 1]
  <2>1. j + 1 \in 1 .. m /\ j + 1 \in 0 .. m /\ j \in 0 .. m /\ (j + 1) - 1 = j
    BY <1>1
  <2>2. /\ a \in Nat /\ cut[j + 1] = a + b /\ PieceOf(group, ops, a)
        /\ group \in Seq(O) /\ IsGroup(group) /\ cut[j + 1] \in 0 .. N
    BY <1>3, <2>1 DEF IsCut, PieceOf, AllGroups
  <2>3. b \in Nat
    BY <2>2
  <2>4. run[j].db = e[a] /\ Tidy(e[a]) /\ e[a].schema = s
    BY <1>10
  <2>5. AddsGroup(acc[j], acc[j + 1], group) /\ acc[j].schema = s /\ acc[j + 1].schema = at[a + b]
    <3>1. AddsGroup(acc[j], acc[j + 1], group)
      BY <2>1, RenderedAllAlong
    <3> HIDE DEF group, b
    <3> QED BY <1>4, <2>1, <2>2, <3>1
  <2>6. IsMap(s)
    BY <1>3, <1>7, <2>1
  <2>7. ~Fails(e[a], step) /\ ~Acts(e[a], step) /\ run[j + 1].db = After(e[a], step) /\ step = StepOf(s, group)
    BY <1>8, <2>1, <2>4, <2>5 DEF DoesStep
  <2> HIDE DEF group, a, b, s, step, T, m, N
  <2>8. a + b <= N /\ b = Len(group)
    BY <1>1, <2>2, <2>3 DEF b
  <2>9. /\ Path(way, at[a], group, b) /\ PlainPath(way, group, b)
        /\ InPlaceSteps(dbs, e[a], group, b)
    <3>1. IsShift(way, at, a, b) /\ IsShift(dbs, e, a, b)
      BY DEF IsShift
    <3>2. InPlaceSteps(e, d, ops, N)
      BY DEF N
    <3> HIDE DEF way, dbs
    <3>3. N \in Nat /\ Path(at, s0, ops, N) /\ PlainPath(at, ops, N)
      BY <1>1, <1>6 DEF N
    <3>4. /\ a \in Nat /\ b \in Nat /\ a + b <= N /\ Len(group) = b /\ PieceOf(group, ops, a)
      BY <2>2, <2>3, <2>8
    <3> QED BY ONLY <3>1, <3>2, <3>3, <3>4, PartOfPath
  <2>10. way[b] = at[a + b] /\ dbs[b] = e[a + b]
    BY <2>3
  <2> HIDE DEF way, dbs
  <2>11. RebuildsTable(group[1]) => Replay(s, group).ok /\ way[b] = Replay(s, group).schema
    BY <2>5, <2>10 DEF AddsGroup, Reached
  <2>12. at[a] = s
    BY DEF s
  <2> DEFINE before == e[a]
  <2>13. /\ before.schema = s /\ Tidy(before) /\ ~Fails(before, step) /\ ~Acts(before, step)
         /\ Path(way, s, group, b) /\ PlainPath(way, group, b) /\ InPlaceSteps(dbs, before, group, b)
    BY <2>4, <2>7, <2>9, <2>12
  <2> HIDE DEF before
  <2>14. After(before, step) = dbs[b] /\ Tidy(dbs[b]) /\ dbs[b].schema = way[b]
    BY ONLY <2>2, <2>6, <2>7, <2>8, <2>11, <2>13, StepAsInPlace
  <2>15. run[j + 1].db = e[cut[j + 1]] /\ Tidy(e[cut[j + 1]]) /\ e[cut[j + 1]].schema = at[cut[j + 1]]
    BY <2>2, <2>7, <2>10, <2>14 DEF before
  <2> QED BY <2>1, <2>15 DEF T
<1> HIDE DEF T
<1>11. 0 .. m \subseteq T
  BY <1>1, <1>9, <1>10, UpToInduct
<1>12. m \in T
  BY <1>5, <1>11
<1> QED BY <1>5, <1>12 DEF T

\* The SQL of a migration, executed where it was rendered for, leaves every value as
\* its operations would, done in place one after the other: no rebuild loses, invents
\* or confuses a column's values, whatever neighbours it does together.  That is, if no
\* DROP TABLE of it acted on rows that refer to the table (see RebuildActsOnItself).
THEOREM ExecutedAsInPlace ==
  ASSUME NEW O, NEW ops \in Seq(O), NEW s, IsMap(s), PlainRender(s, ops),
         NEW atomic, Render(s, ops, atomic).ok,
         NEW d, d.schema = s, Tidy(d), Execute(d, Render(s, ops, atomic).steps).ok,
         ~Execute(d, Render(s, ops, atomic).steps).acted
  PROVE  /\ Execute(d, Render(s, ops, atomic).steps).db = AllInPlace(d, ops)
         /\ Tidy(AllInPlace(d, ops))
<1> DEFINE plan   == Render(s, ops, atomic)
           groups == Groups(ops)
           steps  == plan.steps
           m == Len(groups)
           N == Len(ops)
<1>1. groups \in Seq(Seq(O)) /\ AllGroups(groups) /\ N \in Nat /\ DOMAIN ops = 1 .. N
  BY Grouped
<1>2. PICK cut : IsCut(groups, cut, ops, N)
  BY Grouped
<1>3. PlainAlong(s, ops) /\ ValuesAlong(s, ops) /\ CreatedAsLeft(s, ops)
  BY DEF PlainRender
<1>4. plan = RenderGroups(s, groups, atomic)
  BY <1>3, RenderIs
<1>5. plan.ok /\ Execute(d, steps).ok /\ ~Execute(d, steps).acted
  OBVIOUS
<1> HIDE DEF groups, plan
<1>6. m \in Nat /\ DOMAIN groups = 1 .. m
  BY <1>1
<1>7. PICK acc : RenderSteps(acc, s, groups, atomic) /\ RenderGroups(s, groups, atomic) = acc[m]
  BY <1>6, RenderTrace
<1>8. acc[m].ok /\ steps = acc[m].steps
  BY <1>4, <1>5, <1>7
<1> HIDE DEF steps
<1>9. DOMAIN steps = 1 .. m
  <2>1. PlanReads(s, O, groups, atomic, acc, steps)
    BY <1>1, <1>7, <1>8 DEF PlanReads
  <2> QED BY <2>1, PlanLength
<1>10. PICK run : ExecuteSteps(run, d, steps, m) /\ Execute(d, steps) = run[m]
  BY <1>6, <1>9, ExecuteTrace
<1>11. PICK e : InPlaceSteps(e, d, ops, N) /\ AllInPlace(d, ops) = e[N]
  BY <1>1, InPlaceTrace
<1>12. run[m].db = e[N] /\ Tidy(e[N])
  <2>1. /\ groups \in Seq(Seq(O)) /\ AllGroups(groups) /\ IsCut(groups, cut, ops, N)
        /\ IsMap(s) /\ PlainAlong(s, ops) /\ ValuesAlong(s, ops)
        /\ RenderSteps(acc, s, groups, atomic) /\ acc[Len(groups)].ok /\ steps = acc[Len(groups)].steps
    BY <1>1, <1>2, <1>3, <1>7, <1>8
  <2>2. /\ ops \in Seq(O) /\ d.schema = s /\ Tidy(d) /\ ExecuteSteps(run, d, steps, Len(groups))
        /\ run[Len(groups)].ok /\ ~run[Len(groups)].acted /\ InPlaceSteps(e, d, ops, Len(ops))
    BY <1>5, <1>10, <1>11
  <2> QED BY ONLY <2>1, <2>2, RunInPlace
<1> QED BY <1>10, <1>11, <1>12 DEF steps, plan

\* So for the migration at a place of a history, and its rollback.
LEMMA AppliedInPlace ==
  ASSUME NEW O, NEW h, NEW order, Committed(h, order, O), NEW n \in 1 .. Len(order),
         Renders(h, order, n), PlainForward(h, order, n),
         NEW d, d.schema = SchemaAt(h, order, n - 1), Tidy(d),
         NEW run, run = Execute(d, Forward(h, order, n).steps), run.ok, ~run.acted
  PROVE  run.db = AllInPlace(d, h[order[n]].ops) /\ Tidy(run.db)
<1> DEFINE s   == SchemaAt(h, order, n - 1)
           ops == h[order[n]].ops
           atomic == h[order[n]].atomic
<1>1. /\ IsMap(s) /\ ops \in Seq(O)
      /\ Forward(h, order, n) = Render(s, ops, atomic) /\ Forward(h, order, n).ok
  BY PlacesOf
<1>2. PlainRender(s, ops) /\ d.schema = s
  BY DEF PlainForward
<1>3. Render(s, ops, atomic).ok /\ run = Execute(d, Render(s, ops, atomic).steps)
  BY <1>1
<1> HIDE DEF s, ops, atomic
<1>4. run.db = AllInPlace(d, ops) /\ Tidy(AllInPlace(d, ops))
  BY <1>1, <1>2, <1>3, ExecutedAsInPlace
<1> QED BY <1>4 DEF ops

LEMMA RolledBackInPlace ==
  ASSUME NEW O, NEW h, NEW order, Committed(h, order, O), NEW n \in 1 .. Len(order),
         Renders(h, order, n), PlainBackward(h, order, n),
         NEW d, d.schema = SchemaAt(h, order, n), Tidy(d), Backward(h, order, n).ok,
         NEW run, run = Execute(d, Backward(h, order, n).steps), run.ok, ~run.acted
  PROVE  run.db = AllInPlace(d, RollbackOps(h[order[n]].ops)) /\ Tidy(run.db)
<1> DEFINE s    == SchemaAt(h, order, n)
           ops  == h[order[n]].ops
           back == RollbackOps(ops)
           atomic == h[order[n]].atomic
           B    == {Undo(op) : op \in O}
<1>1. IsMap(s) /\ ops \in Seq(O) /\ Backward(h, order, n) = Render(s, back, atomic)
  BY PlacesOf
<1>2. back \in Seq(B)
  BY <1>1, UndosAreOps
<1>3. PlainRender(s, back) /\ d.schema = s
  BY DEF PlainBackward
<1>4. Render(s, back, atomic).ok /\ run = Execute(d, Render(s, back, atomic).steps)
  BY <1>1
<1> HIDE DEF s, back, atomic, B
<1>5. run.db = AllInPlace(d, back) /\ Tidy(AllInPlace(d, back))
  BY <1>1, <1>2, <1>3, <1>4, ExecutedAsInPlace
<1> QED BY <1>5 DEF back

-----------------------------------------------------------------------------
(* The rollbacks, rendered from the end of the history.                    *)

UndosOf(O) == {Undo(op) : op \in O}

\* One rollback more, and what it undoes is the migration at place k.
LEMMA UndosOfNext ==
  ASSUME NEW O, NEW h, NEW order, Committed(h, order, O), NEW k \in 1 .. Len(order),
         NEW B, B = UndosOf(O)
  PROVE  /\ UndosTo(h, order, k) \in Seq(B)
         /\ RollbackOps(h[order[k]].ops) \in Seq(B)
         /\ UndosTo(h, order, k - 1) = UndosTo(h, order, k) \o RollbackOps(h[order[k]].ops)
<1> DEFINE N == Len(order)
<1>0. PICK m \in Nat : m + 1 <= N /\ N - m = k /\ N - (m + 1) = k - 1
  <2>1. N - k \in Nat /\ N - k + 1 <= N /\ N - (N - k) = k /\ N - (N - k + 1) = k - 1
    BY DEF Committed
  <2> QED BY <2>1
<1> DEFINE Back(i) == RollbackOps(h[order[N + 1 - i]].ops)
           seqs == [i \in 1 .. m + 1 |-> Back(i)]
           some == [i \in 1 .. m |-> Back(i)]
<1>1. /\ N \in Nat /\ N - (N - m) = m /\ N - (N - (m + 1)) = m + 1 /\ N + 1 - (m + 1) = N - m
      /\ 1 .. m \subseteq 1 .. m + 1 /\ m + 1 \in 1 .. m + 1
  BY <1>0 DEF Committed
<1>2. ASSUME NEW i \in 1 .. m + 1 PROVE Back(i) \in Seq(B)
  <2>1. N + 1 - i \in 1 .. Len(order)
    BY <1>0, <1>1
  <2>2. h[order[N + 1 - i]].ops \in Seq(O)
    BY <2>1 DEF Committed
  <2> QED BY <2>2, UndosAreOps DEF UndosOf
<1> HIDE DEF Back
<1>3. SequencesOver(seqs, B, m + 1)
  <2>1. seqs \in Seq(Seq(B)) /\ DOMAIN seqs = 1 .. m + 1 /\ Len(seqs) = m + 1
    BY <1>1, <1>2
  <2> QED BY <1>2, <2>1 DEF SequencesOver
<1>4. SequencesOver(some, B, m)
  <2>1. some \in Seq(Seq(B)) /\ DOMAIN some = 1 .. m /\ Len(some) = m
    BY <1>1, <1>2
  <2> QED BY <1>1, <1>2, <2>1 DEF SequencesOver
<1>5. /\ \A i \in 1 .. m : some[i] = seqs[i]
      /\ m = 0 => some = <<>>
      /\ seqs[m + 1] = Back(m + 1)
  BY <1>1
<1>6. UndosTo(h, order, k) = FlattenSeq(some) /\ UndosTo(h, order, k - 1) = FlattenSeq(seqs)
  <2>1. UndosTo(h, order, N - m) = FlattenSeq(some) /\ UndosTo(h, order, N - (m + 1)) = FlattenSeq(seqs)
    BY <1>1 DEF UndosTo, Back
  <2> QED BY <1>0, <2>1
<1>7. Back(m + 1) = RollbackOps(h[order[k]].ops)
  BY <1>0, <1>1 DEF Back
<1>8. Back(m + 1) \in Seq(B)
  BY <1>1, <1>2
<1> HIDE DEF seqs, some
<1>9. FlattenSeq(some) \in Seq(B) /\ FlattenSeq(seqs) = FlattenSeq(some) \o seqs[m + 1]
  BY <1>3, <1>4, <1>5, FlattenOneMore
<1> QED BY <1>5, <1>6, <1>7, <1>8, <1>9

\* Undone one after the other from the end, the migrations behind a place leave the
\* schema that replay has there.
LEMMA UndoneToIs ==
  ASSUME NEW O, NEW h, NEW order, Committed(h, order, O), ReplayedAt(h, order, Len(order)).ok,
         NEW n \in 0 .. Len(order), \A k \in n + 1 .. Len(order) : LosslessAt(h, order, k)
  PROVE  UndoneTo(h, order, n) = ReplayedAt(h, order, n)
<1> DEFINE N == Len(order)
           B == UndosOf(O)
           At(k) == SchemaAt(h, order, k)
           Undos(k) == UndosTo(h, order, k)
           T == {m \in 0 .. N - n : Replay(At(N), Undos(N - m)) = Begun(At(N - m))}
<1>1. N \in Nat /\ n \in Nat /\ N - n \in Nat /\ N \in 0 .. N /\ n \in 0 .. N
  BY DEF Committed
<1>2. /\ \A k \in 0 .. N : ReplayedAt(h, order, k) = Begun(At(k))
      /\ \A k \in 1 .. N : Continues(h, order, k)
  BY <1>1, HistoryReplays
<1>3. 0 \in T
  <2>1. Undos(N) = <<>>
    <3>1. N - N = 0
      BY <1>1
    <3> QED BY <3>1 DEF UndosTo, FlattenSeq
  <2>2. PICK st : ReplaySteps(st, At(N), <<>>, Len(<<>>)) /\ Replay(At(N), <<>>) = st[Len(<<>>)]
    BY ReplayTrace
  <2>3. Replay(At(N), <<>>) = Begun(At(N))
    BY <2>2 DEF ReplaySteps
  <2>4. N - 0 = N
    BY <1>1
  <2> QED BY <1>1, <2>1, <2>3, <2>4
<1>4. ASSUME NEW m \in 0 .. (N - n) - 1, m \in T PROVE m + 1 \in T
  <2> DEFINE k == N - m
             back == RollbackOps(h[order[k]].ops)
  <2>1. /\ m \in Nat /\ m + 1 <= N /\ m + 1 \in 0 .. N - n /\ k \in 1 .. N /\ k \in n + 1 .. N
        /\ k - 1 = N - (m + 1)
    BY <1>1
  <2>2. Undos(k) \in Seq(B) /\ back \in Seq(B) /\ Undos(k - 1) = Undos(k) \o back
    <3>1. k \in 1 .. Len(order) /\ B = UndosOf(O)
      BY <2>1
    <3>2. Committed(h, order, O)
      OBVIOUS
    <3> HIDE DEF At, T, N, B, k
    <3>3. /\ UndosTo(h, order, k) \in Seq(B) /\ RollbackOps(h[order[k]].ops) \in Seq(B)
          /\ UndosTo(h, order, k - 1) = UndosTo(h, order, k) \o RollbackOps(h[order[k]].ops)
      BY ONLY <3>1, <3>2, UndosOfNext
    <3> QED BY <3>3
  <2>3. Continues(h, order, k) /\ LosslessAt(h, order, k)
    BY <1>2, <2>1
  <2>4. Replay(At(k), back) = Begun(At(k - 1))
    BY <2>1, <2>3, UndoneAt
  <2>5. Replay(At(N), Undos(k)) = Begun(At(k))
    BY <1>4
  <2> HIDE DEF At, Undos, back, B, k
  <2>6. Replay(At(N), Undos(k) \o back) = Begun(Replay(At(k), back).schema)
    BY <2>2, <2>4, <2>5, BegunIs, ReplayConcat
  <2>7. Replay(At(N), Undos(k - 1)) = Begun(At(k - 1))
    BY <2>2, <2>4, <2>6, BegunIs
  <2> QED BY <2>1, <2>7
<1> HIDE DEF T
<1>5. 0 .. N - n \subseteq T
  BY <1>1, <1>3, <1>4, UpToInduct
<1>6. Replay(At(N), Undos(n)) = Begun(At(n))
  <2>1. N - n \in 0 .. N - n /\ N - (N - n) = n
    BY <1>1
  <2> QED BY <1>5, <2>1 DEF T
<1>7. UndoneTo(h, order, n) = Replay(At(N), Undos(n))
  BY DEF UndoneTo, SchemaAt
<1> QED BY <1>1, <1>2, <1>6, <1>7

-----------------------------------------------------------------------------
(* Whatever the database is converged to.                                  *)

Graph(h) == [id \in DOMAIN h |-> h[id].deps]

\* Migrations are applied, rendered and replayed in the order of the checkout; one
\* that has only the first n of them orders and renders those alike.
AlikeUpto(h, ids, n) ==
  LET part  == Restrict(h, ids)
      order == InOrderOf(part)
      some  == Range(SubSeq(order, 1, n))
      less  == Restrict(h, some)
  IN  /\ Sealed(Graph(h), some) /\ Cardinality(some) = n
      /\ InOrderOf(less) = SubSeq(order, 1, n)
      /\ \A k \in 0 .. n : SchemaAt(less, SubSeq(order, 1, n), k) = SchemaAt(part, order, k)
      /\ \A k \in 1 .. n : Forward(less, SubSeq(order, 1, n), k) = Forward(part, order, k)

LEMMA NumberedGraph ==
  ASSUME NEW h, Numbered(h)
  PROVE  /\ FiniteGraph(Graph(h)) /\ Growing(Graph(h))
         /\ \A ids : Sealed(Graph(h), ids) =>
               /\ InOrderOf(Restrict(h, ids)) = TopologicalOrder(PartOf(Graph(h), ids)).order
               /\ DOMAIN Restrict(h, ids) = ids
<1> DEFINE g == Graph(h)
<1>1. DOMAIN g = DOMAIN h /\ g = [id \in DOMAIN g |-> g[id]]
  BY DEF Graph
<1>2. \A id \in DOMAIN h : g[id] = h[id].deps /\ g[id] \subseteq {d \in DOMAIN h : d < id}
  BY DEF Graph, Numbered
<1>3. Growing(g)
  <2> HIDE DEF g
  <2> QED BY <1>1, <1>2 DEF Growing
<1>4. FiniteGraph(g)
  <2> HIDE DEF g
  <2>1. ASSUME NEW d \in UNION Range(g) PROVE d \in DOMAIN h
    <3>1. PICK id \in DOMAIN g : d \in g[id]
      BY DEF Range
    <3> QED BY <1>1, <1>2, <3>1
  <2>2. Nodes(g) = DOMAIN h
    BY <1>1, <2>1 DEF Nodes
  <2> QED BY <1>1, <2>2 DEF FiniteGraph, Numbered
<1>5. ASSUME NEW ids, Sealed(g, ids)
      PROVE  /\ InOrderOf(Restrict(h, ids)) = TopologicalOrder(PartOf(g, ids)).order
             /\ DOMAIN Restrict(h, ids) = ids
  <2>1. DOMAIN Restrict(h, ids) = ids
    BY DEF Restrict
  <2>2. \A id \in ids : Restrict(h, ids)[id].deps = g[id]
    BY <1>1, <1>2, <1>5 DEF Restrict, Sealed
  <2> HIDE DEF g
  <2>3. [id \in DOMAIN Restrict(h, ids) |-> Restrict(h, ids)[id].deps] = PartOf(g, ids)
    BY <2>1, <2>2 DEF PartOf
  <2> QED BY <2>1, <2>3 DEF InOrderOf
<1> QED BY <1>3, <1>4, <1>5

OrderOf(h, ids, order) ==
  OrderedInParts(Graph(h), ids, order, Cardinality(ids))

LEMMA CheckoutOrdered ==
  ASSUME NEW h, Numbered(h), NEW ids, Sealed(Graph(h), ids)
  PROVE  /\ OrderOf(h, ids, InOrderOf(Restrict(h, ids)))
         /\ IsFiniteSet(ids) /\ Cardinality(ids) \in Nat
<1>1. OrderedInParts(Graph(h), ids, TopologicalOrder(PartOf(Graph(h), ids)).order, Cardinality(ids))
  BY NumberedGraph, PrefixesOrderedAlike
<1>2. InOrderOf(Restrict(h, ids)) = TopologicalOrder(PartOf(Graph(h), ids)).order
  BY NumberedGraph
<1>3. IsFiniteSet(ids)
  BY NumberedGraph, PartIsGraph
<1> QED BY <1>1, <1>2, <1>3, FS_CardinalityType DEF OrderOf

SamePlaces(part, order, less, some, n) ==
  \A i \in 1 .. n : some[i] = order[i] /\ less[order[i]] = part[order[i]]

LEMMA PlacesAlike ==
  ASSUME NEW part, NEW less, NEW order, NEW some, NEW n \in Nat, SamePlaces(part, order, less, some, n)
  PROVE  /\ \A k \in 0 .. n : SchemaAt(less, some, k) = SchemaAt(part, order, k)
         /\ \A k \in 1 .. n : Forward(less, some, k) = Forward(part, order, k)
<1>0. \A i \in 1 .. n : some[i] = order[i] /\ less[order[i]] = part[order[i]]
  BY DEF SamePlaces
<1>1. ASSUME NEW k \in 0 .. n PROVE ReplayedAt(less, some, k) = ReplayedAt(part, order, k)
  <2>1. \A i \in 1 .. k : less[some[i]].ops = part[order[i]].ops
    <3>1. \A i \in 1 .. k : i \in 1 .. n
      OBVIOUS
    <3> QED BY <1>0, <3>1
  <2>2. [i \in 1 .. k |-> less[some[i]].ops] = [i \in 1 .. k |-> part[order[i]].ops]
    BY <2>1
  <2> QED BY <2>2 DEF ReplayedAt, OpsUpto
<1>2. ASSUME NEW k \in 1 .. n PROVE Forward(less, some, k) = Forward(part, order, k)
  <2>1. k - 1 \in 0 .. n
    OBVIOUS
  <2>2. ReplayedAt(less, some, k - 1) = ReplayedAt(part, order, k - 1)
    BY <1>1, <2>1
  <2>3. less[some[k]] = part[order[k]]
    BY <1>0
  <2> QED BY <2>2, <2>3 DEF Forward
<1> QED BY <1>1, <1>2 DEF SchemaAt

LEMMA PrefixAlike ==
  ASSUME NEW h, Numbered(h), NEW ids, Sealed(Graph(h), ids), NEW n \in 0 .. Cardinality(ids)
  PROVE  AlikeUpto(h, ids, n)
<1> DEFINE part  == Restrict(h, ids)
           order == InOrderOf(part)
           begin == SubSeq(order, 1, n)
           some  == Range(begin)
           less  == Restrict(h, some)
           m     == Cardinality(ids)
<1>1. OrderOf(h, ids, order) /\ m \in Nat /\ n \in 0 .. m
  BY CheckoutOrdered
<1>2. order \in Seq(ids) /\ Len(order) = m /\ Range(order) = ids /\ Distinct(order)
  BY <1>1 DEF OrderOf, OrderedInParts
<1>3. Sealed(Graph(h), some) /\ Lists(begin, Graph(h), some)
  BY <1>1 DEF OrderOf, OrderedInParts
<1>4. OrderOf(h, some, InOrderOf(less)) /\ Cardinality(some) \in Nat
  BY <1>3, CheckoutOrdered
<1>5. InOrderOf(less) = begin
  <2>1. TopologicalOrder(PartOf(Graph(h), some)).order = begin
    BY <1>3 DEF Lists
  <2> QED BY <1>3, <2>1, NumberedGraph
<1>6. Len(InOrderOf(less)) = Cardinality(some)
  BY <1>4 DEF OrderOf, OrderedInParts
<1> HIDE DEF order, part, m
<1>7. Len(begin) = n /\ \A i \in 1 .. n : begin[i] = order[i] /\ i \in DOMAIN begin
  BY <1>1, <1>2
<1>8. ASSUME NEW i \in 1 .. n PROVE begin[i] = order[i] /\ less[order[i]] = part[order[i]]
  <2>1. order[i] \in some /\ order[i] \in ids
    <3>1. order[i] \in some
      BY <1>7 DEF Range
    <3>2. i \in 1 .. Len(order)
      BY <1>1, <1>2
    <3> QED BY <1>2, <3>1, <3>2
  <2> QED BY <1>7, <2>1 DEF Restrict, part
<1> HIDE DEF begin, some, less
<1>9. /\ \A k \in 0 .. n : SchemaAt(less, begin, k) = SchemaAt(part, order, k)
      /\ \A k \in 1 .. n : Forward(less, begin, k) = Forward(part, order, k)
  <2>1. n \in Nat /\ SamePlaces(part, order, less, begin, n)
    BY <1>1, <1>8 DEF SamePlaces
  <2> QED BY <2>1, PlacesAlike
<1>10. Cardinality(some) = n
  BY <1>5, <1>6, <1>7
<1> QED BY <1>3, <1>5, <1>9, <1>10 DEF AlikeUpto, part, order, begin, some, less

\* The database has the schema of the migrations in ids, each of which renders on
\* those before it.
HasSchemaOf(h, ids, s) ==
  LET part  == Restrict(h, ids)
      order == InOrderOf(part)
  IN  /\ Sealed(Graph(h), ids)
      /\ Renders(part, order, Cardinality(ids))
      /\ s = SchemaAt(part, order, Cardinality(ids))

LEMMA HasSchemaOfPrefix ==
  ASSUME NEW h, Numbered(h), NEW ids, Sealed(Graph(h), ids), NEW n \in 0 .. Cardinality(ids),
         NEW part, part = Restrict(h, ids), NEW order, order = InOrderOf(part), NEW s
  PROVE  HasSchemaOf(h, Range(SubSeq(order, 1, n)), s)
           <=> Renders(part, order, n) /\ s = SchemaAt(part, order, n)
<1> DEFINE begin == SubSeq(order, 1, n)
           some  == Range(begin)
           less  == Restrict(h, some)
<1>1. /\ Sealed(Graph(h), some) /\ Cardinality(some) = n
      /\ InOrderOf(less) = begin
      /\ \A k \in 0 .. n : SchemaAt(less, begin, k) = SchemaAt(part, order, k)
      /\ \A k \in 1 .. n : Forward(less, begin, k) = Forward(part, order, k)
  BY PrefixAlike DEF AlikeUpto
<1>2. Cardinality(ids) \in Nat
  BY CheckoutOrdered
<1>3. n \in 0 .. n
  BY <1>2
<1> HIDE DEF begin, some
<1>4. HasSchemaOf(h, some, s) <=> Renders(less, begin, n) /\ s = SchemaAt(less, begin, n)
  BY <1>1 DEF HasSchemaOf
<1>5. Renders(less, begin, n) <=> Renders(part, order, n)
  BY <1>1 DEF Renders
<1>6. SchemaAt(less, begin, n) = SchemaAt(part, order, n)
  BY <1>1, <1>3
<1> QED BY <1>4, <1>5, <1>6 DEF begin, some

AllOps(h) == UNION {Range(h[id].ops) : id \in DOMAIN h}

\* A checkout of one of the histories.
IsPart(h, ids, part, order) ==
  /\ h \in Histories /\ ids \in SUBSET DOMAIN h /\ IsCheckout(h, ids)
  /\ part = Restrict(h, ids) /\ order = InOrderOf(part)

\* What the assumption on the histories says of it.
LEMMA PartIsPlain ==
  ASSUME NEW h, NEW ids, NEW part, NEW order, IsPart(h, ids, part, order)
  PROVE  /\ Numbered(h) /\ Sealed(Graph(h), ids)
         /\ Plainly(part, order)
         /\ Committed(part, order, AllOps(h))
         /\ Len(order) = Cardinality(ids) /\ Cardinality(ids) \in Nat
         /\ order \in Seq(ids) /\ Distinct(order)
<1>1. /\ h \in Histories /\ ids \in SUBSET DOMAIN h /\ IsCheckout(h, ids)
      /\ part = Restrict(h, ids) /\ order = InOrderOf(part)
  BY DEF IsPart
<1>2. Numbered(h) /\ Plainly(part, order)
  BY <1>1, HistoriesAssumption
<1>3. Sealed(Graph(h), ids)
  BY <1>1 DEF Sealed, Graph, IsCheckout
<1>4. OrderOf(h, ids, order) /\ Cardinality(ids) \in Nat
  BY <1>1, <1>2, <1>3, CheckoutOrdered
<1>5. order \in Seq(ids) /\ Len(order) = Cardinality(ids) /\ Distinct(order)
  BY <1>4 DEF OrderOf, OrderedInParts
<1>6. DOMAIN part = ids /\ \A id \in ids : part[id] = h[id]
  BY <1>1 DEF Restrict
<1>7. ASSUME NEW id \in ids PROVE part[id].ops \in Seq(AllOps(h))
  <2>1. part[id].ops = h[id].ops /\ id \in DOMAIN h
    BY <1>1, <1>6
  <2>2. h[id].ops \in Seq(Range(h[id].ops))
    BY <1>2, <2>1 DEF Numbered
  <2>3. Range(h[id].ops) \subseteq AllOps(h)
    BY <2>1 DEF AllOps
  <2> DEFINE ops == h[id].ops
             R   == Range(ops)
             A   == AllOps(h)
  <2>4. ops \in Seq(R) /\ R \subseteq A
    BY <2>2, <2>3
  <2> HIDE DEF ops, R, A
  <2>5. ops \in Seq(A)
    BY <2>4
  <2> QED BY <2>1, <2>5 DEF ops, A
<1>8. Committed(part, order, AllOps(h))
  BY <1>5, <1>6, <1>7 DEF Committed
<1> QED BY <1>2, <1>3, <1>4, <1>5, <1>8

LEMMA OneFurther ==
  ASSUME NEW S, NEW order \in Seq(S), Distinct(order), NEW n \in 1 .. Len(order)
  PROVE  /\ Range(SubSeq(order, 1, n)) = Range(SubSeq(order, 1, n - 1)) \cup {order[n]}
         /\ Range(SubSeq(order, 1, n - 1)) = Range(SubSeq(order, 1, n)) \ {order[n]}
<1>1. n \in Nat /\ n \in 1 .. n /\ n <= Len(order) /\ 1 .. n = (1 .. n - 1) \cup {n} /\ n \notin 1 .. n - 1
  OBVIOUS
<1>2. ASSUME NEW m \in {n - 1, n} PROVE Range(SubSeq(order, 1, m)) = {order[i] : i \in 1 .. m}
  <2>1. DOMAIN SubSeq(order, 1, m) = 1 .. m /\ \A i \in 1 .. m : SubSeq(order, 1, m)[i] = order[i]
    BY <1>1
  <2> QED BY <2>1 DEF Range
<1>3. \A i \in 1 .. n - 1 : order[i] # order[n]
  <2>1. \A i \in 1 .. n - 1 : i \in DOMAIN order /\ n \in DOMAIN order /\ i # n
    BY <1>1
  <2> QED BY <2>1 DEF Distinct
<1>4. {order[i] : i \in 1 .. n} = {order[i] : i \in 1 .. n - 1} \cup {order[n]}
  BY <1>1
<1> QED BY <1>2, <1>3, <1>4

\* An apply takes the schema of what came before to the schema with the migration.
Applies(h, ids, part, order, n, before, d, run) ==
  /\ IsPart(h, ids, part, order) /\ n \in 1 .. Len(order) /\ Renders(part, order, n)
  /\ before = Range(SubSeq(order, 1, n - 1)) /\ HasSchemaOf(h, before, d.schema)
  /\ run = Execute(d, Forward(part, order, n).steps) /\ run.ok

LEMMA ApplyAddsIt ==
  ASSUME NEW h, NEW ids, NEW part, NEW order, NEW n, NEW before, NEW d, NEW run,
         Applies(h, ids, part, order, n, before, d, run)
  PROVE  /\ HasSchemaOf(h, before \cup {order[n]}, run.db.schema)
         /\ Tidy(d) /\ ~run.acted => run.db = AllInPlace(d, part[order[n]].ops) /\ Tidy(run.db)
<1>0. /\ IsPart(h, ids, part, order) /\ n \in 1 .. Len(order) /\ Renders(part, order, n)
      /\ before = Range(SubSeq(order, 1, n - 1)) /\ HasSchemaOf(h, before, d.schema)
      /\ run = Execute(d, Forward(part, order, n).steps) /\ run.ok
  BY DEF Applies
<1> USE <1>0
<1>1. /\ Numbered(h) /\ Sealed(Graph(h), ids) /\ Plainly(part, order)
      /\ Committed(part, order, AllOps(h))
      /\ Len(order) = Cardinality(ids) /\ Cardinality(ids) \in Nat
      /\ order \in Seq(ids) /\ Distinct(order)
  BY PartIsPlain
<1>2. part = Restrict(h, ids) /\ order = InOrderOf(part)
  BY DEF IsPart
<1>3. n \in 0 .. Cardinality(ids) /\ n - 1 \in 0 .. Cardinality(ids)
  BY <1>1
<1>4. d.schema = SchemaAt(part, order, n - 1)
  BY <1>1, <1>2, <1>3, HasSchemaOfPrefix
<1>5. PlainForward(part, order, n)
  <2>1. ReplayedAt(part, order, n).ok
    BY <1>1, <1>3, RendersReplays
  <2> QED BY <1>1, <2>1 DEF Plainly
<1>6. run.db.schema = SchemaAt(part, order, n)
  BY <1>1, <1>4, <1>5, AppliedIsNextSchema
<1>7. Tidy(d) /\ ~run.acted => run.db = AllInPlace(d, part[order[n]].ops) /\ Tidy(run.db)
  BY <1>1, <1>4, <1>5, AppliedInPlace
<1>8. before \cup {order[n]} = Range(SubSeq(order, 1, n))
  BY <1>1, OneFurther
<1> DEFINE s == run.db.schema
<1>9. s = SchemaAt(part, order, n) /\ Renders(part, order, n)
  BY <1>6
<1> HIDE DEF s
<1>10. HasSchemaOf(h, Range(SubSeq(order, 1, n)), s)
  BY ONLY <1>1, <1>2, <1>3, <1>9, HasSchemaOfPrefix
<1> QED BY <1>8, <1>10, <1>7 DEF s

\* A rollback takes it back.
Reverts(h, ids, part, order, n, before, d, run) ==
  /\ IsPart(h, ids, part, order) /\ n \in 1 .. Len(order)
  /\ before = Range(SubSeq(order, 1, n)) /\ HasSchemaOf(h, before, d.schema)
  /\ Backward(part, order, n).ok
  /\ run = Execute(d, Backward(part, order, n).steps) /\ run.ok

LEMMA RevertRemovesIt ==
  ASSUME NEW h, NEW ids, NEW part, NEW order, NEW n, NEW before, NEW d, NEW run,
         Reverts(h, ids, part, order, n, before, d, run)
  PROVE  /\ HasSchemaOf(h, before \ {order[n]}, run.db.schema)
         /\ Tidy(d) /\ ~run.acted => run.db = AllInPlace(d, RollbackOps(part[order[n]].ops)) /\ Tidy(run.db)
<1>0. /\ IsPart(h, ids, part, order) /\ n \in 1 .. Len(order)
      /\ before = Range(SubSeq(order, 1, n)) /\ HasSchemaOf(h, before, d.schema)
      /\ Backward(part, order, n).ok
      /\ run = Execute(d, Backward(part, order, n).steps) /\ run.ok
  BY DEF Reverts
<1> USE <1>0
<1>1. /\ Numbered(h) /\ Sealed(Graph(h), ids) /\ Plainly(part, order)
      /\ Committed(part, order, AllOps(h))
      /\ Len(order) = Cardinality(ids) /\ Cardinality(ids) \in Nat
      /\ order \in Seq(ids) /\ Distinct(order)
  BY PartIsPlain
<1>2. part = Restrict(h, ids) /\ order = InOrderOf(part)
  BY DEF IsPart
<1>3. n \in 0 .. Cardinality(ids) /\ n - 1 \in 0 .. Cardinality(ids)
  BY <1>1
<1>4. d.schema = SchemaAt(part, order, n) /\ Renders(part, order, n)
  BY <1>1, <1>2, <1>3, HasSchemaOfPrefix
<1>5. LosslessAt(part, order, n) /\ PlainBackward(part, order, n)
  <2>1. ReplayedAt(part, order, n).ok
    BY <1>1, <1>3, <1>4, RendersReplays
  <2>2. Reversible(part[order[n]].ops)
    BY <1>1, <1>4, PlacesOf
  <2> QED BY <1>1, <1>4, <2>1, <2>2 DEF Plainly
<1>6. run.db.schema = SchemaAt(part, order, n - 1)
  BY <1>1, <1>4, <1>5, RolledBackIsPreviousSchema
<1>7. Tidy(d) /\ ~run.acted => run.db = AllInPlace(d, RollbackOps(part[order[n]].ops)) /\ Tidy(run.db)
  BY <1>1, <1>4, <1>5, RolledBackInPlace
<1>8. before \ {order[n]} = Range(SubSeq(order, 1, n - 1))
  BY <1>1, OneFurther
<1>9. Renders(part, order, n - 1)
  BY <1>4 DEF Renders
<1> DEFINE s == run.db.schema
           m == n - 1
<1>10. s = SchemaAt(part, order, m) /\ Renders(part, order, m) /\ m \in 0 .. Cardinality(ids)
  BY <1>3, <1>6, <1>9
<1> HIDE DEF s, m
<1>11. HasSchemaOf(h, Range(SubSeq(order, 1, m)), s)
  BY ONLY <1>1, <1>2, <1>10, HasSchemaOfPrefix
<1> QED BY <1>8, <1>11, <1>7 DEF s, m

-----------------------------------------------------------------------------
(* The database and the record.                                            *)

\* As long as every migration met the schema it was rendered for, the database has
\* the schema of those applied, each of them renders where it is, and the values are
\* the ones operations done in place would have left, unless rows were acted on.
SInv ==
  /\ history \in Histories
  /\ straight \in BOOLEAN
  /\ straight => HasSchemaOf(history, applied, db.schema)
  /\ straight /\ ~acted => db = intended /\ Tidy(db)

LEMMA NothingYet ==
  ASSUME NEW h, h \in Histories
  PROVE  HasSchemaOf(h, {}, EmptySchema)
<1> DEFINE part  == Restrict(h, {})
           order == InOrderOf(part)
<1>1. Cardinality({}) = 0
  BY FS_EmptySet
<1>5. SchemaAt(part, order, 0) = EmptySchema
  BY NothingReplayed
<1>6. Sealed(Graph(h), {}) /\ Renders(part, order, 0)
  BY DEF Sealed, Renders
<1> QED BY <1>1, <1>5, <1>6 DEF HasSchemaOf

LEMMA InitSInv == Init => SInv
<1> SUFFICES ASSUME Init PROVE SInv
  OBVIOUS
<1>1. history \in Histories /\ straight = TRUE /\ applied = {}
  BY DEF Init
<1>2. db = intended /\ db.schema = EmptySchema /\ db.data = EmptySchema
  BY DEF Init, Database
<1>3. HasSchemaOf(history, {}, EmptySchema)
  BY <1>1, NothingYet
<1>4. Tidy(db)
  BY <1>2 DEF Tidy, AllColumns, EmptySchema
<1> QED BY <1>1, <1>2, <1>3, <1>4 DEF SInv

\* What an attempt does to the database and the record, if anything.
Succeeds(plan, ops, run, before, now) ==
  /\ plan.ok /\ run.ok
  /\ db' = run.db /\ intended' = AllInPlace(intended, ops) /\ applied' = now
  /\ straight' = (straight /\ applied = before)
  /\ acted' = (acted \/ run.acted)

LEMMA AttemptDoes ==
  ASSUME NEW h, NEW order, NEW plan, NEW ops, NEW before, NEW now, NEW run,
         Attempt(h, order, plan, ops, before, now, run)
  PROVE  \/ UNCHANGED <<db, intended, straight, acted, applied>>
         \/ Succeeds(plan, ops, run, before, now)
  BY DEF Attempt, Succeeds

LEMMA ApplyKeeps ==
  ASSUME SInv, UNCHANGED history, NEW ids, NEW part, NEW order, IsPart(history, ids, part, order),
         NEW n \in 1 .. Len(order), Renders(part, order, n),
         ApplyNext(part, order, n, Forward(part, order, n))
  PROVE  SInv'
<1> DEFINE plan   == Forward(part, order, n)
           ops    == part[order[n]].ops
           before == Range(SubSeq(order, 1, n - 1))
           now    == applied \cup {order[n]}
           run    == RunPlan(plan)
<1>1. \/ UNCHANGED <<db, intended, straight, acted, applied>>
      \/ Succeeds(plan, ops, run, before, now)
  BY AttemptDoes DEF ApplyNext
<1>2. CASE UNCHANGED <<db, intended, straight, acted, applied>>
  BY <1>2 DEF SInv
<1>3. CASE Succeeds(plan, ops, run, before, now)
  <2>1. /\ plan.ok /\ run.ok /\ db' = run.db /\ intended' = AllInPlace(intended, ops)
        /\ applied' = now /\ straight' = (straight /\ applied = before)
        /\ acted' = (acted \/ run.acted)
    BY <1>3 DEF Succeeds
  <2>2. run = Execute(db, plan.steps)
    BY <2>1 DEF RunPlan
  <2>3. straight' \in BOOLEAN
    BY <2>1
  <2>4. ASSUME straight'
        PROVE  /\ HasSchemaOf(history, applied', db'.schema)
               /\ ~acted' => db' = intended' /\ Tidy(db')
    <3>1. straight /\ applied = before
      BY <2>1, <2>4
    <3>2. HasSchemaOf(history, before, db.schema)
      BY <3>1 DEF SInv
    <3>9. ~acted => db = intended /\ Tidy(db)
      BY <3>1 DEF SInv
    <3>3. Applies(history, ids, part, order, n, before, db, run)
      BY <2>1, <2>2, <3>2 DEF Applies
    <3> HIDE DEF run, before, ops
    <3>4. /\ HasSchemaOf(history, before \cup {order[n]}, run.db.schema)
          /\ Tidy(db) /\ ~run.acted => run.db = AllInPlace(db, part[order[n]].ops) /\ Tidy(run.db)
      BY ONLY <3>3, ApplyAddsIt
    <3>5. /\ HasSchemaOf(history, before \cup {order[n]}, run.db.schema)
          /\ Tidy(db) /\ ~run.acted => run.db = AllInPlace(db, ops) /\ Tidy(run.db)
      BY <3>4 DEF ops
    <3>6. HasSchemaOf(history, applied', db'.schema)
      BY <2>1, <3>1, <3>5
    <3>7. ~acted' => ~acted /\ ~run.acted
      BY <2>1
    <3>8. ~acted' => db' = intended' /\ Tidy(db')
      BY <2>1, <3>9, <3>5, <3>7
    <3> QED BY <3>6, <3>8
  <2> QED BY <2>3, <2>4 DEF SInv
<1> QED BY <1>1, <1>2, <1>3

LEMMA RevertKeeps ==
  ASSUME SInv, UNCHANGED history, NEW ids, NEW part, NEW order, IsPart(history, ids, part, order),
         NEW n \in 1 .. Len(order),
         Revert(part, order, n, Backward(part, order, n))
  PROVE  SInv'
<1> DEFINE plan   == Backward(part, order, n)
           back   == RollbackOps(part[order[n]].ops)
           before == Range(SubSeq(order, 1, n))
           now    == applied \ {order[n]}
           run    == RunPlan(plan)
<1>1. \/ UNCHANGED <<db, intended, straight, acted, applied>>
      \/ Succeeds(plan, back, run, before, now)
  BY AttemptDoes DEF Revert
<1>2. CASE UNCHANGED <<db, intended, straight, acted, applied>>
  BY <1>2 DEF SInv
<1>3. CASE Succeeds(plan, back, run, before, now)
  <2>1. /\ plan.ok /\ run.ok /\ db' = run.db /\ intended' = AllInPlace(intended, back)
        /\ applied' = now /\ straight' = (straight /\ applied = before)
        /\ acted' = (acted \/ run.acted)
    BY <1>3 DEF Succeeds
  <2>2. run = Execute(db, plan.steps)
    BY <2>1 DEF RunPlan
  <2>3. straight' \in BOOLEAN
    BY <2>1
  <2>4. ASSUME straight'
        PROVE  /\ HasSchemaOf(history, applied', db'.schema)
               /\ ~acted' => db' = intended' /\ Tidy(db')
    <3>1. straight /\ applied = before
      BY <2>1, <2>4
    <3>2. HasSchemaOf(history, before, db.schema)
      BY <3>1 DEF SInv
    <3>9. ~acted => db = intended /\ Tidy(db)
      BY <3>1 DEF SInv
    <3>3. Reverts(history, ids, part, order, n, before, db, run)
      BY <2>1, <2>2, <3>2 DEF Reverts
    <3> HIDE DEF run, before, back
    <3>4. /\ HasSchemaOf(history, before \ {order[n]}, run.db.schema)
          /\ Tidy(db) /\ ~run.acted => run.db = AllInPlace(db, RollbackOps(part[order[n]].ops)) /\ Tidy(run.db)
      BY ONLY <3>3, RevertRemovesIt
    <3>5. /\ HasSchemaOf(history, before \ {order[n]}, run.db.schema)
          /\ Tidy(db) /\ ~run.acted => run.db = AllInPlace(db, back) /\ Tidy(run.db)
      BY <3>4 DEF back
    <3>6. HasSchemaOf(history, applied', db'.schema)
      BY <2>1, <3>1, <3>5
    <3>7. ~acted' => ~acted /\ ~run.acted
      BY <2>1
    <3>8. ~acted' => db' = intended' /\ Tidy(db')
      BY <2>1, <3>9, <3>5, <3>7
    <3> QED BY <3>6, <3>8
  <2> QED BY <2>3, <2>4 DEF SInv
<1> QED BY <1>1, <1>2, <1>3

LEMMA ConvergeKeeps ==
  ASSUME SInv, UNCHANGED history, NEW ids, NEW part, NEW order, IsPart(history, ids, part, order),
         NEW end \in 1 .. Cardinality(ids), Converge(part, order, end)
  PROVE  SInv'
<1> DEFINE beyond  == Positions(order, end + 1, Len(order), applied)
           pending == Positions(order, 1, end, DOMAIN part \ applied)
<1>1. Len(order) = Cardinality(ids) /\ Len(order) \in Nat /\ end \in Nat /\ end <= Len(order)
  BY PartIsPlain
<1>2. beyond \in SUBSET (end + 1 .. Len(order)) /\ pending \in SUBSET (1 .. end)
  BY DEF Positions
<1>3. CASE ~Preflight(part, order, end)
  BY <1>3 DEF Converge, SInv
<1>4. CASE Preflight(part, order, end)
  <2>1. \/ beyond # {} /\ Revert(part, order, Max(beyond), Backward(part, order, Max(beyond)))
        \/ pending # {} /\ ApplyNext(part, order, Min(pending), Forward(part, order, Min(pending)))
    BY <1>4 DEF Converge
  <2> HIDE DEF beyond, pending
  <2>2. CASE beyond # {} /\ Revert(part, order, Max(beyond), Backward(part, order, Max(beyond)))
    <3> DEFINE first == end + 1
               size  == Len(order)
    <3>1. first \in Nat /\ size \in Nat /\ beyond \in SUBSET (first .. size) /\ beyond # {}
      BY <1>1, <1>2, <2>2
    <3>2. Max(beyond) \in first .. size
      <4> HIDE DEF first, size
      <4> QED BY ONLY <3>1, LastOf
    <3>3. Max(beyond) \in 1 .. Len(order)
      BY <1>1, <3>2
    <3> QED BY <2>2, <3>3, RevertKeeps
  <2>3. CASE pending # {} /\ ApplyNext(part, order, Min(pending), Forward(part, order, Min(pending)))
    <3>1. 1 \in Nat /\ end \in Nat /\ pending \in SUBSET (1 .. end) /\ pending # {}
      BY <1>1, <1>2, <2>3
    <3>2. Min(pending) \in 1 .. end
      BY ONLY <3>1, FirstOf
    <3>3. Min(pending) \in 1 .. Len(order) /\ 1 .. Min(pending) \subseteq 1 .. end
      BY <1>1, <3>2
    <3>4. Renders(part, order, Min(pending))
      BY <1>4, <3>3 DEF Preflight, Renders
    <3> QED BY <2>3, <3>3, <3>4, ApplyKeeps
  <2> QED BY <2>1, <2>2, <2>3
<1> QED BY <1>3, <1>4

\* The application writes rows with a value, or none, in every column.
LEMMA WrittenTidy ==
  ASSUME NEW d, Tidy(d), NEW t, NEW v, v # "none", NEW n, n = Written(d, t, v)
  PROVE  Tidy(n) /\ n.schema = d.schema
<1> DEFINE Val(k) == IF k.table # t THEN d.data[k]
                     ELSE IF Takes(d.schema, k, v) THEN v ELSE "kept"
           full == {k.table : k \in {x \in AllColumns(d.schema) : x.table = t \/ HasRows(d, x.table)}}
<1>1. n.schema = d.schema /\ n.data = [k \in DOMAIN d.data |-> Val(k)]
  BY DEF Written, Database
<1>2. DOMAIN n.data = AllColumns(n.schema) /\ \A k \in AllColumns(n.schema) : n.data[k] = Val(k)
  BY <1>1 DEF Tidy
<1>3. \A k \in AllColumns(d.schema) : Val(k) = "none" <=> k.table # t /\ ~HasRows(d, k.table)
  BY DEF Tidy
<1>4. \A k \in AllColumns(d.schema) : k.table \in full <=> k.table = t \/ HasRows(d, k.table)
  OBVIOUS
<1> HIDE DEF Val, full
<1>5. \A k \in AllColumns(n.schema) : n.data[k] = "none" <=> k.table \notin full
  BY <1>1, <1>2, <1>3, <1>4
<1> QED BY <1>1, <1>2, <1>5, TidyBy

LEMMA NextSInv == SInv /\ [Next]_vars => SInv'
<1> SUFFICES ASSUME SInv, [Next]_vars PROVE SInv'
  OBVIOUS
<1>1. CASE Move
  <2>1. PICK ids \in SUBSET DOMAIN history :
          /\ IsCheckout(history, ids)
          /\ \E end \in 1 .. Cardinality(ids) :
               Converge(Restrict(history, ids), InOrderOf(Restrict(history, ids)), end)
          /\ UNCHANGED history
    BY <1>1 DEF Move
  <2>2. PICK end \in 1 .. Cardinality(ids) :
          Converge(Restrict(history, ids), InOrderOf(Restrict(history, ids)), end)
    BY <2>1
  <2>3. IsPart(history, ids, Restrict(history, ids), InOrderOf(Restrict(history, ids)))
    BY <2>1 DEF IsPart, SInv
  <2> QED BY <2>1, <2>2, <2>3, ConvergeKeeps
<1>2. CASE Use
  <2>1. PICK t \in Tables(db.schema) \cap Tables(intended.schema), v \in {"null", "kept", "twin", "stray"} :
          db' = Written(db, t, v) /\ intended' = Written(intended, t, v)
    BY <1>2 DEF Use
  <2>2. UNCHANGED <<history, applied, straight, acted>>
    BY <1>2 DEF Use
  <2>3. (Tidy(db) => Tidy(db')) /\ db'.schema = db.schema
    <3>1. v # "none"
      OBVIOUS
    <3>2. db'.schema = db.schema
      BY <2>1 DEF Written, Database
    <3>3. ASSUME Tidy(db) PROVE Tidy(db')
      <4> HIDE DEF Written
      <4> QED BY ONLY <2>1, <3>1, <3>3, WrittenTidy
    <3> QED BY <3>2, <3>3
  <2>4. db = intended => db' = intended'
    BY <2>1
  <2> QED BY <2>2, <2>3, <2>4 DEF SInv
<1>3. CASE UNCHANGED vars
  BY <1>3 DEF vars, SInv
<1> QED BY <1>1, <1>2, <1>3 DEF Next

\* What the database has is what replaying the applied migrations gives.
LEMMA SInvIsEnough == SInv => DatabaseIsAsReplayed
<1> SUFFICES ASSUME SInv, straight
             PROVE  db.schema = Replay(EmptySchema, FlattenSeq(
                      [i \in 1 .. Cardinality(applied)
                         |-> history[InOrderOf(Restrict(history, applied))[i]].ops])).schema
  BY DEF DatabaseIsAsReplayed
<1> DEFINE part  == Restrict(history, applied)
           order == InOrderOf(part)
           n     == Cardinality(applied)
<1>1. /\ Sealed(Graph(history), applied)
      /\ db.schema = SchemaAt(part, order, n)
  BY DEF SInv, HasSchemaOf
<1>2. Numbered(history)
  BY HistoriesAssumption DEF SInv
<1>3. OrderOf(history, applied, order) /\ n \in Nat
  BY <1>1, <1>2, CheckoutOrdered
<1>4. order \in Seq(applied) /\ Len(order) = n
  BY <1>3 DEF OrderOf, OrderedInParts
<1>5. ASSUME NEW i \in 1 .. n PROVE part[order[i]] = history[order[i]]
  <2>1. order[i] \in applied
    BY <1>3, <1>4
  <2> QED BY <2>1 DEF Restrict
<1> HIDE DEF order, n, part
<1>6. [i \in 1 .. n |-> part[order[i]].ops] = [i \in 1 .. n |-> history[order[i]].ops]
  BY <1>5
<1>7. db.schema = Replay(EmptySchema, FlattenSeq([i \in 1 .. n |-> history[order[i]].ops])).schema
  BY <1>1, <1>6 DEF SchemaAt, ReplayedAt, OpsUpto
<1> QED BY <1>7 DEF order, n, part

\* Whichever movements of whichever checkouts ran, as long as each migration met the
\* schema it was rendered for, the database has the schema that replaying what is
\* recorded gives: what the next migration will be rendered for.
THEOREM DatabaseIsAsReplayedCorrect == Spec => []DatabaseIsAsReplayed
<1>1. Spec => []SInv
  BY InitSInv, NextSInv, PTL DEF Spec
<1> QED BY <1>1, SInvIsEnough, PTL

\* And every row has in every column what it would have if each operation had been
\* done in place: the copies of a rebuild lose and invent nothing, over whole
\* histories of applies, rollbacks and writes of the application in between, until
\* the DROP TABLE of a table that refers to itself acts on the copied rows.
THEOREM RebuildKeepsValuesCorrect == Spec => []RebuildKeepsValues
<1>1. Spec => []SInv
  BY InitSInv, NextSInv, PTL DEF Spec
<1>2. SInv => RebuildKeepsValues
  BY DEF SInv, RebuildKeepsValues
<1> QED BY <1>1, <1>2, PTL

\* What a movement does when its turn comes was rendered by the preflight, and is
\* rendered alike: the rollbacks behind a migration lose nothing, so that its own starts
\* from the schema of its place on both sides.
LEMMA PreflightRenders ==
  ASSUME NEW h, NEW ids, NEW part, NEW order, IsPart(h, ids, part, order),
         NEW end \in 1 .. Cardinality(ids), Preflight(part, order, end)
  PROVE  /\ \A n \in 1 .. end : Forward(part, order, n).ok
         /\ \A n \in end + 1 .. Len(order) : Backward(part, order, n).ok
<1>1. /\ Plainly(part, order) /\ Committed(part, order, AllOps(h))
      /\ Len(order) = Cardinality(ids) /\ Cardinality(ids) \in Nat
  BY PartIsPlain
<1>2. ASSUME NEW n \in end + 1 .. Len(order) PROVE Backward(part, order, n).ok
  <2> DEFINE from   == UndoneTo(part, order, n)
             back   == RollbackOps(part[order[n]].ops)
             atomic == part[order[n]].atomic
  <2>1. /\ n \in 0 .. Len(order)
        /\ \A k \in n + 1 .. Len(order) : k \in end + 1 .. Len(order) /\ k \in 1 .. Len(order)
    BY <1>1
  <2>2. \A k \in end + 1 .. Len(order) : Reversible(part[order[k]].ops)
    BY DEF Preflight
  <2>3. RenderAfter(from, back, atomic).ok
    BY DEF Preflight, BackwardFromEnd
  <2>4. from.ok
    BY <2>3, RenderedAfter
  <2>5. ReplayedAt(part, order, Len(order)).ok
    BY <2>4 DEF UndoneTo
  <2>6. \A k \in 0 .. Len(order) : ReplayedAt(part, order, k).ok
    <3>1. Len(order) \in 0 .. Len(order)
      BY <1>1
    <3>2. \A k \in 0 .. Len(order) : ReplayedAt(part, order, k) = Begun(SchemaAt(part, order, k))
      BY <1>1, <2>5, <3>1, HistoryReplays
    <3> QED BY <3>2, BegunIs
  <2>7. \A k \in n + 1 .. Len(order) : LosslessAt(part, order, k)
    <3>1. ASSUME NEW k \in n + 1 .. Len(order) PROVE LosslessAt(part, order, k)
      <4>1. k \in 1 .. Len(order) /\ k \in 0 .. Len(order) /\ k \in end + 1 .. Len(order)
        BY <1>1, <2>1
      <4> QED BY <1>1, <2>2, <2>6, <4>1 DEF Plainly
    <3> QED BY <3>1
  <2>8. from = ReplayedAt(part, order, n)
    BY <1>1, <2>1, <2>5, <2>7, UndoneToIs
  <2>9. Backward(part, order, n) = RenderAfter(ReplayedAt(part, order, n), back, atomic)
    BY <2>2 DEF Backward
  <2> QED BY <2>3, <2>8, <2>9
<1> QED BY <1>2 DEF Preflight

LEMMA AttemptRefuses ==
  ASSUME NEW h, NEW order, NEW plan, NEW ops, NEW before, NEW now, NEW run,
         Attempt(h, order, plan, ops, before, now, run), plan.ok
  PROVE  last'.how # "refused"
<1>1. CASE run.ok
  BY <1>1 DEF Attempt, Ended
<1>2. CASE ~run.ok /\ applied = before
  BY <1>2 DEF Attempt
<1>3. CASE ~run.ok /\ applied # before
  <2>1. last' = Ended("failed astray")
    BY <1>3, Zenon DEF Attempt
  <2> QED BY <2>1 DEF Ended
<1> QED BY <1>1, <1>2, <1>3

LEMMA ConvergeRefusesNothing ==
  ASSUME NEW ids, NEW part, NEW order, IsPart(history, ids, part, order),
         NEW end \in 1 .. Cardinality(ids), Converge(part, order, end)
  PROVE  last'.how # "refused"
<1> DEFINE beyond  == Positions(order, end + 1, Len(order), applied)
           pending == Positions(order, 1, end, DOMAIN part \ applied)
<1>1. Len(order) = Cardinality(ids) /\ Len(order) \in Nat /\ end \in Nat
  BY PartIsPlain
<1>2. beyond \in SUBSET (end + 1 .. Len(order)) /\ pending \in SUBSET (1 .. end)
  BY DEF Positions
<1>3. CASE ~Preflight(part, order, end)
  <2>1. last' = Ended("refused before")
    BY <1>3, Zenon DEF Converge
  <2> QED BY <2>1 DEF Ended
<1>4. CASE Preflight(part, order, end)
  <2>1. \/ beyond # {} /\ Revert(part, order, Max(beyond), Backward(part, order, Max(beyond)))
        \/ pending # {} /\ ApplyNext(part, order, Min(pending), Forward(part, order, Min(pending)))
    BY <1>4 DEF Converge
  <2>2. /\ \A n \in 1 .. end : Forward(part, order, n).ok
        /\ \A n \in end + 1 .. Len(order) : Backward(part, order, n).ok
    BY <1>4, PreflightRenders
  <2> HIDE DEF beyond, pending
  <2>3. CASE beyond # {} /\ Revert(part, order, Max(beyond), Backward(part, order, Max(beyond)))
    <3> DEFINE first == end + 1
               size  == Len(order)
    <3>1. first \in Nat /\ size \in Nat /\ beyond \in SUBSET (first .. size) /\ beyond # {}
      BY <1>1, <1>2, <2>3
    <3>2. Max(beyond) \in first .. size
      <4> HIDE DEF first, size
      <4> QED BY ONLY <3>1, LastOf
    <3>3. Backward(part, order, Max(beyond)).ok
      BY <2>2, <3>2
    <3> QED BY <2>3, <3>3, AttemptRefuses DEF Revert
  <2>4. CASE pending # {} /\ ApplyNext(part, order, Min(pending), Forward(part, order, Min(pending)))
    <3>1. 1 \in Nat /\ end \in Nat /\ pending \in SUBSET (1 .. end) /\ pending # {}
      BY <1>1, <1>2, <2>4
    <3>2. Min(pending) \in 1 .. end
      BY ONLY <3>1, FirstOf
    <3>3. Forward(part, order, Min(pending)).ok
      BY <2>2, <3>2
    <3> QED BY <2>4, <3>3, AttemptRefuses DEF ApplyNext
  <2> QED BY <2>1, <2>3, <2>4
<1> QED BY <1>3, <1>4

RInv == history \in Histories /\ NeverRefusedMidway

LEMMA NextRInv == RInv /\ [Next]_vars => RInv'
<1> SUFFICES ASSUME RInv, [Next]_vars PROVE RInv'
  OBVIOUS
<1>1. CASE Move
  <2>1. PICK ids \in SUBSET DOMAIN history :
          /\ IsCheckout(history, ids)
          /\ \E end \in 1 .. Cardinality(ids) :
               Converge(Restrict(history, ids), InOrderOf(Restrict(history, ids)), end)
          /\ UNCHANGED history
    BY <1>1 DEF Move
  <2>2. PICK end \in 1 .. Cardinality(ids) :
          Converge(Restrict(history, ids), InOrderOf(Restrict(history, ids)), end)
    BY <2>1
  <2>3. IsPart(history, ids, Restrict(history, ids), InOrderOf(Restrict(history, ids)))
    BY <2>1 DEF IsPart, RInv
  <2>4. last'.how # "refused"
    BY <2>2, <2>3, ConvergeRefusesNothing
  <2> QED BY <2>1, <2>4 DEF RInv, NeverRefusedMidway
<1>2. CASE Use
  BY <1>2 DEF Use, RInv, NeverRefusedMidway, Ended
<1>3. CASE UNCHANGED vars
  BY <1>3 DEF vars, RInv, NeverRefusedMidway
<1> QED BY <1>1, <1>2, <1>3 DEF Next

\* No migration of a movement that passed the preflight is refused when its turn
\* comes: from whichever side the preflight came to it, execution meets the same
\* schema.
THEOREM NeverRefusedMidwayCorrect == Spec => []NeverRefusedMidway
<1>1. Init => RInv
  BY DEF Init, RInv, NeverRefusedMidway, Ended
<1>2. Spec => []RInv
  BY <1>1, NextRInv, PTL DEF Spec
<1>3. RInv => NeverRefusedMidway
  BY DEF RInv
<1> QED BY <1>2, <1>3, PTL

=============================================================================
