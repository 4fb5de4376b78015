---------------------- MODULE MigrationGraph_proofs ----------------------
(***************************************************************************)
(* The properties of MigrationGraph, for every finite set of migration ids *)
(* and everything a user may type.                                         *)
(***************************************************************************)
EXTENDS MigrationGraph, GraphOps_proofs

\* nodes is a graph over Ids.
GraphOver(g) ==
    /\ g = [id \in DOMAIN g |-> g[id]]
    /\ DOMAIN g \subseteq Ids
    /\ \A id \in DOMAIN g : g[id] \subseteq Ids

LEMMA GraphOverFinite ==
    ASSUME NEW g, GraphOver(g)
    PROVE  /\ FiniteGraph(g)
           /\ Nodes(g) \subseteq Ids
           /\ \A id : DepsOf(g, id) \subseteq Ids
<1>1. Nodes(g) \subseteq Ids
  BY DEF GraphOver, Nodes, Range
<1>2. Ids \subseteq Nat /\ IsFiniteSet(Ids)
  BY IdsAssumption
<1> QED
  BY <1>1, <1>2, FS_Subset DEF GraphOver, FiniteGraph, DepsOf

LEMMA AddStep ==
    ASSUME NEW id \in Ids, NEW deps \in SUBSET Ids, Add(id, deps), GraphOver(nodes)
    PROVE  /\ GraphOver(nodes')
           /\ \/ nodes' = nodes
              \/ /\ id \notin DOMAIN nodes /\ DOMAIN nodes' = DOMAIN nodes \cup {id}
                 /\ nodes'[id] = deps
                 /\ \A other \in DOMAIN nodes : nodes'[other] = nodes[other]
<1>1. CASE id \in DOMAIN nodes
  BY <1>1 DEF Add
<1>2. CASE id \notin DOMAIN nodes
  <2>1. nodes' = Inserted(nodes, id, deps)
    BY <1>2 DEF Add, Insert
  <2>2. nodes' = [x \in DOMAIN nodes \cup {id} |-> IF x = id THEN deps ELSE nodes[x]]
    BY <2>1 DEF Inserted
  <2> QED
    BY <1>2, <2>2 DEF GraphOver
<1> QED
  BY <1>1, <1>2

\* What is loaded is a graph over Ids.
THEOREM GraphOverIds == Spec => []GraphOver(nodes)
<1>1. Init => GraphOver(nodes)
  BY DEF Init, GraphOver
<1>2. GraphOver(nodes) /\ [Next]_vars => GraphOver(nodes)'
  <2> SUFFICES ASSUME GraphOver(nodes), [Next]_vars
               PROVE  GraphOver(nodes')
    BY DEF GraphOver
  <2>1. CASE Next
    BY <2>1, AddStep DEF Next
  <2>2. CASE UNCHANGED vars
    BY <2>2 DEF vars
  <2> QED
    BY <2>1, <2>2
<1> QED
  BY <1>1, <1>2, PTL DEF Spec

----------------------------------------------------------------------------
(* Below, the reference notion, is what Under is.                          *)

Compose(g, f, n) ==
    IF n = 0 THEN Edges(g)
    ELSE f[n-1] \cup {p \in Ids \X Ids :
                         \E b \in Ids : <<p[1], b>> \in f[n-1] /\ <<b, p[2]>> \in Edges(g)}

ComposeEquation(g, f) == f = [n \in 0..Cardinality(Ids) |-> Compose(g, f, n)]

LEMMA BelowChoice ==
    ASSUME NEW g
    PROVE  Below(g) = (CHOOSE f : ComposeEquation(g, f))[Cardinality(Ids)]
  BY DEF Below, ComposeEquation, Compose

LEMMA ComposeExists ==
    ASSUME NEW g
    PROVE  \E f : ComposeEquation(g, f)
<1> DEFINE k == Cardinality(Ids)
           D == 0..k
           X == [D -> SUBSET (Ids \X Ids)]
           Once(f) == [n \in D |-> Compose(g, f, n)]
           Phi == [f \in X |-> Once(f)]
           rank == [n \in D |-> n]
           x0 == [n \in D |-> {}]
<1>1. k \in Nat
  BY IdsAssumption, FS_CardinalityType
<1> HIDE DEF k
<1>2. x0 \in X /\ rank \in [D -> 0..k] /\ FunctionsOver(X, D)
  BY DEF FunctionsOver
<1>3. Phi \in [X -> X]
  <2> SUFFICES ASSUME NEW f \in X, NEW n \in D
               PROVE  Compose(g, f, n) \in SUBSET (Ids \X Ids)
    OBVIOUS
  <2>1. CASE n = 0
    BY <2>1 DEF Compose, Edges
  <2>2. CASE n # 0
    <3>1. n - 1 \in D
      BY <1>1, <2>2
    <3>2. f[n - 1] \in SUBSET (Ids \X Ids)
      BY <3>1
    <3> QED
      BY <2>2, <3>2 DEF Compose
  <2> QED
    BY <2>1, <2>2
<1>4. Contracts(Phi, X, D, rank)
  <2> SUFFICES ASSUME NEW f \in X, NEW h \in X, NEW n \in D,
                      \A e \in D : rank[e] < rank[n] => f[e] = h[e]
               PROVE  Phi[f][n] = Phi[h][n]
    BY DEF Contracts
  <2>1. Compose(g, f, n) = Compose(g, h, n)
    <3>1. CASE n = 0
      BY <3>1 DEF Compose
    <3>2. CASE n # 0
      <4>1. n - 1 \in D /\ n - 1 < n
        BY <1>1, <3>2
      <4>2. f[n - 1] = h[n - 1]
        BY <4>1
      <4> QED
        BY <3>2, <4>2 DEF Compose
    <3> QED
      BY <3>1, <3>2
  <2> HIDE DEF X
  <2> QED
    BY <2>1
<1> HIDE DEF x0, rank, Phi, X, D, Once
<1>5. \E f \in X : f = Phi[f]
  BY <1>1, <1>2, <1>3, <1>4, RecursiveFunctionExists
<1>6. \A f \in X : Phi[f] = Once(f)
  BY DEF Phi
<1>7. PICK f \in X : f = Once(f)
  BY <1>5, <1>6
<1>8. ComposeEquation(g, f)
  BY <1>7 DEF ComposeEquation, Once, D, k
<1> QED
  BY <1>8

\* After as many compositions as there are ids nothing new is found.
LEMMA BelowIsUnder ==
    ASSUME NEW g, GraphOver(g)
    PROVE  /\ Below(g) \subseteq Ids \X Ids
           /\ \A a, b \in Ids : <<a, b>> \in Below(g) <=> b \in Under(g, a)
<1> DEFINE k == Cardinality(Ids)
           c == CHOOSE f : ComposeEquation(g, f)
           R(n, a) == {b \in Ids : <<a, b>> \in c[n]}
<1>1. k \in Nat
  BY IdsAssumption, FS_CardinalityType
<1>2. c = [n \in 0..k |-> Compose(g, c, n)]
  BY ComposeExists DEF ComposeEquation
<1>3. Below(g) = c[k]
  BY BelowChoice
<1> HIDE DEF k, c
<1>4. FiniteGraph(g) /\ Nodes(g) \subseteq Ids /\ \A id : DepsOf(g, id) \subseteq Ids
  BY GraphOverFinite
<1>5. \A a, b \in Ids : <<a, b>> \in Edges(g) <=> b \in DepsOf(g, a)
  BY DEF Edges, DepsOf
<1>6. \A a \in Ids : R(0, a) = DepsOf(g, a)
  <2>1. c[0] = Edges(g)
    BY <1>1, <1>2 DEF Compose
  <2> QED
    BY <1>4, <1>5, <2>1
<1>7. ASSUME NEW a \in Ids, NEW n \in 0..k-1
      PROVE  R(n + 1, a) = R(n, a) \cup {d \in Ids : \E b \in R(n, a) : d \in DepsOf(g, b)}
  <2>1. n + 1 \in 0..k /\ n + 1 # 0 /\ (n + 1) - 1 = n
    BY <1>1
  <2>2. c[n + 1] = c[n] \cup {p \in Ids \X Ids :
                         \E b \in Ids : <<p[1], b>> \in c[n] /\ <<b, p[2]>> \in Edges(g)}
    BY <1>2, <2>1 DEF Compose
  <2>3. \A d \in Ids : <<a, d>> \in c[n + 1] <=>
            <<a, d>> \in c[n] \/ \E b \in Ids : <<a, b>> \in c[n] /\ <<b, d>> \in Edges(g)
    BY <2>2
  <2> QED
    BY <1>5, <2>3
<1>8. Below(g) \subseteq Ids \X Ids
  <2>1. CASE k = 0
    BY <1>1, <1>2, <1>3, <2>1 DEF Compose, Edges
  <2>2. CASE k # 0
    <3> DEFINE T == {n \in 0..k : c[n] \subseteq Ids \X Ids}
    <3>1. 0 \in T
      BY <1>1, <1>2 DEF Compose, Edges
    <3>2. ASSUME NEW n \in 0..k-1, n \in T
          PROVE  n + 1 \in T
      <4>1. n + 1 \in 0..k /\ n + 1 # 0 /\ (n + 1) - 1 = n
        BY <1>1
      <4>2. c[n + 1] = c[n] \cup {p \in Ids \X Ids :
                         \E b \in Ids : <<p[1], b>> \in c[n] /\ <<b, p[2]>> \in Edges(g)}
        BY <1>2, <4>1 DEF Compose
      <4> QED
        BY <3>2, <4>1, <4>2
    <3> HIDE DEF T
    <3>3. k \in T
      BY <1>1, <3>1, <3>2, UpToInduct
    <3> QED
      BY <1>3, <3>3 DEF T
  <2> QED
    BY <2>1, <2>2
<1> HIDE DEF R
<1>9. ASSUME NEW a \in Ids
      PROVE  R(k, a) = Under(g, a)
  <2>1. R(k, a) \subseteq Under(g, a)
    <3> DEFINE T == {n \in 0..k : R(n, a) \subseteq Under(g, a)}
    <3>1. 0 \in T
      BY <1>1, <1>4, <1>6, UnderHolds
    <3>2. ASSUME NEW n \in 0..k-1, n \in T
          PROVE  n + 1 \in T
      <4>1. n + 1 \in 0..k
        BY <1>1
      <4> QED
        BY <1>4, <1>7, <3>2, <4>1, UnderHolds DEF Closed
    <3> HIDE DEF T
    <3>3. k \in T
      BY <1>1, <3>1, <3>2, UpToInduct
    <3> QED
      BY <3>3 DEF T
  <2>2. ASSUME NEW n
        PROVE  /\ R(n, a) \in SUBSET Ids /\ IsFiniteSet(R(n, a))
               /\ Cardinality(R(n, a)) \in Nat /\ Cardinality(R(n, a)) <= k
    <3>1. R(n, a) \in SUBSET Ids /\ IsFiniteSet(Ids)
      BY IdsAssumption DEF R
    <3>2. IsFiniteSet(R(n, a)) /\ Cardinality(R(n, a)) <= k
      BY <3>1, FS_Subset DEF k
    <3> QED
      BY <3>1, <3>2, FS_CardinalityType
  <2>3. DepsOf(g, a) \subseteq R(k, a)
    <3> DEFINE T == {n \in 0..k : DepsOf(g, a) \subseteq R(n, a)}
    <3>1. 0 \in T
      BY <1>1, <1>6
    <3>2. ASSUME NEW n \in 0..k-1, n \in T
          PROVE  n + 1 \in T
      <4>1. n + 1 \in 0..k
        BY <1>1
      <4> QED
        BY <1>7, <3>2, <4>1
    <3> HIDE DEF T
    <3>3. k \in T
      BY <1>1, <3>1, <3>2, UpToInduct
    <3> QED
      BY <3>3 DEF T
  <2>4. Closed(g, R(k, a))
    <3> DEFINE T == {n \in 0..k : Closed(g, R(n, a)) \/ n + 1 <= Cardinality(R(n, a))}
    <3>1. 0 \in T
      <4>1. CASE R(0, a) = {}
        BY <1>1, <4>1 DEF Closed
      <4>2. CASE R(0, a) # {}
        <5>1. Cardinality(R(0, a)) # 0
          BY <2>2, <4>2, FS_EmptySet
        <5> QED
          BY <1>1, <2>2, <5>1
      <4> QED
        BY <4>1, <4>2
    <3>2. ASSUME NEW n \in 0..k-1, n \in T
          PROVE  n + 1 \in T
      <4>1. n + 1 \in 0..k
        BY <1>1
      <4>2. CASE Closed(g, R(n, a))
        <5>1. R(n + 1, a) = R(n, a)
          BY <1>7, <4>2 DEF Closed
        <5> QED
          BY <4>1, <4>2, <5>1
      <4>3. CASE ~Closed(g, R(n, a))
        <5>1. PICK b \in R(n, a) : ~ (DepsOf(g, b) \subseteq R(n, a))
          BY <4>3 DEF Closed
        <5>1a. PICK d \in DepsOf(g, b) : d \notin R(n, a)
          BY <5>1
        <5>2. R(n, a) \cup {d} \in SUBSET R(n + 1, a)
          BY <1>4, <1>7, <5>1, <5>1a
        <5>3. Cardinality(R(n, a) \cup {d}) = Cardinality(R(n, a)) + 1
          <6>1. IsFiniteSet(R(n, a)) /\ d \notin R(n, a)
            BY <2>2, <5>1a
          <6> QED
            BY ONLY <6>1, FS_AddElement
        <5>4. Cardinality(R(n, a) \cup {d}) <= Cardinality(R(n + 1, a))
          BY <2>2, <5>2, FS_Subset
        <5>5. n + 1 <= Cardinality(R(n, a))
          BY <3>2, <4>3
        <5>6. Cardinality(R(n, a)) \in Nat /\ Cardinality(R(n + 1, a)) \in Nat
          BY <2>2
        <5>7. (n + 1) + 1 <= Cardinality(R(n + 1, a))
          BY <5>3, <5>4, <5>5, <5>6
        <5> QED
          BY <4>1, <5>7
      <4> QED
        BY <4>2, <4>3
    <3> HIDE DEF T
    <3>3. k \in T
      BY <1>1, <3>1, <3>2, UpToInduct
    <3>4. ~(k + 1 <= Cardinality(R(k, a)))
      BY <1>1, <2>2
    <3> QED
      BY <3>3, <3>4 DEF T
  <2>5. R(k, a) \in SUBSET Nodes(g)
    BY <1>4, <2>1, UnderHolds
  <2>6. Under(g, a) \subseteq R(k, a)
    BY <2>3, <2>4, <2>5, UnderLeast
  <2> QED
    BY <2>1, <2>6
<1>10. \A a, b \in Ids : <<a, b>> \in Below(g) <=> b \in R(k, a)
  BY <1>3 DEF R
<1> QED
  BY <1>8, <1>9, <1>10

----------------------------------------------------------------------------
(* The properties.                                                         *)

LEMMA WellFormedIs ==
    ASSUME NEW g, GraphOver(g)
    PROVE  /\ FiniteGraph(g)
           /\ (\E id \in Ids : <<id, id>> \in Below(g)) <=> ~Acyclic(g)
           /\ WellFormed(g) <=> Acyclic(g) /\ UnknownDependencies(g) = {}
<1>1. FiniteGraph(g) /\ Nodes(g) \subseteq Ids
  BY GraphOverFinite
<1>2. \A id \in Ids : <<id, id>> \in Below(g) <=> id \in Under(g, id)
  BY BelowIsUnder
<1>3. \A id : Under(g, id) \subseteq Nodes(g)
  BY <1>1, UnderHolds
<1>4. (\E id \in Ids : <<id, id>> \in Below(g)) <=> ~Acyclic(g)
  BY <1>1, <1>2, <1>3 DEF Acyclic
<1>5. (\A id \in DOMAIN g : g[id] \subseteq DOMAIN g) <=> UnknownDependencies(g) = {}
  BY DEF UnknownDependencies, Range
<1> QED
  BY <1>1, <1>4, <1>5 DEF WellFormed

\* OrderExistsExactlyWhenWellFormed holds of every graph over Ids: the searches of
\* validate_acyclic and the check for unknown dependencies refuse exactly the
\* graphs that Below, which looks at every path, calls ill-formed.
THEOREM OrderExists == Spec => []OrderExistsExactlyWhenWellFormed
<1>1. GraphOver(nodes) => OrderExistsExactlyWhenWellFormed
  <2> SUFFICES ASSUME GraphOver(nodes)
               PROVE  OrderExistsExactlyWhenWellFormed
    OBVIOUS
  <2>1. /\ FiniteGraph(nodes)
        /\ (\E id \in Ids : <<id, id>> \in Below(nodes)) <=> ~Acyclic(nodes)
        /\ WellFormed(nodes) <=> Acyclic(nodes) /\ UnknownDependencies(nodes) = {}
    BY WellFormedIs
  <2> DEFINE result == TopologicalOrder(nodes)
  <2>2. /\ result.ok <=> Acyclic(nodes) /\ UnknownDependencies(nodes) = {}
        /\ ~result.ok => (result.error = "CycleDetected" <=> ~Acyclic(nodes))
    BY <2>1, TopologicalOrderIsRight
  <2> HIDE DEF result
  <2>3. /\ result.ok <=> WellFormed(nodes)
        /\ ~result.ok => (result.error = "CycleDetected"
                            <=> \E id \in Ids : <<id, id>> \in Below(nodes))
    BY <2>1, <2>2
  <2> QED
    BY <2>3 DEF OrderExistsExactlyWhenWellFormed, result
<1> QED
  BY <1>1, GraphOverIds, PTL

\* A list without repetitions has the length of its range, and an id one position.
LEMMA Listed ==
    ASSUME NEW S, NEW order \in Seq(S), Range(order) = S, Distinct(order)
    PROVE  /\ IsFiniteSet(S) /\ Len(order) = Cardinality(S)
           /\ \A i \in DOMAIN order : PositionIn(order, order[i]) = i
           /\ \A x \in S : PositionIn(order, x) \in DOMAIN order /\ order[PositionIn(order, x)] = x
<1>1. Len(order) \in Nat /\ DOMAIN order = 1..Len(order) /\ order \in [1..Len(order) -> S]
  OBVIOUS
<1>2. \A x \in S : \E i \in DOMAIN order : order[i] = x
  BY DEF Range
<1>3. \A x \in S : PositionIn(order, x) \in DOMAIN order /\ order[PositionIn(order, x)] = x
  BY <1>2 DEF PositionIn
<1>4. ASSUME NEW i \in DOMAIN order
      PROVE  PositionIn(order, order[i]) = i
  <2>1. order[i] \in S
    BY <1>1
  <2> QED
    BY <1>3, <2>1 DEF Distinct
<1>5. order \in Bijection(1..Len(order), S)
  BY <1>1, <1>2 DEF Distinct, Bijection, Injection, Surjection, IsInjective
<1>6. ExistsBijection(1..Len(order), S)
  BY <1>5 DEF ExistsBijection
<1>7. IsFiniteSet(1..Len(order)) /\ Cardinality(1..Len(order)) = Len(order)
  <2> DEFINE n == Len(order)
  <2>1. n \in Nat
    BY <1>1
  <2> HIDE DEF n
  <2>2. IsFiniteSet(1..n) /\ Cardinality(1..n) = IF 1 > n THEN 0 ELSE n - 1 + 1
    BY <2>1, FS_Interval
  <2>3. IsFiniteSet(1..n) /\ Cardinality(1..n) = n
    BY <2>1, <2>2
  <2> QED
    BY <2>3 DEF n
<1> QED
  BY <1>3, <1>4, <1>6, <1>7, FS_Bijection

\* In a list that puts each id after its dependencies, all that is below an id
\* comes before it.
LEMMA BelowComesFirst ==
    ASSUME NEW g, FiniteGraph(g), NEW order \in Seq(DOMAIN g), Range(order) = DOMAIN g,
           Distinct(order), DepsFirst(g, order), NEW a, NEW b \in Under(g, a)
    PROVE  PositionIn(order, b) < PositionIn(order, a)
<1> DEFINE pos(x) == PositionIn(order, x)
           S == {x \in DOMAIN g : a \in DOMAIN g /\ pos(x) < pos(a)}
<1>1. /\ \A i \in DOMAIN order : pos(order[i]) = i
      /\ \A x \in DOMAIN g : pos(x) \in DOMAIN order /\ order[pos(x)] = x
  BY Listed
<1>2. DOMAIN order \subseteq Nat /\ \A i \in DOMAIN order : order[i] \in DOMAIN g
  OBVIOUS
<1> HIDE DEF pos
<1>3. ASSUME NEW x \in DOMAIN g, NEW dep \in g[x]
      PROVE  dep \in DOMAIN g /\ pos(dep) < pos(x)
  <2>1. pos(x) \in DOMAIN order /\ order[pos(x)] = x
    BY <1>1
  <2>2. PICK i \in DOMAIN order : i < pos(x) /\ order[i] = dep
    BY <2>1 DEF DepsFirst
  <2> QED
    BY <1>1, <1>2, <2>2
<1>4. S \in SUBSET Nodes(g)
  BY DEF Nodes
<1>5. DepsOf(g, a) \subseteq S
  BY <1>3 DEF DepsOf
<1>6. Closed(g, S)
  <2> SUFFICES ASSUME NEW x \in S, NEW dep \in DepsOf(g, x)
               PROVE  dep \in S
    BY DEF Closed
  <2>1. x \in DOMAIN g /\ dep \in g[x] /\ a \in DOMAIN g /\ pos(x) < pos(a)
    BY DEF DepsOf
  <2>2. dep \in DOMAIN g /\ pos(dep) < pos(x)
    BY <1>3, <2>1
  <2>3. pos(dep) \in Nat /\ pos(x) \in Nat /\ pos(a) \in Nat
    BY <1>1, <1>2, <2>1, <2>2
  <2> QED
    BY <2>1, <2>2, <2>3
<1>7. b \in S
  BY <1>4, <1>5, <1>6, UnderLeast
<1> QED
  BY <1>7 DEF pos

\* OrderIsLinearExtension holds of every graph over Ids: the order lists every
\* migration once, after all that is below it.
THEOREM LinearExtension == Spec => []OrderIsLinearExtension
<1>1. GraphOver(nodes) => OrderIsLinearExtension
  <2> DEFINE result == TopologicalOrder(nodes)
             order == result.order
  <2> SUFFICES ASSUME GraphOver(nodes), result.ok
               PROVE  /\ Len(order) = Cardinality(DOMAIN nodes)
                      /\ Range(order) = DOMAIN nodes
                      /\ \A edge \in Below(nodes) :
                            PositionIn(order, edge[2]) < PositionIn(order, edge[1])
    BY DEF OrderIsLinearExtension
  <2>1. FiniteGraph(nodes)
    BY GraphOverFinite
  <2>2. /\ order \in Seq(DOMAIN nodes)
        /\ Range(order) = DOMAIN nodes
        /\ Distinct(order)
        /\ DepsFirst(nodes, order)
    BY <2>1, TopologicalOrderIsRight
  <2> HIDE DEF order, result
  <2>3. ASSUME NEW edge \in Below(nodes)
        PROVE  PositionIn(order, edge[2]) < PositionIn(order, edge[1])
    <3>1. edge \in Ids \X Ids /\ edge = <<edge[1], edge[2]>>
      BY BelowIsUnder
    <3>2. edge[2] \in Under(nodes, edge[1])
      BY <3>1, BelowIsUnder
    <3> QED
      BY <2>1, <2>2, <3>2, BelowComesFirst
  <2> QED
    BY <2>2, <2>3, Listed
<1> QED
  BY <1>1, GraphOverIds, PTL

\* NewestMigrationOnlyExtendsTheOrder holds of every step: a migration that sorts
\* last and depends on what is there is appended to the order, for every history.
THEOREM NewestOnlyExtends == Spec => NewestMigrationOnlyExtendsTheOrder
<1> DEFINE Good == \A id \in DOMAIN nodes' \ DOMAIN nodes :
              LET before == TopologicalOrder(nodes)
              IN  ( /\ before.ok
                    /\ \A other \in DOMAIN nodes : other < id
                    /\ nodes'[id] \subseteq DOMAIN nodes )
                  => TopologicalOrder(nodes') = [ok |-> TRUE, order |-> Append(before.order, id)]
<1>1. GraphOver(nodes) /\ [Next]_vars => Good
  <2> SUFFICES ASSUME GraphOver(nodes), [Next]_vars, NEW x \in DOMAIN nodes' \ DOMAIN nodes,
                      TopologicalOrder(nodes).ok,
                      \A other \in DOMAIN nodes : other < x,
                      nodes'[x] \subseteq DOMAIN nodes
               PROVE  TopologicalOrder(nodes') =
                        [ok |-> TRUE, order |-> Append(TopologicalOrder(nodes).order, x)]
    OBVIOUS
  <2>1. PICK id \in Ids, deps \in SUBSET Ids : Add(id, deps)
    BY DEF Next, vars
  <2>2. /\ GraphOver(nodes') /\ DOMAIN nodes' = DOMAIN nodes \cup {id}
        /\ \A other \in DOMAIN nodes : nodes'[other] = nodes[other]
    BY <2>1, AddStep
  <2>3. x = id
    BY <2>2
  <2>4. Extends(nodes', nodes, x)
    BY <2>2, <2>3 DEF Extends
  <2>5. FiniteGraph(nodes) /\ FiniteGraph(nodes')
    BY <2>2, GraphOverFinite
  <2> QED
    BY <2>4, <2>5, NewestComesLast
<1>2. Spec => [][Good]_vars
  BY <1>1, GraphOverIds, PTL DEF Spec
<1> QED
  BY <1>2 DEF NewestMigrationOnlyExtendsTheOrder

\* What resolving an input returns when it succeeds: the input itself, when it is an id
\* of the graph, or else the only id of the graph that starts with it.
LEMMA Resolved ==
    ASSUME NEW g, GraphOver(g), NEW input, NEW matches, ResolveId(g, input, matches).ok
    PROVE  \/ input \in DOMAIN g /\ ResolveId(g, input, matches).id = input
           \/ /\ input \notin DOMAIN g
              /\ matches \cap DOMAIN g = {ResolveId(g, input, matches).id}
<1> DEFINE found == matches \cap DOMAIN g
           ordered == TopologicalOrder(g)
           result == ResolveId(g, input, matches)
<1>1. CASE input \in DOMAIN g
  BY <1>1 DEF ResolveId
<1>2. CASE input \notin DOMAIN g
  <2>1. ordered.ok
    BY <1>2 DEF ResolveId
  <2> HIDE DEF found
  <2>2. result = CASE found = {}             -> [ok |-> FALSE, error |-> "UnknownId"]
                   [] Cardinality(found) = 1 -> [ok |-> TRUE, id |-> CHOOSE id \in found : TRUE]
                   [] OTHER                  -> [ok |-> FALSE, error |-> "AmbiguousId"]
    BY <1>2, <2>1 DEF ResolveId, found
  <2>3. IsFiniteSet(found)
    BY GraphOverFinite, NodesOf, FS_Subset DEF found
  <2>4. found # {} /\ Cardinality(found) = 1
    <3>1. CASE found = {}
      <4>1. Cardinality(found) # 1
        BY <3>1, FS_EmptySet
      <4>2. result = [ok |-> FALSE, error |-> "UnknownId"]
        BY <2>2, <3>1, <4>1
      <4> QED
        BY <4>2
    <3>2. CASE found # {} /\ Cardinality(found) # 1
      <4>1. result = [ok |-> FALSE, error |-> "AmbiguousId"]
        BY <2>2, <3>2
      <4> QED
        BY <4>1
    <3> QED
      BY <3>1, <3>2
  <2>5. result = [ok |-> TRUE, id |-> CHOOSE id \in found : TRUE]
    BY <2>2, <2>4
  <2>6. PICK only : found = {only}
    BY <2>3, <2>4, FS_Singleton
  <2>7. result.id = CHOOSE id \in found : TRUE
    BY <2>5
  <2>8. found = {result.id}
    BY <2>6, <2>7
  <2> QED
    BY <1>2, <2>8 DEF found
<1> QED
  BY <1>1, <1>2

\* PrefixIsNeverRetargeted holds of every step, whatever ids and inputs there are: the
\* id a prefix was resolved to is still there, so a later answer is that id, or the
\* input itself when it has become an id.
THEOREM NeverRetargeted == Spec => PrefixIsNeverRetargeted
<1> DEFINE Good == \A input \in Inputs :
              LET before == ResolveId(nodes, input, Matches[input])
                  after  == ResolveId(nodes', input, Matches[input])
              IN  (before.ok /\ after.ok) => after.id \in {before.id, input}
<1>1. GraphOver(nodes) /\ [Next]_vars => Good
  <2> DEFINE before(input) == ResolveId(nodes, input, Matches[input])
             after(input)  == ResolveId(nodes', input, Matches[input])
  <2> SUFFICES ASSUME GraphOver(nodes), [Next]_vars, NEW input \in Inputs,
                      before(input).ok, after(input).ok
               PROVE  after(input).id \in {before(input).id, input}
    OBVIOUS
  <2>1. GraphOver(nodes') /\ DOMAIN nodes \subseteq DOMAIN nodes'
    BY AddStep DEF Next, vars
  <2>2. \/ input \in DOMAIN nodes /\ before(input).id = input
        \/ input \notin DOMAIN nodes /\ Matches[input] \cap DOMAIN nodes = {before(input).id}
    BY Resolved
  <2>3. \/ input \in DOMAIN nodes' /\ after(input).id = input
        \/ input \notin DOMAIN nodes' /\ Matches[input] \cap DOMAIN nodes' = {after(input).id}
    BY <2>1, Resolved
  <2> HIDE DEF before, after
  <2> QED
    BY <2>1, <2>2, <2>3
<1>2. Spec => [][Good]_vars
  BY <1>1, GraphOverIds, PTL DEF Spec
<1> QED
  BY <1>2 DEF PrefixIsNeverRetargeted
==========================================================================
