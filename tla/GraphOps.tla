---------------------------- MODULE GraphOps ----------------------------
(***************************************************************************)
(* The pure algorithms of gaman-core/src/graphs.rs.  A graph g is a        *)
(* function from the migration ids it holds to the set of ids each of them *)
(* depends on (MigrationGraph.nodes; a dependency may be an id that is not *)
(* in the graph).  An id is a natural number: its order is the order of    *)
(* the id strings, and its three parts are read off with Namespace, Number *)
(* and the remainder (the name after the number).                          *)
(*                                                                         *)
(*   "0003_add_users"  ->  namespace 0, number 3, some name                *)
(*   "auth/0001_init"  ->  namespace 1, number 1, some name                *)
(*                                                                         *)
(* The string order and this order agree while numbers have four digits    *)
(* (the {:04} of make): the models stay below NsWidth.                     *)
(***************************************************************************)
EXTENDS Integers, SequencesExt

NameWidth == 10     \* names per number
NsWidth   == 1000   \* NameWidth * numbers per namespace

Namespace(id) == id \div NsWidth
Number(id)    == (id % NsWidth) \div NameWidth
MakeId(n, name) == n * NameWidth + name       \* format!("{:04}_{}", n, name)

\* What a dependency points at that is not a node has no dependencies of its
\* own: `if let Some(node) = self.nodes.get(id)`.
DepsOf(g, id) == IF id \in DOMAIN g THEN g[id] ELSE {}

\* BTreeMap::insert, and two maps read as one, where the first one wins.
Inserted(map, key, value) ==
    [k \in DOMAIN map \cup {key} |-> IF k = key THEN value ELSE map[k]]
Joined(map, other) ==
    [k \in DOMAIN map \cup DOMAIN other |-> IF k \in DOMAIN map THEN map[k] ELSE other[k]]

Heads(g) == DOMAIN g \ UNION Range(g)

\* Slip: the largest number is used again.
NextNumber_NotAdvanced(g) ==
    Max({1} \cup {Number(id) : id \in {i \in DOMAIN g : Namespace(i) = 0}})

NextNumber(g) ==
    1 + Max({0} \cup {Number(id) : id \in {i \in DOMAIN g : Namespace(i) = 0}})

HasConflict(g) == Cardinality(Heads(g)) > 1

----------------------------------------------------------------------------
\* Slip: the comparison is the wrong way round.
Ordered_Descending(ids) ==
    [i \in 1..Cardinality(ids) |->
        CHOOSE id \in ids : Cardinality({j \in ids : j > id}) = i - 1]

\* ids.sort(), deps.sort().
Ordered(ids) ==
    [i \in 1..Cardinality(ids) |->
        CHOOSE id \in ids : Cardinality({j \in ids : j < id}) = i - 1]

\* for id in ids { visit(id, ...) }: each visit starts from what the last one left.
VisitAll(visit, w, ids) == FoldLeft(LAMBDA acc, id : visit[acc][id], w, Ordered(ids))

Nodes(g)        == DOMAIN g \cup UNION Range(g)
Searches(nodes) == [visited : SUBSET nodes, cycle : BOOLEAN]

\* Slip: a node counts as visited when the search enters it.
Dfs_VisitedOnEntry(g) ==
    LET nodes    == Nodes(g)
        searches == Searches(nodes)
        dfs[stack \in SUBSET nodes] ==
            [w \in searches |-> [id \in nodes |->
                CASE w.cycle \/ id \in w.visited -> w
                  [] ~w.cycle /\ id \notin w.visited /\ id \in stack -> [w EXCEPT !.cycle = TRUE]
                  [] OTHER -> VisitAll(dfs[stack \cup {id}],
                                       [w EXCEPT !.visited = @ \cup {id}], DepsOf(g, id))]]
    IN  dfs

(* dfs: the depth-first search below one node.  A node that is met on the   *)
(* stack of the search ends it; one that was left is skipped.  The code     *)
(* follows the dependencies as they are listed, here they are sorted: only  *)
(* whether there is a cycle comes out of the search.                        *)
Dfs(g) ==
    LET nodes    == Nodes(g)
        searches == Searches(nodes)
        dfs[stack \in SUBSET nodes] ==
            [w \in searches |-> [id \in nodes |->
                CASE w.cycle -> w
                  [] ~w.cycle /\ id \in stack -> [w EXCEPT !.cycle = TRUE]
                  [] ~w.cycle /\ id \notin stack /\ id \in w.visited -> w
                  [] OTHER -> LET below == VisitAll(dfs[stack \cup {id}], w, DepsOf(g, id))
                              IN  [below EXCEPT !.visited = @ \cup {id}]]]
    IN  dfs

\* validate_acyclic: a search from every node.
FindsCycle(g) == VisitAll(Dfs(g)[{}], [visited |-> {}, cycle |-> FALSE], DOMAIN g).cycle

UnknownDependencies(g) == (UNION Range(g)) \ DOMAIN g

Walks(g) == [visited : SUBSET DOMAIN g, order : Seq(DOMAIN g)]

(* topo_visit: a post-order walk that carries the visited set and the order *)
(* so far.                                                                  *)
TopoVisit(g) ==
    LET topo_visit[w \in Walks(g)] ==
            [id \in DOMAIN g |->
                IF id \in w.visited
                  THEN w
                  ELSE LET below == VisitAll(topo_visit, [w EXCEPT !.visited = @ \cup {id}], g[id])
                       IN  [below EXCEPT !.order = Append(@, id)]]
    IN  topo_visit

\* Slip: the ids alone decide.
TopoWalk_IdsOnly(g) == Ordered(DOMAIN g)

TopoWalk(g) == VisitAll(TopoVisit(g), [visited |-> {}, order |-> <<>>], DOMAIN g).order

(* topological_order: Result<Vec<&str>, GraphError>. *)
TopologicalOrder(g) ==
    LET cyclic == FindsCycle(g)
    IN  CASE cyclic  -> [ok |-> FALSE, error |-> "CycleDetected"]
          [] ~cyclic /\ UnknownDependencies(g) # {}
                     -> [ok |-> FALSE, error |-> "UnknownDependency"]
          [] OTHER   -> [ok |-> TRUE, order |-> TopoWalk(g)]

\* Slip: a merge is a merge of two.
MergeDependencies_FirstTwo(g) ==
    IF Cardinality(Heads(g)) <= 1
      THEN [ok |-> FALSE, error |-> "Empty"]
      ELSE [ok |-> TRUE, deps |-> {Ordered(Heads(g))[1], Ordered(Heads(g))[2]}]

(* create_merge_migration: the dependencies of the merge, or GraphError::Empty. *)
MergeDependencies(g) ==
    IF Cardinality(Heads(g)) <= 1
      THEN [ok |-> FALSE, error |-> "Empty"]
      ELSE [ok |-> TRUE, deps |-> Heads(g)]

\* Slip: the first match in graph order is taken.
ResolveId_FirstMatch(g, input, matches) ==
    LET found   == matches \cap DOMAIN g
        ordered == TopologicalOrder(g)
    IN  IF input \in DOMAIN g THEN [ok |-> TRUE, id |-> input]
        ELSE IF ~ordered.ok THEN ordered
        ELSE IF found = {} THEN [ok |-> FALSE, error |-> "UnknownId"]
        ELSE [ok |-> TRUE, id |-> SelectSeq(ordered.order, LAMBDA id : id \in found)[1]]

(* resolve_id: an exact id wins over prefixes; a prefix must match exactly  *)
(* one id of the graph.  matches is the set of all ids that start with the *)
(* input.                                                                  *)
ResolveId(g, input, matches) ==
    LET found   == matches \cap DOMAIN g
        ordered == TopologicalOrder(g)
    IN  IF input \in DOMAIN g THEN [ok |-> TRUE, id |-> input]
        ELSE IF ~ordered.ok THEN ordered
        ELSE CASE found = {}             -> [ok |-> FALSE, error |-> "UnknownId"]
               [] Cardinality(found) = 1 -> [ok |-> TRUE, id |-> CHOOSE id \in found : TRUE]
               [] OTHER                  -> [ok |-> FALSE, error |-> "AmbiguousId"]
=========================================================================
