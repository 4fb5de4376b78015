------------------------- MODULE MigrationGraph -------------------------
(***************************************************************************)
(* How a command turns a loaded history into a MigrationGraph (graph_from  *)
(* of gaman-core/src/migration_engine/engine.rs): the migrations are added *)
(* one by one, in the order the store lists them, and the first duplicate  *)
(* id ends the load.  Every graph over Ids, well-formed or not, is a state *)
(* of this machine, so its properties compare the algorithms of GraphOps   *)
(* with their reference definitions on all of them.                        *)
(***************************************************************************)
EXTENDS GraphOps

CONSTANTS
    Ids,        \* the migration ids a store may list
    MaxDeps,    \* bound: dependencies one migration may name
    Inputs,     \* what a user may type for a migration
    Matches     \* Matches[i]: the ids that start with input i

ASSUME IdsAssumption    == Ids \subseteq Nat /\ IsFiniteSet(Ids)
ASSUME InputsAssumption == /\ Ids \subseteq Inputs
                           /\ Matches \in [Inputs -> SUBSET Ids]
                           /\ \A id \in Ids : id \in Matches[id]

VARIABLES
    nodes,      \* MigrationGraph.nodes: id |-> its dependencies
    loading     \* "adding", or "DuplicateId" once add refused

vars == <<nodes, loading>>

Init ==
    /\ nodes = <<>>
    /\ loading = "adding"

Insert(id, deps) == nodes' = Inserted(nodes, id, deps)

Add(id, deps) ==
    /\ loading = "adding"
    /\ IF id \in DOMAIN nodes
         THEN loading' = "DuplicateId" /\ UNCHANGED nodes
         ELSE Insert(id, deps) /\ UNCHANGED loading

Next == \E id \in Ids, deps \in SUBSET Ids :
            Cardinality(deps) <= MaxDeps /\ Add(id, deps)

Spec == Init /\ [][Next]_vars

----------------------------------------------------------------------------
(* Reference notions, stated without a search: Reach(g)[n] is the set of   *)
(* ids below n along one or more dependencies.                             *)

Edges(g) == {edge \in Ids \X Ids : edge[1] \in DOMAIN g /\ edge[2] \in g[edge[1]]}

\* Paths of at most Cardinality(Ids) edges, by repeated composition.
Below(g) ==
    LET E == Edges(g)
        compose[n \in 0..Cardinality(Ids)] ==
            IF n = 0 THEN E
            ELSE compose[n-1] \cup
                 {p \in Ids \X Ids :
                     \E b \in Ids : <<p[1], b>> \in compose[n-1] /\ <<b, p[2]>> \in E}
    IN  compose[Cardinality(Ids)]

WellFormed(g) ==
    /\ \A id \in Ids : <<id, id>> \notin Below(g)
    /\ \A id \in DOMAIN g : g[id] \subseteq DOMAIN g

PositionIn(seq, id) == CHOOSE i \in DOMAIN seq : seq[i] = id

----------------------------------------------------------------------------
(* Properties.                                                             *)

\* topological_order succeeds on exactly the graphs that have no dependency
\* cycle and no dangling dependency, and a cycle is reported before a dangling
\* dependency is looked for (validate_acyclic runs first).
OrderExistsExactlyWhenWellFormed ==
    LET result == TopologicalOrder(nodes)
        cyclic == \E id \in Ids : <<id, id>> \in Below(nodes)
    IN  /\ result.ok <=> WellFormed(nodes)
        /\ ~result.ok => (result.error = "CycleDetected" <=> cyclic)

\* The order the engine applies and replays in lists every migration once and
\* puts each one after everything it depends on, at any distance, although the
\* walk is steered by the id strings and not by the edges.
OrderIsLinearExtension ==
    LET result == TopologicalOrder(nodes)
    IN  result.ok =>
          /\ Len(result.order) = Cardinality(DOMAIN nodes)
          /\ Range(result.order) = DOMAIN nodes
          /\ \A edge \in Below(nodes) :
                PositionIn(result.order, edge[2]) < PositionIn(result.order, edge[1])

\* Adding the migration a make would add -- an id that sorts last, depending on
\* what is there -- only extends the order: no migration that is already
\* committed moves, so what was replayed or applied in that order stays a prefix.
NewestMigrationOnlyExtendsTheOrder ==
    [][ \A id \in DOMAIN nodes' \ DOMAIN nodes :
          LET before == TopologicalOrder(nodes)
          IN  ( /\ before.ok
                /\ \A other \in DOMAIN nodes : other < id
                /\ nodes'[id] \subseteq DOMAIN nodes )
              => TopologicalOrder(nodes') = [ok |-> TRUE, order |-> Append(before.order, id)]
      ]_vars

\* A prefix a user typed never silently comes to mean another migration when the
\* history grows: it still means the same one, or is refused, or is by now the
\* exact id of the new migration.
PrefixIsNeverRetargeted ==
    [][ \A input \in Inputs :
          LET before == ResolveId(nodes, input, Matches[input])
              after  == ResolveId(nodes', input, Matches[input])
          IN  (before.ok /\ after.ok) => after.id \in {before.id, input}
      ]_vars
=========================================================================
