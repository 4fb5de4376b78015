----------------------- MODULE MCMigrationEngine ------------------------
(* A history that forked and was merged:  11 <- 21, 11 <- 22, {21,22} <- 31. *)
(* Runners start from either branch or from the merged history, whose graph  *)
(* order is the one GraphOps computes.                                       *)
EXTENDS MigrationEngine, TLC, FiniteSets

G == INSTANCE GraphOps

CONSTANTS p1, p2

MCDeps == (11 :> {}) @@ (21 :> {11}) @@ (22 :> {11}) @@ (31 :> {21, 22})
MCIds  == DOMAIN MCDeps

Merged  == MCIds
Branch1 == {11, 21}
Branch2 == {11, 22}
MCCheckouts == {Merged, Branch1, Branch2}

MCPos ==
    [s \in MCCheckouts |->
        LET order == G!TopologicalOrder([m \in s |-> MCDeps[m]]).order
        IN  [m \in MCIds |-> IF m \in s THEN CHOOSE i \in 1..Cardinality(s) : order[i] = m
                             ELSE 0]]

\* 21 runs outside a transaction (it could be CREATE INDEX CONCURRENTLY), 31 is
\* the merge migration.
MCSteps      == (11 :> 1) @@ (21 :> 2) @@ (22 :> 2) @@ (31 :> 0)
MCAtomic     == {11, 22, 31}
MCRepeatable == {22}
MCCommitting == [m \in MCIds |-> {}]

\* The same on MySQL, where every migration is loaded as atomic: 11 writes rows, 21
\* is DDL, 22 writes a row and then is DDL.
MysqlCommitting == (11 :> {}) @@ (21 :> {1, 2}) @@ (22 :> {2}) @@ (31 :> {})

Apply(s, target)      == [kind |-> "apply", snap |-> s, target |-> target, fake |-> FALSE]
Fake(s, target)       == [kind |-> "apply", snap |-> s, target |-> target, fake |-> TRUE]
RollbackTo(s, target) == [kind |-> "rollback", snap |-> s, target |-> target, fake |-> FALSE]

MCCommands ==
    { Apply(Branch1, NoId), Apply(Branch2, NoId), Apply(Merged, NoId), Apply(Merged, 21),
      Fake(Merged, 22), RollbackTo(Merged, 11), RollbackTo(Branch2, 11) }

MCFewCommands == { Apply(Merged, NoId), Apply(Branch1, NoId), RollbackTo(Merged, 11) }
=========================================================================
