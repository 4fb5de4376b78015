----------------------- MODULE MCMigrationHistory -----------------------
(* Two branches that pull from each other; and one directory two commands    *)
(* share, embedded with a child history, or plain.                           *)
EXTENDS MigrationHistory

CONSTANTS w1, w2, d1, d2

OneDirEach == (w1 :> d1) @@ (w2 :> d2)
SharedDir  == (w1 :> d1) @@ (w2 :> d1)
AuthChild  == (1011 :> {}) @@ (1021 :> {1011})

Branches   == [home |-> OneDirEach, embedded |-> {}, children |-> <<>>, numbers |-> 3]
Shared     == [home |-> SharedDir, embedded |-> {d1}, children |-> AuthChild, numbers |-> 2]
Plain      == [home |-> SharedDir, embedded |-> {}, children |-> <<>>, numbers |-> 3]

\* Next and the properties name no worker and no directory.
Interchangeable == Permutations({w1, w2}) \cup Permutations({d1, d2})

MCSetups   == {Branches, Shared}
PlainSetup == {Plain}
=========================================================================
