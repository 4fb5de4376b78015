--------------------------- MODULE MCDriftRepair ---------------------------
(* Instances of DriftRepair: one runner that verifies and repairs or adopts, *)
(* one that migrates, and a hand on the database.                            *)
EXTENDS DriftRepair, TLC

CONSTANTS r1, r2, table, index, key, row

MCTableOf == row :> table
MCWalk    == <<index, key, table, row>>

\* A table, an index and a primary key with one managed row; then the table and
\* the row are altered.
RepairHistory ==
    << table :> 1 @@ index :> 1 @@ key :> 1 @@ row :> 1,
       table :> 2 @@ row :> 2 >>

Behind == r1 :> 2 @@ r2 :> 1

Cmd(kind, target) ==
    [kind |-> kind, target |-> target, allowPending |-> FALSE, allowPartial |-> FALSE]

Repair         == Cmd("repair", 0)
FreeRepair     == [Repair EXCEPT !.allowPending = TRUE, !.allowPartial = TRUE]

\* Both repair; the one with the newer checkout adopts and migrates forward, the
\* other back.
Everything ==
    r1 :> {Repair, FreeRepair, Cmd("verify", 0), Cmd("adopt", 1), Cmd("adopt", 2), Cmd("migrate", 2)}
    @@ r2 :> {Repair, Cmd("migrate", 1)}
=============================================================================
