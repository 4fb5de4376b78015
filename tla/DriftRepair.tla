------------------------------ MODULE DriftRepair ------------------------------
(***************************************************************************)
(* verify, repair and verified adoption (apply --fake-verified): run from  *)
(* gaman-core/src/runner/dispatch.rs over the comparison of drift/mod.rs,  *)
(* the plan of repair.rs and the untracked execution of the engine, while  *)
(* other runners migrate and people change the database by hand.           *)
(*                                                                         *)
(* A command reads the database in several awaits (structure, rows,        *)
(* tracking table) without the migration lock, decides, and only then      *)
(* takes the lock; every await is a step here.                             *)
(*                                                                         *)
(* Data: the database is a map from parts to values.  A part is what one   *)
(* finding of a verification is about (a column, an index, a primary key,  *)
(* a managed row); its value is its definition as the dialect compares it. *)
(* Parts stand alone, but a row needs its table.  A movement of the engine *)
(* is one step under the lock, which MigrationEngine justifies with        *)
(* MutualExclusion and AllOrNothing; so the database is one with a         *)
(* migration lock.  Histories are linear.                                  *)
(***************************************************************************)
EXTENDS Integers, Sequences, FiniteSets, SequencesExt

CONSTANTS
    Runners,        \* processes that run commands
    Commands,       \* Commands[r]: the commands runner r may be given
    Walk,           \* the parts in the order a verification visits them
    Rows,           \* the parts that are managed rows
    TableOf,        \* TableOf[row]: the part that is the table of the row
    Opaque,         \* parts compared by presence only
    Unrepairable,   \* parts whose drift has no operation: primary keys, table properties
    Recreated,      \* parts repaired by a drop and a create: indexes, constraints, keys
    History,        \* the migrations in order: part |-> its new value
    Checkout,       \* Checkout[r]: how many migrations the catalog of r holds
    Values, Absent, \* what a part may be, and not being there
    Dialects,       \* the dialects the database may have
    MaxManual,      \* bound: changes made by hand
    NoRunner

Parts   == {Walk[i] : i \in DOMAIN Walk}
Outcome == Values \cup {Absent}
Kinds   == {"verify", "repair", "adopt", "migrate"}

\* A table is created or altered by a repair, never dropped and created again.
ASSUME PartsAssumption ==
    /\ Walk \in Seq(Parts)
    /\ Rows \subseteq Parts /\ Opaque \subseteq Parts /\ Unrepairable \subseteq Parts \ Rows
    /\ Recreated \subseteq Parts \ Rows /\ TableOf \in [Rows -> Parts \ (Rows \cup Recreated)]
ASSUME ValuesAssumption == Absent \notin Values
ASSUME HistoryAssumption ==
    /\ History \in Seq(UNION {[touched -> Outcome] : touched \in SUBSET Parts})
    /\ Checkout \in [Runners -> 0..Len(History)]
ASSUME CommandsAssumption ==
    /\ NoRunner \notin Runners /\ Dialects \subseteq {"postgres", "mysql", "mariadb"} /\ MaxManual \in Nat
    /\ \A r \in Runners : Commands[r] \subseteq
           [kind : Kinds, target : 0..Checkout[r], allowPending : BOOLEAN, allowPartial : BOOLEAN]

VARIABLES
    dialect,    \* the dialect of the database, which never changes
    live,       \* the database, with the uncommitted work of an open repair
    recorded,   \* how many migrations the tracking table holds
    lock,       \* who holds the migration lock
    pc,         \* pc[r]: the await runner r is at
    job,        \* job[r]: the command of r
    seen,       \* seen[r]: what r's last inspection read
    ops,        \* ops[r]: statements r has still to execute
    undo,       \* undo[r]: the committed value of the parts r's transaction changed
    report,     \* report[r]: what the command found, skipped, executed and returned
    disturbed,  \* disturbed[r]: somebody else moved the database during r's command
    manual      \* changes made by hand so far

vars == <<dialect, live, recorded, lock, pc, job, seen, ops, undo, report, disturbed, manual>>

\* Dialect::supports_transactional_ddl.
Transactional == dialect = "postgres"

NoReport == [result |-> "none", applied |-> FALSE, findings |-> {}, skipped |-> {}]
Unread   == [p \in Parts |-> Absent]
NoUndo   == [p \in {} |-> Absent]

----------------------------------------------------------------------------
(* The schema a history replays to, its comparison with what was inspected, *)
(* and the operations a comparison projects.                                *)

\* replay_schema: the parts after the first k migrations.
Replay(k) ==
    [p \in Parts |->
        LET touching == {i \in 1..k : p \in DOMAIN History[i]}
        IN  IF touching = {} THEN Absent
            ELSE History[CHOOSE i \in touching : \A j \in touching : j <= i][p]]

\* Parts that are not expected are never compared, opaque ones by presence.
Drifts(p, expected, observed) ==
    /\ expected # Absent
    /\ IF p \in Opaque THEN observed = Absent ELSE observed # expected

Findings(expected, observed) == {p \in Parts : Drifts(p, expected[p], observed[p])}

\* Slip: the definition that is being replaced is dropped and not created again.
Operations_DropOnly(p, old, new) ==
    IF p \in Recreated THEN <<[part |-> p, old |-> old, new |-> Absent]>>
                       ELSE <<[part |-> p, old |-> old, new |-> new]>>

\* The operations one finding projects: create, alter, or drop and create.
Operations(p, old, new) ==
    IF p \in Unrepairable THEN <<>>
    ELSE IF p \in Recreated /\ old # Absent
         THEN << [part |-> p, old |-> old, new |-> Absent],
                 [part |-> p, old |-> Absent, new |-> new] >>
         ELSE << [part |-> p, old |-> old, new |-> new] >>

\* diff_schemas, and the row verification after it: in the order of Walk.
Projected(expected, observed) ==
    FlattenSeq([i \in DOMAIN Walk |->
        LET p == Walk[i]
        IN  IF p \in Findings(expected, observed)
            THEN Operations(p, observed[p], expected[p]) ELSE <<>>])

\* plan_repair: the findings count as skipped when there is no operation at all.
Skipped(findings, operations) == IF operations = <<>> THEN findings ELSE {}

----------------------------------------------------------------------------
(* The database server: which statements it admits and what they do.        *)

\* Slip: a row is written by an upsert on its key.
Admits_Upsert(op, db) ==
    IF op.part \in Rows
    THEN db[TableOf[op.part]] # Absent
    ELSE (db[op.part] = Absent) = (op.old = Absent)

\* A row statement carries the observed row as its predicate and must affect
\* one row; a create needs its part to be missing, other DDL needs it there.
Admits(op, db) ==
    IF op.part \in Rows
    THEN db[op.part] = op.old /\ db[TableOf[op.part]] # Absent
    ELSE (db[op.part] = Absent) = (op.old = Absent)

\* Dropping a table takes its rows with it.
Effect(op, db) ==
    [p \in Parts |->
        IF p = op.part THEN op.new
        ELSE IF op.new = Absent /\ p \in Rows /\ TableOf[p] = op.part THEN Absent
        ELSE db[p]]

Advance(acc, op) ==
    IF acc.ok /\ Admits(op, acc.db)
    THEN [ok |-> TRUE, db |-> Effect(op, acc.db)]
    ELSE [ok |-> FALSE, db |-> acc.db]

\* The statements that take the schema of i migrations to the one of k.
Movement(i, k) ==
    LET order   == IF i <= k THEN Walk ELSE Reverse(Walk)
        touched == SelectSeq(order, LAMBDA p : Replay(i)[p] # Replay(k)[p])
    IN  [n \in DOMAIN touched |->
            [part |-> touched[n], old |-> Replay(i)[touched[n]], new |-> Replay(k)[touched[n]]]]

\* What other sessions see: the committed value of what a repair is changing.
Uncommitted == UNION {DOMAIN undo[r] : r \in Runners}
Visible ==
    [p \in Parts |-> IF p \in Uncommitted
                     THEN undo[CHOOSE r \in Runners : p \in DOMAIN undo[r]][p]
                     ELSE live[p]]

\* A database that was kept by gaman, or one that existed before it was.
Init ==
    /\ dialect \in Dialects
    /\ recorded \in 0..Len(History)
    /\ \E k \in recorded..Len(History) : live = Replay(k)
    /\ lock = NoRunner
    /\ pc = [r \in Runners |-> "idle"]
    /\ job = [r \in Runners |-> CHOOSE c \in Commands[r] : TRUE]
    /\ seen = [r \in Runners |-> Unread]
    /\ ops = [r \in Runners |-> <<>>]
    /\ undo = [r \in Runners |-> NoUndo]
    /\ report = [r \in Runners |-> NoReport]
    /\ disturbed = [r \in Runners |-> FALSE]
    /\ manual = 0

----------------------------------------------------------------------------
(* Ways through a command that several actions share.                       *)

Goto(r, at) == pc' = [pc EXCEPT ![r] = at]

\* Others may have read, or be about to read, what r has just changed.
Disturb(r) == disturbed' = [s \in Runners |-> disturbed[s] \/ s # r]

\* A command returns; what it read and what it had left to do is forgotten.
Return(r, result, applied, findings, skipped) ==
    /\ Goto(r, "idle")
    /\ seen' = [seen EXCEPT ![r] = Unread]
    /\ ops' = [ops EXCEPT ![r] = <<>>]
    /\ report' = [report EXCEPT ![r] = [result |-> result, applied |-> applied,
                                        findings |-> findings, skipped |-> skipped]]

Refuse(r) == Return(r, "failed", FALSE, report[r].findings, report[r].skipped)

\* Slip: the comparison is with what is recorded as applied.
Expected_Recorded(r) == Replay(recorded)

\* The whole history of the catalog, applied or not.
Expected(r) == Replay(Checkout[r])
Found(r)    == Findings(Expected(r), seen[r])

\* Slip: the lock is released and the transaction stays open.
Abort_StaysOpen(r) ==
    /\ lock' = IF lock = r THEN NoRunner ELSE lock
    /\ UNCHANGED <<live, undo>>

\* rollback and release_lock; without transactional DDL nothing is undone.
Abort(r) ==
    /\ live' = [p \in Parts |-> IF p \in DOMAIN undo[r] THEN undo[r][p] ELSE live[p]]
    /\ undo' = [undo EXCEPT ![r] = NoUndo]
    /\ lock' = IF lock = r THEN NoRunner ELSE lock

----------------------------------------------------------------------------
(* The commands.                                                            *)

Start(r) ==
    /\ pc[r] = "idle"
    /\ \E c \in Commands[r] :
         /\ job' = [job EXCEPT ![r] = c]
         /\ Goto(r, CASE c.kind \in {"verify", "repair"} -> "inspect"
                      [] c.kind = "adopt"                -> "plan"
                      [] c.kind = "migrate"              -> "move")
    /\ report' = [report EXCEPT ![r] = NoReport]
    /\ disturbed' = [disturbed EXCEPT ![r] = FALSE]
    /\ UNCHANGED <<dialect, live, recorded, lock, seen, ops, undo, manual>>

\* run_verified_fake: the target must be the next pending migration of a
\* record this catalog knows, and hold nothing that is opaque.
PlanAdoption(r) ==
    /\ pc[r] = "plan"
    /\ IF /\ recorded <= Checkout[r]
          /\ job[r].target = recorded + 1
          /\ DOMAIN History[job[r].target] \cap Opaque = {}
       THEN Goto(r, "inspect") /\ UNCHANGED <<seen, ops, report>>
       ELSE Refuse(r)
    /\ UNCHANGED <<dialect, live, recorded, lock, job, undo, disturbed, manual>>

\* verify: the catalog queries, and after a repair the same ones again.
Inspect(r) ==
    /\ pc[r] \in {"inspect", "inspect2"}
    /\ seen' = [seen EXCEPT ![r] =
                   [p \in Parts |-> IF p \in Rows THEN seen[r][p] ELSE Visible[p]]]
    /\ Goto(r, IF pc[r] = "inspect" THEN "rows" ELSE "rows2")
    /\ UNCHANGED <<dialect, live, recorded, lock, job, ops, undo, report, disturbed, manual>>

Root(p) == IF p \in Rows THEN TableOf[p] ELSE p

\* migration_filters: everything under the roots the target's operations touch.
Adopted(k) == {p \in Parts : \E q \in DOMAIN History[k] : Root(p) = Root(q)}

\* Slip: only what the migration creates anew.
AdoptionDrift_Created(r) == {p \in Found(r) : p \in Adopted(job[r].target) /\ seen[r][p] = Absent}

\* The drift that verified adoption refuses: the selected parts of the replay
\* of the whole catalog, against the selected parts of the live schema.
AdoptionDrift(r) == Found(r) \cap Adopted(job[r].target)

Selected(r) == IF job[r].kind = "adopt" THEN Adopted(job[r].target) ELSE Parts

\* One SELECT for each row the replay declares, which fails without its table.
InspectRows(r) ==
    LET declared == {p \in Rows \cap Selected(r) : Expected(r)[p] # Absent}
        readable == \A p \in declared : Visible[TableOf[p]] # Absent
    IN  /\ pc[r] \in {"rows", "rows2"}
        /\ readable
        /\ seen' = [seen EXCEPT ![r] =
                       [p \in Parts |-> IF p \in declared THEN Visible[p] ELSE seen[r][p]]]
        /\ Goto(r, CASE pc[r] = "rows2"         -> "pending2"
                     [] job[r].kind = "adopt"   -> "judge"
                     [] OTHER                   -> "pending")
        /\ UNCHANGED <<dialect, live, recorded, lock, job, ops, undo, report, disturbed, manual>>

RowsUnreadable(r) ==
    /\ pc[r] \in {"rows", "rows2"}
    /\ \E p \in Rows \cap Selected(r) : Expected(r)[p] # Absent /\ Visible[TableOf[p]] = Absent
    /\ Refuse(r)
    /\ UNCHANGED <<dialect, live, recorded, lock, job, undo, disturbed, manual>>

\* run_verified_fake: any finding refuses, none goes on to apply(target, fake).
Judge(r) ==
    /\ pc[r] = "judge"
    /\ IF AdoptionDrift(r) = {}
       THEN Goto(r, "move") /\ UNCHANGED <<seen, ops, report>>
       ELSE Refuse(r)
    /\ UNCHANGED <<dialect, live, recorded, lock, job, undo, disturbed, manual>>

\* What a repair makes of its first verification.
Decide(r) ==
    LET planned == Projected(Expected(r), seen[r])
        skipped == Skipped(Found(r), planned)
    IN  IF \/ ~job[r].allowPending /\ recorded < Checkout[r]
           \/ ~job[r].allowPartial /\ skipped # {}
        THEN Refuse(r)
        ELSE IF planned = <<>>
             THEN Return(r, "ok", FALSE, Found(r), skipped)
             ELSE /\ ops' = [ops EXCEPT ![r] = planned]
                  /\ report' = [report EXCEPT ![r].findings = Found(r), ![r].skipped = skipped]
                  /\ Goto(r, "lock")
                  /\ UNCHANGED seen

\* verify ends with plan(), which refuses a record the catalog does not know.
ReadPending(r) ==
    /\ pc[r] \in {"pending", "pending2"}
    /\ CASE recorded > Checkout[r]     -> Refuse(r)
         [] recorded <= Checkout[r] /\ pc[r] = "pending2" ->
                Return(r, "ok", TRUE, Found(r), report[r].skipped)
         [] recorded <= Checkout[r] /\ pc[r] = "pending" /\ job[r].kind = "verify" ->
                Return(r, "ok", FALSE, Found(r), {})
         [] OTHER -> Decide(r)
    /\ UNCHANGED <<dialect, live, recorded, lock, job, undo, disturbed, manual>>

\* execute_operations_untracked: the lock, a transaction where DDL has one,
\* the statements, the commit and the release.
AcquireLock(r) ==
    /\ pc[r] = "lock" /\ lock = NoRunner
    /\ lock' = r
    /\ Goto(r, "exec")
    /\ UNCHANGED <<dialect, live, recorded, job, seen, ops, undo, report, disturbed, manual>>

Exec(r) ==
    /\ pc[r] = "exec" /\ ops[r] # <<>> /\ Admits(Head(ops[r]), live)
    /\ live' = Effect(Head(ops[r]), live)
    /\ undo' = IF ~Transactional THEN undo
               ELSE [undo EXCEPT ![r] =
                        [p \in DOMAIN undo[r] \cup {q \in Parts : live'[q] # live[q]} |->
                            IF p \in DOMAIN undo[r] THEN undo[r][p] ELSE live[p]]]
    /\ ops' = [ops EXCEPT ![r] = Tail(ops[r])]
    /\ IF Transactional THEN UNCHANGED disturbed ELSE Disturb(r)
    /\ UNCHANGED <<dialect, recorded, lock, pc, job, seen, report, manual>>

ExecFails(r) ==
    /\ pc[r] = "exec" /\ ops[r] # <<>> /\ ~Admits(Head(ops[r]), live)
    /\ Abort(r)
    /\ Refuse(r)
    /\ UNCHANGED <<dialect, recorded, job, disturbed, manual>>

Commit(r) ==
    /\ pc[r] = "exec" /\ ops[r] = <<>>
    /\ undo' = [undo EXCEPT ![r] = NoUndo]
    /\ lock' = NoRunner
    /\ Goto(r, "inspect2")
    /\ Disturb(r)
    /\ UNCHANGED <<dialect, live, recorded, job, seen, ops, report, manual>>

\* apply and apply(fake) by the engine, in one step: with fake only the record
\* moves.  Both converge on the target from whatever is recorded by now.  A
\* movement with a failing statement ends as a movement to a nearer target.
Move(r) ==
    LET target == job[r].target
        moved  == IF job[r].kind = "adopt" THEN [ok |-> TRUE, db |-> live]
                  ELSE FoldLeft(Advance, [ok |-> TRUE, db |-> live], Movement(recorded, target))
    IN  /\ pc[r] = "move" /\ lock = NoRunner
        /\ IF recorded > Checkout[r] \/ ~moved.ok
           THEN Refuse(r) /\ UNCHANGED <<live, recorded, disturbed>>
           ELSE /\ live' = moved.db
                /\ recorded' = target
                /\ Disturb(r)
                /\ Return(r, "ok", FALSE, {}, {})
        /\ UNCHANGED <<dialect, lock, job, undo, manual>>

\* Any await may fail or be the last one of a process that dies; the session
\* takes its transaction and its lock with it.
Interrupted(r) ==
    /\ pc[r] # "idle"
    /\ Abort(r)
    /\ Refuse(r)
    /\ UNCHANGED <<dialect, recorded, job, disturbed, manual>>

\* Somebody changes the database outside of gaman, but not what an open
\* transaction of a repair has locked.
ChangeByHand ==
    /\ manual < MaxManual
    /\ \E p \in Parts, v \in Outcome :
         LET next == Effect([part |-> p, new |-> v], live)
         IN  /\ v # live[p]
             /\ p \in Rows => live[TableOf[p]] # Absent
             /\ {Root(q) : q \in {x \in Parts : next[x] # live[x]}}
                    \cap {Root(q) : q \in Uncommitted} = {}
             /\ live' = next
    /\ manual' = manual + 1
    /\ disturbed' = [r \in Runners |-> TRUE]
    /\ UNCHANGED <<dialect, recorded, lock, pc, job, seen, ops, undo, report>>

Progress(r) ==
    \/ PlanAdoption(r) \/ Inspect(r) \/ InspectRows(r) \/ RowsUnreadable(r) \/ Judge(r)
    \/ ReadPending(r) \/ AcquireLock(r) \/ Exec(r) \/ ExecFails(r) \/ Commit(r) \/ Move(r)

Next ==
    \/ ChangeByHand
    \/ \E r \in Runners : Start(r) \/ Progress(r) \/ Interrupted(r)

Spec == Init /\ [][Next]_vars

----------------------------------------------------------------------------
(* Properties.                                                              *)

\* What r's repair changes in this step.
RepairChanges(r) ==
    IF lock = r /\ lock' = r /\ manual' = manual
    THEN {p \in Parts : live'[p] # live[p]} ELSE {}

\* A repaired row still held what the verification had read when it was
\* overwritten: execute_statement demands that the statement, whose predicate
\* is the whole observed row, affects exactly one.
RowsChangeOnlyAsObserved ==
    [][\A r \in Runners : \A p \in RepairChanges(r) \cap Rows : live[p] = seen[r][p]]_vars

\* Where DDL is transactional, other sessions see nothing of a repair's statements
\* before its commit, and a repair that fails at any of them leaves the database
\* as they saw it all along.
FailedRepairLeavesNothing ==
    [][\A r \in Runners : Transactional /\ pc[r] = "exec" =>
          /\ pc'[r] = "exec" /\ ops'[r] # ops[r] => Visible' = Visible
          /\ pc'[r] = "idle" => live' = Visible]_vars

Ended(r, kind) == pc[r] = "idle" /\ job[r].kind = kind /\ report[r].result = "ok"

\* A repair nobody interferes with, that reports it was applied, has restored
\* every part that has a repair, and its report names exactly what is left:
\* also when earlier repairs stopped half way.
QuietRepairRestores ==
    \A r \in Runners : Ended(r, "repair") /\ report[r].applied /\ ~disturbed[r] =>
        /\ report[r].findings = Findings(Replay(Checkout[r]), Visible)
        /\ report[r].findings \subseteq Unrepairable

\* A verification nobody interferes with reports the drift there is.
QuietReportIsTrue ==
    \A r \in Runners : Ended(r, "verify") /\ ~disturbed[r] =>
        report[r].findings = Findings(Replay(Checkout[r]), Visible)

\* The owned result of a migration, as far as it is something to be there.
Satisfied(k, p) == Visible[p] = History[k][p]

\* "Verified adoption records an existing migration only after the live database
\* is shown to satisfy its owned result" (ARCHITECTURE.md): when the target is the
\* last migration of the catalog and nobody interferes, what it creates or alters
\* is there as it says.
LastAdoptionIsProved ==
    \A r \in Runners :
        Ended(r, "adopt") /\ ~disturbed[r] /\ job[r].target = Checkout[r] =>
            \A p \in DOMAIN History[job[r].target] :
                History[job[r].target][p] # Absent => Satisfied(job[r].target, p)

=============================================================================
