------------------------ MODULE MigrationEngine -------------------------
(***************************************************************************)
(* Executing migrations: MigrationEngine::apply and ::rollback_to of       *)
(* gaman-core/src/migration_engine/engine.rs, run by several runners on    *)
(* one target database through the executors of src/executor and the       *)
(* tracking table of the dialect.                                          *)
(*                                                                         *)
(* A runner is one process with one connection.  Each await of the code is *)
(* a step of its own, since other runners move in between, the connection  *)
(* may be lost there and the process may die there.                        *)
(*                                                                         *)
(* Abstractions:                                                           *)
(*   - the history a command loads is a checkout: a set of migrations that *)
(*     the graph accepts, with the order graph_from gives it (Pos);        *)
(*   - a migration is Steps[m] statements.  effect[m][k] counts how often  *)
(*     statement k has been executed, less how often it was undone: an     *)
(*     ordinary statement (DDL, a checked row write) is refused by the     *)
(*     database unless it brings the count to 1, or back to 0; the raw SQL *)
(*     of a Repeatable migration is never refused for that;                *)
(*   - any statement, tracking write or commit may fail for other reasons; *)
(*   - a connection that is lost ends its session: the server rolls its    *)
(*     open transaction back and frees its advisory lock;                  *)
(*   - MySQL and MariaDB commit implicitly before a DDL statement, so that  *)
(*     it and what follows it in the migration take effect at once.        *)
(* Locking = TRUE is PostgreSQL, MySQL and MariaDB (advisory lock with a   *)
(* 30 s wait); FALSE is SQLite, which has no migration lock but admits one *)
(* writing transaction at a time.                                          *)
(***************************************************************************)
EXTENDS Integers

CONSTANTS
    Procs,          \* runners
    Ids,            \* migrations
    Deps,           \* Deps[m]: the migrations m depends on
    Checkouts,      \* the histories a runner may be started with
    Pos,            \* Pos[s][m]: position of m in the graph order of checkout s
    MaxSteps,       \* bound: statements of one migration
    Steps,          \* Steps[m]: how many statements m renders to
    Atomic,         \* migrations with atomic = true
    Repeatable,     \* migrations whose raw SQL may be executed again
    Committing,     \* Committing[m]: its statements before which the server commits
    Commands,       \* the commands a runner may be given
    Locking,        \* does the executor have a migration lock
    MaxEffect,      \* bound on effect[m][k]
    MaxCommands,    \* bound: commands started in all
    NoId, NoProc

Command == [kind : {"apply", "rollback"}, snap : Checkouts,
            target : Ids \cup {NoId}, fake : BOOLEAN]

ASSUME IdsAssumption  == NoId \notin Ids /\ NoProc \notin Procs
ASSUME DepsAssumption == Deps \in [Ids -> SUBSET Ids]
\* What graph_from and detect_conflict let through (module MigrationGraph).
ASSUME CheckoutsAssumption ==
    /\ Checkouts \subseteq SUBSET Ids
    /\ \A s \in Checkouts : \A m \in s : Deps[m] \subseteq s
ASSUME PosAssumption ==
    /\ Pos \in [Checkouts -> [Ids -> Int]]
    /\ \A s \in Checkouts : \A m, n \in s : Pos[s][m] = Pos[s][n] => m = n
    /\ \A s \in Checkouts : \A m \in s : \A d \in Deps[m] : Pos[s][d] < Pos[s][m]
ASSUME StepsAssumption ==
    /\ MaxSteps \in Nat
    /\ Steps \in [Ids -> 0..MaxSteps]
    /\ Atomic \subseteq Ids /\ Repeatable \subseteq Ids
    /\ Committing \in [Ids -> SUBSET (1..MaxSteps)]
ASSUME CommandsAssumption == Commands \subseteq Command
ASSUME LockingAssumption  == Locking \in BOOLEAN
ASSUME BoundsAssumption   == MaxEffect \in Nat \ {0} /\ MaxCommands \in Nat

VARIABLES
    tracked,    \* rows of gaman_migrations
    effect,     \* effect[m][k]: see above; what is committed
    faked,      \* history: migrations ever recorded or unrecorded without SQL
    lock,       \* holder of the advisory lock
    pc,         \* pc[p]: the await runner p is at
    cmd,        \* cmd[p]: its command
    base,       \* base[p]: applied_ids as it read them
    reverts,    \* reverts[p]: migrations it still has to roll back
    pending,    \* pending[p]: migrations it still has to apply
    cur,        \* cur[p]: the migration it is working on
    step,       \* step[p]: statements of cur[p] executed so far
    open,       \* open[p]: its connection is in a transaction
    local,      \* local[p][k]: uncommitted change to effect[cur[p]][k]
    outcome,    \* outcome[p]: "none", "ok" or "error"
    left        \* commands that may still be started

vars == <<tracked, effect, faked, lock, pc, cmd, base, reverts, pending, cur,
          step, open, local, outcome, left>>

database == <<tracked, effect, faked>>
plan     == <<cmd, base, reverts, pending, left>>
work     == <<cur, step, open, local>>

Stmts == 1..MaxSteps
NoChange == [k \in Stmts |-> 0]

PCs == {"idle", "install", "lock", "read", "choose", "exec", "track", "commit", "release"}
Locked == {"read", "choose", "exec", "track", "commit", "release"}

TypeOK ==
    /\ tracked \subseteq Ids
    /\ effect \in [Ids -> [Stmts -> Int]]
    /\ faked \subseteq Ids
    /\ lock \in Procs \cup {NoProc}
    /\ pc \in [Procs -> PCs]
    /\ cmd \in [Procs -> Command \cup {NoId}]
    /\ \A p \in Procs : pc[p] # "idle" => cmd[p] \in Command
    /\ base \in [Procs -> SUBSET Ids]
    /\ reverts \in [Procs -> SUBSET Ids]
    /\ pending \in [Procs -> SUBSET Ids]
    /\ cur \in [Procs -> Ids \cup {NoId}]
    /\ \A p \in Procs : pc[p] \in {"exec", "track", "commit"} => cur[p] \in Ids
    /\ step \in [Procs -> 0..MaxSteps]
    /\ \A p \in Procs : pc[p] = "exec" => step[p] < Steps[cur[p]]
    /\ open \in [Procs -> BOOLEAN]
    /\ local \in [Procs -> [Stmts -> Int]]
    /\ outcome \in [Procs -> {"none", "ok", "error"}]
    /\ left \in 0..MaxCommands

Init ==
    /\ tracked = {} /\ faked = {}
    /\ effect = [m \in Ids |-> NoChange]
    /\ lock = NoProc
    /\ pc = [p \in Procs |-> "idle"]
    /\ cmd = [p \in Procs |-> NoId]
    /\ base = [p \in Procs |-> {}]
    /\ reverts = [p \in Procs |-> {}]
    /\ pending = [p \in Procs |-> {}]
    /\ cur = [p \in Procs |-> NoId]
    /\ step = [p \in Procs |-> 0]
    /\ open = [p \in Procs |-> FALSE]
    /\ local = [p \in Procs |-> NoChange]
    /\ outcome = [p \in Procs |-> "none"]
    /\ left = MaxCommands

----------------------------------------------------------------------------
(* Reading a command: `ordered[..end]` and `ordered[end..]`.               *)

\* Slip: `end` is the position of the target itself.
Beyond_Inclusive(c) ==
    {m \in c.snap : c.target # NoId /\ Pos[c.snap][m] >= Pos[c.snap][c.target]}

Beyond(c) == {m \in c.snap : c.target # NoId /\ Pos[c.snap][m] > Pos[c.snap][c.target]}
Reaches(c) == c.snap \ Beyond(c)

\* An unknown target ends a command before it touches the database, except that
\* a fake apply resolves its target under the lock only.
Resolves(c) == c.target \in c.snap \cup {NoId}

(* The session. *)

\* Slip: the unlock does not ask who holds the lock.
FreeLock_Anyones(p) == lock' = NoProc

FreeLock(p) == lock' = IF lock = p THEN NoProc ELSE lock

\* The command is over; whatever it returned, the runner keeps nothing of it.
End(p) ==
    /\ pc' = [pc EXCEPT ![p] = "idle"]
    /\ cmd' = [cmd EXCEPT ![p] = NoId]
    /\ base' = [base EXCEPT ![p] = {}]
    /\ reverts' = [reverts EXCEPT ![p] = {}]
    /\ pending' = [pending EXCEPT ![p] = {}]
    /\ cur' = [cur EXCEPT ![p] = NoId]
    /\ step' = [step EXCEPT ![p] = 0]
    /\ open' = [open EXCEPT ![p] = FALSE]
    /\ local' = [local EXCEPT ![p] = NoChange]
    /\ outcome' = [outcome EXCEPT ![p] = "none"]
    /\ UNCHANGED left

\* `?` inside apply_locked or rollback_locked: an open transaction has been
\* rolled back, and the lock is released next.
Fail(p) ==
    /\ pc' = [pc EXCEPT ![p] = "release"]
    /\ open' = [open EXCEPT ![p] = FALSE]
    /\ local' = [local EXCEPT ![p] = NoChange]
    /\ outcome' = [outcome EXCEPT ![p] = "error"]
    /\ UNCHANGED <<database, lock, plan, cur, step>>

----------------------------------------------------------------------------
(* Up to the lock: load, graph, preflight; CREATE TABLE IF NOT EXISTS      *)
(* gaman_migrations; pg_advisory_lock or GET_LOCK, or nothing in SQLite.   *)

Start(p, c) ==
    /\ pc[p] = "idle" /\ left > 0
    /\ Resolves(c) \/ (c.kind = "apply" /\ c.fake)
    /\ c.kind = "rollback" => c.target # NoId
    /\ pc' = [pc EXCEPT ![p] = "install"]
    /\ cmd' = [cmd EXCEPT ![p] = c]
    /\ left' = left - 1
    /\ UNCHANGED <<database, lock, base, reverts, pending, work, outcome>>

Install(p) ==
    /\ pc[p] = "install"
    /\ pc' = [pc EXCEPT ![p] = "lock"]
    /\ UNCHANGED <<database, lock, plan, work, outcome>>

\* Slip: the answer of the lock call is not looked at.
AcquireLock_Unchecked(p) ==
    /\ pc[p] = "lock"
    /\ lock' = IF Locking /\ lock = NoProc THEN p ELSE lock
    /\ pc' = [pc EXCEPT ![p] = "read"]
    /\ UNCHANGED <<database, plan, work, outcome>>

AcquireLock(p) ==
    /\ pc[p] = "lock"
    /\ Locking => lock = NoProc
    /\ lock' = IF Locking THEN p ELSE lock
    /\ pc' = [pc EXCEPT ![p] = "read"]
    /\ UNCHANGED <<database, plan, work, outcome>>

\* The installation fails, or the lock is not free within 30 seconds.
GiveUp(p) ==
    /\ pc[p] = "install" \/ (pc[p] = "lock" /\ Locking)
    /\ End(p)
    /\ UNCHANGED <<database, lock>>

----------------------------------------------------------------------------
(* Under the lock: applied_ids, validate_applied, and the two lists.       *)

Accepts(c, applied) ==
    /\ applied \subseteq c.snap
    /\ Resolves(c)
    /\ c.kind = "rollback" => c.target \in applied

ReadApplied(p) ==
    /\ pc[p] = "read"
    /\ Accepts(cmd[p], tracked)
    /\ base' = [base EXCEPT ![p] = tracked]
    /\ reverts' = [reverts EXCEPT ![p] = Beyond(cmd[p]) \cap tracked]
    /\ pending' = [pending EXCEPT ![p] =
                     IF cmd[p].kind = "apply" THEN Reaches(cmd[p]) \ tracked ELSE {}]
    /\ pc' = [pc EXCEPT ![p] = "choose"]
    /\ UNCHANGED <<database, lock, cmd, left, work, outcome>>

\* applied_ids failed, or what it returned does not suit the command.
Refuse(p) == pc[p] = "read" /\ Fail(p)

Reverting(p) == cur[p] \in reverts[p]

\* Slip: the reverts are not reversed.
IsNext_Forward(p, m) ==
    LET pos == Pos[cmd[p].snap]
    IN  \/ m \in reverts[p] /\ \A n \in reverts[p] : pos[m] <= pos[n]
        \/ reverts[p] = {} /\ m \in pending[p] /\ \A n \in pending[p] : pos[m] <= pos[n]

\* The reverts come first, latest migration first; then the pending ones, in
\* graph order.
IsNext(p, m) ==
    LET pos == Pos[cmd[p].snap]
    IN  \/ m \in reverts[p] /\ \A n \in reverts[p] : pos[n] <= pos[m]
        \/ reverts[p] = {} /\ m \in pending[p] /\ \A n \in pending[p] : pos[m] <= pos[n]

\* Slip: no transaction.
Begin_NoTransaction(p, m) ==
    /\ pc[p] = "choose"
    /\ IsNext(p, m)
    /\ cur' = [cur EXCEPT ![p] = m]
    /\ pc' = [pc EXCEPT ![p] = IF cmd[p].fake \/ Steps[m] = 0 THEN "track" ELSE "exec"]
    /\ UNCHANGED <<database, lock, plan, step, open, local, outcome>>

\* Slip: a migration without statements is not told apart.
Begin_AlwaysExecutes(p, m) ==
    /\ pc[p] = "choose"
    /\ IsNext(p, m)
    /\ cur' = [cur EXCEPT ![p] = m]
    /\ open' = [open EXCEPT ![p] = m \in Atomic]
    /\ pc' = [pc EXCEPT ![p] = IF cmd[p].fake THEN "track" ELSE "exec"]
    /\ UNCHANGED <<database, lock, plan, step, local, outcome>>

\* apply_one and rollback_one up to their first statement: BEGIN if atomic.
Begin(p, m) ==
    /\ pc[p] = "choose"
    /\ IsNext(p, m)
    /\ cur' = [cur EXCEPT ![p] = m]
    /\ step' = [step EXCEPT ![p] = 0]
    /\ open' = [open EXCEPT ![p] = m \in Atomic]
    /\ local' = [local EXCEPT ![p] = NoChange]
    /\ pc' = [pc EXCEPT ![p] = IF cmd[p].fake \/ Steps[m] = 0 THEN "track" ELSE "exec"]
    /\ UNCHANGED <<database, lock, plan, outcome>>

\* BEGIN fails, or the COMMIT of a transaction that the server had ended before.
BeginFails(p) == pc[p] = "choose" /\ Fail(p)

Complete(p) ==
    /\ pc[p] = "choose"
    /\ reverts[p] = {} /\ pending[p] = {}
    /\ outcome' = [outcome EXCEPT ![p] = "ok"]
    /\ pc' = [pc EXCEPT ![p] = "release"]
    /\ UNCHANGED <<database, lock, plan, work>>

----------------------------------------------------------------------------
(* One migration: its statements, its tracking row, its commit.            *)

\* SQLite's file lock, taken by the first write of a transaction.
Writing(p) == open[p] /\ (step[p] > 0 \/ pc[p] = "commit")

MayWrite(p) == Locking \/ \A q \in Procs \ {p} : ~Writing(q)

\* Rolling back executes the inverse statements from the last to the first.
Statement(p) == IF Reverting(p) THEN Steps[cur[p]] - step[p] ELSE step[p] + 1
Change(p)    == IF Reverting(p) THEN -1 ELSE 1

\* The statement ends the transaction that is open.
EndsTransaction(p) == open[p] /\ Statement(p) \in Committing[cur[p]]

Admits(m, v, change) ==
    /\ v + change \in -MaxEffect..MaxEffect
    /\ m \in Repeatable \/ v + change \in {0, 1}

\* Slip: one statement is all there is.
IsLast_First(p) == TRUE

IsLast(p) == step[p] + 1 = Steps[cur[p]]

\* What the open transaction has done takes effect.
Settle(p) ==
    effect' = [effect EXCEPT ![cur[p]] = [k \in Stmts |-> effect[cur[p]][k] + local[p][k]]]

\* A DDL statement of MySQL and MariaDB first commits what the transaction holds,
\* and leaves none; the COMMIT or ROLLBACK of the runner then does nothing.
ImplicitCommit(p) ==
    /\ pc[p] = "exec"
    /\ MayWrite(p)
    /\ EndsTransaction(p)
    /\ Settle(p)
    /\ open' = [open EXCEPT ![p] = FALSE]
    /\ local' = [local EXCEPT ![p] = NoChange]
    /\ UNCHANGED <<tracked, faked, lock, plan, pc, cur, step, outcome>>

Exec(p) ==
    LET m == cur[p]
        k == Statement(p)
        v == effect[m][k] + local[p][k]
    IN  /\ pc[p] = "exec"
        /\ MayWrite(p)
        /\ ~EndsTransaction(p)
        /\ Admits(m, v, Change(p))
        /\ IF open[p]
             THEN /\ local' = [local EXCEPT ![p][k] = @ + Change(p)]
                  /\ UNCHANGED effect
             ELSE /\ effect' = [effect EXCEPT ![m][k] = @ + Change(p)]
                  /\ UNCHANGED local
        /\ step' = [step EXCEPT ![p] = @ + 1]
        /\ pc' = [pc EXCEPT ![p] = IF IsLast(p) THEN "track" ELSE "exec"]
        /\ UNCHANGED <<tracked, faked, lock, plan, cur, open, outcome>>

\* execute_statement returned an error: the database refused the statement, a
\* checked write did not affect exactly one row, or the file lock was busy.
ExecFails(p) == pc[p] = "exec" /\ Fail(p)

\* What the tracking table becomes: DELETE removes a row if it is there, INSERT
\* needs that it is not.
Mark(p) ==
    /\ tracked' = IF Reverting(p) THEN tracked \ {cur[p]} ELSE tracked \cup {cur[p]}
    /\ faked' = IF cmd[p].fake THEN faked \cup {cur[p]} ELSE faked

\* On to the next migration of the list.
Advance(p) ==
    /\ reverts' = [reverts EXCEPT ![p] = @ \ {cur[p]}]
    /\ pending' = [pending EXCEPT ![p] = @ \ {cur[p]}]
    /\ cur' = [cur EXCEPT ![p] = NoId]
    /\ step' = [step EXCEPT ![p] = 0]
    /\ open' = [open EXCEPT ![p] = FALSE]
    /\ local' = [local EXCEPT ![p] = NoChange]
    /\ pc' = [pc EXCEPT ![p] = "choose"]
    /\ UNCHANGED <<cmd, base, left, outcome>>

\* record and unrecord.  Inside a transaction the row waits for the commit.
Track(p) ==
    /\ pc[p] = "track"
    /\ MayWrite(p)
    /\ Reverting(p) \/ cur[p] \notin tracked
    /\ IF open[p]
         THEN /\ pc' = [pc EXCEPT ![p] = "commit"]
              /\ UNCHANGED <<database, plan, work, outcome>>
         ELSE /\ Mark(p)
              /\ Advance(p)
              /\ UNCHANGED effect
    /\ UNCHANGED lock

TrackFails(p) == pc[p] = "track" /\ Fail(p)

\* COMMIT makes the statements and the tracking row visible together.
Publish(p) ==
    /\ Mark(p)
    /\ Settle(p)

Commit(p) ==
    /\ pc[p] = "commit"
    /\ Publish(p)
    /\ Advance(p)
    /\ UNCHANGED lock

\* The server refuses the commit and drops the transaction.
CommitFails(p) == pc[p] = "commit" /\ Fail(p)

\* The server commits, the answer is lost: the runner takes it for a failure.
CommitUnacknowledged(p) ==
    /\ pc[p] = "commit"
    /\ Publish(p)
    /\ pc' = [pc EXCEPT ![p] = "release"]
    /\ open' = [open EXCEPT ![p] = FALSE]
    /\ local' = [local EXCEPT ![p] = NoChange]
    /\ outcome' = [outcome EXCEPT ![p] = "error"]
    /\ UNCHANGED <<lock, plan, cur, step>>

----------------------------------------------------------------------------
(* release_lock runs on every path that acquired the lock.  When it fails  *)
(* the connection is gone, and the lock with it.                           *)

\* Slip: the lock is released on success only.
Release_OnSuccess(p) ==
    /\ pc[p] = "release"
    /\ IF outcome[p] = "ok" THEN FreeLock(p) ELSE UNCHANGED lock
    /\ End(p)
    /\ UNCHANGED database

Release(p) ==
    /\ pc[p] = "release"
    /\ FreeLock(p)
    /\ End(p)
    /\ UNCHANGED database

\* The process dies or its connection is lost, wherever it is.
Crash(p) ==
    /\ pc[p] # "idle"
    /\ FreeLock(p)
    /\ End(p)
    /\ UNCHANGED database

----------------------------------------------------------------------------

Step(p) ==
    \/ Install(p) \/ AcquireLock(p) \/ GiveUp(p)
    \/ ReadApplied(p) \/ Refuse(p)
    \/ (\E m \in Ids : Begin(p, m)) \/ BeginFails(p) \/ Complete(p)
    \/ ImplicitCommit(p) \/ Exec(p) \/ ExecFails(p)
    \/ Track(p) \/ TrackFails(p)
    \/ Commit(p) \/ CommitFails(p) \/ CommitUnacknowledged(p)
    \/ Release(p)

Next ==
    \E p \in Procs :
        \/ \E c \in Commands : Start(p, c)
        \/ Step(p)
        \/ Crash(p)

Spec == Init /\ [][Next]_vars

\* A runner that is started is driven to its end: its futures are polled, each
\* database call answers or fails, and the wait for the lock is bounded.
Fairness == \A p \in Procs : WF_vars(Step(p))

FairSpec == Spec /\ Fairness

----------------------------------------------------------------------------
(* Properties.                                                             *)

\* No two runners read or move the applied migrations of a database that has a
\* migration lock at the same time, whoever waits, gives up or dies meanwhile.
MutualExclusion ==
    Locking => \A p, q \in Procs : pc[p] \in Locked /\ pc[q] \in Locked => p = q

\* Under a migration lock, whatever is recorded as applied, everything it depends
\* on is recorded too: with runners of different checkouts, targets in the middle
\* of the history, failures half way and fake movements.
DependencyClosed == Locking => \A m \in tracked : Deps[m] \subseteq tracked

\* The migrations that are one transaction from BEGIN to COMMIT: atomic ones, where
\* no statement ends the transaction before.
Transactional == {m \in Atomic : Committing[m] = {}}

\* "Migration success is recorded only after the required database work
\* succeeds" (ARCHITECTURE.md:152), and is withdrawn only after the work is
\* undone: at the step that changes the record, every statement of the migration
\* is in effect, or none is.  Without a migration lock another runner may undo
\* the statements of a migration that is not atomic while they are executed; and
\* raw SQL that is executed twice by a retry is counted twice.
Accountable ==
    IF Locking THEN Transactional \cup (Ids \ Repeatable) ELSE Transactional \ Repeatable

RecordFollowsWork ==
    [][ \A m \in Accountable \ faked' :
          /\ m \in tracked' \ tracked => \A k \in 1..Steps[m] : effect'[m][k] > 0
          /\ m \in tracked \ tracked' => \A k \in 1..Steps[m] : effect'[m][k] = 0
      ]_vars

\* An atomic migration that was never faked is in effect completely and exactly
\* once if it is recorded, and not at all if it is not: after every failure,
\* lost commit answer, crash and retry.  It is not one of MySQL or MariaDB with a
\* DDL statement, atomic though it is loaded: that commits implicitly
\* (ARCHITECTURE.md:153-156).  In SQLite, where two runners may plan from the same
\* reading, the refused second execution is what protects it, so raw SQL that can
\* be executed twice is excluded there.
AllOrNothing ==
    \A m \in Transactional \ faked :
        (Locking \/ m \notin Repeatable) =>
            \A k \in 1..Steps[m] : effect[m][k] = IF m \in tracked THEN 1 ELSE 0

\* A command that succeeds leaves, still under the lock, exactly the movement it
\* was asked for: apply the history up to the target and nothing after it,
\* rollback what was recorded of that before.
ConvergedOnSuccess ==
    \A p \in Procs :
        LET c == cmd[p]
            wanted == {m \in c.snap :
                         c.target = NoId \/ Pos[c.snap][m] <= Pos[c.snap][c.target]}
        IN  Locking /\ pc[p] = "release" /\ outcome[p] = "ok" =>
              IF c.kind = "apply" THEN tracked = wanted
              ELSE tracked = base[p] \cap wanted /\ c.target \in tracked

\* Every command ends, however its statements, its connection and the runners
\* it competes with behave, and it does not leave the migration lock behind, on
\* error paths neither.
EveryCommandEnds == \A p \in Procs : pc[p] # "idle" ~> (pc[p] = "idle" /\ lock # p)

\* Under a migration lock the engine implements the abstract record.
Ledger == INSTANCE AppliedLedger WITH applied <- tracked, owner <- lock
ImplementsLedger == Ledger!Spec

----------------------------------------------------------------------------
(* Why the safety properties hold: the inductive invariant.                *)

Working == {"exec", "track", "commit"}

\* Who is past acquire_lock is the holder of the lock.
HolderIsLocked == Locking => \A p \in Procs : pc[p] \in Locked => lock = p

\* Under the lock the two lists stay what they would be if they were computed
\* now, although they were computed once, before the first migration moved; and
\* the migration in progress is the one whose turn it is.
PlanStaysCurrent ==
    Locking => \A p \in Procs : pc[p] \in Working \cup {"choose"} =>
        LET c == cmd[p]
        IN  /\ Accepts(c, tracked)
            /\ reverts[p] = Beyond(c) \cap tracked
            /\ pending[p] = IF c.kind = "apply" THEN Reaches(c) \ tracked ELSE {}
            /\ c.kind = "rollback" => tracked \ Beyond(c) = base[p] \ Beyond(c)
            /\ pc[p] \in Working => IsNext(p, cur[p])

\* What the open transaction of an atomic migration has done so far: exactly the
\* statements up to step, in the direction of the movement.
Executed(p, k) == IF Reverting(p) THEN Steps[cur[p]] - step[p] < k /\ k <= Steps[cur[p]]
                  ELSE k <= step[p]

TransactionIsSteps ==
    \A p \in Procs : pc[p] \in Working =>
        /\ open[p] => cur[p] \in Atomic
        /\ cur[p] \in Transactional \/ pc[p] = "commit" => open[p]
        /\ cmd[p].fake => pc[p] # "exec" /\ step[p] = 0
        /\ ~cmd[p].fake /\ pc[p] # "exec" => step[p] = Steps[cur[p]]
        /\ \A k \in Stmts :
              local[p][k] = IF open[p] /\ Executed(p, k) THEN Change(p) ELSE 0

\* Outside a transaction the statements done so far have taken effect at once, and
\* where there is a lock nothing else has happened to them.
WorkIsInPlace ==
    /\ \A m \in Ids \ Repeatable : \A k \in Stmts : effect[m][k] \in {0, 1}
    /\ Locking => \A p \in Procs : pc[p] \in Working /\ ~open[p] /\ cur[p] \notin Repeatable =>
          \A k \in Stmts : Executed(p, k) =>
              effect[cur[p]][k] = IF Reverting(p) THEN 0 ELSE 1

\* Without a lock the database admits one transaction that has written.
OneWriter == ~Locking => \A p, q \in Procs : Writing(p) /\ Writing(q) => p = q

\* In a transaction they were admitted against what is still committed.
WorkIsAdmitted ==
    \A p \in Procs : pc[p] \in Working /\ open[p] /\ cur[p] \notin Repeatable =>
        \A k \in Stmts : Executed(p, k) =>
            effect[cur[p]][k] = IF Reverting(p) THEN 1 ELSE 0

IInv ==
    /\ TypeOK
    /\ HolderIsLocked
    /\ PlanStaysCurrent
    /\ DependencyClosed
    /\ ConvergedOnSuccess
    /\ TransactionIsSteps
    /\ OneWriter
    /\ WorkIsAdmitted
    /\ WorkIsInPlace
    /\ AllOrNothing
=========================================================================
