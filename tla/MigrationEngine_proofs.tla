--------------------- MODULE MigrationEngine_proofs ---------------------
(***************************************************************************)
(* What holds of MigrationEngine for all runners, migrations, histories,   *)
(* commands and bounds.                                                    *)
(***************************************************************************)
EXTENDS MigrationEngine, TLAPS

----------------------------------------------------------------------------
(* Changing one counter of a function of functions.                        *)

LEMMA CounterType ==
    ASSUME NEW A, NEW B, NEW f \in [A -> [B -> Int]], NEW x \in A, NEW y, NEW d \in Int
    PROVE  [f EXCEPT ![x][y] = @ + d] \in [A -> [B -> Int]]
<1>1. [f[x] EXCEPT ![y] = @ + d] \in [B -> Int]
  <2>1. CASE y \in B
    BY <2>1
  <2>2. CASE y \notin B
    BY <2>2
  <2> QED
    BY <2>1, <2>2
<1> QED
  BY <1>1

(* The operations that end or fail a command keep the types.               *)

LEMMA EndType ==
    ASSUME TypeOK, NEW p \in Procs, End(p), FreeLock(p) \/ UNCHANGED lock, UNCHANGED database
    PROVE  TypeOK'
  BY StepsAssumption DEF TypeOK, End, FreeLock, database, Stmts, NoChange, PCs

LEMMA FailType ==
    ASSUME TypeOK, NEW p \in Procs, Fail(p), pc[p] # "idle"
    PROVE  TypeOK'
  BY DEF TypeOK, Fail, database, plan, Stmts, NoChange, PCs

LEMMA AdvanceType ==
    ASSUME TypeOK, NEW p \in Procs, pc[p] \in {"track", "commit"}, Mark(p), Advance(p),
           effect' \in [Ids -> [Stmts -> Int]], UNCHANGED lock
    PROVE  TypeOK'
  BY StepsAssumption DEF TypeOK, Mark, Advance, Stmts, NoChange, PCs

LEMMA SettleType ==
    ASSUME TypeOK, NEW p \in Procs, pc[p] \in {"exec", "commit"}, Settle(p)
    PROVE  effect' \in [Ids -> [Stmts -> Int]]
  BY DEF TypeOK, Settle

LEMMA ExecType ==
    ASSUME TypeOK, NEW p \in Procs, Exec(p)
    PROVE  TypeOK'
<1>1. cur[p] \in Ids /\ pc[p] = "exec" /\ step[p] \in 0..MaxSteps
  BY DEF Exec, TypeOK
<1>2. Change(p) \in Int
  BY DEF Change
<1>3. effect' \in [Ids -> [Stmts -> Int]]
  <2>1. CASE effect' = [effect EXCEPT ![cur[p]][Statement(p)] = @ + Change(p)]
    BY <2>1, <1>1, <1>2, CounterType DEF TypeOK
  <2>2. CASE UNCHANGED effect
    BY <2>2 DEF TypeOK
  <2> QED
    BY <2>1, <2>2 DEF Exec
<1>4. local' \in [Procs -> [Stmts -> Int]]
  <2>1. CASE local' = [local EXCEPT ![p][Statement(p)] = @ + Change(p)]
    BY <2>1, <1>2, CounterType DEF TypeOK
  <2>2. CASE UNCHANGED local
    BY <2>2 DEF TypeOK
  <2> QED
    BY <2>1, <2>2 DEF Exec
<1>5. /\ step' \in [Procs -> 0..MaxSteps]
      /\ \A q \in Procs : pc'[q] = "exec" => step'[q] < Steps[cur'[q]]
  <2>1. Steps[cur[p]] \in 0..MaxSteps /\ step[p] < Steps[cur[p]] /\ cur' = cur
    BY <1>1, StepsAssumption DEF Exec, TypeOK
  <2>2. step[p] + 1 \in 0..MaxSteps /\ (step[p] + 1 # Steps[cur[p]] => step[p] + 1 < Steps[cur[p]])
    BY <2>1, <1>1, StepsAssumption
  <2> QED
    BY <2>1, <2>2 DEF Exec, IsLast, TypeOK
<1>6. UNCHANGED <<tracked, faked, lock, plan, cur, open, outcome>>
  BY DEF Exec
<1>7. pc' \in [Procs -> PCs] /\ (\A q \in Procs \ {p} : pc'[q] = pc[q])
  BY DEF Exec, TypeOK, PCs
<1> QED
  BY <1>1, <1>3, <1>4, <1>5, <1>6, <1>7 DEF TypeOK, plan

LEMMA TypeStep ==
    ASSUME TypeOK, [Next]_vars
    PROVE  TypeOK'
<1>1. ASSUME NEW p \in Procs, NEW c \in Commands, Start(p, c)
      PROVE  TypeOK'
  BY <1>1, CommandsAssumption, BoundsAssumption
  DEF TypeOK, Start, PCs, database, work
<1>2. ASSUME NEW p \in Procs, Install(p)
      PROVE  TypeOK'
  BY <1>2 DEF TypeOK, Install, PCs, database, plan, work
<1>3. ASSUME NEW p \in Procs, AcquireLock(p)
      PROVE  TypeOK'
  BY <1>3 DEF TypeOK, AcquireLock, PCs, database, plan, work
<1>4. ASSUME NEW p \in Procs, GiveUp(p)
      PROVE  TypeOK'
  BY <1>4, EndType DEF GiveUp
<1>5. ASSUME NEW p \in Procs, ReadApplied(p)
      PROVE  TypeOK'
  <2>1. cmd[p] \in Command /\ tracked \subseteq cmd[p].snap /\ cmd[p].snap \subseteq Ids
    BY <1>5, CheckoutsAssumption DEF TypeOK, ReadApplied, Accepts, Command
  <2>2. Beyond(cmd[p]) \subseteq Ids /\ Reaches(cmd[p]) \subseteq Ids
    BY <2>1 DEF Beyond, Reaches
  <2> QED
    BY <1>5, <2>2 DEF TypeOK, ReadApplied, PCs, database, work
<1>6. ASSUME NEW p \in Procs, Refuse(p) \/ BeginFails(p) \/ ExecFails(p) \/ TrackFails(p) \/ CommitFails(p)
      PROVE  TypeOK'
  <2>1. pc[p] # "idle" /\ Fail(p)
    BY <1>6 DEF Refuse, BeginFails, ExecFails, TrackFails, CommitFails
  <2> QED
    BY <2>1, FailType
<1>7. ASSUME NEW p \in Procs, NEW m \in Ids, Begin(p, m)
      PROVE  TypeOK'
  BY <1>7, StepsAssumption DEF TypeOK, Begin, PCs, database, plan, Stmts, NoChange
<1>8. ASSUME NEW p \in Procs, Complete(p)
      PROVE  TypeOK'
  BY <1>8 DEF TypeOK, Complete, PCs, database, plan, work
<1>9. ASSUME NEW p \in Procs, Exec(p)
      PROVE  TypeOK'
  BY <1>9, ExecType
<1>10. ASSUME NEW p \in Procs, Track(p)
       PROVE  TypeOK'
  <2>1. CASE open[p]
    BY <1>10, <2>1 DEF TypeOK, Track, PCs, database, plan, work
  <2>2. CASE ~open[p]
    BY <1>10, <2>2, AdvanceType DEF Track, TypeOK
  <2> QED
    BY <2>1, <2>2
<1>11. ASSUME NEW p \in Procs, Commit(p)
       PROVE  TypeOK'
  BY <1>11, SettleType, AdvanceType DEF Commit, Publish
<1>12. ASSUME NEW p \in Procs, CommitUnacknowledged(p)
       PROVE  TypeOK'
  <2>1. effect' \in [Ids -> [Stmts -> Int]]
    BY <1>12, SettleType DEF CommitUnacknowledged, Publish
  <2> QED
    BY <1>12, <2>1 DEF TypeOK, CommitUnacknowledged, Publish, Mark, PCs, plan, Stmts, NoChange
<1>13. ASSUME NEW p \in Procs, Release(p) \/ Crash(p)
       PROVE  TypeOK'
  BY <1>13, EndType DEF Release, Crash
<1>14. ASSUME NEW p \in Procs, ImplicitCommit(p)
       PROVE  TypeOK'
  <2>1. effect' \in [Ids -> [Stmts -> Int]]
    BY <1>14, SettleType DEF ImplicitCommit
  <2> QED
    BY <1>14, <2>1 DEF TypeOK, ImplicitCommit, plan, Stmts, NoChange
<1>15. CASE UNCHANGED vars
  BY <1>15 DEF TypeOK, vars
<1> QED
  BY <1>1, <1>2, <1>3, <1>4, <1>5, <1>6, <1>7, <1>8, <1>9, <1>10, <1>11, <1>12, <1>13, <1>14, <1>15
  DEF Next, Step

\* The state stays well typed.
THEOREM TypeCorrect == Spec => []TypeOK
<1>1. Init => TypeOK
  BY StepsAssumption, BoundsAssumption DEF Init, TypeOK, PCs, Stmts, NoChange
<1>2. TypeOK /\ [Next]_vars => TypeOK'
  BY TypeStep
<1> QED
  BY <1>1, <1>2, PTL DEF Spec

----------------------------------------------------------------------------
(* Who changes what: a runner changes only its own session, and only the   *)
(* holder of the lock changes the database.                                *)

Move(p) == (\E c \in Commands : Start(p, c)) \/ Step(p) \/ Crash(p)

SessionKept(q) ==
    /\ pc'[q] = pc[q] /\ cmd'[q] = cmd[q] /\ base'[q] = base[q]
    /\ reverts'[q] = reverts[q] /\ pending'[q] = pending[q]
    /\ cur'[q] = cur[q] /\ step'[q] = step[q] /\ open'[q] = open[q]
    /\ local'[q] = local[q] /\ outcome'[q] = outcome[q]

LEMMA Frame ==
    ASSUME TypeOK, NEW p \in Procs, Move(p), NEW q \in Procs \ {p}
    PROVE  SessionKept(q)
<1> USE DEF TypeOK, SessionKept
<1>1. CASE \E c \in Commands : Start(p, c)
  BY <1>1 DEF Start, work
<1>2. CASE Install(p) \/ AcquireLock(p)
  BY <1>2 DEF Install, AcquireLock, plan, work
<1>3. CASE GiveUp(p) \/ Release(p) \/ Crash(p)
  BY <1>3 DEF GiveUp, Release, Crash, End
<1>4. CASE ReadApplied(p)
  BY <1>4 DEF ReadApplied, work
<1>5. CASE Refuse(p) \/ BeginFails(p) \/ ExecFails(p) \/ TrackFails(p) \/ CommitFails(p)
  BY <1>5 DEF Refuse, BeginFails, ExecFails, TrackFails, CommitFails, Fail, plan
<1>6. CASE \E m \in Ids : Begin(p, m)
  BY <1>6 DEF Begin, plan
<1>7. CASE Complete(p)
  BY <1>7 DEF Complete, plan, work
<1>8. CASE Exec(p)
  <2>1. pc'[q] = pc[q] /\ step'[q] = step[q] /\ local'[q] = local[q]
    BY <1>8 DEF Exec
  <2> QED
    BY <1>8, <2>1 DEF Exec, plan
<1>9. CASE Track(p)
  BY <1>9 DEF Track, Advance, plan, work
<1>10. CASE Commit(p)
  BY <1>10 DEF Commit, Advance
<1>11. CASE CommitUnacknowledged(p) \/ ImplicitCommit(p)
  BY <1>11 DEF CommitUnacknowledged, ImplicitCommit, plan
<1> QED
  BY <1>1, <1>2, <1>3, <1>4, <1>5, <1>6, <1>7, <1>8, <1>9, <1>10, <1>11 DEF Move, Step

LEMMA DatabaseFrame ==
    ASSUME NEW p \in Procs, Move(p)
    PROVE  /\ pc[p] \notin {"track", "commit"} => UNCHANGED <<tracked, faked>>
           /\ pc[p] \notin {"exec", "commit"} => UNCHANGED effect
  BY DEF Move, Start, Step, Crash, Install, AcquireLock, GiveUp, ReadApplied, Refuse, BeginFails,
         ExecFails, TrackFails, CommitFails, Fail, Begin, Complete, ImplicitCommit, Exec, Track, Commit,
         CommitUnacknowledged, Release, database

\* What p does to the lock while another runner holds it.
LEMMA LockFrame ==
    ASSUME TypeOK, HolderIsLocked, Locking, NEW p \in Procs, Move(p), NEW q \in Procs \ {p},
           pc[q] \in Locked
    PROVE  lock = q /\ lock' = q /\ pc[p] \notin Locked
<1>1. lock = q /\ pc[p] \notin Locked /\ lock # NoProc
  BY IdsAssumption DEF HolderIsLocked
<1>2. lock' = q
  BY <1>1 DEF Move, Start, Step, Crash, Install, AcquireLock, GiveUp, ReadApplied, Refuse, BeginFails,
         ExecFails, TrackFails, CommitFails, Fail, Begin, Complete, ImplicitCommit, Exec, Track, Commit,
         CommitUnacknowledged, Release, FreeLock, Locked
<1> QED
  BY <1>1, <1>2

LEMMA HolderStep ==
    ASSUME TypeOK, HolderIsLocked, [Next]_vars
    PROVE  HolderIsLocked'
<1>1. CASE UNCHANGED vars
  BY <1>1 DEF HolderIsLocked, vars
<1>2. ASSUME NEW p \in Procs, Move(p), Locking
      PROVE  pc'[p] \in Locked => lock' = p
  <2> USE DEF TypeOK, Locked, HolderIsLocked
  <2>1. CASE (\E c \in Commands : Start(p, c)) \/ Install(p) \/ AcquireLock(p) \/ GiveUp(p)
    BY <2>1, <1>2 DEF Start, Install, AcquireLock, GiveUp, End
  <2>2. CASE ReadApplied(p) \/ (\E m \in Ids : Begin(p, m)) \/ Complete(p) \/ ImplicitCommit(p) \/ Exec(p)
    BY <2>2, <1>2 DEF ReadApplied, Begin, Complete, ImplicitCommit, Exec
  <2>3. CASE Refuse(p) \/ BeginFails(p) \/ ExecFails(p) \/ TrackFails(p) \/ CommitFails(p)
    BY <2>3, <1>2 DEF Refuse, BeginFails, ExecFails, TrackFails, CommitFails, Fail
  <2>4. CASE Track(p) \/ Commit(p) \/ CommitUnacknowledged(p)
    BY <2>4, <1>2 DEF Track, Commit, CommitUnacknowledged
  <2>5. CASE Release(p) \/ Crash(p)
    BY <2>5 DEF Release, Crash, End
  <2> QED
    BY <1>2, <2>1, <2>2, <2>3, <2>4, <2>5 DEF Move, Step
<1>3. ASSUME NEW p \in Procs, Move(p), Locking
      PROVE  \A q \in Procs \ {p} : pc'[q] \in Locked => lock' = q
  BY <1>3, Frame, LockFrame DEF SessionKept
<1> QED
  BY <1>1, <1>2, <1>3 DEF Next, Move, HolderIsLocked

LEMMA HolderInit == Init => HolderIsLocked
  BY DEF Init, HolderIsLocked, Locked

LEMMA HolderExcludes == HolderIsLocked => MutualExclusion
  BY DEF HolderIsLocked, MutualExclusion

\* Where there is a migration lock, no two runners are between acquire_lock and
\* release_lock, however many there are and however they fail.
THEOREM MutualExclusionCorrect == Spec => []MutualExclusion
<1>1. TypeOK /\ HolderIsLocked /\ [Next]_vars => HolderIsLocked'
  BY HolderStep
<1> QED
  BY <1>1, TypeCorrect, HolderInit, HolderExcludes, PTL DEF Spec

----------------------------------------------------------------------------
(* The movements of the record.                                            *)

LEMMA CommandFacts ==
    ASSUME NEW c \in Command
    PROVE  /\ c.snap \in Checkouts /\ c.snap \subseteq Ids
           /\ Beyond(c) \subseteq c.snap /\ Reaches(c) \subseteq c.snap
           /\ \A m \in c.snap : Pos[c.snap][m] \in Int /\ Deps[m] \subseteq c.snap
           /\ \A m \in c.snap : \A d \in Deps[m] : Pos[c.snap][d] < Pos[c.snap][m]
  BY CheckoutsAssumption, PosAssumption DEF Command, Beyond, Reaches

\* Nothing that stays depends on something beyond the target, and what is up to
\* the target depends on nothing beyond it.
LEMMA TargetCutsClosed ==
    ASSUME NEW c \in Command, Resolves(c)
    PROVE  /\ \A m \in Reaches(c) : Deps[m] \subseteq Reaches(c)
           /\ \A n \in c.snap : \A d \in Deps[n] : d \in Beyond(c) => n \in Beyond(c)
           /\ c.target \notin Beyond(c)
<1>1. CASE c.target = NoId
  BY <1>1, CommandFacts DEF Beyond, Reaches
<1>2. CASE c.target \in c.snap
  <2>1. Pos[c.snap][c.target] \in Int
    BY <1>2, CommandFacts
  <2>2. \A m \in c.snap : \A d \in Deps[m] : d \in c.snap /\ Pos[c.snap][d] \in Int /\ Pos[c.snap][m] \in Int
    BY CommandFacts
  <2>3. \A n \in c.snap : \A d \in Deps[n] : d \in Beyond(c) => n \in Beyond(c)
    BY <2>1, <2>2, CommandFacts DEF Beyond
  <2>4. c.target \notin Beyond(c)
    BY <2>1 DEF Beyond
  <2> QED
    BY <2>2, <2>3, <2>4 DEF Reaches
<1> QED
  BY <1>1, <1>2 DEF Resolves

\* The migration whose turn it is may be recorded, or unrecorded.
LEMMA TurnIsSound ==
    ASSUME TypeOK, PlanStaysCurrent, DependencyClosed, Locking,
           NEW p \in Procs, pc[p] \in Working
    PROVE  /\ Reverting(p) => /\ cur[p] \in tracked /\ cur[p] \in Beyond(cmd[p])
                               /\ \A n \in tracked : cur[p] \notin Deps[n]
           /\ ~Reverting(p) => /\ cur[p] \in Reaches(cmd[p]) /\ cur[p] \notin tracked
                                /\ cmd[p].kind = "apply"
                                /\ Deps[cur[p]] \subseteq tracked
<1> DEFINE c == cmd[p]
           m == cur[p]
           pos == Pos[c.snap]
<1>1. c \in Command /\ m \in Ids
  BY DEF TypeOK, Working, PCs
<1>2. /\ Accepts(c, tracked) /\ IsNext(p, m)
      /\ reverts[p] = Beyond(c) \cap tracked
      /\ pending[p] = IF c.kind = "apply" THEN Reaches(c) \ tracked ELSE {}
  BY DEF PlanStaysCurrent
<1>3. tracked \subseteq c.snap /\ Resolves(c)
  BY <1>2 DEF Accepts
<1>4. CASE Reverting(p)
  <2>1. m \in Beyond(c) /\ m \in tracked
    BY <1>4, <1>2 DEF Reverting
  <2>2. \A n \in reverts[p] : pos[n] <= pos[m]
    BY <1>4, <1>2 DEF IsNext, Reverting
  <2>3. ASSUME NEW n \in tracked, m \in Deps[n]
        PROVE  FALSE
    <3>1. n \in Beyond(c)
      BY <1>1, <1>3, <2>1, <2>3, TargetCutsClosed
    <3>2. pos[m] < pos[n] /\ pos[m] \in Int /\ pos[n] \in Int
      BY <1>1, <1>3, <2>1, <2>3, CommandFacts
    <3> QED
      BY <1>2, <2>2, <3>1, <3>2
  <2> QED
    BY <1>4, <2>1, <2>3
<1>5. CASE ~Reverting(p)
  <2>1. m \in pending[p] /\ \A n \in pending[p] : pos[m] <= pos[n]
    BY <1>5, <1>2 DEF IsNext, Reverting
  <2>2. c.kind = "apply" /\ m \in Reaches(c) /\ m \notin tracked
    BY <1>2, <2>1
  <2>3. ASSUME NEW d \in Deps[m], d \notin tracked
        PROVE  FALSE
    <3>1. d \in pending[p]
      BY <1>1, <1>2, <1>3, <2>2, <2>3, TargetCutsClosed
    <3>2. pos[d] < pos[m] /\ pos[d] \in Int /\ pos[m] \in Int
      BY <1>1, <2>2, <2>3, CommandFacts
    <3> QED
      BY <2>1, <3>1, <3>2
  <2> QED
    BY <1>5, <2>2, <2>3
<1> QED
  BY <1>4, <1>5

\* Only record and unrecord change the record, each as TurnIsSound allows.
LEMMA RecordMoves ==
    ASSUME TypeOK, NEW p \in Procs, Move(p), ~UNCHANGED <<tracked, faked>>
    PROVE  /\ pc[p] \in {"track", "commit"} /\ Mark(p)
           /\ (pc[p] = "track" /\ ~open[p]) \/ (pc[p] = "commit" /\ Publish(p))
           /\ Advance(p) \/ (pc'[p] = "release" /\ outcome'[p] = "error")
<1>1. pc[p] \in {"track", "commit"}
  BY DatabaseFrame
<1>2. Track(p) \/ Commit(p) \/ CommitUnacknowledged(p)
  BY <1>1 DEF Move, Start, Step, Crash, Install, AcquireLock, GiveUp, ReadApplied, Refuse, BeginFails,
         ExecFails, TrackFails, CommitFails, Fail, Begin, Complete, ImplicitCommit, Exec, Release, database
<1>3. CASE Track(p)
  BY <1>1, <1>3 DEF Track, database
<1>4. CASE Commit(p)
  BY <1>1, <1>4 DEF Commit, Publish
<1>5. CASE CommitUnacknowledged(p)
  BY <1>1, <1>5 DEF CommitUnacknowledged, Publish, TypeOK
<1> QED
  BY <1>2, <1>3, <1>4, <1>5

LEMMA ClosedStep ==
    ASSUME TypeOK, PlanStaysCurrent, DependencyClosed, [Next]_vars
    PROVE  DependencyClosed'
<1>1. CASE UNCHANGED tracked
  BY <1>1 DEF DependencyClosed
<1>2. ASSUME NEW p \in Procs, Move(p), ~UNCHANGED tracked, Locking
      PROVE  DependencyClosed'
  <2>1. pc[p] \in Working /\ Mark(p)
    BY <1>2, RecordMoves DEF Working
  <2>2. CASE Reverting(p)
    BY <1>2, <2>1, <2>2, TurnIsSound DEF Mark, DependencyClosed
  <2>3. CASE ~Reverting(p)
    BY <1>2, <2>1, <2>3, TurnIsSound DEF Mark, DependencyClosed
  <2> QED
    BY <2>2, <2>3
<1> QED
  BY <1>1, <1>2 DEF Next, Move, vars, DependencyClosed

----------------------------------------------------------------------------
(* The lists computed once stay current.                                   *)

Planning == Working \cup {"choose"}

Current(p) ==
    LET c == cmd[p]
    IN  /\ Accepts(c, tracked)
        /\ reverts[p] = Beyond(c) \cap tracked
        /\ pending[p] = IF c.kind = "apply" THEN Reaches(c) \ tracked ELSE {}
        /\ c.kind = "rollback" => tracked \ Beyond(c) = base[p] \ Beyond(c)
        /\ pc[p] \in Working => IsNext(p, cur[p])

LEMMA CurrentIsPlan == PlanStaysCurrent <=> (Locking => \A p \in Procs : pc[p] \in Planning => Current(p))
  BY DEF PlanStaysCurrent, Current, Planning

LEMMA AdvanceKeepsPlan ==
    ASSUME TypeOK, PlanStaysCurrent, DependencyClosed, Locking,
           NEW p \in Procs, pc[p] \in {"track", "commit"}, Mark(p), Advance(p)
    PROVE  Current(p)'
<1> DEFINE c == cmd[p]
           m == cur[p]
<1>1. c \in Command /\ m \in Ids /\ pc[p] \in Working
  BY DEF TypeOK, Working, PCs
<1>2. /\ tracked \subseteq c.snap /\ Resolves(c) /\ (c.kind = "rollback" => c.target \in tracked)
      /\ reverts[p] = Beyond(c) \cap tracked
      /\ pending[p] = IF c.kind = "apply" THEN Reaches(c) \ tracked ELSE {}
      /\ c.kind = "rollback" => tracked \ Beyond(c) = base[p] \ Beyond(c)
  BY <1>1 DEF PlanStaysCurrent, Accepts
<1>3. /\ cmd' = cmd /\ base' = base /\ pc'[p] = "choose"
      /\ reverts'[p] = reverts[p] \ {m} /\ pending'[p] = pending[p] \ {m}
  BY DEF Advance, TypeOK
<1>4. Beyond(c) \cap Reaches(c) = {} /\ Reaches(c) \subseteq c.snap /\ c.target \notin Beyond(c)
  BY <1>1, <1>2, CommandFacts, TargetCutsClosed DEF Reaches
<1>5. c.kind \in {"apply", "rollback"}
  BY <1>1 DEF Command
<1>6. CASE Reverting(p)
  <2>1. m \in tracked /\ m \in Beyond(c) /\ tracked' = tracked \ {m}
    BY <1>1, <1>6, TurnIsSound DEF Mark
  <2>2. Accepts(c, tracked')
    BY <1>2, <1>4, <2>1 DEF Accepts
  <2>3. reverts'[p] = Beyond(c) \cap tracked'
    BY <1>2, <1>3, <2>1
  <2>4. pending'[p] = IF c.kind = "apply" THEN Reaches(c) \ tracked' ELSE {}
    BY <1>2, <1>3, <1>4, <2>1
  <2>5. c.kind = "rollback" => tracked' \ Beyond(c) = base[p] \ Beyond(c)
    BY <1>2, <2>1
  <2> QED
    BY <1>3, <2>2, <2>3, <2>4, <2>5 DEF Current, Working, Accepts, Beyond, Reaches, Resolves
<1>7. CASE ~Reverting(p)
  <2>1. m \notin tracked /\ m \in Reaches(c) /\ c.kind = "apply" /\ tracked' = tracked \cup {m}
    BY <1>1, <1>7, TurnIsSound DEF Mark
  <2>2. Accepts(c, tracked')
    BY <1>2, <1>4, <2>1 DEF Accepts
  <2>3. reverts'[p] = Beyond(c) \cap tracked'
    BY <1>2, <1>3, <1>4, <2>1
  <2>4. pending'[p] = Reaches(c) \ tracked'
    BY <1>2, <1>3, <2>1
  <2> QED
    BY <1>3, <2>1, <2>2, <2>3, <2>4 DEF Current, Working, Accepts, Beyond, Reaches, Resolves
<1> QED
  BY <1>6, <1>7

LEMMA PlanStep ==
    ASSUME TypeOK, HolderIsLocked, PlanStaysCurrent, DependencyClosed, [Next]_vars
    PROVE  PlanStaysCurrent'
<1>1. CASE UNCHANGED vars
  <2>1. UNCHANGED <<tracked, pc, cmd, base, reverts, pending, cur>>
    BY <1>1 DEF vars
  <2>2. ASSUME NEW p \in Procs, Current(p)
        PROVE  Current(p)'
    BY <2>1, <2>2 DEF Current, Accepts, IsNext, Beyond, Reaches, Resolves
  <2>3. (Locking => \A p \in Procs : pc'[p] \in Planning => Current(p)') => PlanStaysCurrent'
    BY DEF PlanStaysCurrent, Current, Planning
  <2> QED
    BY <2>1, <2>2, <2>3, CurrentIsPlan
<1>2. ASSUME NEW p \in Procs, Move(p), Locking, pc'[p] \in Planning
      PROVE  Current(p)'
  <2> USE DEF Planning, Working
  <2>1. CASE (\E c \in Commands : Start(p, c)) \/ Install(p) \/ AcquireLock(p) \/ GiveUp(p)
             \/ Release(p) \/ Crash(p)
    BY <1>2, <2>1 DEF TypeOK, Start, Install, AcquireLock, GiveUp, Release, Crash, End
  <2>2. CASE Refuse(p) \/ BeginFails(p) \/ ExecFails(p) \/ TrackFails(p) \/ CommitFails(p)
             \/ Complete(p) \/ CommitUnacknowledged(p)
    BY <1>2, <2>2 DEF TypeOK, Refuse, BeginFails, ExecFails, TrackFails, CommitFails, Fail, Complete,
                      CommitUnacknowledged
  <2>3. CASE ReadApplied(p)
    <3>1. /\ Accepts(cmd[p], tracked) /\ UNCHANGED <<tracked, cmd>>
          /\ base'[p] = tracked /\ reverts'[p] = Beyond(cmd[p]) \cap tracked
          /\ pending'[p] = IF cmd[p].kind = "apply" THEN Reaches(cmd[p]) \ tracked ELSE {}
          /\ pc'[p] = "choose"
      BY <2>3 DEF ReadApplied, TypeOK, database
    <3> QED
      BY <3>1 DEF Current, Accepts, Beyond, Reaches, Resolves
  <2>4. ASSUME NEW m \in Ids, Begin(p, m)
        PROVE  Current(p)'
    <3>1. Current(p) /\ UNCHANGED <<tracked, cmd, base, reverts, pending>> /\ cur'[p] = m /\ IsNext(p, m)
      BY <1>2, <2>4, CurrentIsPlan DEF Begin, TypeOK, plan, database
    <3> QED
      BY <3>1 DEF Current, Accepts, Beyond, Reaches, Resolves, IsNext
  <2>5. ASSUME ImplicitCommit(p) \/ Exec(p) \/ (Track(p) /\ open[p])
        PROVE  Current(p)'
    <3>1. Current(p) /\ UNCHANGED <<tracked, cmd, base, reverts, pending, cur>> /\ pc[p] \in Working
      BY <1>2, <2>5, CurrentIsPlan DEF ImplicitCommit, Exec, Track, plan, database, work
    <3> QED
      BY <3>1 DEF Current, Accepts, Beyond, Reaches, Resolves, IsNext
  <2>6. CASE (Track(p) /\ ~open[p]) \/ Commit(p)
    BY <1>2, <2>6, AdvanceKeepsPlan DEF Track, Commit, Publish
  <2> QED
    BY <1>2, <2>1, <2>2, <2>3, <2>4, <2>5, <2>6 DEF Move, Step
<1>3. ASSUME NEW p \in Procs, Move(p), Locking, NEW q \in Procs \ {p}, pc'[q] \in Planning
      PROVE  Current(q)'
  <2>1. SessionKept(q) /\ pc[q] \in Locked
    BY <1>3, Frame DEF SessionKept, Planning, Working, Locked
  <2>2. tracked' = tracked
    BY <1>3, <2>1, LockFrame, DatabaseFrame DEF Locked
  <2>3. Current(q)
    BY <1>3, <2>1, CurrentIsPlan DEF SessionKept
  <2> QED
    BY <2>1, <2>2, <2>3 DEF Current, SessionKept, Accepts, Beyond, Reaches, Resolves, IsNext
<1>4. ASSUME NEW p \in Procs, Move(p), Locking, NEW q \in Procs, pc'[q] \in Planning
      PROVE  Current(q)'
  BY <1>2, <1>3, <1>4
<1>5. (\E p \in Procs : Move(p)) => PlanStaysCurrent'
  <2>1. (Locking => \A q \in Procs : pc'[q] \in Planning => Current(q)') => PlanStaysCurrent'
    BY DEF PlanStaysCurrent, Current, Planning
  <2> QED
    BY <1>4, <2>1
<1> QED
  BY <1>1, <1>5 DEF Next, Move

----------------------------------------------------------------------------
(* Safety of the record: closure, convergence and the abstract ledger.     *)

LEMMA ConvergedStep ==
    ASSUME TypeOK, HolderIsLocked, PlanStaysCurrent, ConvergedOnSuccess, [Next]_vars
    PROVE  ConvergedOnSuccess'
<1> DEFINE Wanted(c) == {m \in c.snap : c.target = NoId \/ Pos[c.snap][m] <= Pos[c.snap][c.target]}
           Done(p, c, t, b) == IF c.kind = "apply" THEN t = Wanted(c)
                               ELSE t = b \cap Wanted(c) /\ c.target \in t
<1>1. CASE UNCHANGED vars
  BY <1>1 DEF ConvergedOnSuccess, vars
<1>2. ASSUME NEW p \in Procs, Move(p), Locking, pc'[p] = "release", outcome'[p] = "ok"
      PROVE  Done(p, cmd'[p], tracked', base'[p])
  <2>1. Complete(p)
    <3> USE DEF TypeOK
    <3>1. CASE (\E c \in Commands : Start(p, c)) \/ Install(p) \/ AcquireLock(p) \/ GiveUp(p)
               \/ Release(p) \/ Crash(p)
      BY <1>2, <3>1 DEF Start, Install, AcquireLock, GiveUp, Release, Crash, End
    <3>2. CASE Refuse(p) \/ BeginFails(p) \/ ExecFails(p) \/ TrackFails(p) \/ CommitFails(p)
      BY <1>2, <3>2 DEF Refuse, BeginFails, ExecFails, TrackFails, CommitFails, Fail
    <3>3. CASE ReadApplied(p) \/ (\E m \in Ids : Begin(p, m)) \/ ImplicitCommit(p) \/ Exec(p)
      BY <1>2, <3>3 DEF ReadApplied, Begin, ImplicitCommit, Exec
    <3>4. CASE Track(p) \/ Commit(p) \/ CommitUnacknowledged(p)
      BY <1>2, <3>4 DEF Track, Commit, CommitUnacknowledged, Advance
    <3> QED
      BY <1>2, <3>1, <3>2, <3>3, <3>4 DEF Move, Step
  <2> DEFINE c == cmd[p]
  <2>2. c \in Command /\ UNCHANGED <<tracked, cmd, base>> /\ reverts[p] = {} /\ pending[p] = {}
    BY <2>1 DEF Complete, TypeOK, database, plan
  <2>3. /\ tracked \subseteq c.snap /\ Resolves(c) /\ (c.kind = "rollback" => c.target \in tracked)
        /\ Beyond(c) \cap tracked = {}
        /\ c.kind = "apply" => Reaches(c) \subseteq tracked
        /\ c.kind = "rollback" => tracked \ Beyond(c) = base[p] \ Beyond(c)
    BY <1>2, <2>1, <2>2 DEF PlanStaysCurrent, Complete, Accepts
  <2>4. Wanted(c) = Reaches(c)
    <3>1. CASE c.target = NoId
      BY <3>1 DEF Reaches, Beyond
    <3>2. CASE c.target \in c.snap
      <4>1. Pos[c.snap][c.target] \in Int /\ \A m \in c.snap : Pos[c.snap][m] \in Int
        BY <2>2, <3>2, CommandFacts
      <4>2. \A m \in c.snap : m \in Wanted(c) <=> m \in Reaches(c)
        BY <4>1, <3>2 DEF Reaches, Beyond
      <4> QED
        BY <4>2 DEF Reaches
    <3> QED
      BY <2>3, <3>1, <3>2 DEF Resolves
  <2>5. tracked = tracked \cap Reaches(c)
    BY <2>3 DEF Reaches
  <2> QED
    BY <2>2, <2>3, <2>4, <2>5 DEF Command, Reaches
<1>3. ASSUME NEW p \in Procs, Move(p), Locking, NEW q \in Procs \ {p},
             pc'[q] = "release", outcome'[q] = "ok"
      PROVE  Done(q, cmd'[q], tracked', base'[q])
  <2>1. SessionKept(q) /\ pc[q] = "release" /\ outcome[q] = "ok"
    BY <1>3, Frame DEF SessionKept
  <2>2. tracked' = tracked
    BY <1>3, <2>1, LockFrame, DatabaseFrame DEF Locked
  <2> QED
    BY <1>3, <2>1, <2>2 DEF ConvergedOnSuccess, SessionKept
<1> QED
  BY <1>1, <1>2, <1>3 DEF Next, Move, ConvergedOnSuccess

\* The part of IInv that is about the record alone.
RecordInv == TypeOK /\ HolderIsLocked /\ PlanStaysCurrent /\ DependencyClosed /\ ConvergedOnSuccess

LEMMA RecordInvariant == Spec => []RecordInv
<1>1. Init => RecordInv
  <2>1. Init => TypeOK
    BY StepsAssumption, BoundsAssumption DEF Init, TypeOK, PCs, Stmts, NoChange
  <2> QED
    BY <2>1, HolderInit DEF RecordInv, Init, PlanStaysCurrent, Working, DependencyClosed, ConvergedOnSuccess
<1>2. RecordInv /\ [Next]_vars => RecordInv'
  BY TypeStep, HolderStep, PlanStep, ClosedStep, ConvergedStep DEF RecordInv
<1> QED
  BY <1>1, <1>2, PTL DEF Spec

\* With a migration lock, what is recorded is closed under dependencies, whatever
\* checkouts the runners have, and whichever of them fail or die, where they do.
THEOREM DependencyClosedCorrect == Spec => []DependencyClosed
<1>1. RecordInv => DependencyClosed
  BY DEF RecordInv
<1> QED
  BY <1>1, RecordInvariant, PTL

\* With a migration lock, a command that reports success has made exactly the
\* movement it was asked for, although it decided on it before the first step.
THEOREM ConvergedOnSuccessCorrect == Spec => []ConvergedOnSuccess
<1>1. RecordInv => ConvergedOnSuccess
  BY DEF RecordInv
<1> QED
  BY <1>1, RecordInvariant, PTL

\* With a migration lock, the engine implements the abstract record.
THEOREM LedgerImplemented == ASSUME Locking PROVE Spec => ImplementsLedger
<1>1. Init => Ledger!Init
  BY DEF Init, Ledger!Init
<1>2. RecordInv /\ [Next]_vars => [Ledger!Next]_<<tracked, lock>>
  <2> SUFFICES ASSUME RecordInv, [Next]_vars
               PROVE  [Ledger!Next]_<<tracked, lock>>
    OBVIOUS
  <2> USE DEF RecordInv
  <2>1. CASE UNCHANGED vars
    BY <2>1 DEF vars
  <2>2. ASSUME NEW p \in Procs, Move(p), UNCHANGED <<tracked, faked>>
        PROVE  [Ledger!Next]_<<tracked, lock>>
    <3>1. \/ UNCHANGED lock
          \/ lock = NoProc /\ lock' = p
          \/ lock = p /\ lock' = NoProc
      BY <2>2 DEF Move, Start, Step, Crash, Install, AcquireLock, GiveUp, ReadApplied, Refuse, BeginFails,
         ExecFails, TrackFails, CommitFails, Fail, Begin, Complete, ImplicitCommit, Exec, Track, Commit,
         CommitUnacknowledged, Release, FreeLock
    <3> QED
      BY <2>2, <3>1 DEF Ledger!Next, Ledger!Own, Ledger!Disown
  <2>3. ASSUME NEW p \in Procs, Move(p), ~UNCHANGED <<tracked, faked>>
        PROVE  [Ledger!Next]_<<tracked, lock>>
    <3>1. pc[p] \in {"track", "commit"} /\ Mark(p) /\ cur[p] \in Ids
      BY <2>3, RecordMoves DEF TypeOK
    <3>2. lock = p
      BY <3>1 DEF HolderIsLocked, Locked
    <3>3. UNCHANGED lock
      BY <2>3, <3>1 DEF Move, Start, Step, Crash, Install, AcquireLock, GiveUp, ReadApplied, Refuse, BeginFails,
         ExecFails, TrackFails, CommitFails, Fail, Begin, Complete, ImplicitCommit, Exec, Track, Commit,
         CommitUnacknowledged, Release, database
    <3>4. CASE Reverting(p)
      BY <3>1, <3>2, <3>3, <3>4, TurnIsSound DEF Mark, Working, Ledger!Next, Ledger!Revert
    <3>5. CASE ~Reverting(p)
      BY <3>1, <3>2, <3>3, <3>5, TurnIsSound DEF Mark, Working, Ledger!Next, Ledger!Apply
    <3> QED
      BY <3>4, <3>5
  <2> QED
    BY <2>1, <2>2, <2>3 DEF Next, Move
<1> QED
  BY <1>1, <1>2, RecordInvariant, PTL DEF Spec, ImplementsLedger, Ledger!Spec

----------------------------------------------------------------------------
(* The work of a migration and its record.                                 *)

Exact(p) ==
    /\ open[p] => cur[p] \in Atomic
    /\ cur[p] \in Transactional \/ pc[p] = "commit" => open[p]
    /\ cmd[p].fake => pc[p] # "exec" /\ step[p] = 0
    /\ ~cmd[p].fake /\ pc[p] # "exec" => step[p] = Steps[cur[p]]
    /\ \A k \in Stmts : local[p][k] = IF open[p] /\ Executed(p, k) THEN Change(p) ELSE 0

LEMMA ExactIsSteps == TransactionIsSteps <=> \A p \in Procs : pc[p] \in Working => Exact(p)
  BY DEF TransactionIsSteps, Exact

\* Exec moves the boundary between what is executed and what is not by one.
LEMMA ExecExtends ==
    ASSUME TypeOK, NEW p \in Procs, Exec(p)
    PROVE  /\ Statement(p) \in Stmts /\ ~Executed(p, Statement(p))
           /\ \A k \in Stmts : Executed(p, k)' <=> Executed(p, k) \/ k = Statement(p)
           /\ Reverting(p)' = Reverting(p)
<1>1. /\ cur[p] \in Ids /\ step[p] \in 0..MaxSteps /\ step[p] < Steps[cur[p]]
      /\ Steps[cur[p]] \in 0..MaxSteps /\ MaxSteps \in Nat
  BY StepsAssumption DEF TypeOK, Exec
<1>2. cur' = cur /\ reverts' = reverts /\ step'[p] = step[p] + 1
  BY DEF Exec, plan, TypeOK
<1>3. Reverting(p)' = Reverting(p)
  BY <1>2 DEF Reverting
<1>4. CASE Reverting(p)
  BY <1>1, <1>2, <1>3, <1>4 DEF Executed, Statement, Stmts
<1>5. CASE ~Reverting(p)
  BY <1>1, <1>2, <1>3, <1>5 DEF Executed, Statement, Stmts
<1> QED
  BY <1>3, <1>4, <1>5

LEMMA ExecExact ==
    ASSUME TypeOK, NEW p \in Procs, Exec(p), Exact(p)
    PROVE  Exact(p)'
<1>1. /\ cur' = cur /\ open' = open /\ cmd' = cmd /\ step'[p] = step[p] + 1
      /\ pc'[p] = IF step[p] + 1 = Steps[cur[p]] THEN "track" ELSE "exec"
      /\ ~cmd[p].fake
  BY DEF Exec, IsLast, plan, TypeOK, Exact
<1>2. Change(p)' = Change(p) /\ Change(p) \in Int
  BY ExecExtends DEF Change
<1>3. ASSUME open[p], NEW k \in Stmts
      PROVE  local'[p][k] = IF Executed(p, k)' THEN Change(p) ELSE 0
  <2>1. local[p] \in [Stmts -> Int] /\ local' = [local EXCEPT ![p][Statement(p)] = @ + Change(p)]
    BY <1>3 DEF Exec, TypeOK
  <2>2. local'[p][k] = IF k = Statement(p) THEN local[p][k] + Change(p) ELSE local[p][k]
    BY <2>1, ExecExtends DEF TypeOK
  <2>3. local[p][k] = IF Executed(p, k) THEN Change(p) ELSE 0
    BY <1>3 DEF Exact
  <2> QED
    BY <1>2, <2>2, <2>3, ExecExtends
<1>4. ~open[p] => local' = local
  BY DEF Exec
<1> QED
  BY <1>1, <1>2, <1>3, <1>4 DEF Exact

LEMMA StepsStep ==
    ASSUME TypeOK, TransactionIsSteps, [Next]_vars
    PROVE  TransactionIsSteps'
<1>1. ASSUME NEW q \in Procs, Exact(q), SessionKept(q)
      PROVE  Exact(q)'
  BY <1>1 DEF Exact, SessionKept, Executed, Change, Reverting
<1>2. CASE UNCHANGED vars
  <2>1. \A q \in Procs : SessionKept(q)
    BY <1>2 DEF vars, SessionKept
  <2> QED
    BY <1>1, <2>1, ExactIsSteps DEF TransactionIsSteps, Exact, SessionKept
<1>3. ASSUME NEW p \in Procs, Move(p), pc'[p] \in Working
      PROVE  Exact(p)'
  <2>1. CASE (\E c \in Commands : Start(p, c)) \/ Install(p) \/ AcquireLock(p) \/ GiveUp(p)
             \/ Release(p) \/ Crash(p) \/ ReadApplied(p)
    BY <1>3, <2>1 DEF TypeOK, Start, Install, AcquireLock, GiveUp, Release, Crash, End, ReadApplied, Working
  <2>2. CASE Refuse(p) \/ BeginFails(p) \/ ExecFails(p) \/ TrackFails(p) \/ CommitFails(p)
             \/ Complete(p) \/ CommitUnacknowledged(p) \/ Commit(p) \/ (Track(p) /\ ~open[p])
    BY <1>3, <2>2 DEF TypeOK, Refuse, BeginFails, ExecFails, TrackFails, CommitFails, Fail, Complete,
                      CommitUnacknowledged, Commit, Track, Advance, Working
  <2>3. ASSUME NEW m \in Ids, Begin(p, m)
        PROVE  Exact(p)'
    <3>1. /\ cur'[p] = m /\ step'[p] = 0 /\ open'[p] = (m \in Atomic) /\ local'[p] = NoChange
          /\ pc'[p] = (IF cmd[p].fake \/ Steps[m] = 0 THEN "track" ELSE "exec")
          /\ cmd' = cmd
      BY <2>3 DEF TypeOK, Begin, plan
    <3>2. \A k \in Stmts : ~Executed(p, k)'
      <4>1. Steps[m] \in Nat
        BY StepsAssumption
      <4> QED
        BY <3>1, <4>1 DEF Executed, Stmts
    <3> QED
      BY <3>1, <3>2 DEF Exact, NoChange, Transactional
  <2>4. CASE Exec(p)
    BY <2>4, ExecExact DEF TransactionIsSteps, Exact, Exec, Working
  <2>6. CASE ImplicitCommit(p)
    <3>1. Exact(p) /\ pc[p] = "exec" /\ cur[p] \notin Transactional
      BY <2>6, ExactIsSteps DEF ImplicitCommit, Working, EndsTransaction, Transactional
    <3>2. /\ UNCHANGED <<pc, cur, cmd, step>>
          /\ open'[p] = FALSE /\ local'[p] = NoChange
      BY <2>6 DEF ImplicitCommit, plan, TypeOK
    <3> QED
      BY <3>1, <3>2 DEF Exact, NoChange
  <2>5. CASE Track(p) /\ open[p]
    <3>1. Exact(p) /\ pc[p] = "track"
      BY <2>5, ExactIsSteps DEF Track, Working
    <3>2. /\ UNCHANGED <<open, cur, cmd, step, local, reverts>> /\ pc'[p] = "commit"
      BY <2>5 DEF Track, work, plan, TypeOK
    <3> QED
      BY <2>5, <3>1, <3>2 DEF Exact, Executed, Change, Reverting
  <2> QED
    BY <1>3, <2>1, <2>2, <2>3, <2>4, <2>5, <2>6 DEF Move, Step
<1>4. ASSUME NEW p \in Procs, Move(p), NEW q \in Procs \ {p}, pc'[q] \in Working
      PROVE  Exact(q)'
  BY <1>1, <1>4, Frame, ExactIsSteps DEF SessionKept
<1>5. (\A q \in Procs : pc'[q] \in Working => Exact(q)') => TransactionIsSteps'
  BY DEF TransactionIsSteps, Exact
<1> QED
  BY <1>2, <1>3, <1>4, <1>5 DEF Next, Move

\* A statement outside a transaction changes one counter, and if it is not
\* repeatable to the value the movement wants.
LEMMA ExecEffect ==
    ASSUME TypeOK, NEW p \in Procs, Exec(p), Exact(p), ~open[p]
    PROVE  /\ cur[p] \in Ids /\ Statement(p) \in Stmts
           /\ \A m \in Ids : \A k \in Stmts : m # cur[p] \/ k # Statement(p) => effect'[m][k] = effect[m][k]
           /\ cur[p] \notin Repeatable =>
                effect'[cur[p]][Statement(p)] \in {0, 1}
           /\ effect[cur[p]][Statement(p)] \in {0, 1} /\ cur[p] \notin Repeatable =>
                effect'[cur[p]][Statement(p)] = IF Reverting(p) THEN 0 ELSE 1
<1> DEFINE m == cur[p]
           k == Statement(p)
<1>1. m \in Ids /\ k \in Stmts
  BY ExecExtends DEF TypeOK, Exec
<1>2. local[p][k] = 0 /\ effect[m] \in [Stmts -> Int]
  BY <1>1 DEF Exact, TypeOK
<1>3. effect' = [effect EXCEPT ![m][k] = @ + Change(p)]
  BY DEF Exec
<1>4. effect'[m][k] = effect[m][k] + Change(p)
  BY <1>1, <1>2, <1>3 DEF TypeOK
<1>5. m \notin Repeatable => effect[m][k] + Change(p) \in {0, 1}
  BY <1>1, <1>2 DEF Exec, Admits, Change
<1>6. \A a \in Ids : \A b \in Stmts : a # m \/ b # k => effect'[a][b] = effect[a][b]
  BY <1>1, <1>2, <1>3 DEF TypeOK
<1> QED
  BY <1>1, <1>2, <1>4, <1>5, <1>6 DEF Change

\* A commit adds what the transaction did, to its migration only.
LEMMA SettleEffect ==
    ASSUME TypeOK, NEW p \in Procs, pc[p] \in {"exec", "commit"}, Settle(p)
    PROVE  /\ cur[p] \in Ids
           /\ \A m \in Ids \ {cur[p]} : effect'[m] = effect[m]
           /\ \A k \in Stmts : effect'[cur[p]][k] = effect[cur[p]][k] + local[p][k]
<1>1. cur[p] \in Ids
  BY DEF TypeOK
<1>2. effect' = [effect EXCEPT ![cur[p]] = [k \in Stmts |-> effect[cur[p]][k] + local[p][k]]]
  BY DEF Settle
<1> QED
  BY <1>1, <1>2 DEF TypeOK

LEMMA PublishEffect ==
    ASSUME TypeOK, NEW p \in Procs, pc[p] = "commit", Publish(p), Exact(p)
    PROVE  /\ cur[p] \in Ids
           /\ \A m \in Ids \ {cur[p]} : effect'[m] = effect[m]
           /\ ~cmd[p].fake => \A k \in 1..Steps[cur[p]] :
                 effect'[cur[p]][k] = effect[cur[p]][k] + (IF open[p] THEN Change(p) ELSE 0)
<1>1. cur[p] \in Ids /\ Steps[cur[p]] \in 0..MaxSteps /\ MaxSteps \in Nat
  BY StepsAssumption DEF TypeOK
<1>2. \A k \in 1..Steps[cur[p]] : ~cmd[p].fake => Executed(p, k) /\ k \in Stmts
  BY <1>1 DEF Exact, Executed, Stmts
<1> QED
  BY <1>1, <1>2, SettleEffect DEF Publish, Exact

InPlace(p) ==
    pc[p] \in Working /\ ~open[p] /\ cur[p] \notin Repeatable =>
        \A k \in Stmts : Executed(p, k) => effect[cur[p]][k] = IF Reverting(p) THEN 0 ELSE 1

Plain == \A m \in Ids \ Repeatable : \A k \in Stmts : effect[m][k] \in {0, 1}

Admitted(p) ==
    pc[p] \in Working /\ open[p] /\ cur[p] \notin Repeatable =>
        \A k \in Stmts : Executed(p, k) => effect[cur[p]][k] = IF Reverting(p) THEN 1 ELSE 0

LEMMA AdmittedIsWork == WorkIsAdmitted <=> \A p \in Procs : Admitted(p)
  BY DEF WorkIsAdmitted, Admitted

\* How a step of p changes the effects.
LEMMA EffectCases ==
    ASSUME NEW p \in Procs, Move(p)
    PROVE  \/ Exec(p) /\ ~open[p]
           \/ pc[p] = "commit" /\ Publish(p) /\ (Commit(p) \/ CommitUnacknowledged(p))
           \/ ImplicitCommit(p)
           \/ UNCHANGED effect
<1>1. CASE Exec(p)
  BY <1>1 DEF Exec
<1>2. CASE Commit(p) \/ CommitUnacknowledged(p)
  BY <1>2 DEF Commit, CommitUnacknowledged
<1>3. CASE ~(Exec(p) \/ Commit(p) \/ CommitUnacknowledged(p) \/ ImplicitCommit(p))
  BY <1>3 DEF Move, Start, Step, Crash, Install, AcquireLock, GiveUp, ReadApplied, Refuse, BeginFails,
         ExecFails, TrackFails, CommitFails, Fail, Begin, Complete, Track, Release, database
<1> QED
  BY <1>1, <1>2, <1>3

LEMMA PlainStep ==
    ASSUME TypeOK, TransactionIsSteps, WorkIsInPlace, WorkIsAdmitted, NEW p \in Procs, Move(p)
    PROVE  Plain'
<1>1. Plain
  BY DEF Plain, WorkIsInPlace
<1>2. CASE Exec(p) /\ ~open[p]
  <2>1. Exact(p)
    BY <1>2, ExactIsSteps DEF Exec, Working
  <2> QED
    BY <1>1, <1>2, <2>1, ExecEffect DEF Plain
<1>3. CASE (pc[p] = "commit" /\ Publish(p)) \/ ImplicitCommit(p)
  <2>0. pc[p] \in {"exec", "commit"} /\ Settle(p)
    BY <1>3 DEF Publish, ImplicitCommit
  <2>1. Exact(p) /\ Admitted(p) /\ pc[p] \in Working /\ open[p]
    BY <1>3, ExactIsSteps, AdmittedIsWork DEF Working, Exact, ImplicitCommit, EndsTransaction
  <2>2. cur[p] \in Ids /\ \A m \in Ids \ {cur[p]} : effect'[m] = effect[m]
    BY <2>0, SettleEffect
  <2>3. \A k \in Stmts : effect'[cur[p]][k] = effect[cur[p]][k] + local[p][k]
    BY <2>0, SettleEffect
  <2>4. ASSUME cur[p] \notin Repeatable, NEW k \in Stmts
        PROVE  effect'[cur[p]][k] \in {0, 1}
    <3>1. CASE Executed(p, k)
      <4>1. effect[cur[p]][k] = IF Reverting(p) THEN 1 ELSE 0
        BY <2>1, <2>4, <3>1 DEF Admitted
      <4>2. local[p][k] = IF Reverting(p) THEN -1 ELSE 1
        BY <2>1, <3>1 DEF Exact, Change
      <4> QED
        BY <2>3, <4>1, <4>2
    <3>2. CASE ~Executed(p, k)
      <4>1. effect[cur[p]][k] \in {0, 1} /\ local[p][k] = 0
        BY <1>1, <2>1, <2>2, <2>4, <3>2 DEF Plain, Exact
      <4> QED
        BY <2>3, <4>1
    <3> QED
      BY <3>1, <3>2
  <2> QED
    BY <1>1, <2>2, <2>4 DEF Plain
<1>4. CASE UNCHANGED effect
  BY <1>1, <1>4 DEF Plain
<1> QED
  BY <1>2, <1>3, <1>4, EffectCases

LEMMA InPlaceStep ==
    ASSUME TypeOK, HolderIsLocked, TransactionIsSteps, WorkIsInPlace, WorkIsAdmitted, [Next]_vars
    PROVE  WorkIsInPlace'
<1>1. ASSUME NEW q \in Procs, InPlace(q), SessionKept(q), UNCHANGED effect
      PROVE  InPlace(q)'
  BY <1>1 DEF InPlace, SessionKept, Executed, Reverting
<1>2. WorkIsInPlace <=> Plain /\ (Locking => \A q \in Procs : InPlace(q))
  BY DEF WorkIsInPlace, Plain, InPlace
<1>3. Plain' /\ (Locking => \A q \in Procs : InPlace(q)') => WorkIsInPlace'
  BY DEF WorkIsInPlace, Plain, InPlace
<1>4. CASE UNCHANGED vars
  <2>1. UNCHANGED effect /\ \A q \in Procs : SessionKept(q)
    BY <1>4 DEF vars, SessionKept
  <2> QED
    BY <1>1, <1>2, <1>3, <2>1 DEF Plain
<1>5. ASSUME NEW p \in Procs, Move(p), Locking
      PROVE  InPlace(p)'
  <2>1. CASE (\E c \in Commands : Start(p, c)) \/ Install(p) \/ AcquireLock(p) \/ GiveUp(p)
             \/ Release(p) \/ Crash(p) \/ ReadApplied(p)
    BY <2>1 DEF TypeOK, Start, Install, AcquireLock, GiveUp, Release, Crash, End, ReadApplied, Working, InPlace
  <2>2. CASE Refuse(p) \/ BeginFails(p) \/ ExecFails(p) \/ TrackFails(p) \/ CommitFails(p)
             \/ Complete(p) \/ CommitUnacknowledged(p) \/ Commit(p) \/ (Track(p) /\ ~open[p])
    BY <2>2 DEF TypeOK, Refuse, BeginFails, ExecFails, TrackFails, CommitFails, Fail, Complete,
                CommitUnacknowledged, Commit, Track, Advance, Working, InPlace
  <2>3. ASSUME NEW m \in Ids, Begin(p, m)
        PROVE  InPlace(p)'
    <3>1. cur'[p] = m /\ step'[p] = 0 /\ Steps[m] \in Nat
      BY <2>3, StepsAssumption DEF TypeOK, Begin
    <3> QED
      BY <3>1 DEF InPlace, Executed, Stmts
  <2>4. CASE Exec(p)
    <3>1. Exact(p) /\ pc[p] \in Working /\ InPlace(p) /\ Plain /\ cur' = cur /\ open' = open
      BY <1>2, <1>5, <2>4, ExactIsSteps DEF Exec, Working, plan
    <3>2. SUFFICES ASSUME ~open[p], cur[p] \notin Repeatable, NEW k \in Stmts, Executed(p, k)'
                   PROVE  effect'[cur[p]][k] = IF Reverting(p) THEN 0 ELSE 1
      BY <2>4, <3>1, ExecExtends DEF InPlace
    <3>3. cur[p] \in Ids
      BY <2>4 DEF TypeOK, Exec
    <3>4. CASE k = Statement(p)
      BY <2>4, <3>1, <3>2, <3>3, <3>4, ExecEffect DEF Plain
    <3>5. CASE k # Statement(p)
      <4>1. Executed(p, k) /\ effect'[cur[p]][k] = effect[cur[p]][k]
        BY <2>4, <3>1, <3>2, <3>3, <3>5, ExecEffect, ExecExtends
      <4> QED
        BY <3>1, <3>2, <4>1 DEF InPlace
    <3> QED
      BY <3>4, <3>5
  <2>5. CASE Track(p) /\ open[p]
    BY <2>5 DEF Track, work, InPlace
  <2>6. CASE ImplicitCommit(p)
    <3>1. /\ Exact(p) /\ Admitted(p) /\ pc[p] \in Working /\ pc[p] = "exec" /\ open[p] /\ Settle(p)
          /\ UNCHANGED <<cur, step, reverts>>
      BY <2>6, ExactIsSteps, AdmittedIsWork DEF ImplicitCommit, EndsTransaction, Working, plan
    <3>2. SUFFICES ASSUME cur[p] \notin Repeatable, NEW k \in Stmts, Executed(p, k)
                   PROVE  effect'[cur[p]][k] = IF Reverting(p) THEN 0 ELSE 1
      BY <3>1 DEF InPlace, Executed, Reverting
    <3>3. effect[cur[p]][k] = IF Reverting(p) THEN 1 ELSE 0
      BY <3>1, <3>2 DEF Admitted
    <3>4. local[p][k] = IF Reverting(p) THEN -1 ELSE 1
      BY <3>1, <3>2 DEF Exact, Change
    <3> QED
      BY <3>1, <3>3, <3>4, SettleEffect
  <2> QED
    BY <1>5, <2>1, <2>2, <2>3, <2>4, <2>5, <2>6 DEF Move, Step
<1>6. ASSUME NEW p \in Procs, Move(p), Locking, NEW q \in Procs \ {p}
      PROVE  InPlace(q)'
  <2>1. SessionKept(q)
    BY <1>6, Frame
  <2>2. CASE pc[q] \in Working
    <3>1. UNCHANGED effect
      BY <1>6, <2>2, LockFrame, DatabaseFrame DEF Working, Locked
    <3> QED
      BY <1>1, <1>2, <1>6, <2>1, <3>1
  <2>3. CASE pc[q] \notin Working
    BY <2>1, <2>3 DEF SessionKept, InPlace
  <2> QED
    BY <2>2, <2>3
<1> QED
  BY <1>3, <1>4, <1>5, <1>6, PlainStep DEF Next, Move

\* Where there is no lock, who begins to write is alone.
LEMMA WriterStep ==
    ASSUME TypeOK, OneWriter, [Next]_vars
    PROVE  OneWriter'
<1>1. CASE UNCHANGED vars
  BY <1>1 DEF OneWriter, Writing, vars
<1>2. ASSUME NEW p \in Procs, Move(p), Writing(p)'
      PROVE  Writing(p) \/ MayWrite(p)
  <2>1. CASE (\E c \in Commands : Start(p, c)) \/ Install(p) \/ AcquireLock(p) \/ ReadApplied(p)
             \/ Complete(p)
    BY <1>2, <2>1 DEF TypeOK, Start, Install, AcquireLock, ReadApplied, Complete, work, Writing
  <2>2. CASE GiveUp(p) \/ Release(p) \/ Crash(p) \/ Refuse(p) \/ BeginFails(p) \/ ExecFails(p)
             \/ TrackFails(p) \/ CommitFails(p) \/ Commit(p) \/ CommitUnacknowledged(p) \/ ImplicitCommit(p)
    <3>1. open'[p] = FALSE
      BY <2>2 DEF TypeOK, ImplicitCommit, GiveUp, Release, Crash, End, Refuse, BeginFails, ExecFails, TrackFails,
         CommitFails, Fail, Commit, Advance, CommitUnacknowledged
    <3> QED
      BY <1>2, <3>1 DEF Writing
  <2>3. ASSUME NEW m \in Ids, Begin(p, m)
        PROVE  FALSE
    <3>1. step'[p] = 0 /\ pc'[p] # "commit"
      BY <2>3 DEF TypeOK, Begin
    <3> QED
      BY <1>2, <3>1 DEF Writing
  <2>4. CASE Exec(p) \/ Track(p)
    BY <2>4 DEF Exec, Track
  <2> QED
    BY <1>2, <2>1, <2>2, <2>3, <2>4 DEF Move, Step
<1>3. ASSUME NEW p \in Procs, Move(p), NEW q \in Procs \ {p}
      PROVE  Writing(q)' <=> Writing(q)
  BY <1>3, Frame DEF SessionKept, Writing
<1>4. ASSUME NEW p \in Procs, Move(p)
      PROVE  OneWriter'
  BY <1>2, <1>3, <1>4 DEF OneWriter, MayWrite
<1> QED
  BY <1>1, <1>4 DEF Next, Move

\* What an open transaction has written to, nobody else changes.
LEMMA WrittenStays ==
    ASSUME TypeOK, HolderIsLocked, OneWriter, TransactionIsSteps,
           NEW p \in Procs, Move(p), NEW q \in Procs \ {p}, pc[q] \in Working, open[q],
           NEW k \in Stmts, Executed(q, k)
    PROVE  UNCHANGED effect
<1>1. Writing(q)
  <2>1. step[q] \in 0..MaxSteps /\ cur[q] \in Ids /\ Steps[cur[q]] \in 0..MaxSteps
    BY StepsAssumption DEF TypeOK, Working
  <2>2. step[q] > 0
    BY <2>1, StepsAssumption DEF Executed, Stmts
  <2> QED
    BY <2>2 DEF Writing
<1>2. CASE Locking
  BY <1>2, LockFrame, DatabaseFrame DEF Working, Locked
<1>3. CASE ~Locking
  <2>1. ~(Exec(p) /\ ~open[p])
    BY <1>1, <1>3 DEF Exec, MayWrite
  <2>3. ~ImplicitCommit(p)
    BY <1>1, <1>3 DEF ImplicitCommit, MayWrite
  <2>2. pc[p] # "commit"
    <3>1. pc[p] = "commit" => Writing(p)
      BY ExactIsSteps DEF Exact, Working, Writing
    <3> QED
      BY <1>1, <1>3, <3>1 DEF OneWriter
  <2> QED
    BY <2>1, <2>2, <2>3, EffectCases
<1> QED
  BY <1>2, <1>3

LEMMA AdmittedStep ==
    ASSUME TypeOK, HolderIsLocked, OneWriter, TransactionIsSteps, WorkIsInPlace, WorkIsAdmitted,
           [Next]_vars
    PROVE  WorkIsAdmitted'
<1>1. (\A q \in Procs : Admitted(q)') => WorkIsAdmitted'
  BY DEF WorkIsAdmitted, Admitted
<1>2. CASE UNCHANGED vars
  BY <1>2 DEF WorkIsAdmitted, Executed, Reverting, vars
<1>3. ASSUME NEW p \in Procs, Move(p)
      PROVE  Admitted(p)'
  <2>1. CASE (\E c \in Commands : Start(p, c)) \/ Install(p) \/ AcquireLock(p) \/ GiveUp(p)
             \/ Release(p) \/ Crash(p) \/ ReadApplied(p)
    BY <2>1 DEF TypeOK, Start, Install, AcquireLock, GiveUp, Release, Crash, End, ReadApplied, Working, Admitted
  <2>2. CASE Refuse(p) \/ BeginFails(p) \/ ExecFails(p) \/ TrackFails(p) \/ CommitFails(p)
             \/ Complete(p) \/ CommitUnacknowledged(p) \/ Commit(p) \/ (Track(p) /\ ~open[p])
    BY <2>2 DEF TypeOK, Refuse, BeginFails, ExecFails, TrackFails, CommitFails, Fail, Complete,
                CommitUnacknowledged, Commit, Track, Advance, Working, Admitted
  <2>3. ASSUME NEW m \in Ids, Begin(p, m)
        PROVE  Admitted(p)'
    <3>1. cur'[p] = m /\ step'[p] = 0 /\ Steps[m] \in Nat
      BY <2>3, StepsAssumption DEF TypeOK, Begin
    <3> QED
      BY <3>1 DEF Admitted, Executed, Stmts
  <2>4. CASE Exec(p)
    <3>1. /\ Exact(p) /\ pc[p] \in Working /\ Admitted(p) /\ cur[p] \in Ids
          /\ cur' = cur /\ open' = open
      BY <2>4, ExactIsSteps, AdmittedIsWork DEF Exec, Working, plan, TypeOK
    <3>2. SUFFICES ASSUME open[p], cur[p] \notin Repeatable, NEW k \in Stmts, Executed(p, k)'
                   PROVE  effect[cur[p]][k] = IF Reverting(p) THEN 1 ELSE 0
      <4>1. open[p] => effect' = effect
        BY <2>4 DEF Exec
      <4> QED
        BY <2>4, <3>1, <4>1, ExecExtends DEF Admitted
    <3>3. CASE k = Statement(p)
      <4>1. effect[cur[p]][k] \in {0, 1}
        BY <3>1, <3>2 DEF WorkIsInPlace
      <4>2. local[p][k] = 0
        BY <2>4, <3>1, <3>3, ExecExtends DEF Exact
      <4>3. effect[cur[p]][k] + local[p][k] + Change(p) \in {0, 1}
        BY <2>4, <3>2, <3>3 DEF Exec, Admits
      <4> QED
        BY <4>1, <4>2, <4>3 DEF Change
    <3>4. CASE k # Statement(p)
      <4>1. Executed(p, k)
        BY <2>4, <3>2, <3>4, ExecExtends
      <4> QED
        BY <3>1, <3>2, <4>1 DEF Admitted
    <3> QED
      BY <3>3, <3>4
  <2>5. CASE Track(p) /\ open[p]
    <3>1. /\ UNCHANGED <<open, cur, step, reverts, effect>> /\ pc[p] \in Working
      BY <2>5 DEF Track, work, plan, database, Working
    <3>2. Admitted(p)
      BY AdmittedIsWork
    <3> QED
      BY <3>1, <3>2 DEF Admitted, Executed, Reverting
  <2>6. CASE ImplicitCommit(p)
    <3>1. open'[p] = FALSE
      BY <2>6 DEF ImplicitCommit, TypeOK
    <3> QED
      BY <3>1 DEF Admitted
  <2> QED
    BY <1>3, <2>1, <2>2, <2>3, <2>4, <2>5, <2>6 DEF Move, Step
<1>4. ASSUME NEW p \in Procs, Move(p), NEW q \in Procs \ {p}
      PROVE  Admitted(q)'
  <2>1. SessionKept(q) /\ Admitted(q)
    BY <1>4, Frame, AdmittedIsWork
  <2>2. SUFFICES ASSUME pc[q] \in Working, open[q], cur[q] \notin Repeatable,
                        NEW k \in Stmts, Executed(q, k)
                 PROVE  effect'[cur[q]][k] = IF Reverting(q) THEN 1 ELSE 0
    BY <2>1 DEF Admitted, SessionKept, Executed, Reverting
  <2>3. UNCHANGED effect
    BY <1>4, <2>2, WrittenStays
  <2> QED
    BY <2>1, <2>2, <2>3 DEF Admitted
<1> QED
  BY <1>1, <1>2, <1>3, <1>4 DEF Next, Move

LEMMA AtomicStep ==
    ASSUME TypeOK, PlanStaysCurrent, DependencyClosed, TransactionIsSteps, WorkIsAdmitted,
           AllOrNothing, [Next]_vars
    PROVE  AllOrNothing'
<1>1. CASE UNCHANGED vars
  BY <1>1 DEF AllOrNothing, vars
<1>2. ASSUME NEW p \in Procs, Move(p), NEW m \in Transactional \ faked',
             Locking \/ m \notin Repeatable, NEW k \in 1..Steps[m]
      PROVE  effect'[m][k] = IF m \in tracked' THEN 1 ELSE 0
  <2>1. m \in Ids /\ k \in Stmts
    BY <1>2, StepsAssumption DEF Stmts, Transactional
  <2>2. CASE UNCHANGED <<tracked, faked>> /\ effect'[m][k] = effect[m][k]
    BY <1>2, <2>2 DEF AllOrNothing
  <2>3. CASE Exec(p) /\ ~open[p]
    <3>1. Exact(p) /\ m # cur[p]
      BY <2>3, ExactIsSteps DEF Exec, Working, Exact
    <3> QED
      BY <2>1, <2>2, <2>3, <3>1, ExecEffect DEF Exec
  <2>4. CASE pc[p] = "commit" /\ Publish(p)
    <3>1. Exact(p) /\ open[p] /\ pc[p] \in Working /\ Mark(p)
      BY <2>4, ExactIsSteps DEF Working, Exact, Publish
    <3>2. m \notin faked /\ effect[m][k] = IF m \in tracked THEN 1 ELSE 0
      BY <1>2, <3>1 DEF Mark, AllOrNothing
    <3>3. CASE m # cur[p]
      BY <2>1, <2>4, <3>1, <3>2, <3>3, PublishEffect DEF Mark
    <3>4. CASE m = cur[p]
      <4>1. ~cmd[p].fake
        BY <1>2, <3>1, <3>4 DEF Mark
      <4>2. effect'[m][k] = effect[m][k] + Change(p)
        BY <1>2, <2>4, <3>1, <3>4, <4>1, PublishEffect
      <4>3. CASE Locking
        BY <3>1, <3>2, <3>4, <4>2, <4>3, TurnIsSound DEF Mark, Change
      <4>4. CASE m \notin Repeatable
        <5>1. Executed(p, k)
          BY <1>2, <2>1, <2>4, <3>1, <3>4, <4>1, StepsAssumption DEF Exact, Executed, Stmts
        <5>2. effect[m][k] = IF Reverting(p) THEN 1 ELSE 0
          BY <2>1, <3>1, <3>4, <4>4, <5>1, AdmittedIsWork DEF Admitted
        <5> QED
          BY <3>1, <3>4, <4>2, <5>2 DEF Mark, Change
      <4> QED
        BY <1>2, <4>3, <4>4
    <3> QED
      BY <3>3, <3>4
  <2>5. CASE UNCHANGED effect /\ ~UNCHANGED <<tracked, faked>> /\ ~(pc[p] = "commit" /\ Publish(p))
    <3>1. ~open[p] /\ pc[p] = "track" /\ Mark(p)
      BY <1>2, <2>5, RecordMoves
    <3>2. Exact(p)
      BY <3>1, ExactIsSteps DEF Working
    <3>3. m # cur[p]
      BY <3>1, <3>2 DEF Exact
    <3> QED
      BY <1>2, <2>5, <3>1, <3>3 DEF Mark, AllOrNothing
  <2>6. CASE ImplicitCommit(p)
    <3>1. m # cur[p] /\ UNCHANGED <<tracked, faked>> /\ pc[p] = "exec" /\ Settle(p)
      BY <2>6 DEF ImplicitCommit, EndsTransaction, Transactional
    <3> QED
      BY <2>1, <2>2, <3>1, SettleEffect
  <2> QED
    BY <1>2, <2>2, <2>3, <2>4, <2>5, <2>6, EffectCases
<1> QED
  BY <1>1, <1>2 DEF Next, Move, AllOrNothing

\* The whole inductive invariant.
LEMMA Invariant == Spec => []IInv
<1>1. Init => IInv
  <2>1. Init => TypeOK
    BY StepsAssumption, BoundsAssumption DEF Init, TypeOK, PCs, Stmts, NoChange
  <2>2. Init => WorkIsInPlace
    BY DEF Init, WorkIsInPlace, Working, NoChange
  <2>3. Init => AllOrNothing
    BY StepsAssumption DEF Init, AllOrNothing, Transactional, NoChange, Stmts
  <2> QED
    BY <2>1, <2>2, <2>3, HolderInit DEF IInv, Init, PlanStaysCurrent, Working, DependencyClosed,
       ConvergedOnSuccess, TransactionIsSteps, OneWriter, Writing, WorkIsAdmitted
<1>2. IInv /\ [Next]_vars => IInv'
  BY TypeStep, HolderStep, PlanStep, ClosedStep, ConvergedStep, StepsStep, WriterStep, AdmittedStep,
     InPlaceStep, AtomicStep DEF IInv
<1> QED
  BY <1>1, <1>2, PTL DEF Spec

\* An atomic migration that was never faked is in effect exactly once when it is
\* recorded, and not at all when it is not (apply_one, rollback_one), unless a
\* statement of it commits implicitly (DDL of MySQL and MariaDB); in SQLite, which
\* has no migration lock, unless it is raw SQL that can be repeated.
THEOREM AllOrNothingCorrect == Spec => []AllOrNothing
<1>1. IInv => AllOrNothing
  BY DEF IInv
<1> QED
  BY <1>1, Invariant, PTL

\* The record changes only when the work is done (record, unrecord): of every
\* migration with a lock, of the atomic ones in SQLite, raw SQL aside; also where
\* DDL commits implicitly in the middle of a migration.
THEOREM RecordFollowsWorkCorrect == Spec => RecordFollowsWork
<1> DEFINE Follows ==
      \A m \in Accountable \ faked' :
          /\ m \in tracked' \ tracked => \A k \in 1..Steps[m] : effect'[m][k] > 0
          /\ m \in tracked \ tracked' => \A k \in 1..Steps[m] : effect'[m][k] = 0
<1>1. IInv /\ IInv' /\ [Next]_vars => [Follows]_vars
  <2> SUFFICES ASSUME IInv, IInv', [Next]_vars, ~UNCHANGED tracked,
                      NEW m \in Accountable \ faked', NEW k \in 1..Steps[m],
                      m \in (tracked' \ tracked) \cup (tracked \ tracked')
               PROVE  effect'[m][k] = IF m \in tracked' THEN 1 ELSE 0
    BY DEF vars
  <2>1. CASE m \in Transactional
    <3>1. Locking \/ m \notin Repeatable
      BY DEF Accountable
    <3> QED
      BY <2>1, <3>1 DEF IInv, AllOrNothing
  <2>2. CASE m \notin Transactional
    <3>0. Locking /\ m \in Ids \ Repeatable
      BY <2>2 DEF Accountable
    <3>1. PICK p \in Procs : Move(p)
      BY DEF Next, Move, vars
    <3>2. /\ pc[p] \in {"track", "commit"} /\ Mark(p)
          /\ (pc[p] = "track" /\ ~open[p]) \/ (pc[p] = "commit" /\ Publish(p))
      BY <3>1, RecordMoves DEF IInv
    <3>3. m = cur[p] /\ pc[p] \in Working /\ Exact(p)
      BY <3>2, ExactIsSteps DEF Mark, IInv, Working
    <3>4. ~cmd[p].fake /\ step[p] = Steps[m]
      BY <3>2, <3>3 DEF Exact, Mark
    <3>5. k \in Stmts /\ Executed(p, k)
      <4>1. Steps[m] \in 0..MaxSteps /\ MaxSteps \in Nat
        BY <3>0, StepsAssumption
      <4> QED
        BY <3>3, <3>4, <4>1 DEF Executed, Stmts
    <3>6. CASE pc[p] = "track" /\ ~open[p]
      <4>1. effect[m][k] = IF Reverting(p) THEN 0 ELSE 1
        BY <3>0, <3>3, <3>5, <3>6 DEF IInv, WorkIsInPlace
      <4>2. UNCHANGED effect
        BY <3>1, <3>6, DatabaseFrame
      <4> QED
        BY <3>2, <3>3, <4>1, <4>2 DEF Mark
    <3>7. CASE pc[p] = "commit" /\ Publish(p)
      <4>1. open[p]
        BY <3>3, <3>7 DEF Exact
      <4>2. effect[m][k] = IF Reverting(p) THEN 1 ELSE 0
        BY <3>0, <3>3, <3>5, <4>1 DEF IInv, WorkIsAdmitted
      <4>3. effect'[m][k] = effect[m][k] + Change(p)
        BY <3>3, <3>4, <3>7, <4>1, PublishEffect DEF IInv
      <4> QED
        BY <3>2, <3>3, <4>2, <4>3 DEF Mark, Change
    <3> QED
      BY <3>2, <3>6, <3>7
  <2> QED
    BY <2>1, <2>2
<1>2. Spec => [][Follows]_vars
  BY <1>1, Invariant, PTL DEF Spec
<1> QED
  BY <1>2 DEF RecordFollowsWork
=========================================================================
