------------------------ MODULE DriftRepair_proofs ------------------------
(***************************************************************************)
(* Theorems about DriftRepair.  The inductive invariant says that only the *)
(* holder of the lock executes, and that only who executes has uncommitted *)
(* work; so the uncommitted work of the database is that of one runner.    *)
(***************************************************************************)
EXTENDS DriftRepair, GraphOps_proofs

Shape ==
    /\ DOMAIN pc = Runners /\ DOMAIN undo = Runners /\ DOMAIN ops = Runners
    /\ lock \in Runners \cup {NoRunner}

ExecutesUnderLock == \A r \in Runners : pc[r] = "exec" => lock = r

WorkIsExecuting == \A r \in Runners : pc[r] # "exec" => DOMAIN undo[r] = {}

IInv == Shape /\ ExecutesUnderLock /\ WorkIsExecuting

\* Visible, as a function of what would be restored and of what is there.
VisibleOf(undone, db) ==
    [p \in Parts |-> IF p \in UNION {DOMAIN undone[r] : r \in Runners}
                     THEN undone[CHOOSE r \in Runners : p \in DOMAIN undone[r]][p]
                     ELSE db[p]]

\* db with what one runner would restore.
Restored(undone, db) == [p \in Parts |-> IF p \in DOMAIN undone THEN undone[p] ELSE db[p]]
AsItIs(db) == [p \in Parts |-> db[p]]

LEMMA VisibleIs == Visible = VisibleOf(undo, live) /\ Visible' = VisibleOf(undo', live')
  BY DEF Visible, Uncommitted, VisibleOf

LEMMA OneOpen ==
    ASSUME NEW undone, NEW db, NEW r \in Runners,
           \A s \in Runners : s # r => DOMAIN undone[s] = {}
    PROVE  VisibleOf(undone, db) = Restored(undone[r], db)
<1> DEFINE open == UNION {DOMAIN undone[s] : s \in Runners}
<1>1. open = DOMAIN undone[r]
  OBVIOUS
<1>2. ASSUME NEW p \in Parts
      PROVE  (IF p \in open THEN undone[CHOOSE s \in Runners : p \in DOMAIN undone[s]][p]
                            ELSE db[p])
             = (IF p \in DOMAIN undone[r] THEN undone[r][p] ELSE db[p])
  <2>1. CASE p \in DOMAIN undone[r]
    <3>1. \A s \in Runners : p \in DOMAIN undone[s] <=> s = r
      BY <2>1
    <3>2. (CHOOSE s \in Runners : p \in DOMAIN undone[s]) = r
      BY <3>1
    <3> QED BY <1>1, <2>1, <3>2
  <2>2. CASE p \notin DOMAIN undone[r]
    BY <1>1, <2>2
  <2> QED BY <2>1, <2>2
<1> QED BY <1>2 DEF VisibleOf, Restored

LEMMA NoneOpen ==
    ASSUME NEW undone, NEW db, \A s \in Runners : DOMAIN undone[s] = {}
    PROVE  VisibleOf(undone, db) = AsItIs(db)
<1>1. UNION {DOMAIN undone[s] : s \in Runners} = {}
  OBVIOUS
<1> QED BY <1>1 DEF VisibleOf, AsItIs

\* What is visible is the open work of the runner that executes, undone.
LEMMA VisibleWhileExecuting ==
    ASSUME IInv, NEW r \in Runners, pc[r] = "exec"
    PROVE  Visible = Restored(undo[r], live)
<1>1. \A s \in Runners : s # r => DOMAIN undo[s] = {}
  BY DEF IInv, Shape, ExecutesUnderLock, WorkIsExecuting
<1> QED BY <1>1, OneOpen, VisibleIs

LEMMA InitIInv == Init => IInv
  BY DEF Init, IInv, Shape, ExecutesUnderLock, WorkIsExecuting, NoUndo

LEMMA StepIInv == IInv /\ [Next]_vars => IInv'
<1> SUFFICES ASSUME IInv, [Next]_vars PROVE IInv'
  OBVIOUS
<1> USE DEF IInv, Shape, ExecutesUnderLock, WorkIsExecuting
<1>1. CASE ChangeByHand
  BY <1>1 DEF ChangeByHand
<1>2. CASE UNCHANGED vars
  BY <1>2 DEF vars
<1>3. ASSUME NEW r \in Runners, Start(r) PROVE IInv'
  <2>1. /\ pc[r] = "idle"
        /\ \E at \in {"inspect", "plan", "move"} : pc' = [pc EXCEPT ![r] = at]
        /\ DOMAIN ops' = Runners
        /\ UNCHANGED <<lock, undo>>
    <3>1. PICK c \in Commands[r] :
             Goto(r, CASE c.kind \in {"verify", "repair"} -> "inspect"
                       [] c.kind = "adopt"                -> "plan"
                       [] c.kind = "migrate"              -> "move")
      BY <1>3 DEF Start
    <3>2. c.kind \in {"verify", "repair", "adopt", "migrate"}
      BY CommandsAssumption DEF Kinds
    <3>3. CASE c.kind \in {"verify", "repair"}
      BY <3>1, <3>3, <1>3 DEF Goto, Start
    <3>4. CASE c.kind = "adopt"
      BY <3>1, <3>4, <1>3 DEF Goto, Start
    <3>5. CASE c.kind = "migrate"
      BY <3>1, <3>5, <1>3 DEF Goto, Start
    <3> QED BY <3>2, <3>3, <3>4, <3>5
  <2> QED BY <2>1
<1>4. ASSUME NEW r \in Runners, PlanAdoption(r) PROVE IInv'
  BY <1>4 DEF PlanAdoption, Goto, Refuse, Return
<1>5. ASSUME NEW r \in Runners, Inspect(r) PROVE IInv'
  BY <1>5 DEF Inspect, Goto
<1>6. ASSUME NEW r \in Runners, InspectRows(r) PROVE IInv'
  BY <1>6 DEF InspectRows, Goto
<1>7. ASSUME NEW r \in Runners, RowsUnreadable(r) PROVE IInv'
  BY <1>7 DEF RowsUnreadable, Refuse, Return, Goto
<1>8. ASSUME NEW r \in Runners, Judge(r) PROVE IInv'
  BY <1>8 DEF Judge, Refuse, Return, Goto
<1>9. ASSUME NEW r \in Runners, ReadPending(r) PROVE IInv'
  <2>1. /\ pc[r] # "exec"
        /\ \E at \in {"idle", "lock"} : pc' = [pc EXCEPT ![r] = at]
        /\ DOMAIN ops' = Runners
        /\ UNCHANGED <<lock, undo>>
    BY <1>9 DEF ReadPending, Decide, Refuse, Return, Goto
  <2> QED BY <2>1
<1>10. ASSUME NEW r \in Runners, AcquireLock(r) PROVE IInv'
  <2>1. \A s \in Runners : pc[s] # "exec"
    BY <1>10, CommandsAssumption DEF AcquireLock
  <2> QED BY <1>10, <2>1 DEF AcquireLock, Goto
<1>11. ASSUME NEW r \in Runners, Exec(r) PROVE IInv'
  BY <1>11 DEF Exec
<1>12. ASSUME NEW r \in Runners, ExecFails(r) PROVE IInv'
  BY <1>12 DEF ExecFails, Abort, Refuse, Return, Goto, NoUndo
<1>13. ASSUME NEW r \in Runners, Commit(r) PROVE IInv'
  BY <1>13 DEF Commit, Goto, NoUndo
<1>14. ASSUME NEW r \in Runners, Move(r) PROVE IInv'
  BY <1>14 DEF Move, Refuse, Return, Goto
<1>15. ASSUME NEW r \in Runners, Interrupted(r) PROVE IInv'
  BY <1>15 DEF Interrupted, Abort, Refuse, Return, Goto, NoUndo
<1> QED
  BY <1>1, <1>2, <1>3, <1>4, <1>5, <1>6, <1>7, <1>8, <1>9, <1>10, <1>11, <1>12, <1>13,
     <1>14, <1>15 DEF Next, Progress

\* The invariant the run of DriftRepair checks, for all runners and histories.
THEOREM IInvCorrect == Spec => []IInv
  BY InitIInv, StepIInv, PTL DEF Spec

\* Without a runner that executes, what is visible is what is there.
LEMMA VisibleAtRest ==
    ASSUME IInv, \A s \in Runners : pc[s] # "exec"
    PROVE  Visible = AsItIs(live)
<1>1. \A s \in Runners : DOMAIN undo[s] = {}
  BY DEF IInv, WorkIsExecuting
<1> QED BY <1>1, NoneOpen, VisibleIs

\* Statements in a transaction are not visible.
LEMMA ExecShowsNothing ==
    ASSUME IInv, IInv', NEW r \in Runners, Exec(r), Transactional
    PROVE  Visible' = Visible
<1>1. pc' = pc /\ pc[r] = "exec" /\ lock = r
  BY DEF Exec, IInv, ExecutesUnderLock
<1>2. Visible = Restored(undo[r], live)
  BY <1>1, VisibleWhileExecuting
<1>3. undo'[r] = [p \in DOMAIN undo[r] \cup {q \in Parts : live'[q] # live[q]} |->
                    IF p \in DOMAIN undo[r] THEN undo[r][p] ELSE live[p]]
  BY DEF Exec, IInv, Shape
<1>4. Visible' = Restored(undo'[r], live')
  <2>1. \A s \in Runners : s # r => DOMAIN undo'[s] = {}
    BY <1>1 DEF IInv, Shape, ExecutesUnderLock, WorkIsExecuting
  <2> QED
    BY <2>1, OneOpen, VisibleIs
<1>5. ASSUME NEW p \in Parts
      PROVE  (IF p \in DOMAIN undo'[r] THEN undo'[r][p] ELSE live'[p])
             = (IF p \in DOMAIN undo[r] THEN undo[r][p] ELSE live[p])
  BY <1>3, <1>5
<1> QED
  BY <1>2, <1>4, <1>5 DEF Restored

\* What one step of Next may do to the visible database while a repair executes.
LEMMA StepFailedRepair ==
    ASSUME IInv, IInv', [Next]_vars, NEW r \in Runners, Transactional, pc[r] = "exec"
    PROVE  /\ pc'[r] = "exec" /\ ops'[r] # ops[r] => Visible' = Visible
           /\ pc'[r] = "idle" => live' = Visible
<1>1. Visible = [p \in Parts |-> IF p \in DOMAIN undo[r] THEN undo[r][p] ELSE live[p]]
  BY VisibleWhileExecuting DEF Restored
<1>2. lock = r
  BY DEF IInv, ExecutesUnderLock
<1>3. CASE Exec(r)
  BY <1>3, ExecShowsNothing DEF Exec
<1>4. CASE ExecFails(r)
  BY <1>1, <1>4 DEF ExecFails, Abort, Refuse, Return, Goto, IInv, Shape
<1>5. CASE Interrupted(r)
  BY <1>1, <1>5 DEF Interrupted, Abort, Refuse, Return, Goto, IInv, Shape
<1>6. CASE Commit(r)
  BY <1>6 DEF Commit, Goto, IInv, Shape
<1>7. CASE pc'[r] = pc[r] /\ ops'[r] = ops[r]
  BY <1>7
<1>8. ASSUME NEW s \in Runners, s # r, Start(s) \/ Progress(s) \/ Interrupted(s)
      PROVE  pc'[r] = pc[r] /\ ops'[r] = ops[r]
  BY <1>8 DEF Start, Progress, PlanAdoption, Inspect, InspectRows, RowsUnreadable, Judge,
     ReadPending, Decide, AcquireLock, Exec, ExecFails, Commit, Move, Interrupted, Refuse,
     Return, Goto, IInv, Shape
<1>9. CASE Start(r) \/ PlanAdoption(r) \/ Inspect(r) \/ InspectRows(r) \/ RowsUnreadable(r)
           \/ Judge(r) \/ ReadPending(r) \/ AcquireLock(r) \/ Move(r)
  BY <1>9 DEF Start, PlanAdoption, Inspect, InspectRows, RowsUnreadable, Judge, ReadPending,
     AcquireLock, Move
<1>10. CASE ChangeByHand \/ UNCHANGED vars
  BY <1>10, <1>7 DEF ChangeByHand, vars
<1> QED
  BY <1>3, <1>4, <1>5, <1>6, <1>7, <1>8, <1>9, <1>10 DEF Next, Progress

\* Where DDL is transactional a repair shows nothing before its commit and, when
\* it fails, leaves what the other sessions saw (execute_untracked_locked).
THEOREM FailedRepairLeavesNothingCorrect == Spec => FailedRepairLeavesNothing
<1>1. IInv /\ IInv' /\ [Next]_vars =>
        [\A r \in Runners : Transactional /\ pc[r] = "exec" =>
            /\ pc'[r] = "exec" /\ ops'[r] # ops[r] => Visible' = Visible
            /\ pc'[r] = "idle" => live' = Visible]_vars
  BY StepFailedRepair
<1> QED BY <1>1, IInvCorrect, PTL DEF Spec, FailedRepairLeavesNothing

----------------------------------------------------------------------------
(* What a repair plans.                                                     *)

\* The statements one of the findings projects.
Statements(expected, observed) ==
    UNION {Range(Operations(p, observed[p], expected[p])) : p \in Findings(expected, observed)}

\* Whatever a statement leaves different from what is expected, a later one of the
\* same part puts right.
Completes(todo, expected) ==
    \A i \in DOMAIN todo :
        \/ todo[i].new = expected[todo[i].part]
        \/ \E j \in DOMAIN todo : j > i /\ todo[j].part = todo[i].part

\* What is still to repair has a statement.
StillToDo(todo, expected, db) ==
    \A p \in Parts \ Unrepairable :
        Drifts(p, expected[p], db[p]) => \E i \in DOMAIN todo : todo[i].part = p

LEMMA OperationCases ==
    ASSUME NEW p, NEW old, NEW new
    PROVE  \/ p \in Unrepairable /\ Operations(p, old, new) = <<>>
           \/ /\ p \notin Unrepairable /\ p \in Recreated /\ old # Absent
              /\ Operations(p, old, new) = << [part |-> p, old |-> old, new |-> Absent],
                                              [part |-> p, old |-> Absent, new |-> new] >>
           \/ /\ p \notin Unrepairable
              /\ Operations(p, old, new) = << [part |-> p, old |-> old, new |-> new] >>
  BY DEF Operations

LEMMA OperationFacts ==
    ASSUME NEW p, NEW old, NEW new, NEW op \in Range(Operations(p, old, new))
    PROVE  /\ op.part = p
           /\ p \notin Recreated => op.old = old /\ op.new = new
<1> DEFINE todo == Operations(p, old, new)
           drop == [part |-> p, old |-> old, new |-> Absent]
           create == [part |-> p, old |-> Absent, new |-> new]
           change == [part |-> p, old |-> old, new |-> new]
<1>1. PICK i \in DOMAIN todo : op = todo[i]
  BY DEF Range
<1>2. todo = <<>> \/ (p \in Recreated /\ todo = <<drop, create>>) \/ todo = <<change>>
  BY OperationCases
<1>3. op = change \/ (p \in Recreated /\ (op = drop \/ op = create))
  <2>1. CASE todo = <<>>
    BY <1>1, <2>1
  <2>2. CASE p \in Recreated /\ todo = <<drop, create>>
    <3>1. DOMAIN todo = {1, 2} /\ todo[1] = drop /\ todo[2] = create
      BY <2>2
    <3> QED
      BY <1>1, <2>2, <3>1
  <2>3. CASE todo = <<change>>
    <3>1. DOMAIN todo = {1} /\ todo[1] = change
      BY <2>3
    <3> QED
      BY <1>1, <3>1
  <2> QED
    BY <1>2, <2>1, <2>2, <2>3
<1> QED
  BY <1>3

LEMMA OneFindingCompletes ==
    ASSUME NEW p, NEW old, NEW expected
    PROVE  /\ Completes(Operations(p, old, expected[p]), expected)
           /\ Operations(p, old, expected[p])
                \in Seq(Range(Operations(p, old, expected[p])))
           /\ p \notin Unrepairable =>
                 \E op \in Range(Operations(p, old, expected[p])) : op.part = p
<1> DEFINE todo == Operations(p, old, expected[p])
           drop == [part |-> p, old |-> old, new |-> Absent]
           create == [part |-> p, old |-> Absent, new |-> expected[p]]
           change == [part |-> p, old |-> old, new |-> expected[p]]
<1>1. CASE todo = <<>>
  <2>1. p \in Unrepairable
    BY <1>1, OperationCases
  <2>2. DOMAIN todo = {} /\ Range(todo) = {}
    BY <1>1 DEF Range
  <2> QED
    BY <1>1, <2>1, <2>2 DEF Completes
<1>2. CASE p \in Recreated /\ todo = <<drop, create>>
  <2>1. DOMAIN todo = {1, 2} /\ todo[1] = drop /\ todo[2] = create
    BY <1>2
  <2>2. Range(todo) = {drop, create}
    BY <2>1 DEF Range
  <2>3. todo \in Seq(Range(todo))
    BY <1>2, <2>2
  <2>4. Completes(todo, expected)
    BY <2>1 DEF Completes
  <2> QED
    BY <1>2, <2>2, <2>3, <2>4
<1>3. CASE todo = <<change>>
  <2>1. DOMAIN todo = {1} /\ todo[1] = change
    BY <1>3
  <2>2. Range(todo) = {change}
    BY <2>1 DEF Range
  <2>3. todo \in Seq(Range(todo))
    BY <1>3, <2>2
  <2>4. Completes(todo, expected)
    BY <2>1 DEF Completes
  <2> QED
    BY <2>2, <2>3, <2>4
<1>4. todo = <<>> \/ (p \in Recreated /\ todo = <<drop, create>>) \/ todo = <<change>>
  BY OperationCases
<1> QED
  BY <1>1, <1>2, <1>3, <1>4

LEMMA ConcatCompletes ==
    ASSUME NEW S, NEW a \in Seq(S), NEW b \in Seq(S), NEW expected,
           Completes(a, expected), Completes(b, expected)
    PROVE  Completes(a \o b, expected)
<1> DEFINE c == a \o b
           m == Len(a)
           n == Len(b)
<1>1. /\ m \in Nat /\ n \in Nat /\ DOMAIN a = 1..m /\ DOMAIN b = 1..n
      /\ DOMAIN c = 1..(m + n)
      /\ \A i \in 1..m : c[i] = a[i]
      /\ \A i \in 1..n : c[m + i] = b[i]
  OBVIOUS
<1> HIDE DEF c, m, n
<1>2. ASSUME NEW i \in 1..(m + n), c[i].new # expected[c[i].part]
      PROVE  \E j \in 1..(m + n) : j > i /\ c[j].part = c[i].part
  <2>1. CASE i \in 1..m
    <3>1. PICK j \in 1..m : j > i /\ a[j].part = a[i].part
      BY <1>1, <1>2, <2>1 DEF Completes
    <3>2. j \in 1..(m + n) /\ c[j] = a[j] /\ c[i] = a[i]
      BY <1>1, <2>1
    <3> QED
      BY <3>1, <3>2
  <2>2. CASE i \notin 1..m
    <3>1. i - m \in 1..n /\ m + (i - m) = i
      BY <1>1, <2>2
    <3>2. c[i] = b[i - m]
      BY <1>1, <3>1
    <3>3. PICK j \in 1..n : j > i - m /\ b[j].part = b[i - m].part
      BY <1>1, <1>2, <3>1, <3>2 DEF Completes
    <3>4. m + j \in 1..(m + n) /\ m + j > i /\ c[m + j] = b[j]
      BY <1>1, <3>1, <3>3
    <3> QED
      BY <3>2, <3>3, <3>4
  <2> QED
    BY <2>1, <2>2
<1>3. Completes(c, expected)
  BY <1>1, <1>2 DEF Completes
<1> QED
  BY <1>3 DEF c

Plannable(todo, expected, observed) ==
    /\ todo \in Seq(Statements(expected, observed))
    /\ Completes(todo, expected)

\* The plan of a repair: statements of the findings, complete for each of them.
LEMMA ProjectedIsComplete ==
    ASSUME NEW expected, NEW observed
    PROVE  /\ Plannable(Projected(expected, observed), expected, observed)
           /\ StillToDo(Projected(expected, observed), expected, observed)
<1> DEFINE S == Statements(expected, observed)
           Part(p) == IF p \in Findings(expected, observed)
                        THEN Operations(p, observed[p], expected[p]) ELSE <<>>
           seqs == [i \in DOMAIN Walk |-> Part(Walk[i])]
           n == Len(Walk)
           T == {todo \in Seq(S) : Completes(todo, expected)}
<1>1. Projected(expected, observed) = FlattenSeq(seqs)
  BY DEF Projected
<1>2. n \in Nat /\ DOMAIN Walk = 1..n /\ \A i \in 1..n : Walk[i] \in Parts
  BY PartsAssumption
<1>3. ASSUME NEW p \in Parts
      PROVE  Part(p) \in T
  <2>1. CASE p \in Findings(expected, observed)
    <3> DEFINE todo == Operations(p, observed[p], expected[p])
    <3>1. Range(todo) \subseteq S
      BY <2>1 DEF Statements
    <3>2. todo \in Seq(Range(todo)) /\ Completes(todo, expected)
      BY OneFindingCompletes
    <3>3. todo \in Seq(S)
      BY <3>1, <3>2
    <3> QED
      BY <2>1, <3>2, <3>3
  <2>2. CASE p \notin Findings(expected, observed)
    <3>1. DOMAIN <<>> = {} /\ <<>> \in Seq(S)
      OBVIOUS
    <3>2. Completes(<<>>, expected)
      BY <3>1 DEF Completes
    <3> QED
      BY <2>2, <3>1, <3>2
  <2> QED
    BY <2>1, <2>2
<1>4. /\ DOMAIN seqs = 1..n /\ Len(seqs) = n
      /\ \A i \in 1..n : seqs[i] = Part(Walk[i])
      /\ n = 0 => seqs = <<>>
  BY <1>2
<1>5. \A i \in 1..n : seqs[i] \in T
  BY <1>2, <1>3, <1>4
<1> HIDE DEF Part, seqs, n
<1>6. SequencesOver(seqs, S, n)
  BY <1>4, <1>5 DEF SequencesOver
<1>7. <<>> \in T
  <2>1. DOMAIN <<>> = {} /\ <<>> \in Seq(S)
    OBVIOUS
  <2> QED
    BY <2>1 DEF Completes
<1>8. ASSUME NEW a \in T, NEW b \in T
      PROVE  a \o b \in T
  <2>1. a \in Seq(S) /\ b \in Seq(S) /\ a \o b \in Seq(S)
    OBVIOUS
  <2>2. Completes(a \o b, expected)
    BY <2>1, ConcatCompletes
  <2> QED
    BY <2>1, <2>2
<1>9. FlattenSeq(seqs) \in T
  <2> HIDE DEF T, S
  <2> QED
    BY <1>2, <1>4, <1>5, <1>6, <1>7, <1>8, FlattenHas
<1>10. ASSUME NEW p \in Parts \ Unrepairable, Drifts(p, expected[p], observed[p])
       PROVE  \E i \in DOMAIN FlattenSeq(seqs) : FlattenSeq(seqs)[i].part = p
  <2>1. PICK i \in 1..n : Walk[i] = p
    BY <1>2 DEF Parts
  <2>2. p \in Findings(expected, observed)
    BY <1>10 DEF Findings
  <2>3. seqs[i] = Operations(p, observed[p], expected[p])
    BY <1>4, <2>1, <2>2 DEF Part
  <2>4. \E op \in Range(Operations(p, observed[p], expected[p])) : op.part = p
    BY <1>10, OneFindingCompletes
  <2>5. PICK op \in Range(seqs[i]) : op.part = p
    BY <2>3, <2>4
  <2>6. op \in Range(FlattenSeq(seqs))
    BY <1>2, <1>6, <2>1, <2>5, FlattenHolds
  <2> QED
    BY <2>5, <2>6 DEF Range
<1> QED
  BY <1>1, <1>9, <1>10 DEF Plannable, StillToDo

LEMMA StatementFacts ==
    ASSUME NEW expected, NEW observed, NEW op \in Statements(expected, observed)
    PROVE  /\ op.part \in Parts
           /\ op.new = Absent => op.part \in Recreated
           /\ op.part \in Rows => op.old = observed[op.part] /\ op.new # Absent
<1>1. PICK p \in Findings(expected, observed) : op \in Range(Operations(p, observed[p], expected[p]))
  BY DEF Statements
<1>2. p \in Parts /\ expected[p] # Absent
  BY <1>1 DEF Findings, Drifts
<1>3. /\ op.part = p
      /\ p \notin Recreated => op.old = observed[p] /\ op.new = expected[p]
  BY <1>1, OperationFacts
<1> QED
  BY <1>2, <1>3, PartsAssumption

\* A statement of a repair changes its part only: tables are not dropped.
LEMMA StatementEffect ==
    ASSUME NEW expected, NEW observed, NEW op \in Statements(expected, observed), NEW db,
           NEW p \in Parts
    PROVE  Effect(op, db)[p] = IF p = op.part THEN op.new ELSE db[p]
<1>1. CASE op.new = Absent /\ p \in Rows /\ TableOf[p] = op.part
  <2>1. op.part \in Recreated
    BY <1>1, StatementFacts
  <2>2. TableOf[p] \notin Recreated
    BY <1>1, PartsAssumption
  <2> QED
    BY <1>1, <2>1, <2>2
<1>2. CASE ~(op.new = Absent /\ p \in Rows /\ TableOf[p] = op.part)
  BY <1>2 DEF Effect
<1> QED
  BY <1>1, <1>2

LEMMA TailFacts ==
    ASSUME NEW S, NEW todo \in Seq(S), todo # <<>>
    PROVE  LET n == Len(todo)
               rest == Tail(todo)
           IN  /\ n \in Nat /\ n >= 1 /\ DOMAIN todo = 1..n
               /\ Head(todo) \in S /\ Head(todo) = todo[1] /\ rest \in Seq(S)
               /\ DOMAIN rest = 1..n-1
               /\ \A i \in 1..n-1 : i + 1 \in 1..n /\ rest[i] = todo[i + 1]
               /\ \A j \in 1..n : j > 1 => j - 1 \in 1..n-1 /\ rest[j - 1] = todo[j]
<1> DEFINE n == Len(todo)
           rest == Tail(todo)
<1>1. /\ n \in Nat /\ n >= 1 /\ DOMAIN todo = 1..n
      /\ Head(todo) \in S /\ Head(todo) = todo[1] /\ rest \in Seq(S)
      /\ DOMAIN rest = 1..n-1
      /\ \A i \in 1..n-1 : rest[i] = todo[i + 1]
  OBVIOUS
<1> HIDE DEF rest, n
<1>2. ASSUME NEW j \in 1..n, j > 1
      PROVE  j - 1 \in 1..n-1 /\ rest[j - 1] = todo[j]
  <2>1. j - 1 \in 1..n-1 /\ (j - 1) + 1 = j
    BY <1>1, <1>2
  <2> QED
    BY <1>1, <2>1
<1>3. \A i \in 1..n-1 : i + 1 \in 1..n
  BY <1>1
<1> QED
  BY <1>1, <1>2, <1>3 DEF rest, n

\* What a plan has left is still a plan.
LEMMA TailPlannable ==
    ASSUME NEW expected, NEW observed, NEW todo, todo # <<>>,
           Plannable(todo, expected, observed)
    PROVE  Plannable(Tail(todo), expected, observed)
<1> DEFINE S == Statements(expected, observed)
           rest == Tail(todo)
           n == Len(todo)
<1>1. todo \in Seq(S)
  BY DEF Plannable
<1> HIDE DEF S
<1>2. /\ n \in Nat /\ n >= 1 /\ DOMAIN todo = 1..n
      /\ rest \in Seq(S) /\ DOMAIN rest = 1..n-1
      /\ \A i \in 1..n-1 : i + 1 \in 1..n /\ rest[i] = todo[i + 1]
      /\ \A j \in 1..n : j > 1 => j - 1 \in 1..n-1 /\ rest[j - 1] = todo[j]
  BY <1>1, TailFacts
<1> HIDE DEF rest, n
<1>3. ASSUME NEW i \in 1..n-1, rest[i].new # expected[rest[i].part]
      PROVE  \E j \in 1..n-1 : j > i /\ rest[j].part = rest[i].part
  <2>1. PICK j \in 1..n : j > i + 1 /\ todo[j].part = todo[i + 1].part
    BY <1>2, <1>3 DEF Plannable, Completes
  <2>2. j > 1 /\ j - 1 > i
    BY <1>2, <2>1
  <2> QED
    BY <1>2, <2>1, <2>2
<1>4. Completes(rest, expected)
  BY <1>2, <1>3 DEF Completes
<1> QED
  BY <1>2, <1>4 DEF Plannable, rest, S

\* One statement nearer to the end of the plan.
LEMMA OneStatement ==
    ASSUME NEW expected, NEW observed, NEW todo, NEW db, NEW next, todo # <<>>,
           Plannable(todo, expected, observed), StillToDo(todo, expected, db),
           \A p \in Parts : next[p] = Effect(Head(todo), db)[p]
    PROVE  StillToDo(Tail(todo), expected, next)
<1> DEFINE S == Statements(expected, observed)
           op == Head(todo)
           rest == Tail(todo)
           n == Len(todo)
<1>1. todo \in Seq(S)
  BY DEF Plannable
<1> HIDE DEF S
<1>2. /\ n \in Nat /\ n >= 1 /\ DOMAIN todo = 1..n
      /\ op \in S /\ op = todo[1] /\ DOMAIN rest = 1..n-1
      /\ \A j \in 1..n : j > 1 => j - 1 \in 1..n-1 /\ rest[j - 1] = todo[j]
  BY <1>1, TailFacts
<1> HIDE DEF op, rest, n
<1>3. ASSUME NEW p \in Parts \ Unrepairable, Drifts(p, expected[p], next[p])
      PROVE  \E i \in 1..n-1 : rest[i].part = p
  <2>1. next[p] = IF p = op.part THEN op.new ELSE db[p]
    <3>1. next[p] = Effect(op, db)[p]
      BY DEF op
    <3> QED
      BY <1>2, <3>1, StatementEffect DEF S
  <2>2. PICK j \in 1..n : j > 1 /\ todo[j].part = p
    <3>1. CASE p = op.part
      <4>1. op.new # expected[p]
        BY <1>3, <2>1, <3>1 DEF Drifts
      <4> QED
        BY <1>2, <3>1, <4>1 DEF Plannable, Completes
    <3>2. CASE p # op.part
      <4>1. PICK i \in 1..n : todo[i].part = p
        BY <1>2, <1>3, <2>1, <3>2 DEF StillToDo
      <4>2. i # 1
        BY <1>2, <3>2, <4>1
      <4> QED
        BY <4>1, <4>2
    <3> QED
      BY <3>1, <3>2
  <2> QED
    BY <1>2, <2>2
<1>4. StillToDo(rest, expected, next)
  BY <1>2, <1>3 DEF StillToDo
<1> QED
  BY <1>4 DEF rest

----------------------------------------------------------------------------
(* What the commands know of the database.                                  *)

AdoptStages  == {"inspect", "rows", "judge", "move"}
RepairStages == {"lock", "exec", "inspect2", "rows2", "pending2"}

StageOk(r, at, command) ==
    /\ at \in {"idle", "plan", "inspect", "rows", "judge", "pending", "move"} \cup RepairStages
    /\ at # "idle" => command \in Commands[r]
    /\ at \in {"plan", "judge"} => command.kind = "adopt"
    /\ at = "pending" => command.kind # "adopt"
    /\ at \in {"inspect", "rows", "pending"} => command.kind # "migrate"
    /\ at = "move" => command.kind \in {"adopt", "migrate"}
    /\ at \in RepairStages => command.kind = "repair"
    /\ command.kind = "adopt" /\ at \in AdoptStages =>
           command.target \in Nat \ {0} /\ DOMAIN History[command.target] \cap Opaque = {}

\* Statements are left exactly while a repair is about to execute or executes.
TodoOk(r, at, read, todo) ==
    IF at \in {"lock", "exec"} THEN Plannable(todo, Expected(r), read) ELSE todo = <<>>

Judged(command) == IF command.kind = "adopt" THEN Adopted(command.target) ELSE Parts

\* What was read is there.
ReadOk(r, at, command, read, db) ==
    /\ at \in {"rows", "rows2"} => \A p \in Parts \ Rows : read[p] = db[p]
    /\ at \in {"judge", "pending", "pending2"} =>
           \A p \in Parts \cap Judged(command) : Expected(r)[p] # Absent => read[p] = db[p]

\* What has to be repaired has a statement, until there is nothing left.
RestoreOk(r, at, todo, db) == at \in RepairStages => StillToDo(todo, Expected(r), db)

Proved(r, target, db) ==
    target = Checkout[r] =>
        \A p \in DOMAIN History[target] :
            History[target][p] # Absent => db[p] = History[target][p]

AdoptOk(r, at, command, db) ==
    command.kind = "adopt" /\ at = "move" => Proved(r, command.target, db)

\* What was reported is so.
ReportOk(r, at, command, rep, db) ==
    at = "idle" /\ rep.result = "ok" =>
        /\ command.kind = "verify" => rep.findings = Findings(Expected(r), db)
        /\ command.kind = "repair" /\ rep.applied =>
               /\ rep.findings = Findings(Expected(r), db)
               /\ rep.findings \subseteq Unrepairable
        /\ command.kind = "adopt" => Proved(r, command.target, db)

Known(r, at, command, read, todo, rep, db) ==
    /\ ReadOk(r, at, command, read, db)
    /\ RestoreOk(r, at, todo, db)
    /\ AdoptOk(r, at, command, db)
    /\ ReportOk(r, at, command, rep, db)

RunnerOk(r, at, command, read, todo, rep, quiet, db) ==
    /\ StageOk(r, at, command)
    /\ TodoOk(r, at, read, todo)
    /\ quiet => Known(r, at, command, read, todo, rep, db)

\* What r works on: its own transaction, or what everybody sees.
Base(r) == IF pc[r] = "exec" THEN AsItIs(live) ELSE Visible

Shapes ==
    /\ DOMAIN job = Runners /\ DOMAIN seen = Runners /\ DOMAIN report = Runners
    /\ DOMAIN disturbed = Runners
    /\ recorded \in Nat /\ manual \in Nat
    /\ ~Transactional => \A r \in Runners : DOMAIN undo[r] = {}

Ok(r) == RunnerOk(r, pc[r], job[r], seen[r], ops[r], report[r], ~disturbed[r], Base(r))

RInv ==
    /\ Shapes
    /\ \A r \in Runners : Ok(r)

\* What a step that begins and ends no execution leaves visible.
LEMMA VisibleFrame ==
    ASSUME IInv, IInv',
           \A s \in Runners : pc[s] = "exec" <=> pc'[s] = "exec",
           \A s \in Runners : pc[s] = "exec" => undo'[s] = undo[s],
           \A p \in Parts : live'[p] = live[p]
    PROVE  Visible' = Visible
<1>1. CASE \E r \in Runners : pc[r] = "exec"
  <2>1. PICK r \in Runners : pc[r] = "exec"
    BY <1>1
  <2>2. \A s \in Runners : s # r => DOMAIN undo[s] = {} /\ DOMAIN undo'[s] = {}
    BY <2>1 DEF IInv, Shape, ExecutesUnderLock, WorkIsExecuting
  <2>3. /\ Visible = Restored(undo[r], live)
        /\ Visible' = Restored(undo'[r], live')
    BY <2>2, OneOpen, VisibleIs
  <2> QED
    BY <2>1, <2>3 DEF Restored
<1>2. CASE \A s \in Runners : pc[s] # "exec"
  <2>1. \A s \in Runners : DOMAIN undo[s] = {} /\ DOMAIN undo'[s] = {}
    BY <1>2 DEF IInv, WorkIsExecuting
  <2>2. /\ Visible = AsItIs(live)
        /\ Visible' = AsItIs(live')
    BY <2>1, NoneOpen, VisibleIs
  <2> QED
    BY <2>2 DEF AsItIs
<1> QED
  BY <1>1, <1>2

----------------------------------------------------------------------------
(* What a step of one runner means to the others.                           *)

Step(r) == Start(r) \/ Progress(r) \/ Interrupted(r)

\* A failing or dying command leaves visible what was visible.
LEMMA AbortShowsNothing ==
    ASSUME IInv, IInv', NEW s \in Runners, Abort(s), pc' = [pc EXCEPT ![s] = "idle"]
    PROVE  Visible' = Visible
<1>1. CASE pc[s] = "exec"
  <2>1. \A r \in Runners : pc'[r] # "exec"
    BY <1>1 DEF IInv, Shape, ExecutesUnderLock
  <2>2. \A r \in Runners : DOMAIN undo'[r] = {}
    BY <2>1 DEF IInv, WorkIsExecuting
  <2>3. Visible' = AsItIs(live')
    BY <2>2, NoneOpen, VisibleIs
  <2>4. Visible = Restored(undo[s], live)
    BY <1>1, VisibleWhileExecuting
  <2>5. \A p \in Parts : live'[p] = IF p \in DOMAIN undo[s] THEN undo[s][p] ELSE live[p]
    BY DEF Abort
  <2> QED
    BY <2>3, <2>4, <2>5 DEF Restored, AsItIs
<1>2. CASE pc[s] # "exec"
  <2>1. DOMAIN undo[s] = {}
    BY <1>2 DEF IInv, WorkIsExecuting
  <2>2. \A p \in Parts : live'[p] = live[p]
    BY <2>1 DEF Abort
  <2>3. \A r \in Runners : pc[r] = "exec" <=> pc'[r] = "exec"
    BY <1>2 DEF IInv, Shape
  <2>4. \A r \in Runners : pc[r] = "exec" => undo'[r] = undo[r]
    BY <1>2 DEF Abort, IInv, Shape
  <2> QED
    BY <2>2, <2>3, <2>4, VisibleFrame
<1> QED
  BY <1>1, <1>2

LEMMA SameShows ==
    ASSUME UNCHANGED <<live, undo>>
    PROVE  Visible' = Visible
  BY DEF Visible, Uncommitted

\* A step that others can see disturbs them.
LEMMA StepShows ==
    ASSUME IInv, IInv', NEW s \in Runners, Step(s)
    PROVE  Visible' = Visible \/ \A r \in Runners : r # s => disturbed'[r]
<1>1. CASE Start(s) \/ PlanAdoption(s) \/ Inspect(s) \/ InspectRows(s) \/ RowsUnreadable(s)
           \/ Judge(s) \/ ReadPending(s) \/ AcquireLock(s)
  <2>1. UNCHANGED <<live, undo>>
    BY <1>1 DEF Start, PlanAdoption, Inspect, InspectRows, RowsUnreadable, Judge,
       ReadPending, AcquireLock
  <2> QED
    BY <2>1, SameShows
<1>2. CASE Exec(s)
  <2>1. CASE Transactional
    BY <1>2, <2>1, ExecShowsNothing
  <2>2. CASE ~Transactional
    BY <1>2, <2>2 DEF Exec, Disturb
  <2> QED
    BY <2>1, <2>2
<1>3. CASE ExecFails(s) \/ Interrupted(s)
  <2>1. Abort(s) /\ pc' = [pc EXCEPT ![s] = "idle"]
    BY <1>3 DEF ExecFails, Interrupted, Refuse, Return, Goto
  <2> QED
    BY <2>1, AbortShowsNothing
<1>4. CASE Commit(s)
  BY <1>4 DEF Commit, Disturb
<1>5. CASE Move(s)
  <2>1. UNCHANGED <<live, undo>> \/ Disturb(s)
    BY <1>5 DEF Move
  <2> QED
    BY <2>1, SameShows DEF Disturb
<1> QED
  BY <1>1, <1>2, <1>3, <1>4, <1>5 DEF Step, Progress

\* A step leaves the commands of the others where they are.
LEMMA OthersStay ==
    ASSUME IInv, Shapes, NEW s \in Runners, Step(s), NEW r \in Runners, r # s
    PROVE  /\ pc'[r] = pc[r] /\ job'[r] = job[r] /\ seen'[r] = seen[r]
           /\ ops'[r] = ops[r] /\ report'[r] = report[r]
           /\ ~disturbed'[r] => ~disturbed[r]
<1> USE DEF IInv, Shape, Shapes
<1>1. CASE Start(s)
  BY <1>1 DEF Start, Goto
<1>2. CASE PlanAdoption(s) \/ RowsUnreadable(s) \/ Judge(s)
  BY <1>2 DEF PlanAdoption, RowsUnreadable, Judge, Refuse, Return, Goto
<1>3. CASE Inspect(s)
  BY <1>3 DEF Inspect, Goto
<1>4. CASE InspectRows(s)
  BY <1>4 DEF InspectRows, Goto
<1>5. CASE ReadPending(s)
  <2>1. \/ Refuse(s)
        \/ \E applied, findings, skipped : Return(s, "ok", applied, findings, skipped)
        \/ Decide(s)
    BY <1>5 DEF ReadPending
  <2>2. UNCHANGED <<job, disturbed>>
    BY <1>5 DEF ReadPending
  <2> QED
    BY <2>1, <2>2 DEF Decide, Refuse, Return, Goto
<1>6. CASE AcquireLock(s)
  BY <1>6 DEF AcquireLock, Goto
<1>7. CASE Exec(s)
  BY <1>7 DEF Exec, Disturb
<1>8. CASE ExecFails(s) \/ Interrupted(s)
  BY <1>8 DEF ExecFails, Interrupted, Refuse, Return, Goto
<1>9. CASE Commit(s)
  BY <1>9 DEF Commit, Goto, Disturb
<1>10. CASE Move(s)
  BY <1>10 DEF Move, Refuse, Return, Goto, Disturb
<1> QED
  BY <1>1, <1>2, <1>3, <1>4, <1>5, <1>6, <1>7, <1>8, <1>9, <1>10 DEF Step, Progress

\* While r executes, it alone changes the database.
LEMMA OthersLeaveExecution ==
    ASSUME IInv, NEW s \in Runners, Step(s), NEW r \in Runners, r # s, pc[r] = "exec",
           NEW p \in Parts
    PROVE  live'[p] = live[p]
<1>1. lock = r /\ lock # NoRunner /\ pc[s] # "exec" /\ DOMAIN undo[s] = {}
  BY CommandsAssumption DEF IInv, ExecutesUnderLock, WorkIsExecuting
<1>2. CASE Start(s) \/ PlanAdoption(s) \/ Inspect(s) \/ InspectRows(s) \/ RowsUnreadable(s)
           \/ Judge(s) \/ ReadPending(s)
  BY <1>2 DEF Start, PlanAdoption, Inspect, InspectRows, RowsUnreadable, Judge, ReadPending
<1>3. ~(AcquireLock(s) \/ Exec(s) \/ ExecFails(s) \/ Commit(s) \/ Move(s))
  BY <1>1 DEF AcquireLock, Exec, ExecFails, Commit, Move
<1>4. CASE Interrupted(s)
  BY <1>1, <1>4 DEF Interrupted, Abort
<1> QED
  BY <1>2, <1>3, <1>4 DEF Step, Progress

LEMMA OthersOk ==
    ASSUME IInv, IInv', RInv, NEW s \in Runners, Step(s), NEW r \in Runners, r # s
    PROVE  Ok(r)'
<1>1. Ok(r)
  BY DEF RInv
<1>2. /\ pc'[r] = pc[r] /\ job'[r] = job[r] /\ seen'[r] = seen[r]
      /\ ops'[r] = ops[r] /\ report'[r] = report[r]
      /\ ~disturbed'[r] => ~disturbed[r]
  BY OthersStay DEF RInv
<1>3. ASSUME ~disturbed'[r]
      PROVE  Base(r)' = Base(r)
  <2>1. CASE pc[r] = "exec"
    <3>1. \A p \in Parts : live'[p] = live[p]
      BY <2>1, OthersLeaveExecution
    <3> QED
      BY <1>2, <2>1, <3>1 DEF Base, AsItIs
  <2>2. CASE pc[r] # "exec"
    <3>1. Visible' = Visible
      BY <1>3, StepShows
    <3> QED
      BY <1>2, <2>2, <3>1 DEF Base
  <2> QED
    BY <2>1, <2>2
<1> QED
  BY <1>1, <1>2, <1>3 DEF Ok, RunnerOk

----------------------------------------------------------------------------
(* What a step means to the command that takes it.                          *)

LEMMA InitRInv == Init => RInv
<1> SUFFICES ASSUME Init PROVE RInv
  OBVIOUS
<1>1. Shapes
  BY HistoryAssumption DEF Init, Shapes, NoUndo
<1>2. ASSUME NEW r \in Runners
      PROVE  Ok(r)
  <2>1. pc[r] = "idle" /\ ops[r] = <<>> /\ report[r].result = "none"
    BY DEF Init, NoReport
  <2> QED
    BY <2>1 DEF Ok, RunnerOk, StageOk, TodoOk, Known, ReadOk, RestoreOk, AdoptOk, ReportOk,
       RepairStages, AdoptStages
<1> QED
  BY <1>1, <1>2 DEF RInv

\* A refused command claims nothing.
LEMMA RefusedOk ==
    ASSUME Shapes, IInv, NEW r \in Runners, Refuse(r)
    PROVE  Ok(r)'
<1>1. pc'[r] = "idle" /\ ops'[r] = <<>> /\ report'[r].result = "failed"
  BY DEF Refuse, Return, Goto, Shapes, IInv, Shape
<1> QED
  BY <1>1 DEF Ok, RunnerOk, StageOk, TodoOk, Known, ReadOk, RestoreOk, AdoptOk, ReportOk,
     RepairStages, AdoptStages

LEMMA StartOk ==
    ASSUME IInv, RInv, NEW r \in Runners, Start(r)
    PROVE  Ok(r)'
<1>1. pc[r] = "idle" /\ ops'[r] = <<>>
  BY DEF Start, RInv, Ok, RunnerOk, TodoOk
<1>2. PICK c \in Commands[r] :
         /\ job' = [job EXCEPT ![r] = c]
         /\ Goto(r, CASE c.kind \in {"verify", "repair"} -> "inspect"
                      [] c.kind = "adopt"                -> "plan"
                      [] c.kind = "migrate"              -> "move")
  BY DEF Start
<1>3. job'[r] = c
  BY <1>2 DEF RInv, Shapes
<1>4. c.kind \in {"verify", "repair", "adopt", "migrate"}
  BY CommandsAssumption DEF Kinds
<1>5. \/ c.kind \in {"verify", "repair"} /\ pc'[r] = "inspect"
      \/ c.kind = "adopt" /\ pc'[r] = "plan"
      \/ c.kind = "migrate" /\ pc'[r] = "move"
  <2>1. CASE c.kind \in {"verify", "repair"}
    BY <1>2, <2>1 DEF Goto, IInv, Shape
  <2>2. CASE c.kind = "adopt"
    BY <1>2, <2>2 DEF Goto, IInv, Shape
  <2>3. CASE c.kind = "migrate"
    BY <1>2, <2>3 DEF Goto, IInv, Shape
  <2> QED
    BY <1>4, <2>1, <2>2, <2>3
<1>6. StageOk(r, pc'[r], c)
  BY <1>5 DEF StageOk, AdoptStages, RepairStages
<1>7. TodoOk(r, pc'[r], seen'[r], ops'[r])
  BY <1>1, <1>5 DEF TodoOk
<1>8. Known(r, pc'[r], c, seen'[r], ops'[r], report'[r], Base(r)')
  BY <1>5 DEF Known, ReadOk, RestoreOk, AdoptOk, ReportOk, RepairStages
<1> QED
  BY <1>3, <1>6, <1>7, <1>8 DEF Ok, RunnerOk

LEMMA PlanAdoptionOk ==
    ASSUME IInv, RInv, NEW r \in Runners, PlanAdoption(r)
    PROVE  Ok(r)'
<1>1. CASE Refuse(r)
  BY <1>1, RefusedOk DEF RInv
<1>2. CASE ~Refuse(r)
  <2>1. /\ pc[r] = "plan" /\ pc'[r] = "inspect" /\ job' = job /\ ops' = ops
        /\ recorded \in Nat /\ job[r].target = recorded + 1
        /\ DOMAIN History[job[r].target] \cap Opaque = {}
    BY <1>2 DEF PlanAdoption, Goto, IInv, Shape, RInv, Shapes
  <2>2. StageOk(r, "plan", job[r]) /\ ops[r] = <<>>
    BY <2>1 DEF RInv, Ok, RunnerOk, TodoOk
  <2>3. StageOk(r, "inspect", job[r])
    BY <2>1, <2>2 DEF StageOk, AdoptStages, RepairStages
  <2>4. TodoOk(r, "inspect", seen'[r], ops'[r])
    BY <2>1, <2>2 DEF TodoOk
  <2>5. Known(r, "inspect", job[r], seen'[r], ops'[r], report'[r], Base(r)')
    BY DEF Known, ReadOk, RestoreOk, AdoptOk, ReportOk, RepairStages
  <2> QED
    BY <2>1, <2>3, <2>4, <2>5 DEF Ok, RunnerOk
<1> QED
  BY <1>1, <1>2

\* Outside of an execution, and when nothing moves, what r sees stays.
LEMMA BaseStays ==
    ASSUME NEW r \in Runners, UNCHANGED <<live, undo>>, pc[r] # "exec", pc'[r] # "exec"
    PROVE  Base(r) = Visible /\ Base(r)' = Visible
  BY SameShows DEF Base

LEMMA InspectOk ==
    ASSUME IInv, RInv, NEW r \in Runners, Inspect(r)
    PROVE  Ok(r)'
<1>1. /\ pc[r] \in {"inspect", "inspect2"}
      /\ pc'[r] = (IF pc[r] = "inspect" THEN "rows" ELSE "rows2")
      /\ job' = job /\ ops' = ops /\ disturbed' = disturbed
      /\ \A p \in Parts \ Rows : seen'[r][p] = Visible[p]
  BY DEF Inspect, Goto, IInv, Shape, RInv, Shapes
<1>2. Base(r) = Visible /\ Base(r)' = Visible
  BY <1>1, BaseStays DEF Inspect
<1>3. Ok(r)
  BY DEF RInv
<1>4. StageOk(r, pc[r], job[r]) /\ TodoOk(r, pc[r], seen[r], ops[r])
  BY <1>3 DEF Ok, RunnerOk
<1>5. StageOk(r, pc'[r], job[r])
  BY <1>1, <1>4 DEF StageOk, AdoptStages, RepairStages
<1>6. TodoOk(r, pc'[r], seen'[r], ops[r])
  BY <1>1, <1>4 DEF TodoOk
<1>7. ASSUME ~disturbed[r]
      PROVE  Known(r, pc'[r], job[r], seen'[r], ops[r], report'[r], Visible)
  <2>1. ReadOk(r, pc'[r], job[r], seen'[r], Visible)
    BY <1>1 DEF ReadOk
  <2>2. RestoreOk(r, pc[r], ops[r], Visible)
    BY <1>2, <1>3, <1>7 DEF Ok, RunnerOk, Known
  <2>3. RestoreOk(r, pc'[r], ops[r], Visible)
    BY <1>1, <2>2 DEF RestoreOk, RepairStages
  <2>4. AdoptOk(r, pc'[r], job[r], Visible) /\ ReportOk(r, pc'[r], job[r], report'[r], Visible)
    BY <1>1 DEF AdoptOk, ReportOk
  <2> QED
    BY <2>1, <2>3, <2>4 DEF Known
<1> QED
  BY <1>1, <1>2, <1>5, <1>6, <1>7 DEF Ok, RunnerOk

LEMMA InspectRowsOk ==
    ASSUME IInv, RInv, NEW r \in Runners, InspectRows(r)
    PROVE  Ok(r)'
<1> DEFINE declared == {p \in Rows \cap Selected(r) : Expected(r)[p] # Absent}
<1>1. /\ pc[r] \in {"rows", "rows2"}
      /\ job' = job /\ ops' = ops /\ disturbed' = disturbed
      /\ \A p \in Parts : seen'[r][p] = IF p \in declared THEN Visible[p] ELSE seen[r][p]
  BY DEF InspectRows, RInv, Shapes
<1>2. Ok(r)
  BY DEF RInv
<1>3. StageOk(r, pc[r], job[r]) /\ TodoOk(r, pc[r], seen[r], ops[r])
  BY <1>2 DEF Ok, RunnerOk
<1>4. /\ Goto(r, CASE pc[r] = "rows2"         -> "pending2"
                   [] job[r].kind = "adopt"   -> "judge"
                   [] OTHER                   -> "pending")
  BY DEF InspectRows
<1>5. \/ pc[r] = "rows2" /\ pc'[r] = "pending2"
      \/ pc[r] = "rows" /\ job[r].kind = "adopt" /\ pc'[r] = "judge"
      \/ pc[r] = "rows" /\ job[r].kind # "adopt" /\ pc'[r] = "pending"
  <2>1. CASE pc[r] = "rows2"
    <3>1. job[r].kind # "adopt"
      BY <1>3, <2>1 DEF StageOk, RepairStages
    <3>2. (CASE pc[r] = "rows2"       -> "pending2"
             [] job[r].kind = "adopt" -> "judge"
             [] OTHER                 -> "pending") = "pending2"
      BY <2>1, <3>1
    <3> QED
      BY <1>4, <2>1, <3>2 DEF Goto, IInv, Shape
  <2>2. CASE pc[r] = "rows" /\ job[r].kind = "adopt"
    <3>1. pc[r] # "rows2"
      BY <2>2
    <3>2. (CASE pc[r] = "rows2"       -> "pending2"
             [] job[r].kind = "adopt" -> "judge"
             [] OTHER                 -> "pending") = "judge"
      BY <2>2, <3>1
    <3> QED
      BY <1>4, <2>2, <3>2 DEF Goto, IInv, Shape
  <2>3. CASE pc[r] = "rows" /\ job[r].kind # "adopt"
    <3>1. pc[r] # "rows2"
      BY <2>3
    <3>2. (CASE pc[r] = "rows2"       -> "pending2"
             [] job[r].kind = "adopt" -> "judge"
             [] OTHER                 -> "pending") = "pending"
      BY <2>3, <3>1
    <3> QED
      BY <1>4, <2>3, <3>2 DEF Goto, IInv, Shape
  <2> QED
    BY <1>1, <2>1, <2>2, <2>3
<1>6. Base(r) = Visible /\ Base(r)' = Visible
  <2>1. pc[r] # "exec" /\ pc'[r] # "exec"
    BY <1>1, <1>5
  <2> QED
    BY <2>1, BaseStays DEF InspectRows
<1>7. StageOk(r, pc'[r], job[r])
  BY <1>3, <1>5 DEF StageOk, AdoptStages, RepairStages
<1>8. TodoOk(r, pc'[r], seen'[r], ops[r])
  BY <1>3, <1>5 DEF TodoOk
<1>9. ASSUME ~disturbed[r]
      PROVE  Known(r, pc'[r], job[r], seen'[r], ops[r], report'[r], Visible)
  <2>1. /\ ReadOk(r, pc[r], job[r], seen[r], Visible)
        /\ RestoreOk(r, pc[r], ops[r], Visible)
    BY <1>2, <1>6, <1>9 DEF Ok, RunnerOk, Known
  <2>2. ASSUME NEW p \in Parts \cap Judged(job[r]), Expected(r)[p] # Absent
        PROVE  seen'[r][p] = Visible[p]
    <3>1. CASE p \in Rows
      <4>1. p \in Selected(r)
        BY <2>2 DEF Selected, Judged
      <4> QED
        BY <1>1, <2>2, <3>1, <4>1
    <3>2. CASE p \notin Rows
      <4>1. seen[r][p] = Visible[p]
        BY <1>1, <2>1, <3>2 DEF ReadOk
      <4> QED
        BY <1>1, <3>2, <4>1
    <3> QED
      BY <3>1, <3>2
  <2>3. ReadOk(r, pc'[r], job[r], seen'[r], Visible)
    BY <1>5, <2>2 DEF ReadOk
  <2>4. RestoreOk(r, pc'[r], ops[r], Visible)
    BY <1>5, <2>1 DEF RestoreOk, RepairStages
  <2>5. AdoptOk(r, pc'[r], job[r], Visible) /\ ReportOk(r, pc'[r], job[r], report'[r], Visible)
    BY <1>5 DEF AdoptOk, ReportOk
  <2> QED
    BY <2>3, <2>4, <2>5 DEF Known
<1> QED
  BY <1>1, <1>6, <1>7, <1>8, <1>9 DEF Ok, RunnerOk

\* What the last migration touches, the replay of the catalog has from it.
LEMMA LastReplay ==
    ASSUME NEW k \in 1..Len(History), NEW p \in DOMAIN History[k]
    PROVE  p \in Parts /\ Replay(k)[p] = History[k][p]
<1>1. PICK touched \in SUBSET Parts : History[k] \in [touched -> Outcome]
  <2> DEFINE S == UNION {[touched -> Outcome] : touched \in SUBSET Parts}
  <2>1. History \in Seq(S)
    BY HistoryAssumption
  <2> HIDE DEF S
  <2>2. History[k] \in S
    BY <2>1
  <2> QED
    BY <2>2 DEF S
<1>2. p \in Parts
  BY <1>1
<1> DEFINE touching == {i \in 1..k : p \in DOMAIN History[i]}
<1>3. k \in touching /\ \A j \in touching : j <= k
  BY HistoryAssumption
<1>4. \A i \in touching : (\A j \in touching : j <= i) => i = k
  BY <1>3, HistoryAssumption
<1>5. (CHOOSE i \in touching : \A j \in touching : j <= i) = k
  BY <1>3, <1>4
<1>6. Replay(k)[p] = History[CHOOSE i \in touching : \A j \in touching : j <= i][p]
  BY <1>2, <1>3 DEF Replay
<1> QED
  BY <1>2, <1>5, <1>6

LEMMA JudgeOk ==
    ASSUME IInv, RInv, NEW r \in Runners, Judge(r)
    PROVE  Ok(r)'
<1>1. CASE Refuse(r)
  BY <1>1, RefusedOk DEF RInv
<1>2. CASE ~Refuse(r)
  <2> DEFINE target == job[r].target
  <2>1. /\ pc[r] = "judge" /\ pc'[r] = "move" /\ job' = job /\ ops' = ops
        /\ disturbed' = disturbed /\ AdoptionDrift(r) = {}
    BY <1>2 DEF Judge, Goto, IInv, Shape
  <2>2. Base(r) = Visible /\ Base(r)' = Visible
    BY <2>1, BaseStays DEF Judge
  <2>3. Ok(r)
    BY DEF RInv
  <2>4. StageOk(r, "judge", job[r]) /\ ops[r] = <<>>
    BY <2>1, <2>3 DEF Ok, RunnerOk, TodoOk
  <2>5. /\ job[r].kind = "adopt" /\ target \in Nat \ {0}
        /\ DOMAIN History[target] \cap Opaque = {}
    BY <2>4 DEF StageOk, AdoptStages
  <2>6. StageOk(r, "move", job[r])
    BY <2>4, <2>5 DEF StageOk, AdoptStages, RepairStages
  <2>7. TodoOk(r, "move", seen'[r], ops[r])
    BY <2>4 DEF TodoOk
  <2>8. ASSUME ~disturbed[r]
        PROVE  Proved(r, target, Visible)
    <3> SUFFICES ASSUME target = Checkout[r], NEW p \in DOMAIN History[target],
                        History[target][p] # Absent
                 PROVE  Visible[p] = History[target][p]
      BY DEF Proved
    <3>1. target \in 1..Len(History)
      BY <2>5, HistoryAssumption
    <3>2. p \in Parts /\ Expected(r)[p] = History[target][p]
      BY <3>1, LastReplay DEF Expected
    <3>3. p \in Adopted(target)
      BY <3>2 DEF Adopted
    <3>4. seen[r][p] = Visible[p]
      <4>1. ReadOk(r, "judge", job[r], seen[r], Visible)
        BY <2>1, <2>2, <2>3, <2>8 DEF Ok, RunnerOk, Known
      <4> QED
        BY <2>5, <3>2, <3>3, <4>1 DEF ReadOk, Judged
    <3>5. ~Drifts(p, Expected(r)[p], seen[r][p])
      BY <2>1, <3>2, <3>3 DEF AdoptionDrift, Found, Findings
    <3>6. p \notin Opaque
      BY <2>5
    <3> QED
      BY <3>2, <3>4, <3>5, <3>6 DEF Drifts
  <2>9. ASSUME ~disturbed[r]
        PROVE  Known(r, "move", job[r], seen'[r], ops[r], report'[r], Visible)
    BY <2>8, <2>9 DEF Known, ReadOk, RestoreOk, AdoptOk, ReportOk, RepairStages
  <2> QED
    BY <2>1, <2>2, <2>6, <2>7, <2>9 DEF Ok, RunnerOk
<1> QED
  BY <1>1, <1>2

\* When everything expected was read as it is, what was found is what there is.
LEMMA FindingsAsRead ==
    ASSUME NEW expected, NEW read, NEW db,
           \A p \in Parts : expected[p] # Absent => read[p] = db[p]
    PROVE  Findings(expected, read) = Findings(expected, db)
  BY DEF Findings, Drifts

\* With nothing left to do, what is found has no repair.
LEMMA NothingToDo ==
    ASSUME NEW expected, NEW db, StillToDo(<<>>, expected, db)
    PROVE  Findings(expected, db) \subseteq Unrepairable
<1>1. DOMAIN <<>> = {}
  OBVIOUS
<1> QED
  BY <1>1 DEF StillToDo, Findings

\* A command that returns a report that is so.
LEMMA ReturnOk ==
    ASSUME Shapes, IInv, NEW r \in Runners, NEW applied, NEW findings, NEW skipped,
           Return(r, "ok", applied, findings, skipped), UNCHANGED <<job, disturbed>>,
           ~disturbed[r] =>
               ReportOk(r, "idle", job[r],
                        [result |-> "ok", applied |-> applied,
                         findings |-> findings, skipped |-> skipped], Base(r)')
    PROVE  Ok(r)'
<1>1. /\ pc'[r] = "idle" /\ ops'[r] = <<>>
      /\ report'[r] = [result |-> "ok", applied |-> applied,
                       findings |-> findings, skipped |-> skipped]
  BY DEF Return, Goto, Shapes, IInv, Shape
<1>2. StageOk(r, "idle", job[r]) /\ TodoOk(r, "idle", seen'[r], <<>>)
  BY DEF StageOk, TodoOk, AdoptStages, RepairStages
<1>3. ~disturbed[r] => Known(r, "idle", job[r], seen'[r], <<>>, report'[r], Base(r)')
  BY <1>1 DEF Known, ReadOk, RestoreOk, AdoptOk, RepairStages
<1> QED
  BY <1>1, <1>2, <1>3 DEF Ok, RunnerOk

LEMMA ReadPendingOk ==
    ASSUME IInv, RInv, NEW r \in Runners, ReadPending(r)
    PROVE  Ok(r)'
<1>1. /\ pc[r] \in {"pending", "pending2"}
      /\ UNCHANGED <<job, disturbed, live, undo>>
  BY DEF ReadPending
<1>2. Ok(r) /\ Shapes
  BY DEF RInv
<1>3. StageOk(r, pc[r], job[r]) /\ ops[r] = <<>>
  BY <1>1, <1>2 DEF Ok, RunnerOk, TodoOk
<1>4. job[r].kind \in {"verify", "repair", "adopt", "migrate"}
  BY <1>1, <1>3, CommandsAssumption DEF StageOk, Kinds
<1>5. /\ pc[r] = "pending" => job[r].kind \in {"verify", "repair"}
      /\ pc[r] = "pending2" => job[r].kind = "repair"
  BY <1>3, <1>4 DEF StageOk, RepairStages
<1>6. Base(r) = Visible
  BY <1>1 DEF Base
<1>7. pc'[r] # "exec" => Base(r)' = Visible
  BY <1>1, BaseStays
<1>8. ASSUME ~disturbed[r]
      PROVE  /\ \A p \in Parts : Expected(r)[p] # Absent => seen[r][p] = Visible[p]
             /\ Found(r) = Findings(Expected(r), Visible)
  <2>1. ReadOk(r, pc[r], job[r], seen[r], Visible)
    BY <1>2, <1>6, <1>8 DEF Ok, RunnerOk, Known
  <2>2. Judged(job[r]) = Parts
    BY <1>1, <1>5 DEF Judged
  <2>3. \A p \in Parts : Expected(r)[p] # Absent => seen[r][p] = Visible[p]
    BY <1>1, <2>1, <2>2 DEF ReadOk
  <2> QED
    BY <2>3, FindingsAsRead DEF Found
<1>9. \/ Refuse(r)
      \/ pc[r] = "pending2" /\ Return(r, "ok", TRUE, Found(r), report[r].skipped)
      \/ pc[r] = "pending" /\ job[r].kind = "verify" /\ Return(r, "ok", FALSE, Found(r), {})
      \/ pc[r] = "pending" /\ job[r].kind = "repair" /\ Decide(r)
  <2>1. recorded > Checkout[r] <=> ~(recorded <= Checkout[r])
    BY <1>2, HistoryAssumption DEF Shapes
  <2>2. \/ Refuse(r)
        \/ pc[r] = "pending2" /\ Return(r, "ok", TRUE, Found(r), report[r].skipped)
        \/ pc[r] = "pending" /\ job[r].kind = "verify" /\ Return(r, "ok", FALSE, Found(r), {})
        \/ /\ Decide(r) /\ pc[r] # "pending2"
           /\ ~(pc[r] = "pending" /\ job[r].kind = "verify")
    BY <2>1, Zenon DEF ReadPending
  <2> QED
    BY <1>1, <1>5, <2>2
<1>10. CASE Refuse(r)
  BY <1>2, <1>10, RefusedOk
<1>11. ASSUME pc[r] = "pending2", Return(r, "ok", TRUE, Found(r), report[r].skipped)
       PROVE  Ok(r)'
  <2>1. pc'[r] # "exec"
    BY <1>11 DEF Return, Goto, IInv, Shape
  <2>2. ASSUME ~disturbed[r]
        PROVE  Findings(Expected(r), Visible) \subseteq Unrepairable
    <3>1. RestoreOk(r, pc[r], ops[r], Visible)
      BY <1>2, <1>6, <2>2 DEF Ok, RunnerOk, Known
    <3>2. StillToDo(<<>>, Expected(r), Visible)
      BY <1>3, <1>11, <3>1 DEF RestoreOk, RepairStages
    <3> QED
      BY <3>2, NothingToDo
  <2>3. ASSUME ~disturbed[r]
        PROVE  ReportOk(r, "idle", job[r],
                        [result |-> "ok", applied |-> TRUE, findings |-> Found(r),
                         skipped |-> report[r].skipped], Base(r)')
    BY <1>5, <1>7, <1>8, <1>11, <2>1, <2>2, <2>3 DEF ReportOk
  <2> QED
    BY <1>1, <1>2, <1>11, <2>3, ReturnOk
<1>12. ASSUME pc[r] = "pending", job[r].kind = "verify", Return(r, "ok", FALSE, Found(r), {})
       PROVE  Ok(r)'
  <2>1. pc'[r] # "exec"
    BY <1>12 DEF Return, Goto, IInv, Shape
  <2>2. ASSUME ~disturbed[r]
        PROVE  ReportOk(r, "idle", job[r],
                        [result |-> "ok", applied |-> FALSE, findings |-> Found(r),
                         skipped |-> {}], Base(r)')
    BY <1>7, <1>8, <1>12, <2>1, <2>2 DEF ReportOk
  <2> QED
    BY <1>1, <1>2, <1>12, <2>2, ReturnOk
<1>13. ASSUME pc[r] = "pending", job[r].kind = "repair", Decide(r)
       PROVE  Ok(r)'
  <2> DEFINE planned == Projected(Expected(r), seen[r])
             skipped == Skipped(Found(r), planned)
  <2>1. \/ Refuse(r)
        \/ Return(r, "ok", FALSE, Found(r), skipped)
        \/ ops' = [ops EXCEPT ![r] = planned] /\ Goto(r, "lock") /\ UNCHANGED seen
    BY <1>13 DEF Decide
  <2>2. ASSUME Return(r, "ok", FALSE, Found(r), skipped)
        PROVE  Ok(r)'
    <3>1. ReportOk(r, "idle", job[r],
                   [result |-> "ok", applied |-> FALSE, findings |-> Found(r),
                    skipped |-> skipped], Base(r)')
      BY <1>13 DEF ReportOk
    <3> QED
      BY <1>1, <1>2, <2>2, <3>1, ReturnOk
  <2>3. ASSUME ops' = [ops EXCEPT ![r] = planned], Goto(r, "lock"), UNCHANGED seen
        PROVE  Ok(r)'
    <3>1. ops'[r] = planned /\ pc'[r] = "lock" /\ seen'[r] = seen[r] /\ job'[r] = job[r]
      BY <1>1, <2>3 DEF Goto, IInv, Shape
    <3>2. StageOk(r, "lock", job[r])
      BY <1>3, <1>13 DEF StageOk, AdoptStages, RepairStages
    <3>3. Plannable(planned, Expected(r), seen[r]) /\ StillToDo(planned, Expected(r), seen[r])
      BY ProjectedIsComplete
    <3> HIDE DEF planned
    <3>4. TodoOk(r, "lock", seen[r], planned)
      BY <3>3 DEF TodoOk
    <3>5. ASSUME ~disturbed[r]
          PROVE  StillToDo(planned, Expected(r), Visible)
      BY <1>8, <3>3, <3>5 DEF StillToDo, Drifts
    <3>6. ASSUME ~disturbed[r]
          PROVE  Known(r, "lock", job[r], seen[r], planned, report'[r], Visible)
      BY <3>5, <3>6 DEF Known, ReadOk, RestoreOk, AdoptOk, ReportOk, RepairStages
    <3> QED
      BY <1>1, <1>7, <3>1, <3>2, <3>4, <3>6 DEF Ok, RunnerOk
  <2> QED
    BY <1>2, <2>1, <2>2, <2>3, RefusedOk
<1> QED
  BY <1>9, <1>10, <1>11, <1>12, <1>13

LEMMA AcquireLockOk ==
    ASSUME IInv, RInv, NEW r \in Runners, AcquireLock(r)
    PROVE  Ok(r)'
<1>1. /\ pc[r] = "lock" /\ pc'[r] = "exec"
      /\ UNCHANGED <<job, disturbed, live, ops, seen>>
  BY DEF AcquireLock, Goto, IInv, Shape
<1>2. \A s \in Runners : pc[s] # "exec"
  BY CommandsAssumption DEF AcquireLock, IInv, ExecutesUnderLock
<1>3. Base(r) = AsItIs(live) /\ Base(r)' = AsItIs(live)
  BY <1>1, <1>2, VisibleAtRest DEF Base, AsItIs
<1>4. Ok(r)
  BY DEF RInv
<1>5. StageOk(r, "lock", job[r]) /\ TodoOk(r, "lock", seen[r], ops[r])
  BY <1>1, <1>4 DEF Ok, RunnerOk
<1>6. StageOk(r, "exec", job[r]) /\ TodoOk(r, "exec", seen[r], ops[r])
  BY <1>5 DEF StageOk, TodoOk, AdoptStages, RepairStages
<1>7. ASSUME ~disturbed[r]
      PROVE  Known(r, "exec", job[r], seen[r], ops[r], report'[r], AsItIs(live))
  <2>1. RestoreOk(r, "lock", ops[r], AsItIs(live))
    BY <1>1, <1>3, <1>4, <1>7 DEF Ok, RunnerOk, Known
  <2> QED
    BY <2>1 DEF Known, ReadOk, RestoreOk, AdoptOk, ReportOk, RepairStages
<1> QED
  BY <1>1, <1>3, <1>6, <1>7 DEF Ok, RunnerOk

LEMMA ExecOk ==
    ASSUME IInv, RInv, NEW r \in Runners, Exec(r)
    PROVE  Ok(r)'
<1>1. /\ pc[r] = "exec" /\ ops[r] # <<>> /\ ops'[r] = Tail(ops[r])
      /\ live' = Effect(Head(ops[r]), live)
      /\ UNCHANGED <<pc, job, seen, report>>
  BY DEF Exec, IInv, Shape
<1>2. ~disturbed'[r] => ~disturbed[r]
  BY DEF Exec, Disturb
<1>3. Ok(r)
  BY DEF RInv
<1>4. StageOk(r, "exec", job[r]) /\ Plannable(ops[r], Expected(r), seen[r])
  BY <1>1, <1>3 DEF Ok, RunnerOk, TodoOk
<1>5. Base(r) = AsItIs(live) /\ Base(r)' = AsItIs(live')
  BY <1>1 DEF Base, AsItIs
<1>6. Plannable(Tail(ops[r]), Expected(r), seen[r])
  BY <1>1, <1>4, TailPlannable
<1>7. ASSUME ~disturbed[r]
      PROVE  StillToDo(Tail(ops[r]), Expected(r), AsItIs(live'))
  <2>1. StillToDo(ops[r], Expected(r), AsItIs(live))
    BY <1>1, <1>3, <1>5, <1>7 DEF Ok, RunnerOk, Known, RestoreOk, RepairStages
  <2>2. StillToDo(ops[r], Expected(r), live)
    BY <2>1 DEF StillToDo, AsItIs
  <2>3. \A p \in Parts : AsItIs(live')[p] = Effect(Head(ops[r]), live)[p]
    BY <1>1 DEF AsItIs
  <2> QED
    BY <1>1, <1>4, <2>2, <2>3, OneStatement
<1>8. TodoOk(r, "exec", seen[r], Tail(ops[r]))
  BY <1>6 DEF TodoOk
<1>9. ASSUME ~disturbed[r]
      PROVE  Known(r, "exec", job[r], seen[r], Tail(ops[r]), report[r], AsItIs(live'))
  BY <1>7, <1>9 DEF Known, ReadOk, RestoreOk, AdoptOk, ReportOk, RepairStages
<1> QED
  BY <1>1, <1>2, <1>4, <1>5, <1>8, <1>9 DEF Ok, RunnerOk

LEMMA CommitOk ==
    ASSUME IInv, IInv', RInv, NEW r \in Runners, Commit(r)
    PROVE  Ok(r)'
<1>1. /\ pc[r] = "exec" /\ pc'[r] = "inspect2" /\ ops[r] = <<>>
      /\ UNCHANGED <<job, seen, ops, live>>
  BY DEF Commit, Goto, IInv, Shape
<1>2. ~disturbed'[r] => ~disturbed[r]
  BY DEF Commit, Disturb
<1>3. Ok(r)
  BY DEF RInv
<1>4. StageOk(r, "exec", job[r])
  BY <1>1, <1>3 DEF Ok, RunnerOk
<1>5. \A s \in Runners : pc'[s] # "exec"
  BY <1>1 DEF Commit, Goto, IInv, Shape, ExecutesUnderLock
<1>6. \A s \in Runners : DOMAIN undo'[s] = {}
  BY <1>5 DEF IInv, WorkIsExecuting
<1>7. Visible' = AsItIs(live)
  BY <1>1, <1>6, NoneOpen, VisibleIs
<1>8. Base(r) = AsItIs(live) /\ Base(r)' = AsItIs(live)
  BY <1>1, <1>7 DEF Base
<1>9. StageOk(r, "inspect2", job[r]) /\ TodoOk(r, "inspect2", seen[r], <<>>)
  BY <1>4 DEF StageOk, TodoOk, AdoptStages, RepairStages
<1>10. ASSUME ~disturbed[r]
       PROVE  Known(r, "inspect2", job[r], seen[r], <<>>, report'[r], AsItIs(live))
  <2>1. RestoreOk(r, "exec", <<>>, AsItIs(live))
    BY <1>1, <1>3, <1>8, <1>10 DEF Ok, RunnerOk, Known
  <2> QED
    BY <2>1 DEF Known, ReadOk, RestoreOk, AdoptOk, ReportOk, RepairStages
<1> QED
  BY <1>1, <1>2, <1>8, <1>9, <1>10 DEF Ok, RunnerOk

LEMMA MoveOk ==
    ASSUME IInv, RInv, NEW r \in Runners, Move(r)
    PROVE  Ok(r)'
<1> DEFINE target == job[r].target
           moved  == IF job[r].kind = "adopt" THEN [ok |-> TRUE, db |-> live]
                     ELSE FoldLeft(Advance, [ok |-> TRUE, db |-> live], Movement(recorded, target))
<1>1. CASE Refuse(r)
  BY <1>1, RefusedOk DEF RInv
<1>2. CASE ~Refuse(r)
  <2>1. /\ pc[r] = "move" /\ job' = job /\ undo' = undo
        /\ live' = moved.db /\ Disturb(r) /\ Return(r, "ok", FALSE, {}, {})
    BY <1>2 DEF Move
  <2>2. ~disturbed'[r] <=> ~disturbed[r]
    BY <2>1 DEF Disturb
  <2>3. Ok(r) /\ Shapes
    BY DEF RInv
  <2>4. StageOk(r, "move", job[r])
    BY <2>1, <2>3 DEF Ok, RunnerOk
  <2>5. /\ pc'[r] = "idle" /\ ops'[r] = <<>>
        /\ report'[r] = [result |-> "ok", applied |-> FALSE, findings |-> {}, skipped |-> {}]
    BY <2>1, <2>3 DEF Return, Goto, Shapes, IInv, Shape
  <2>6. StageOk(r, "idle", job[r]) /\ TodoOk(r, "idle", seen'[r], <<>>)
    BY DEF StageOk, TodoOk, AdoptStages, RepairStages
  <2>7. ASSUME ~disturbed[r], job[r].kind = "adopt"
        PROVE  Proved(r, target, Base(r)')
    <3>1. live' = live
      BY <2>1, <2>7
    <3>2. Base(r) = Visible /\ Base(r)' = Visible
      BY <2>1, <2>5, <3>1, BaseStays
    <3> QED
      BY <2>1, <2>3, <2>7, <3>2 DEF Ok, RunnerOk, Known, AdoptOk
  <2>8. ASSUME ~disturbed[r]
        PROVE  ReportOk(r, "idle", job[r], report'[r], Base(r)')
    <3>1. job[r].kind \in {"adopt", "migrate"}
      BY <2>4 DEF StageOk
    <3> QED
      BY <2>5, <2>7, <2>8, <3>1 DEF ReportOk
  <2>9. ~disturbed[r] => Known(r, "idle", job[r], seen'[r], <<>>, report'[r], Base(r)')
    BY <2>8 DEF Known, ReadOk, RestoreOk, AdoptOk, RepairStages
  <2> QED
    BY <2>1, <2>2, <2>5, <2>6, <2>9 DEF Ok, RunnerOk
<1> QED
  BY <1>1, <1>2

\* A step keeps the command that takes it true to the database.
LEMMA OwnOk ==
    ASSUME IInv, IInv', RInv, NEW r \in Runners, Step(r)
    PROVE  Ok(r)'
<1>1. CASE RowsUnreadable(r) \/ ExecFails(r) \/ Interrupted(r)
  BY <1>1, RefusedOk DEF RowsUnreadable, ExecFails, Interrupted, RInv
<1> QED
  BY <1>1, StartOk, PlanAdoptionOk, InspectOk, InspectRowsOk, JudgeOk, ReadPendingOk,
     AcquireLockOk, ExecOk, CommitOk, MoveOk DEF Step, Progress

LEMMA StepShapes ==
    ASSUME IInv, RInv, NEW s \in Runners, Step(s)
    PROVE  Shapes'
<1> DEFINE Domains == /\ DOMAIN job' = Runners /\ DOMAIN seen' = Runners
                      /\ DOMAIN report' = Runners /\ DOMAIN disturbed' = Runners
<1>1. Shapes /\ Ok(s) /\ DOMAIN undo = Runners
  BY DEF RInv, IInv, Shape
<1>2. dialect' = dialect /\ manual' = manual
  BY DEF Step, Start, Progress, PlanAdoption, Inspect, InspectRows, RowsUnreadable, Judge,
     ReadPending, AcquireLock, Exec, ExecFails, Commit, Move, Interrupted
<1>3. recorded' \in Nat
  <2>1. CASE Move(s)
    <3>1. job[s] \in Commands[s]
      BY <1>1, <2>1 DEF Move, Ok, RunnerOk, StageOk
    <3>2. job[s].target \in Nat
      BY <3>1, CommandsAssumption, HistoryAssumption
    <3> QED
      BY <1>1, <2>1, <3>2 DEF Move, Shapes
  <2>2. CASE ~Move(s)
    <3>1. recorded' = recorded
      BY <2>2 DEF Step, Start, Progress, PlanAdoption, Inspect, InspectRows, RowsUnreadable,
         Judge, ReadPending, AcquireLock, Exec, ExecFails, Commit, Interrupted
    <3> QED
      BY <1>1, <3>1 DEF Shapes
  <2> QED
    BY <2>1, <2>2
<1>4. ASSUME ~Transactional, NEW r \in Runners
      PROVE  DOMAIN undo'[r] = {}
  <2>1. \/ undo' = undo
        \/ undo' = [undo EXCEPT ![s] = NoUndo]
    BY <1>4 DEF Step, Start, Progress, PlanAdoption, Inspect, InspectRows, RowsUnreadable, Judge,
       ReadPending, AcquireLock, Exec, ExecFails, Commit, Move, Interrupted, Abort
  <2> QED
    BY <1>1, <1>4, <2>1 DEF Shapes, NoUndo
<1>5. Domains
  <2>1. CASE Start(s)
    BY <1>1, <2>1 DEF Start, Shapes
  <2>2. CASE PlanAdoption(s) \/ RowsUnreadable(s) \/ Judge(s)
    BY <1>1, <2>2 DEF PlanAdoption, RowsUnreadable, Judge, Refuse, Return, Shapes
  <2>3. CASE Inspect(s)
    BY <1>1, <2>3 DEF Inspect, Shapes
  <2>4. CASE InspectRows(s)
    BY <1>1, <2>4 DEF InspectRows, Shapes
  <2>5. CASE ReadPending(s)
    <3>1. \/ Refuse(s)
          \/ \E applied, findings, skipped : Return(s, "ok", applied, findings, skipped)
          \/ Decide(s)
      BY <2>5 DEF ReadPending
    <3>2. UNCHANGED <<job, disturbed>>
      BY <2>5 DEF ReadPending
    <3> QED
      BY <1>1, <3>1, <3>2 DEF Decide, Refuse, Return, Shapes
  <2>6. CASE AcquireLock(s)
    BY <1>1, <2>6 DEF AcquireLock, Shapes
  <2>7. CASE Exec(s)
    BY <1>1, <2>7 DEF Exec, Disturb, Shapes
  <2>8. CASE ExecFails(s) \/ Interrupted(s)
    BY <1>1, <2>8 DEF ExecFails, Interrupted, Refuse, Return, Shapes
  <2>9. CASE Commit(s)
    BY <1>1, <2>9 DEF Commit, Disturb, Shapes
  <2>10. CASE Move(s)
    BY <1>1, <2>10 DEF Move, Disturb, Refuse, Return, Shapes
  <2> QED
    BY <2>1, <2>2, <2>3, <2>4, <2>5, <2>6, <2>7, <2>8, <2>9, <2>10 DEF Step, Progress
<1> QED
  BY <1>1, <1>2, <1>3, <1>4, <1>5 DEF Shapes, Transactional

LEMMA StepRInv == IInv /\ IInv' /\ RInv /\ [Next]_vars => RInv'
<1> SUFFICES ASSUME IInv, IInv', RInv, [Next]_vars PROVE RInv'
  OBVIOUS
<1>1. ASSUME NEW s \in Runners, Step(s)
      PROVE  RInv'
  <2>1. ASSUME NEW r \in Runners
        PROVE  Ok(r)'
    BY <1>1, OwnOk, OthersOk
  <2> QED
    BY <1>1, <2>1, StepShapes DEF RInv
<1>2. CASE ChangeByHand
  <2>1. /\ UNCHANGED <<dialect, recorded, pc, job, seen, ops, undo, report>>
        /\ disturbed' = [r \in Runners |-> TRUE] /\ manual' = manual + 1
    BY <1>2 DEF ChangeByHand
  <2>2. ASSUME NEW r \in Runners
        PROVE  Ok(r)'
    <3>1. Ok(r)
      BY DEF RInv
    <3>2. disturbed'[r]
      BY <2>1
    <3> QED
      BY <2>1, <3>1, <3>2 DEF Ok, RunnerOk
  <2>3. Shapes'
    BY <2>1 DEF RInv, Shapes, Transactional
  <2> QED
    BY <2>2, <2>3 DEF RInv
<1>3. CASE UNCHANGED vars
  <2>1. Visible' = Visible
    BY <1>3, SameShows DEF vars
  <2> QED
    BY <1>3, <2>1 DEF RInv, Shapes, Transactional, Ok, Base, AsItIs, vars
<1> QED
  BY <1>1, <1>2, <1>3 DEF Next, Step

\* What the commands know of the database, for all runners and histories: what was
\* read is there, what is still to repair has a statement, what was reported is so,
\* unless somebody else moved the database meanwhile (run, dispatch.rs).
THEOREM RInvCorrect == Spec => [](IInv /\ RInv)
  BY InitIInv, InitRInv, StepIInv, StepRInv, PTL DEF Spec

\* At rest, what r works on is what everybody sees.
LEMMA EndedOk ==
    ASSUME RInv, NEW r \in Runners, NEW kind, Ended(r, kind), ~disturbed[r]
    PROVE  job[r].kind = kind /\ ReportOk(r, "idle", job[r], report[r], Visible)
<1>1. pc[r] = "idle" /\ job[r].kind = kind
  BY DEF Ended
<1>2. Base(r) = Visible
  BY <1>1 DEF Base
<1> QED
  BY <1>1, <1>2 DEF RInv, Ok, RunnerOk, Known

LEMMA RInvImplies ==
    ASSUME RInv
    PROVE  QuietRepairRestores /\ QuietReportIsTrue /\ LastAdoptionIsProved
<1>1. ASSUME NEW r \in Runners, Ended(r, "repair"), report[r].applied, ~disturbed[r]
      PROVE  /\ report[r].findings = Findings(Replay(Checkout[r]), Visible)
             /\ report[r].findings \subseteq Unrepairable
  BY <1>1, EndedOk DEF ReportOk, Ended, Expected
<1>2. ASSUME NEW r \in Runners, Ended(r, "verify"), ~disturbed[r]
      PROVE  report[r].findings = Findings(Replay(Checkout[r]), Visible)
  BY <1>2, EndedOk DEF ReportOk, Ended, Expected
<1>3. ASSUME NEW r \in Runners, Ended(r, "adopt"), ~disturbed[r], job[r].target = Checkout[r],
             NEW p \in DOMAIN History[job[r].target], History[job[r].target][p] # Absent
      PROVE  Satisfied(job[r].target, p)
  <2>1. ReportOk(r, "idle", job[r], report[r], Visible) /\ job[r].kind = "adopt"
    BY <1>3, EndedOk
  <2>2. report[r].result = "ok"
    BY <1>3 DEF Ended
  <2>3. Proved(r, job[r].target, Visible)
    BY <2>1, <2>2 DEF ReportOk
  <2> QED
    BY <1>3, <2>3 DEF Proved, Satisfied
<1> QED
  BY <1>1, <1>2, <1>3 DEF QuietRepairRestores, QuietReportIsTrue, LastAdoptionIsProved

\* A repair nobody interferes with restores every part that has a repair and reports
\* exactly what is left (run_repair, plan_repair, execute_untracked).
THEOREM QuietRepairRestoresCorrect == Spec => []QuietRepairRestores
<1>1. IInv /\ RInv => QuietRepairRestores
  BY RInvImplies
<1> QED
  BY <1>1, RInvCorrect, PTL

\* A verification nobody interferes with reports the drift there is (verify).
THEOREM QuietReportIsTrueCorrect == Spec => []QuietReportIsTrue
<1>1. IInv /\ RInv => QuietReportIsTrue
  BY RInvImplies
<1> QED
  BY <1>1, RInvCorrect, PTL

\* Verified adoption of the last migration of a catalog records it only when what
\* it creates or alters is there as it says (run_verified_fake).
THEOREM LastAdoptionIsProvedCorrect == Spec => []LastAdoptionIsProved
<1>1. IInv /\ RInv => LastAdoptionIsProved
  BY RInvImplies
<1> QED
  BY <1>1, RInvCorrect, PTL

\* What a repair writes over, in one step.
LEMMA StepRows ==
    ASSUME IInv, RInv, [Next]_vars, NEW r \in Runners, NEW p \in RepairChanges(r) \cap Rows
    PROVE  live[p] = seen[r][p]
<1>1. /\ lock = r /\ lock' = r /\ r # NoRunner /\ manual' = manual
      /\ p \in Parts /\ live'[p] # live[p]
  BY CommandsAssumption DEF RepairChanges
<1>2. CASE Exec(r)
  <2> DEFINE op == Head(ops[r])
  <2>1. pc[r] = "exec" /\ ops[r] # <<>> /\ Admits(op, live) /\ live' = Effect(op, live)
    BY <1>2 DEF Exec
  <2>2. ops[r] \in Seq(Statements(Expected(r), seen[r]))
    BY <2>1 DEF RInv, Ok, RunnerOk, TodoOk, Plannable
  <2>3. op \in Statements(Expected(r), seen[r])
    BY <2>1, <2>2
  <2> HIDE DEF op
  <2>4. live'[p] = IF p = op.part THEN op.new ELSE live[p]
    BY <1>1, <2>1, <2>3, StatementEffect
  <2>5. p = op.part
    BY <1>1, <2>4
  <2>6. op.old = seen[r][p]
    BY <2>3, <2>5, StatementFacts
  <2> QED
    BY <2>1, <2>5, <2>6 DEF Admits
<1>3. ASSUME NEW s \in Runners, Step(s), ~Exec(s)
      PROVE  FALSE
  <2>1. CASE Start(s) \/ PlanAdoption(s) \/ Inspect(s) \/ InspectRows(s) \/ RowsUnreadable(s)
             \/ Judge(s) \/ ReadPending(s) \/ AcquireLock(s) \/ Commit(s)
    BY <1>1, <2>1 DEF Start, PlanAdoption, Inspect, InspectRows, RowsUnreadable, Judge,
       ReadPending, AcquireLock, Commit
  <2>2. CASE Move(s)
    BY <1>1, <2>2 DEF Move
  <2>3. CASE ExecFails(s) \/ Interrupted(s)
    <3>1. CASE s = r
      BY <1>1, <2>3, <3>1 DEF ExecFails, Interrupted, Abort
    <3>2. CASE s # r
      <4>1. DOMAIN undo[s] = {}
        BY <1>1, <3>2 DEF IInv, ExecutesUnderLock, WorkIsExecuting
      <4> QED
        BY <1>1, <2>3, <4>1 DEF ExecFails, Interrupted, Abort
    <3> QED
      BY <3>1, <3>2
  <2> QED
    BY <1>3, <2>1, <2>2, <2>3 DEF Step, Progress
<1>4. ASSUME NEW s \in Runners, Exec(s)
      PROVE  s = r
  BY <1>1, <1>4 DEF Exec, IInv, ExecutesUnderLock
<1>5. ~ChangeByHand
  BY <1>1 DEF ChangeByHand, RInv, Shapes
<1>6. ~UNCHANGED vars
  BY <1>1 DEF vars
<1> QED
  BY <1>2, <1>3, <1>4, <1>5, <1>6 DEF Next, Step

\* A row is repaired only while it is what the verification read
\* (execute_statement and the predicate of a row statement).
THEOREM RowsChangeOnlyAsObservedCorrect == Spec => RowsChangeOnlyAsObserved
<1>1. IInv /\ RInv /\ [Next]_vars =>
        [\A r \in Runners : \A p \in RepairChanges(r) \cap Rows : live[p] = seen[r][p]]_vars
  BY StepRows
<1> QED
  BY <1>1, RInvCorrect, PTL DEF Spec, RowsChangeOnlyAsObserved
=============================================================================
