-------------------------- MODULE TaskQueueProofs --------------------------
(* Proofs about the task queue, for every value of its constants: the      *)
(* queue by itself (TaskQueue), that it implements TaskLedger              *)
(* (TaskQueueLedger), and the queue beside its seeders (Seeding).          *)
EXTENDS Seeding, TaskQueueLedger, TLAPS

-----------------------------------------------------------------------------
(* Type correctness *)

\* A worker outside process_next_task holds no id; inside, it holds one.
JobHeld ==
    \A w \in Workers : pc[w] # "idle" => job[w] \in TaskId

\* TypeOK is not inductive alone: the claim's UPDATE writes fields of a row,
\* which has them only because the row it locked is still PENDING.
TypeInv == TypeOK /\ JobHeld /\ ClaimHolds

LEMMA InitTypeInv == Init => TypeInv
  BY QueueAssumption DEF Init, TypeInv, TypeOK, JobHeld, ClaimHolds, TaskId, Step, InFlight

\* An UPDATE keeps a row a row.
LEMMA SetType ==
  ASSUME NEW row \in Row, NEW s \in Status, NEW r \in 0 .. RetryCap, NEW a \in Nat
  PROVE  Set(row, s, r, a) \in Row
  BY DEF Row, Set

LEMMA RowUpdates ==
  ASSUME NEW row \in Row
  PROVE  /\ \A s \in Status : Reported(row, s) \in Row
         /\ Swept(row) \in Row
         /\ Requeued(row) \in Row
  <1>1. Bump(row.retry, RetryCap) \in 0 .. RetryCap /\ row.retry \in 0 .. RetryCap
    BY QueueAssumption DEF Row, Bump, RetryCap
  <1> QED
    BY <1>1, SetType DEF Status, Reported, Swept, Requeued

LEMMA RowStatus ==
  ASSUME NEW row \in Row \cup {NoRow}
  PROVE  row.status # "none" <=> row \in Row
  BY DEF Row, NoRow, Status

\* What a report does to the table: one row at most, and never a locked one.
LEMMA ReportType ==
  ASSUME TypeInv, NEW t \in TaskId, NEW s \in Status, Report(t, s)
  PROVE  /\ tasks' \in [TaskId -> Row \cup {NoRow}]
         /\ \A u \in TaskId \ {t} : tasks'[u] = tasks[u]
         /\ tasks'[t] = tasks[t] \/ tasks'[t] = Reported(tasks[t], s)
         /\ \A v \in Workers : pc[v] = "locking" => tasks'[job[v]] = tasks[job[v]]
  <1>1. tasks[t].status # "none" => tasks[t] \in Row
    BY RowStatus DEF TypeInv, TypeOK
  <1>2. /\ WithStatus(t, s) \in [TaskId -> Row \cup {NoRow}]
        /\ \A u \in TaskId \ {t} : WithStatus(t, s)[u] = tasks[u]
        /\ WithStatus(t, s)[t] = tasks[t] \/ WithStatus(t, s)[t] = Reported(tasks[t], s)
    BY <1>1, RowUpdates DEF TypeInv, TypeOK, WithStatus, Is
  <1>3. \A v \in Workers : pc[v] = "locking" => job[v] \in TaskId \ {t}
    BY DEF TypeInv, JobHeld, Locked, Report
  <1> QED
    BY <1>2, <1>3 DEF Report, TypeInv, TypeOK

\* The parts of the invariant a step that ends or keeps a claim can disturb.
LEMMA ReturnType ==
  ASSUME TypeInv, NEW w \in Workers, Return(w)
  PROVE  /\ pc' \in [Workers -> Step] /\ job' \in [Workers -> TaskId \cup {0}]
         /\ held' \in [Workers -> 0 .. MaxRun] /\ detached' \subseteq Workers
         /\ JobHeld'
         /\ \A v \in Workers : pc'[v] = "locking" => pc[v] = "locking" /\ job'[v] = job[v]
  BY QueueAssumption DEF TypeInv, TypeOK, Return, JobHeld, Step, InFlight

LEMMA ReportTypeInv ==
  ASSUME TypeInv, NEW w \in Workers, NEW s \in Status, Report(job[w], s),
         pc[w] # "idle", Return(w), nextId' = nextId,
         channels' \subseteq channels, delivered' \in [TaskId -> 0 .. 2]
  PROVE  TypeInv'
  BY ReportType, ReturnType DEF TypeInv, TypeOK, JobHeld, ClaimHolds, Is

LEMMA CloseTypeInv ==
  ASSUME TypeInv, NEW w \in Workers, NEW s \in Status, Report(job[w], s),
         pc[w] \notin {"idle", "locking"}, Goto(w, "closing"),
         held' = [held EXCEPT ![w] = 0],
         UNCHANGED <<nextId, channels, delivered, job, detached>>
  PROVE  TypeInv'
  <1>1. TypeOK' /\ JobHeld'
    BY QueueAssumption, ReportType
    DEF TypeInv, TypeOK, JobHeld, Goto, Step, InFlight
  <1>2. ClaimHolds'
    BY ReportType DEF TypeInv, TypeOK, JobHeld, ClaimHolds, Goto, Is
  <1> QED
    BY <1>1, <1>2 DEF TypeInv

\* A step that leaves the table alone and moves no worker into the claim.
LEMMA LocalTypeInv ==
  ASSUME TypeInv, UNCHANGED <<tasks, nextId, channels>>,
         delivered' \in [TaskId -> 0 .. 2],
         NEW w \in Workers, pc[w] # "idle",
         \/ Return(w)
         \/ /\ \E step \in InFlight : Goto(w, step)
            /\ UNCHANGED <<job, held, detached>>
  PROVE  TypeInv'
  <1>1. CASE Return(w)
    BY <1>1, ReturnType DEF TypeInv, TypeOK, ClaimHolds, Is
  <1>2. CASE \E step \in InFlight : Goto(w, step) /\ UNCHANGED <<job, held, detached>>
    BY <1>2 DEF TypeInv, TypeOK, JobHeld, ClaimHolds, Goto, Is, Step, InFlight
  <1> QED
    BY <1>1, <1>2

LEMMA WorkerTypeInv ==
  ASSUME TypeInv, NEW w \in Workers, WorkerStep(w)
  PROVE  TypeInv'
  <1> USE DEF Status
  <1>0. /\ delivered \in [TaskId -> 0 .. 2]
        /\ pc[w] # "idle" => Accepted(w) \in [TaskId -> 0 .. 2]
    BY DEF TypeInv, TypeOK, JobHeld, Accepted, Bump
  <1>1. CASE ClaimSelect(w)
    <2>1. PICK t \in Claimable : job' = [job EXCEPT ![w] = t]
      BY <1>1 DEF ClaimSelect
    <2>2. \A v \in Workers : pc[v] = "locking" => job[v] # t
      BY <2>1 DEF Claimable, Locked
    <2>3. TypeOK' /\ JobHeld'
      BY <1>1, <2>1 DEF ClaimSelect, Claimable, TypeInv, TypeOK, JobHeld, Goto, table, Step
    <2>4. ClaimHolds'
      BY <1>1, <2>1, <2>2
      DEF ClaimSelect, Claimable, TypeInv, TypeOK, JobHeld, ClaimHolds, Goto, table, Is
    <2> QED
      BY <2>3, <2>4 DEF TypeInv
  <1>2. CASE ClaimCommit(w) \/ ClaimFails(w)
    <2>1. tasks[job[w]] \in Row /\ job[w] \in TaskId
      BY <1>2, RowStatus DEF ClaimCommit, ClaimFails, TypeInv, TypeOK, JobHeld, ClaimHolds, Is
    <2>2. Set(tasks[job[w]], "RUNNING", tasks[job[w]].retry, held[w]) \in Row
      BY <2>1, SetType DEF TypeInv, TypeOK, Row
    <2>3. /\ tasks' \in [TaskId -> Row \cup {NoRow}]
          /\ \A u \in TaskId \ {job[w]} : tasks'[u] = tasks[u]
      BY <1>2, <2>1, <2>2 DEF ClaimCommit, ClaimFails, Claimed, TypeInv, TypeOK
    <2>4. \A v \in Workers \ {w} : pc[v] = "locking" => job[v] \in TaskId \ {job[w]}
      BY <1>2 DEF ClaimCommit, ClaimFails, TypeInv, JobHeld, ClaimHolds
    <2>5. CASE ClaimCommit(w)
      BY <2>3, <2>4, <2>5
      DEF ClaimCommit, TypeInv, TypeOK, JobHeld, ClaimHolds, Goto, Is, Step, InFlight
    <2>6. CASE ClaimFails(w)
      <3>1. pc' = [pc EXCEPT ![w] = "idle"]
        BY <2>6 DEF ClaimFails, Return
      <3> QED
        BY <2>3, <2>4, <2>6, <3>1, ReturnType
        DEF ClaimFails, TypeInv, TypeOK, ClaimHolds, Is
    <2> QED
      BY <1>2, <2>5, <2>6
  <1>3. CASE GiveBack(w) \/ Fail(w) \/ AmbiguousSend(w) \/ CloseFails(w)
    BY <1>0, <1>3, ReportTypeInv DEF GiveBack, Fail, AmbiguousSend, CloseFails
  <1>4. CASE SkipAndPrune(w)
    <2>1. CASE Report(job[w], "SKIPPED") /\ channels' \subseteq channels
      BY <1>0, <1>4, <2>1, ReportTypeInv DEF SkipAndPrune
    <2>2. CASE UNCHANGED <<tasks, channels>>
      BY <1>0, <1>4, <2>2, LocalTypeInv DEF SkipAndPrune
    <2> QED
      BY <1>4, <2>1, <2>2 DEF SkipAndPrune, Report
  <1>5. CASE Unauthorized(w) \/ Complete(w)
    BY <1>5, CloseTypeInv DEF Unauthorized, Complete
  <1>6. CASE Abandon(w) \/ Close(w) \/ Crash(w) \/ BeginSend(w) \/ Deliver(w)
    BY <1>0, <1>6, LocalTypeInv DEF Abandon, Close, Crash, BeginSend, Deliver, table, InFlight
  <1> QED
    BY <1>1, <1>2, <1>3, <1>4, <1>5, <1>6 DEF WorkerStep, Progress, Fault

LEMMA NextTypeInv == TypeInv /\ [Next]_vars => TypeInv'
  <1> SUFFICES ASSUME TypeInv, [Next]_vars PROVE TypeInv'
    OBVIOUS
  <1> USE RowStatus, RowUpdates DEF Is
  <1>1. ASSUME NEW w \in Workers, WorkerStep(w) PROVE TypeInv'
    BY <1>1, WorkerTypeInv
  <1>2. CASE Sweep
    BY <1>2 DEF Sweep, Stale, TypeInv, TypeOK, JobHeld, ClaimHolds, locals
  <1>3. CASE RequeueFailed
    BY <1>3 DEF RequeueFailed, Eligible, TypeInv, TypeOK, JobHeld, ClaimHolds, locals
  <1>4. ASSUME NEW target \in Targets, Insert(target) PROVE TypeInv'
    <2>1. [status |-> "PENDING", target |-> target, retry |-> 0, age |-> 0] \in Row
      BY QueueAssumption DEF Row, Status, RetryCap
    <2>2. TypeOK'
      BY <1>4, <2>1, QueueAssumption DEF Insert, TypeInv, TypeOK, TaskId, locals
    <2> QED
      BY <1>4, <2>2 DEF Insert, TypeInv, TypeOK, JobHeld, ClaimHolds, locals
  <1>5. ASSUME NEW t \in TaskId, Retry(t) PROVE TypeInv'
    BY <1>5 DEF Retry, TypeInv, TypeOK, JobHeld, ClaimHolds, locals
  <1>6. ASSUME NEW t \in TaskId, Cancel(t) PROVE TypeInv'
    <2>1. tasks[t] \in Row
      BY <1>6 DEF Cancel, TypeInv, TypeOK
    <2>2. Set(tasks[t], "CANCELLED", tasks[t].retry, 0) \in Row
      BY <2>1, SetType DEF Row, Status
    <2> QED
      BY <1>6, <2>2 DEF Cancel, TypeInv, TypeOK, JobHeld, ClaimHolds, Locked, locals
  <1>7. ASSUME NEW t \in TaskId, PurgeTask(t) PROVE TypeInv'
    BY <1>7 DEF PurgeTask, TypeInv, TypeOK, JobHeld, ClaimHolds, locals
  <1>8. CASE PurgeAll
    <2>1. \A v \in Workers : pc[v] # "locking"
      BY <1>8 DEF PurgeAll, Locked
    <2>2. TypeOK'
      BY <1>8, QueueAssumption DEF PurgeAll, TypeInv, TypeOK
    <2> QED
      BY <1>8, <2>1, <2>2 DEF PurgeAll, TypeInv, JobHeld, ClaimHolds
  <1>9. CASE Tick
    <2>1. \A t \in TaskId : Aging(t) =>
             /\ tasks[t] \in Row
             /\ Set(tasks[t], tasks[t].status, tasks[t].retry, Bump(tasks[t].age, AgeCap)) \in Row
      <3> SUFFICES ASSUME NEW t \in TaskId, Aging(t)
                   PROVE  /\ tasks[t] \in Row
                          /\ Set(tasks[t], tasks[t].status, tasks[t].retry,
                                 Bump(tasks[t].age, AgeCap)) \in Row
        OBVIOUS
      <3>1. tasks[t] \in Row
        BY DEF TypeInv, TypeOK, Aging
      <3>2. /\ tasks[t].status \in Status /\ tasks[t].retry \in 0 .. RetryCap
            /\ tasks[t].age \in Nat
        BY <3>1 DEF Row
      <3>3. Bump(tasks[t].age, AgeCap) \in Nat
        BY <3>2 DEF Bump
      <3> QED
        BY <3>1, <3>2, <3>3, SetType
    <2>2. tasks' \in [TaskId -> Row \cup {NoRow}] /\ ClaimHolds'
      BY <1>9, <2>1 DEF Tick, TypeInv, TypeOK, JobHeld, ClaimHolds, Aging
    <2>3. held' \in [Workers -> 0 .. MaxRun]
      BY <1>9, QueueAssumption DEF Tick, TypeInv, TypeOK
    <2> QED
      BY <1>9, <2>2, <2>3 DEF Tick, TypeInv, TypeOK, JobHeld
  <1>10. CASE UNCHANGED vars
    BY <1>10 DEF TypeInv, TypeOK, JobHeld, ClaimHolds, vars
  <1> QED
    BY <1>1, <1>2, <1>3, <1>4, <1>5, <1>6, <1>7, <1>8, <1>9, <1>10 DEF Next, Operator

\* The state has its types, whatever faults are injected and however long a
\* worker takes: rows only ever get the statuses the schema knows.
THEOREM TypeCorrect == Spec => []TypeOK
  <1>1. TypeInv => TypeOK
    BY DEF TypeInv
  <1> QED
    BY <1>1, InitTypeInv, NextTypeInv, PTL DEF Spec

\* The claim is exclusive from its UPDATE to its COMMIT, under every fault.
THEOREM ClaimsHold == Spec => []ClaimHolds
  <1>1. TypeInv => ClaimHolds
    BY DEF TypeInv
  <1> QED
    BY <1>1, InitTypeInv, NextTypeInv, PTL DEF Spec

\* The ids the sequence has still to hand out have no row.
FreshIds ==
    \A t \in TaskId : t >= nextId => Is(t, "none")

LEMMA WorkerKeepsNone ==
  ASSUME TypeInv, NEW w \in Workers, WorkerStep(w)
  PROVE  nextId' = nextId /\ \A t \in TaskId : Is(t, "none") => Is(t, "none")'
  <1>1. ASSUME NEW s \in Status, Report(job[w], s)
        PROVE  \A t \in TaskId : Is(t, "none") => Is(t, "none")'
    BY <1>1 DEF Report, WithStatus, TypeInv, TypeOK, Is
  <1>2. ASSUME ClaimCommit(w) \/ ClaimFails(w)
        PROVE  \A t \in TaskId : Is(t, "none") => Is(t, "none")'
    <2>1. job[w] \in TaskId /\ tasks[job[w]].status = "PENDING"
      BY <1>2 DEF ClaimCommit, ClaimFails, TypeInv, JobHeld, ClaimHolds, Is
    <2> QED
      BY <1>2, <2>1 DEF ClaimCommit, ClaimFails, Claimed, TypeInv, TypeOK, Is
  <1>3. nextId' = nextId
    BY DEF WorkerStep, Progress, Fault, ClaimSelect, ClaimCommit, ClaimFails, GiveBack,
           Unauthorized, Abandon, BeginSend, Deliver, AmbiguousSend, Fail, SkipAndPrune,
           Complete, Close, CloseFails, Crash, table
  <1>4. CASE UNCHANGED tasks
    BY <1>3, <1>4 DEF Is
  <1>5. CASE \E s \in Status : Report(job[w], s)
    BY <1>1, <1>3, <1>5
  <1> QED
    BY <1>2, <1>3, <1>4, <1>5
    DEF WorkerStep, Progress, Fault, ClaimSelect, GiveBack,
        Unauthorized, Abandon, BeginSend, Deliver, AmbiguousSend, Fail, SkipAndPrune,
        Complete, Close, CloseFails, Crash, table, Status, Report

LEMMA NextFreshIds == TypeInv /\ FreshIds /\ [Next]_vars => FreshIds'
  <1> SUFFICES ASSUME TypeInv, FreshIds, [Next]_vars PROVE FreshIds'
    OBVIOUS
  <1>1. ASSUME NEW w \in Workers, WorkerStep(w) PROVE FreshIds'
    BY <1>1, WorkerKeepsNone DEF FreshIds
  <1>2. CASE Sweep \/ RequeueFailed \/ \E t \in TaskId : Retry(t) \/ Cancel(t)
    BY <1>2 DEF Sweep, RequeueFailed, Retry, Cancel, Stale, Eligible, TypeInv, TypeOK, FreshIds, Is
  <1>3. CASE \E target \in Targets : Insert(target)
    BY <1>3 DEF Insert, TypeInv, TypeOK, TaskId, FreshIds, Is
  <1>4. CASE \E t \in TaskId : PurgeTask(t)
    BY <1>4 DEF PurgeTask, TypeInv, TypeOK, FreshIds, Is, NoRow
  <1>5. CASE PurgeAll
    BY <1>5 DEF PurgeAll, FreshIds, Is, NoRow
  <1>6. CASE Tick
    BY <1>6 DEF Tick, Aging, FreshIds, Is
  <1>7. CASE UNCHANGED vars
    BY <1>7 DEF vars, FreshIds, Is
  <1> QED
    BY <1>1, <1>2, <1>3, <1>4, <1>5, <1>6, <1>7 DEF Next, Operator

-----------------------------------------------------------------------------
(* Exclusive execution and the retry budget *)

\* The setting in which the queue promises them: no run outlasts the claim
\* timeout, disconnecting does not raise, and nobody truncates the table.
Healthy ==
    /\ MaxRun <= ClaimTimeout
    /\ "disconnect" \notin Faults
    /\ "purgeAll" \notin Faults

\* The row of a claim is not older than the claim: this is what keeps the
\* sweeper away from it, and the link between the clocks of the table and of
\* the worker that NoDoubleExecution needs to be inductive.
ClaimAge ==
    \A w \in Workers : Busy(w) => tasks[job[w]].age <= held[w]

SafeInv ==
    /\ TypeInv
    /\ FreshIds
    /\ InFlightIsRunning
    /\ NoDoubleExecution
    /\ ClaimAge
    /\ RetryBound

LEMMA BusyStep == ASSUME NEW w \in Workers, Busy(w) PROVE pc[w] \notin {"idle", "locking", "closing"}
  BY DEF Busy, InFlight

LEMMA InitSafeInv == Init => SafeInv
  BY InitTypeInv
  DEF SafeInv, Init, InFlightIsRunning, NoDoubleExecution, ClaimAge, RetryBound, Busy,
      FreshIds, InFlight, Is, NoRow

\* Nothing that is in flight is stale.
LEMMA NothingStale ==
  ASSUME Healthy, SafeInv
  PROVE  StaleIsOrphaned
  <1> SUFFICES ASSUME NEW w \in Workers, Busy(w), job[w] \in Stale PROVE FALSE
    BY DEF StaleIsOrphaned
  <1>1. tasks[job[w]] \in Row /\ held[w] \in 0 .. MaxRun
    BY RowStatus DEF SafeInv, TypeInv, TypeOK, Stale, Is
  <1>2. tasks[job[w]].age <= held[w] /\ tasks[job[w]].age > ClaimTimeout
    BY DEF SafeInv, ClaimAge, Stale
  <1> QED
    BY <1>1, <1>2, QueueAssumption DEF Healthy, Row

\* A report by the worker that holds the claim moves that row only, from
\* RUNNING, within the budget.
LEMMA ReportSafe ==
  ASSUME SafeInv, NEW w \in Workers, Busy(w), NEW s \in Status, Report(job[w], s)
  PROVE  /\ \A v \in Workers \ {w} : Busy(v) => tasks'[job[v]] = tasks[job[v]]
         /\ RetryBound'
  <1>1. job[w] \in TaskId /\ tasks[job[w]] \in Row /\ tasks[job[w]].status = "RUNNING"
    BY BusyStep, RowStatus DEF SafeInv, TypeInv, TypeOK, JobHeld, InFlightIsRunning, Is
  <1>2. \A v \in Workers \ {w} : Busy(v) => job[v] \in TaskId \ {job[w]}
    BY BusyStep DEF SafeInv, TypeInv, JobHeld, NoDoubleExecution
  <1>3. tasks[job[w]].retry \in 0 .. MaxRetries
    BY <1>1, QueueAssumption DEF SafeInv, RetryBound, Is, Row, RetryCap
  <1>4. /\ Reported(tasks[job[w]], s).retry \in 0 .. MaxRetries + 1
        /\ Reported(tasks[job[w]], s).retry = MaxRetries + 1
              => Reported(tasks[job[w]], s).status = "FAILED"
    BY <1>3, QueueAssumption DEF Reported, Set, Bump, RetryCap
  <1>5. RetryBound'
    BY <1>1, <1>3, <1>4, ReportType, QueueAssumption DEF SafeInv, TypeInv, RetryBound, Is
  <1> QED
    BY <1>1, <1>2, <1>5, ReportType DEF SafeInv

\* A worker that has reported, or goes without a report, is in flight no more.
LEMMA LeaveSafe ==
  ASSUME SafeInv, TypeInv', FreshIds', NEW w \in Workers, RetryBound',
         \A v \in Workers \ {w} : Busy(v) => tasks'[job[v]] = tasks[job[v]],
         \A v \in Workers \ {w} : pc'[v] = pc[v] /\ job'[v] = job[v] /\ held'[v] = held[v],
         pc'[w] \in {"idle", "closing"}
  PROVE  SafeInv'
  BY DEF SafeInv, InFlightIsRunning, NoDoubleExecution, ClaimAge, Busy, InFlight, Is

LEMMA ReturnLeaves ==
  ASSUME TypeInv, NEW w \in Workers,
         \/ Return(w)
         \/ Goto(w, "closing") /\ held' = [held EXCEPT ![w] = 0] /\ UNCHANGED job
  PROVE  /\ pc'[w] \in {"idle", "closing"}
         /\ \A v \in Workers \ {w} : pc'[v] = pc[v] /\ job'[v] = job[v] /\ held'[v] = held[v]
  BY DEF TypeInv, TypeOK, Return, Goto

LEMMA WorkerSafeInv ==
  ASSUME Healthy, SafeInv, NEW w \in Workers, WorkerStep(w)
  PROVE  SafeInv'
  <1>0. TypeInv /\ TypeInv' /\ FreshIds'
    BY WorkerTypeInv, WorkerKeepsNone DEF SafeInv, FreshIds
  <1>1. CASE ClaimSelect(w)
    BY <1>0, <1>1
    DEF ClaimSelect, Goto, table, SafeInv, TypeInv, TypeOK, InFlightIsRunning,
        NoDoubleExecution, ClaimAge, RetryBound, Busy, InFlight, Is
  <1>2. CASE ClaimCommit(w) \/ ClaimFails(w)
    <2>1. /\ job[w] \in TaskId /\ tasks[job[w]] \in Row /\ tasks[job[w]].status = "PENDING"
          /\ held[w] \in 0 .. MaxRun
      BY <1>0, <1>2, RowStatus
      DEF ClaimCommit, ClaimFails, TypeInv, TypeOK, JobHeld, ClaimHolds, Is
    <2>2. \A v \in Workers : Busy(v) => job[v] \in TaskId \ {job[w]}
      BY <2>1, <1>0, BusyStep DEF SafeInv, TypeInv, JobHeld, InFlightIsRunning, Is
    <2>3. RetryBound'
      BY <1>0, <1>2, <2>1, QueueAssumption
      DEF ClaimCommit, ClaimFails, Claimed, Set, SafeInv, TypeInv, TypeOK, RetryBound, Is, Row
    <2>4. \A v \in Workers \ {w} : Busy(v) => tasks'[job[v]] = tasks[job[v]]
      BY <1>0, <1>2, <2>2 DEF ClaimCommit, ClaimFails, Claimed, TypeInv, TypeOK
    <2>5. CASE ClaimCommit(w)
      <3>1. /\ tasks'[job[w]].status = "RUNNING" /\ tasks'[job[w]].age = held[w]
            /\ \A v \in Workers \ {w} : Busy(v)' <=> Busy(v)
        BY <1>0, <2>5, <2>1 DEF ClaimCommit, Claimed, Set, TypeInv, TypeOK, Goto, Busy
      <3> QED
        BY <1>0, <2>1, <2>2, <2>3, <2>4, <2>5, <3>1
        DEF ClaimCommit, SafeInv, InFlightIsRunning, NoDoubleExecution, ClaimAge, Is
    <2>6. CASE ClaimFails(w)
      BY <1>0, <2>3, <2>4, <2>6, ReturnLeaves, LeaveSafe DEF ClaimFails
    <2> QED
      BY <1>2, <2>5, <2>6
  <1>3. CASE GiveBack(w) \/ Fail(w) \/ AmbiguousSend(w) \/ Unauthorized(w) \/ Complete(w)
    <2>1. PICK s \in Status : Report(job[w], s)
      BY <1>3 DEF GiveBack, Fail, AmbiguousSend, Unauthorized, Complete, Status
    <2>2. Busy(w)
      BY <1>3 DEF GiveBack, Fail, AmbiguousSend, Unauthorized, Complete, Busy, InFlight
    <2>3. \/ Return(w)
          \/ Goto(w, "closing") /\ held' = [held EXCEPT ![w] = 0] /\ UNCHANGED job
      BY <1>3 DEF GiveBack, Fail, AmbiguousSend, Unauthorized, Complete
    <2> QED
      BY <1>0, <2>1, <2>2, <2>3, ReportSafe, ReturnLeaves, LeaveSafe
  <1>4. CASE SkipAndPrune(w)
    <2>1. Busy(w) /\ Return(w)
      BY <1>4 DEF SkipAndPrune, Busy, InFlight
    <2>2. CASE Report(job[w], "SKIPPED")
      BY <1>0, <2>1, <2>2, ReportSafe, ReturnLeaves, LeaveSafe DEF Status
    <2>3. CASE UNCHANGED tasks
      BY <1>0, <2>1, <2>3, ReturnLeaves, LeaveSafe DEF SafeInv, RetryBound, Is
    <2> QED
      BY <1>4, <2>2, <2>3 DEF SkipAndPrune, Report
  <1>5. CASE Abandon(w) \/ Close(w) \/ Crash(w)
    BY <1>0, <1>5, ReturnLeaves, LeaveSafe
    DEF Abandon, Close, Crash, table, SafeInv, RetryBound, Is
  <1>6. CASE BeginSend(w) \/ Deliver(w)
    <2>1. /\ UNCHANGED <<tasks, job, held>>
          /\ \A v \in Workers : Busy(v)' <=> Busy(v)
      BY <1>0, <1>6 DEF BeginSend, Deliver, Goto, table, Busy, InFlight, TypeInv, TypeOK
    <2> QED
      BY <1>0, <2>1 DEF SafeInv, InFlightIsRunning, NoDoubleExecution, ClaimAge, RetryBound, Is
  <1> QED
    BY <1>1, <1>2, <1>3, <1>4, <1>5, <1>6 DEF WorkerStep, Progress, Fault, CloseFails, Healthy

\* A step of the table that no worker takes leaves every claimed row alone.
LEMMA TableSafe ==
  ASSUME SafeInv, TypeInv', FreshIds', UNCHANGED <<pc, job, held>>, RetryBound',
         \A w \in Workers : Busy(w) => tasks'[job[w]] = tasks[job[w]]
  PROVE  SafeInv'
  BY DEF SafeInv, InFlightIsRunning, NoDoubleExecution, ClaimAge, Busy, Is

LEMMA NextSafeInv ==
  ASSUME Healthy
  PROVE  SafeInv /\ [Next]_vars => SafeInv'
  <1> SUFFICES ASSUME SafeInv, [Next]_vars PROVE SafeInv'
    OBVIOUS
  <1>0. TypeInv /\ TypeInv' /\ FreshIds'
    BY NextTypeInv, NextFreshIds DEF SafeInv
  <1>r. \A w \in Workers : Busy(w) => job[w] \in TaskId /\ tasks[job[w]].status = "RUNNING"
    BY <1>0, BusyStep DEF SafeInv, TypeInv, JobHeld, InFlightIsRunning, Is
  <1>b. \A t \in TaskId : tasks[t].status # "none" =>
           /\ tasks[t] \in Row /\ tasks[t].retry \in 0 .. MaxRetries + 1
           /\ tasks[t].retry = MaxRetries + 1 => tasks[t].status = "FAILED"
    BY <1>0, RowStatus, QueueAssumption DEF SafeInv, TypeInv, TypeOK, RetryBound, Is, Row, RetryCap
  <1>1. ASSUME NEW w \in Workers, WorkerStep(w) PROVE SafeInv'
    BY <1>1, WorkerSafeInv
  <1>2. CASE Sweep
    <2>1. \A w \in Workers : Busy(w) => job[w] \notin Stale
      BY NothingStale DEF StaleIsOrphaned
    <2>2. \A t \in Stale :
             /\ Swept(tasks[t]).retry <= MaxRetries + 1
             /\ Swept(tasks[t]).retry = MaxRetries + 1 => Swept(tasks[t]).status = "FAILED"
      BY <1>b, QueueAssumption DEF Stale, Is, Swept, Set, Bump, RetryCap
    <2>3. RetryBound'
      BY <1>2, <1>b, <2>2, QueueAssumption DEF Sweep, RetryBound, Is
    <2>4. \A w \in Workers : Busy(w) => tasks'[job[w]] = tasks[job[w]]
      BY <1>2, <1>r, <2>1 DEF Sweep
    <2> QED
      BY <1>0, <1>2, <2>3, <2>4, TableSafe DEF Sweep, locals
  <1>3. CASE RequeueFailed
    <2>1. RetryBound'
      BY <1>3, <1>b, QueueAssumption DEF RequeueFailed, Eligible, Requeued, Set, RetryBound, Is
    <2> QED
      BY <1>0, <1>3, <1>r, <2>1, TableSafe DEF RequeueFailed, Eligible, Is, locals
  <1>4. ASSUME NEW target \in Targets, Insert(target) PROVE SafeInv'
    <2>1. \A t \in TaskId : tasks'[t] = tasks[t] \/ (t = nextId /\ tasks'[t].retry = 0)
      BY <1>0, <1>4 DEF Insert, TypeInv, TypeOK
    <2>2. RetryBound'
      BY <2>1, <1>b, QueueAssumption DEF RetryBound, Is
    <2>3. \A w \in Workers : Busy(w) => job[w] # nextId
      <3>1. nextId \in Nat
        BY <1>0, QueueAssumption DEF TypeInv, TypeOK
      <3> QED
        BY <3>1, <1>r DEF SafeInv, FreshIds, Is
    <2>4. \A w \in Workers : Busy(w) => tasks'[job[w]] = tasks[job[w]]
      BY <2>1, <2>3, <1>r
    <2> QED
      BY <1>0, <1>4, <2>2, <2>4, TableSafe DEF Insert, locals
  <1>5. ASSUME NEW t \in TaskId, Retry(t) \/ Cancel(t) \/ PurgeTask(t) PROVE SafeInv'
    <2>1. UNCHANGED <<pc, job, held>> /\ \A u \in TaskId \ {t} : tasks'[u] = tasks[u]
      BY <1>0, <1>5 DEF Retry, Cancel, PurgeTask, locals, TypeInv, TypeOK
    <2>2. tasks[t].status # "RUNNING" /\ tasks[t].status # "none"
      BY <1>5 DEF Retry, Cancel, PurgeTask, Is
    <2>3. \/ tasks'[t].status = "none"
          \/ tasks'[t].retry \in 0 .. MaxRetries /\ tasks'[t].status # "none"
      BY <1>0, <1>5, <1>b, <2>2, QueueAssumption
      DEF Retry, Cancel, PurgeTask, Requeued, Set, Is, NoRow, TypeInv, TypeOK
    <2>4. RetryBound'
      BY <1>b, <2>1, <2>3, QueueAssumption DEF RetryBound, Is
    <2> QED
      BY <1>0, <1>r, <2>1, <2>2, <2>4, TableSafe
  <1>6. CASE Tick
    <2>1. \A t \in TaskId :
             /\ tasks'[t].status = tasks[t].status
             /\ tasks[t].status # "none" => tasks'[t].retry = tasks[t].retry
      BY <1>6 DEF Tick, Aging, Set
    <2>2. RetryBound'
      BY <2>1, <1>b, QueueAssumption DEF RetryBound, Is
    <2>3. \A w \in Workers : Busy(w)' <=> Busy(w)
      BY <1>6 DEF Tick, Busy
    <2>4. \A w \in Workers : Busy(w) => tasks'[job[w]].age <= held'[w]
      <3> SUFFICES ASSUME NEW w \in Workers, Busy(w) PROVE tasks'[job[w]].age <= held'[w]
        OBVIOUS
      <3>1. /\ job[w] \in TaskId /\ Aging(job[w]) /\ tasks[job[w]] \in Row
            /\ held[w] \in 0 .. MaxRun
        BY <1>0, <1>r, <1>b DEF Aging, Is, TypeInv, TypeOK
      <3>2. tasks'[job[w]].age = Bump(tasks[job[w]].age, AgeCap) /\ held'[w] = held[w] + 1
        BY <1>6, <3>1 DEF Tick, Set, Clocked
      <3>3. tasks[job[w]].age \in Nat /\ tasks[job[w]].age <= held[w]
        BY <3>1 DEF SafeInv, ClaimAge, Row
      <3> QED
        BY <3>1, <3>2, <3>3, QueueAssumption DEF Bump
    <2> QED
      <3>1. job' = job
        BY <1>6 DEF Tick
      <3>2. InFlightIsRunning'
        BY <1>r, <2>1, <2>3, <3>1 DEF InFlightIsRunning, Is
      <3>3. NoDoubleExecution' /\ ClaimAge'
        BY <2>3, <2>4, <3>1 DEF SafeInv, NoDoubleExecution, ClaimAge
      <3> QED
        BY <1>0, <2>2, <3>2, <3>3 DEF SafeInv
  <1>7. CASE UNCHANGED vars
    BY <1>0, <1>7
    DEF vars, SafeInv, InFlightIsRunning, NoDoubleExecution, ClaimAge, RetryBound, Busy, Is
  <1> QED
    BY <1>1, <1>2, <1>3, <1>4, <1>5, <1>6, <1>7 DEF Next, Operator, PurgeAll, Healthy

\* No two workers ever execute the same task, for any number of workers and
\* tasks, with crashes, swallowed database errors and lost answers, as long
\* as no run outlasts the claim timeout.
THEOREM ExclusiveExecution == Healthy => (Spec => []NoDoubleExecution)
  <1> SUFFICES ASSUME Healthy PROVE Spec => []NoDoubleExecution
    OBVIOUS
  <1>1. SafeInv => NoDoubleExecution
    BY DEF SafeInv
  <1>2. SafeInv /\ [Next]_vars => SafeInv'
    BY NextSafeInv
  <1> QED
    BY <1>1, <1>2, InitSafeInv, PTL DEF Spec

\* What the sweeper takes from RUNNING is in flight nowhere.
THEOREM SweptIsOrphaned == Healthy => (Spec => []StaleIsOrphaned)
  <1> SUFFICES ASSUME Healthy PROVE Spec => []StaleIsOrphaned
    OBVIOUS
  <1>1. SafeInv => StaleIsOrphaned
    BY NothingStale
  <1>2. SafeInv /\ [Next]_vars => SafeInv'
    BY NextSafeInv
  <1> QED
    BY <1>1, <1>2, InitSafeInv, PTL DEF Spec

\* At most one attempt is burnt beyond GROWTH_MAX_RETRIES, by a FAILED row.
THEOREM RetriesBounded == Healthy => (Spec => []RetryBound)
  <1> SUFFICES ASSUME Healthy PROVE Spec => []RetryBound
    OBVIOUS
  <1>1. SafeInv => RetryBound
    BY DEF SafeInv
  <1>2. SafeInv /\ [Next]_vars => SafeInv'
    BY NextSafeInv
  <1> QED
    BY <1>1, <1>2, InitSafeInv, PTL DEF Spec

-----------------------------------------------------------------------------
(* The life cycle of a row *)

Legal(t) ==
    \/ tasks'[t].status = tasks[t].status
    \/ <<tasks[t].status, tasks'[t].status>> \in LegalMoves

\* Moves out of RUNNING, the only status a report finds.
LEMMA ReportLegal ==
  ASSUME SafeInv, NEW w \in Workers, Busy(w),
         NEW s \in {"PENDING", "COMPLETED", "FAILED", "SKIPPED"}, Report(job[w], s)
  PROVE  \A t \in TaskId : Legal(t)
  <1>1. /\ job[w] \in TaskId /\ tasks[job[w]].status = "RUNNING" /\ s \in Status
    BY BusyStep DEF SafeInv, TypeInv, JobHeld, InFlightIsRunning, Is, Status
  <1>2. /\ \A t \in TaskId \ {job[w]} : tasks'[t] = tasks[t]
        /\ tasks'[job[w]] = tasks[job[w]] \/ tasks'[job[w]].status = s
    <2>1. Reported(tasks[job[w]], s).status = s
      BY DEF Reported, Set
    <2> QED
      BY <1>1, <2>1, ReportType DEF SafeInv
  <1>3. <<"RUNNING", s>> \in LegalMoves
    BY DEF LegalMoves
  <1> QED
    BY <1>1, <1>2, <1>3 DEF Legal

LEMMA StepLegal ==
  ASSUME Healthy, SafeInv, Next
  PROVE  \A t \in TaskId : Legal(t)
  <1>0. TypeInv
    BY DEF SafeInv
  <1>1. ASSUME NEW w \in Workers, WorkerStep(w) PROVE \A t \in TaskId : Legal(t)
    <2>1. CASE ClaimCommit(w) \/ ClaimFails(w)
      <3>1. job[w] \in TaskId /\ tasks[job[w]].status = "PENDING"
        BY <1>0, <2>1 DEF ClaimCommit, ClaimFails, TypeInv, JobHeld, ClaimHolds, Is
      <3>2. /\ \A t \in TaskId \ {job[w]} : tasks'[t] = tasks[t]
            /\ tasks'[job[w]] = tasks[job[w]] \/ tasks'[job[w]].status = "RUNNING"
        BY <1>0, <2>1, <3>1 DEF ClaimCommit, ClaimFails, Claimed, Set, TypeInv, TypeOK
      <3> QED
        BY <3>1, <3>2 DEF Legal, LegalMoves
    <2>2. CASE GiveBack(w) \/ Fail(w) \/ AmbiguousSend(w) \/ Unauthorized(w) \/ Complete(w)
      <3>1. Busy(w)
        BY <2>2 DEF GiveBack, Fail, AmbiguousSend, Unauthorized, Complete, Busy, InFlight
      <3>2. \E s \in {"PENDING", "COMPLETED", "FAILED", "SKIPPED"} : Report(job[w], s)
        BY <2>2 DEF GiveBack, Fail, AmbiguousSend, Unauthorized, Complete
      <3> QED
        BY <3>1, <3>2, ReportLegal
    <2>3. CASE SkipAndPrune(w)
      <3>1. Busy(w) /\ (Report(job[w], "SKIPPED") \/ UNCHANGED tasks)
        BY <2>3 DEF SkipAndPrune, Report, Busy, InFlight
      <3> QED
        BY <3>1, ReportLegal DEF Legal
    <2>4. CASE UNCHANGED tasks
      BY <2>4 DEF Legal
    <2> QED
      BY <1>1, <2>1, <2>2, <2>3, <2>4
      DEF WorkerStep, Progress, Fault, ClaimSelect, Abandon, BeginSend, Deliver, Close,
          CloseFails, Crash, table, Healthy
  <1>2. CASE Sweep
    <2>1. \A t \in Stale : /\ tasks[t].status = "RUNNING"
                           /\ Swept(tasks[t]).status \in {"PENDING", "FAILED"}
      BY DEF Stale, Swept, Set, Is
    <2>2. \A t \in TaskId :
             tasks'[t] = IF t \in Stale THEN Swept(tasks[t]) ELSE tasks[t]
      BY <1>2 DEF Sweep
    <2> QED
      BY <2>1, <2>2 DEF Legal, LegalMoves
  <1>3. CASE RequeueFailed
    BY <1>3 DEF RequeueFailed, Eligible, Requeued, Set, Is, Legal, LegalMoves
  <1>4. ASSUME NEW target \in Targets, Insert(target) PROVE \A t \in TaskId : Legal(t)
    <2>1. nextId \in TaskId /\ tasks[nextId].status = "none"
      BY <1>0, <1>4, QueueAssumption DEF SafeInv, FreshIds, TypeInv, TypeOK, Insert, TaskId, Is
    <2>2. /\ \A t \in TaskId \ {nextId} : tasks'[t] = tasks[t]
          /\ tasks'[nextId].status = "PENDING"
      BY <1>0, <1>4, <2>1 DEF Insert, TypeInv, TypeOK
    <2> QED
      BY <2>1, <2>2 DEF Legal, LegalMoves
  <1>5. ASSUME NEW t \in TaskId, Retry(t) \/ Cancel(t) \/ PurgeTask(t)
        PROVE  \A u \in TaskId : Legal(u)
    <2>1. \A u \in TaskId \ {t} : tasks'[u] = tasks[u]
      BY <1>0, <1>5 DEF Retry, Cancel, PurgeTask, TypeInv, TypeOK
    <2>2. <<tasks[t].status, tasks'[t].status>> \in LegalMoves
      BY <1>0, <1>5
      DEF Retry, Cancel, PurgeTask, Requeued, Set, NoRow, Is, TypeInv, TypeOK, LegalMoves
    <2> QED
      BY <2>1, <2>2 DEF Legal
  <1>6. CASE Tick
    BY <1>6 DEF Tick, Set, Legal
  <1> QED
    BY <1>1, <1>2, <1>3, <1>4, <1>5, <1>6 DEF Next, Operator, PurgeAll, Healthy

\* Every step moves every row along its life cycle: a report finds its row
\* RUNNING; COMPLETED, SKIPPED and CANCELLED are final.
THEOREM LifeCycleKept == Healthy => (Spec => LifeCycle)
  <1> SUFFICES ASSUME Healthy PROVE Spec => LifeCycle
    OBVIOUS
  <1>1. SafeInv /\ [Next]_vars =>
          [\A t \in TaskId : \/ tasks'[t].status = tasks[t].status
                             \/ <<tasks[t].status, tasks'[t].status>> \in LegalMoves]_vars
    BY StepLegal DEF Legal
  <1>2. SafeInv /\ [Next]_vars => SafeInv'
    BY NextSafeInv
  <1> QED
    BY <1>1, <1>2, InitSafeInv, PTL DEF Spec, LifeCycle

-----------------------------------------------------------------------------
(* At most one delivery when nothing fails *)

\* What was sent is with its worker or COMPLETED: together with the history
\* of the row in that worker's hands this is inductive.
DeliveryInv ==
    /\ SafeInv
    /\ DeliveredIsNotRepeated
    /\ AtMostOneDelivery

LEMMA InitDeliveryInv == Init => DeliveryInv
  BY InitSafeInv DEF DeliveryInv, Init, DeliveredIsNotRepeated, AtMostOneDelivery

\* A worker that has not sent yet holds a row nothing was sent for.
LEMMA UnsentIsFresh ==
  ASSUME DeliveryInv, NEW w \in Workers, pc[w] \in {"claimed", "sending"}
  PROVE  job[w] \in TaskId /\ delivered[job[w]] = 0
  <1>1. job[w] \in TaskId /\ tasks[job[w]].status = "RUNNING" /\ Busy(w)
    BY DEF DeliveryInv, SafeInv, TypeInv, JobHeld, InFlightIsRunning, Is, Busy, InFlight
  <1>2. \A v \in Workers : pc[v] = "sent" => job[v] # job[w]
    BY <1>1 DEF DeliveryInv, SafeInv, NoDoubleExecution, Busy, InFlight
  <1>3. ~(delivered[job[w]] > 0)
    BY <1>1, <1>2 DEF DeliveryInv, DeliveredIsNotRepeated, Is
  <1>4. delivered[job[w]] \in 0 .. 2
    BY <1>1 DEF DeliveryInv, SafeInv, TypeInv, TypeOK
  <1> QED
    BY <1>1, <1>3, <1>4

LEMMA WorkerDelivery ==
  ASSUME Healthy, Faults \subseteq {"error"}, DeliveryInv, NEW w \in Workers, WorkerStep(w)
  PROVE  DeliveredIsNotRepeated' /\ AtMostOneDelivery'
  <1>0. TypeInv /\ TypeOK
    BY DEF DeliveryInv, SafeInv, TypeInv
  <1>1. ASSUME UNCHANGED <<tasks, delivered>>,
               \A v \in Workers : pc[v] = "sent" => pc'[v] = "sent" /\ job'[v] = job[v]
        PROVE  DeliveredIsNotRepeated' /\ AtMostOneDelivery'
    BY <1>1 DEF DeliveryInv, DeliveredIsNotRepeated, AtMostOneDelivery, Is
  <1>2. CASE ClaimSelect(w) \/ Abandon(w) \/ BeginSend(w) \/ Close(w)
    BY <1>0, <1>1, <1>2
    DEF ClaimSelect, Abandon, BeginSend, Close, Return, Goto, table, TypeOK
  <1>3. CASE ClaimCommit(w)
    <2>1. job[w] \in TaskId /\ tasks[job[w]].status = "PENDING"
      BY <1>0, <1>3 DEF ClaimCommit, TypeInv, JobHeld, ClaimHolds, Is
    <2>2. \A t \in TaskId \ {job[w]} : tasks'[t] = tasks[t]
      BY <1>0, <1>3, <2>1 DEF ClaimCommit, Claimed, TypeOK
    <2>3. \A v \in Workers : pc[v] = "sent" => pc'[v] = "sent" /\ job[v] # job[w]
      BY <1>0, <1>3, <2>1
      DEF ClaimCommit, Goto, TypeOK, DeliveryInv, SafeInv, InFlightIsRunning, Busy, InFlight, Is
    <2>4. ~(delivered[job[w]] > 0)
      BY <2>1, <2>3 DEF DeliveryInv, DeliveredIsNotRepeated, Is
    <2> QED
      BY <1>3, <2>2, <2>3, <2>4
      DEF ClaimCommit, DeliveryInv, DeliveredIsNotRepeated, AtMostOneDelivery, Is
  <1>4. CASE GiveBack(w) \/ Unauthorized(w) \/ Fail(w) \/ SkipAndPrune(w)
    <2>1. pc[w] \in {"claimed", "sending"}
      BY <1>4 DEF GiveBack, Unauthorized, Fail, SkipAndPrune
    <2>2. \E s \in Status : Report(job[w], s)
      BY <1>4 DEF GiveBack, Unauthorized, Fail, SkipAndPrune, Report, Status
    <2>3. job[w] \in TaskId /\ delivered[job[w]] = 0 /\ delivered' = delivered
      BY <1>4, <2>1, UnsentIsFresh DEF GiveBack, Unauthorized, Fail, SkipAndPrune
    <2>4. \A t \in TaskId \ {job[w]} : tasks'[t] = tasks[t]
      BY <1>0, <2>2, <2>3, ReportType
    <2>5. \A v \in Workers : pc[v] = "sent" => pc'[v] = "sent" /\ job'[v] = job[v]
      BY <1>0, <1>4, <2>1 DEF GiveBack, Unauthorized, Fail, SkipAndPrune, Return, Goto, TypeOK
    <2> QED
      BY <2>3, <2>4, <2>5
      DEF DeliveryInv, DeliveredIsNotRepeated, AtMostOneDelivery, Is
  <1>5. CASE Deliver(w)
    <2>1. job[w] \in TaskId /\ delivered[job[w]] = 0
      BY <1>5, UnsentIsFresh DEF Deliver
    <2>2. /\ \A t \in TaskId \ {job[w]} : delivered'[t] = delivered[t]
          /\ delivered'[job[w]] \in {0, 1}
      BY <1>0, <1>5, <2>1 DEF Deliver, Accepted, Bump, TypeOK
    <2>3. /\ UNCHANGED <<tasks, job>> /\ pc'[w] = "sent"
          /\ \A v \in Workers : pc[v] = "sent" => pc'[v] = "sent"
      BY <1>0, <1>5 DEF Deliver, Goto, TypeOK
    <2> QED
      BY <2>1, <2>2, <2>3 DEF DeliveryInv, DeliveredIsNotRepeated, AtMostOneDelivery, Is
  <1>6. CASE Complete(w)
    <2>1. job[w] \in TaskId /\ tasks[job[w]].status = "RUNNING"
      BY <1>0, <1>6
      DEF Complete, TypeInv, JobHeld, DeliveryInv, SafeInv, InFlightIsRunning, Busy, InFlight, Is
    <2>2. /\ tasks' = [tasks EXCEPT ![job[w]] = Reported(tasks[job[w]], "COMPLETED")]
          /\ UNCHANGED <<delivered, job>>
      BY <1>6, <2>1 DEF Complete, Report, WithStatus, Is
    <2>3. /\ tasks'[job[w]].status = "COMPLETED"
          /\ \A t \in TaskId \ {job[w]} : tasks'[t] = tasks[t]
      BY <1>0, <2>1, <2>2 DEF TypeOK, Reported, Set
    <2>4. \A v \in Workers \ {w} : pc'[v] = pc[v]
      BY <1>0, <1>6 DEF Complete, Goto, TypeOK
    <2> QED
      BY <2>2, <2>3, <2>4 DEF DeliveryInv, DeliveredIsNotRepeated, AtMostOneDelivery, Is
  <1> QED
    BY <1>2, <1>3, <1>4, <1>5, <1>6
    DEF WorkerStep, Progress, Fault, ClaimFails, AmbiguousSend, CloseFails, Crash

LEMMA NextDeliveryInv ==
  ASSUME Healthy, Faults \subseteq {"error"}
  PROVE  DeliveryInv /\ [Next]_vars => DeliveryInv'
  <1> SUFFICES ASSUME DeliveryInv, [Next]_vars PROVE DeliveryInv'
    OBVIOUS
  <1>0. TypeInv /\ TypeOK /\ SafeInv'
    BY NextSafeInv DEF DeliveryInv, SafeInv, TypeInv
  <1>1. ASSUME NEW w \in Workers, WorkerStep(w) PROVE DeliveryInv'
    BY <1>0, <1>1, WorkerDelivery DEF DeliveryInv
  <1>2. CASE Sweep \/ RequeueFailed \/ Tick \/ UNCHANGED vars
    <2>1. /\ UNCHANGED <<pc, job, delivered>>
          /\ \A t \in TaskId : tasks[t].status \in {"COMPLETED", "none"}
                                => tasks'[t].status = tasks[t].status
      BY <1>0, <1>2
      DEF Sweep, Stale, RequeueFailed, Eligible, Tick, Aging, locals, vars, TypeOK, Is
    <2> QED
      BY <1>0, <2>1 DEF DeliveryInv, DeliveredIsNotRepeated, AtMostOneDelivery, Is
  <1>3. ASSUME NEW t \in TaskId, Retry(t) \/ Cancel(t) PROVE DeliveryInv'
    <2>1. /\ UNCHANGED <<pc, job, delivered>> /\ \A u \in TaskId \ {t} : tasks'[u] = tasks[u]
          /\ tasks[t].status \in {"FAILED", "PENDING"}
      BY <1>0, <1>3 DEF Retry, Cancel, locals, TypeOK, Is
    <2> QED
      BY <1>0, <2>1
      DEF DeliveryInv, SafeInv, InFlightIsRunning, DeliveredIsNotRepeated, AtMostOneDelivery,
          Busy, InFlight, Is
  <1>4. CASE \/ \E target \in Targets : Insert(target)
             \/ \E t \in TaskId : PurgeTask(t)
    <2>1. PICK t \in TaskId :
             /\ UNCHANGED <<pc, job>> /\ delivered' = [delivered EXCEPT ![t] = 0]
             /\ \A u \in TaskId \ {t} : tasks'[u] = tasks[u]
      <3>1. CASE \E t \in TaskId : PurgeTask(t)
        BY <1>0, <3>1 DEF PurgeTask, locals, TypeOK
      <3>2. CASE \E target \in Targets : Insert(target)
        <4>1. nextId \in TaskId
          BY <1>0, <3>2, QueueAssumption DEF Insert, TypeOK, TaskId
        <4> QED
          BY <1>0, <3>2, <4>1 DEF Insert, locals, TypeOK
      <3> QED
        BY <1>4, <3>1, <3>2
    <2> QED
      BY <1>0, <2>1
      DEF DeliveryInv, DeliveredIsNotRepeated, AtMostOneDelivery, TypeOK, Is
  <1> QED
    BY <1>1, <1>2, <1>3, <1>4 DEF Next, Operator, PurgeAll, Healthy

\* When nothing fails and no run outlasts the claim timeout, a task's message
\* is sent at most once, whatever is swept, requeued, retried or cancelled.
THEOREM DeliveredOnce == Healthy /\ Faults \subseteq {"error"} => (Spec => []AtMostOneDelivery)
  <1> SUFFICES ASSUME Healthy, Faults \subseteq {"error"} PROVE Spec => []AtMostOneDelivery
    OBVIOUS
  <1>1. DeliveryInv => AtMostOneDelivery
    BY DEF DeliveryInv
  <1>2. DeliveryInv /\ [Next]_vars => DeliveryInv'
    BY NextDeliveryInv
  <1> QED
    BY <1>1, <1>2, InitDeliveryInv, PTL DEF Spec

-----------------------------------------------------------------------------
(* The queue implements the ledger *)

\* No message is sent for a row that was truncated under its worker.
LedgerInv == SafeInv /\ detached = {}

LEMMA NextLedgerInv ==
  ASSUME Healthy
  PROVE  LedgerInv /\ [Next]_vars => LedgerInv'
  <1> SUFFICES ASSUME LedgerInv, [Next]_vars PROVE detached' = {}
    BY NextSafeInv DEF LedgerInv
  <1>1. ASSUME NEW w \in Workers, WorkerStep(w) PROVE detached' = {}
    BY <1>1
    DEF LedgerInv, WorkerStep, Progress, Fault, ClaimSelect, ClaimCommit, ClaimFails, GiveBack,
        Unauthorized, Abandon, BeginSend, Deliver, AmbiguousSend, Fail, SkipAndPrune,
        Complete, Close, CloseFails, Crash, Return
  <1> QED
    BY <1>1
    DEF LedgerInv, Next, Operator, Insert, Sweep, RequeueFailed, Retry, Cancel, PurgeTask,
        PurgeAll, Tick, Healthy, vars, locals

-----------------------------------------------------------------------------
(* The refinement mapping *)

LEMMA ChangeNone ==
  ASSUME \A u \in TaskId : EntryOf(u)' = EntryOf(u)
  PROVE  Entries' = Entries
  BY DEF Entries

LEMMA ChangeOne ==
  ASSUME NEW t \in TaskId, NEW e, EntryOf(t)' = e,
         \A u \in TaskId \ {t} : EntryOf(u)' = EntryOf(u)
  PROVE  Entries' = [Entries EXCEPT ![t] = e]
  BY DEF Entries

LEMMA ReadEntry ==
  ASSUME NEW t \in TaskId
  PROVE  /\ Entries[t] = EntryOf(t)
         /\ Entries[t].status = tasks[t].status
         /\ tasks[t].status # "none" =>
               /\ Entries[t].target = tasks[t].target
               /\ Entries[t].burnt = tasks[t].retry
               /\ Entries[t].sent = delivered[t]
               /\ Entries[t].holder = Holders(t)
               /\ Entries[t].acked = \E w \in Holders(t) : pc[w] = "sent"
  BY DEF Entries, EntryOf, Is

\* A row whose holders are those of before keeps its entry.
LEMMA SameEntry ==
  ASSUME NEW t \in TaskId, tasks'[t] = tasks[t], delivered'[t] = delivered[t],
         \A v \in Workers : (Busy(v) /\ job[v] = t) <=> (Busy(v) /\ job[v] = t)',
         \A v \in Workers : Busy(v) /\ job[v] = t => pc'[v] = pc[v]
  PROVE  EntryOf(t)' = EntryOf(t)
  <1>1. Holders(t)' = Holders(t)
    BY DEF Holders
  <1>2. (\E w \in Holders(t) : pc[w] = "sent")' <=> \E w \in Holders(t) : pc[w] = "sent"
    BY <1>1 DEF Holders
  <1> QED
    BY <1>1, <1>2 DEF EntryOf, Is

\* A worker's step leaves the entries of other rows alone.
LEMMA OthersKept ==
  ASSUME NEW w \in Workers, job'[w] \in {job[w], 0},
         \A v \in Workers \ {w} : pc'[v] = pc[v] /\ job'[v] = job[v],
         \A u \in TaskId \ {job[w]} : tasks'[u] = tasks[u] /\ delivered'[u] = delivered[u]
  PROVE  \A u \in TaskId \ {job[w]} : EntryOf(u)' = EntryOf(u)
  <1> SUFFICES ASSUME NEW u \in TaskId \ {job[w]} PROVE EntryOf(u)' = EntryOf(u)
    OBVIOUS
  <1>1. job'[w] # u /\ job[w] # u
    BY DEF TaskId
  <1> QED
    BY <1>1, SameEntry DEF Busy

\* The worker that executes a task is its holder, and the only one.
LEMMA HolderIs ==
  ASSUME LedgerInv, NEW w \in Workers, Busy(w)
  PROVE  /\ job[w] \in TaskId /\ tasks[job[w]].status = "RUNNING" /\ tasks[job[w]] \in Row
         /\ Holders(job[w]) = {w}
         /\ Entries[job[w]].holder = {w}
         /\ Entries[job[w]].acked = (pc[w] = "sent")
  <1>1. job[w] \in TaskId /\ tasks[job[w]].status = "RUNNING" /\ tasks[job[w]] \in Row
    BY BusyStep, RowStatus
    DEF LedgerInv, SafeInv, TypeInv, TypeOK, JobHeld, InFlightIsRunning, Is
  <1>2. Holders(job[w]) = {w}
    BY DEF LedgerInv, SafeInv, NoDoubleExecution, Holders
  <1> QED
    BY <1>1, <1>2, ReadEntry

LEMMA NobodyHolds ==
  ASSUME LedgerInv, NEW t \in TaskId, tasks[t].status # "RUNNING"
  PROVE  Holders(t) = {}
  BY DEF LedgerInv, SafeInv, InFlightIsRunning, Holders, Is

\* A report, or a disappearance: the holder leaves and the row is as it left it.
Leaves(w) == Return(w) \/ (Goto(w, "closing") /\ UNCHANGED job)

LEMMA LeftEntry ==
  ASSUME LedgerInv, NEW w \in Workers, NEW t \in TaskId, t = job[w], Busy(w), Leaves(w),
         tasks'[t].status # "none",
         \A u \in TaskId \ {t} : tasks'[u] = tasks[u] /\ delivered'[u] = delivered[u]
  PROVE  Entries' = [Entries EXCEPT ![t] =
                       Ledger!At(tasks'[t].status, tasks'[t].target, tasks'[t].retry,
                                 delivered'[t])]
  <1>1. /\ \A v \in Workers \ {w} : pc'[v] = pc[v] /\ job'[v] = job[v]
        /\ pc'[w] \in {"idle", "closing"} /\ job'[w] \in {job[w], 0}
    BY DEF Leaves, Return, Goto, LedgerInv, SafeInv, TypeInv, TypeOK
  <1>2. Holders(t) = {w}
    BY HolderIs
  <1>3. Holders(t)' = {}
    BY <1>1, <1>2 DEF Holders, Busy, InFlight
  <1>4. EntryOf(t)' = Ledger!At(tasks'[t].status, tasks'[t].target, tasks'[t].retry,
                                delivered'[t])
    BY <1>3 DEF EntryOf, Is, Ledger!At, Ledger!Entry
  <1>5. \A u \in TaskId \ {t} : EntryOf(u)' = EntryOf(u)
    BY <1>1, OthersKept
  <1> QED
    BY <1>4, <1>5, ChangeOne

-----------------------------------------------------------------------------
(* Every step of a worker is a step of the ledger, or none *)

LedgerStep == Ledger!Next \/ (Entries' = Entries /\ UNCHANGED channels)

\* The attempt fails or is handed back, with or without its report.
LEMMA ReportGivesUp ==
  ASSUME LedgerInv, NEW w \in Workers, pc[w] \in {"claimed", "sending"},
         NEW s \in {"PENDING", "FAILED"}, Report(job[w], s), Leaves(w),
         \/ delivered' = delivered
         \/ delivered' = [delivered EXCEPT ![job[w]] = Bump(@, 2)],
         UNCHANGED channels
  PROVE  LedgerStep
  <1>1. PICK t \in TaskId : t = job[w]
    BY DEF LedgerInv, SafeInv, TypeInv, JobHeld
  <1>2. /\ Busy(w) /\ tasks[t].status = "RUNNING" /\ tasks[t] \in Row
        /\ Entries[t].holder = {w} /\ Entries[t].acked = FALSE
    BY <1>1, HolderIs DEF Busy, InFlight
  <1>3. /\ Entries[t].status = "RUNNING" /\ Entries[t].target = tasks[t].target
        /\ Entries[t].burnt = tasks[t].retry /\ Entries[t].sent = delivered[t]
    BY <1>2, ReadEntry
  <1>4. \A u \in TaskId \ {t} : tasks'[u] = tasks[u] /\ delivered'[u] = delivered[u]
    BY <1>1, ReportType DEF LedgerInv, SafeInv, TypeInv, TypeOK, Status
  <1>5. delivered'[t] \in Ledger!Maybe(t)
    BY <1>1, <1>3 DEF LedgerInv, SafeInv, TypeInv, TypeOK, Bump, Ledger!Maybe, Ledger!More
  <1>6. tasks'[t] = tasks[t] \/ tasks'[t] = Reported(tasks[t], s)
    BY <1>1, ReportType DEF LedgerInv, SafeInv, Status
  <1>7. tasks[t].retry \in 0 .. MaxRetries
    BY <1>2, QueueAssumption DEF LedgerInv, SafeInv, RetryBound, Row, RetryCap, Is
  <1>8. Ledger!Held(t)
    BY <1>2, <1>3 DEF Ledger!Held, Ledger!Is
  <1>9. CASE tasks'[t] = tasks[t]
    <2>1. Entries' = [Entries EXCEPT ![t] = Ledger!At("RUNNING", tasks[t].target,
                                                      tasks[t].retry, delivered'[t])]
      BY <1>1, <1>2, <1>4, <1>9, LeftEntry
    <2>2. Ledger!Abandon(t)
      BY <1>2, <1>3, <1>5, <1>8, <2>1 DEF Ledger!Abandon
    <2> QED
      BY <2>2 DEF LedgerStep, Ledger!Next
  <1>10. CASE tasks'[t] = Reported(tasks[t], s)
    <2>1. /\ tasks'[t].status = s /\ tasks'[t].target = tasks[t].target
          /\ tasks'[t].retry = IF s = "FAILED" THEN tasks[t].retry + 1 ELSE tasks[t].retry
      BY <1>7, <1>10, QueueAssumption DEF Reported, Set, Bump, RetryCap
    <2>2. Entries' = [Entries EXCEPT ![t] = Ledger!At(s, tasks[t].target, tasks'[t].retry,
                                                      delivered'[t])]
      BY <1>1, <1>2, <1>4, <2>1, LeftEntry
    <2>3. Ledger!GiveUp(t)
      BY <1>2, <1>3, <1>5, <1>8, <2>1, <2>2 DEF Ledger!GiveUp
    <2> QED
      BY <2>3 DEF LedgerStep, Ledger!Next
  <1> QED
    BY <1>6, <1>9, <1>10

\* Complete and SkipAndPrune: the row ends, or the report is lost.
LEMMA ReportEnds ==
  ASSUME LedgerInv, NEW w \in Workers, Complete(w) \/ SkipAndPrune(w)
  PROVE  LedgerStep
  <1>1. PICK t \in TaskId : t = job[w]
    BY DEF LedgerInv, SafeInv, TypeInv, JobHeld, Complete, SkipAndPrune
  <1>2. /\ Busy(w) /\ tasks[t].status = "RUNNING" /\ tasks[t] \in Row
        /\ Entries[t].holder = {w} /\ Entries[t].acked = (pc[w] = "sent")
    BY <1>1, HolderIs DEF Busy, InFlight, Complete, SkipAndPrune
  <1>3. /\ Entries[t].status = "RUNNING" /\ Entries[t].target = tasks[t].target
        /\ Entries[t].burnt = tasks[t].retry /\ Entries[t].sent = delivered[t]
    BY <1>2, ReadEntry
  <1>4. Leaves(w) /\ delivered' = delivered
    BY DEF Leaves, Complete, SkipAndPrune
  <1>5. Ledger!Held(t)
    BY <1>2, <1>3 DEF Ledger!Held, Ledger!Is
  <1>6. CASE UNCHANGED <<tasks, channels>>
    <2>1. Entries' = [Entries EXCEPT ![t] = Ledger!At("RUNNING", tasks[t].target,
                                                      tasks[t].retry, delivered[t])]
      BY <1>1, <1>2, <1>4, <1>6, LeftEntry
    <2>2. Ledger!Abandon(t)
      BY <1>3, <1>5, <1>6, <2>1 DEF Ledger!Abandon, Ledger!Maybe
    <2> QED
      BY <2>2 DEF LedgerStep, Ledger!Next
  <1>7. ASSUME NEW s \in {"COMPLETED", "SKIPPED"}, tasks' = WithStatus(t, s)
        PROVE  Entries' = [Entries EXCEPT ![t] = Ledger!At(s, tasks[t].target,
                                                           tasks[t].retry, delivered[t])]
    <2>1. /\ tasks'[t].status = s /\ tasks'[t].target = tasks[t].target
          /\ tasks'[t].retry = tasks[t].retry
          /\ \A u \in TaskId \ {t} : tasks'[u] = tasks[u]
      BY <1>2, <1>7 DEF WithStatus, Reported, Set, Is, LedgerInv, SafeInv, TypeInv, TypeOK
    <2> QED
      BY <1>1, <1>2, <1>4, <2>1, LeftEntry
  <1>8. CASE Complete(w) /\ tasks' = WithStatus(t, "COMPLETED")
    <2>1. Ledger!Complete(t)
      BY <1>2, <1>3, <1>5, <1>7, <1>8 DEF Complete, Ledger!Complete
    <2> QED
      BY <2>1 DEF LedgerStep, Ledger!Next
  <1>9. CASE /\ SkipAndPrune(w) /\ tasks' = WithStatus(t, "SKIPPED")
             /\ channels' = channels \ {tasks[t].target}
    <2>1. Ledger!Skip(t)
      BY <1>2, <1>3, <1>5, <1>7, <1>9 DEF SkipAndPrune, Ledger!Skip
    <2> QED
      BY <2>1 DEF LedgerStep, Ledger!Next
  <1> QED
    BY <1>1, <1>2, <1>6, <1>8, <1>9
    DEF Complete, SkipAndPrune, Report, LedgerInv, Is

\* The worker takes a row, or its claim is committed and nobody knows.
LEMMA ClaimTakes ==
  ASSUME LedgerInv, NEW w \in Workers, ClaimCommit(w) \/ ClaimFails(w)
  PROVE  LedgerStep
  <1>1. PICK t \in TaskId : t = job[w]
    BY DEF LedgerInv, SafeInv, TypeInv, JobHeld, ClaimCommit, ClaimFails
  <1>2. tasks[t].status = "PENDING" /\ tasks[t] \in Row
    BY <1>1, RowStatus
    DEF LedgerInv, SafeInv, TypeInv, TypeOK, ClaimHolds, ClaimCommit, ClaimFails, Is
  <1>3. Holders(t) = {}
    BY <1>2, NobodyHolds
  <1>4. /\ Entries[t].status = "PENDING" /\ Entries[t].target = tasks[t].target
        /\ Entries[t].burnt = tasks[t].retry /\ Entries[t].sent = delivered[t]
    BY <1>2, ReadEntry
  <1>5. Entries[t].burnt <= MaxRetries
    BY <1>2, <1>4, QueueAssumption DEF LedgerInv, SafeInv, RetryBound, Row, RetryCap, Is
  <1>6. /\ \A v \in Workers \ {w} : pc'[v] = pc[v] /\ job'[v] = job[v]
        /\ job'[w] \in {job[w], 0} /\ delivered' = delivered /\ channels' = channels
        /\ \A u \in TaskId \ {t} : tasks'[u] = tasks[u]
    BY <1>1 DEF ClaimCommit, ClaimFails, Claimed, Return, Goto, LedgerInv, SafeInv, TypeInv, TypeOK
  <1>7. \A u \in TaskId \ {t} : EntryOf(u)' = EntryOf(u)
    BY <1>1, <1>6, OthersKept
  <1>8. CASE ClaimFails(w) /\ UNCHANGED tasks
    <2>1. pc'[w] = "idle" /\ pc[w] = "locking"
      BY <1>8 DEF ClaimFails, Return, LedgerInv, SafeInv, TypeInv, TypeOK
    <2>2. EntryOf(t)' = EntryOf(t)
      BY <1>6, <1>8, <2>1, SameEntry DEF Busy, InFlight
    <2> QED
      BY <1>6, <1>7, <2>2, ChangeNone DEF LedgerStep
  <1>9. CASE tasks' = Claimed(w)
    <2>1. /\ tasks'[t].status = "RUNNING" /\ tasks'[t].target = tasks[t].target
          /\ tasks'[t].retry = tasks[t].retry
      BY <1>1, <1>9 DEF Claimed, Set, LedgerInv, SafeInv, TypeInv, TypeOK
    <2>2. PICK holder \in {{}, {w}} : Holders(t)' = holder /\ ~ \E v \in Holders(t)' : pc'[v] = "sent"
      <3>1. CASE ClaimCommit(w)
        <4>1. pc'[w] = "claimed" /\ job'[w] = t
          BY <1>1, <3>1 DEF ClaimCommit, Goto, LedgerInv, SafeInv, TypeInv, TypeOK
        <4>2. Holders(t)' = {w}
          BY <1>3, <1>6, <4>1 DEF Holders, Busy, InFlight
        <4> QED
          BY <4>1, <4>2
      <3>2. CASE ClaimFails(w)
        <4>1. pc'[w] = "idle"
          BY <3>2 DEF ClaimFails, Return, LedgerInv, SafeInv, TypeInv, TypeOK
        <4>2. Holders(t)' = {}
          BY <1>3, <1>6, <4>1 DEF Holders, Busy, InFlight
        <4> QED
          BY <4>2
      <3> QED
        BY <3>1, <3>2
    <2>3. EntryOf(t)' = Ledger!Entry("RUNNING", tasks[t].target, tasks[t].retry,
                                    delivered[t], holder, FALSE)
      BY <1>6, <2>1, <2>2 DEF EntryOf, Is, Ledger!Entry
    <2>4. Entries' = [Entries EXCEPT ![t] =
            Ledger!Entry("RUNNING", @.target, @.burnt, @.sent, holder, FALSE)]
      BY <1>4, <1>7, <2>3, ChangeOne
    <2>5. Ledger!Take(t)
      BY <1>4, <1>5, <1>6, <2>4 DEF Ledger!Take, Ledger!Is
    <2> QED
      BY <2>5 DEF LedgerStep, Ledger!Next
  <1> QED
    BY <1>8, <1>9 DEF ClaimCommit, ClaimFails

LEMMA DeliverSends ==
  ASSUME LedgerInv, NEW w \in Workers, Deliver(w)
  PROVE  LedgerStep
  <1>1. PICK t \in TaskId : t = job[w]
    BY DEF LedgerInv, SafeInv, TypeInv, JobHeld, Deliver
  <1>2. /\ Busy(w) /\ tasks[t].status = "RUNNING" /\ Holders(t) = {w}
        /\ Entries[t].holder = {w} /\ Entries[t].acked = FALSE
    BY <1>1, HolderIs DEF Busy, InFlight, Deliver
  <1>3. /\ Entries[t].status = "RUNNING" /\ Entries[t].target = tasks[t].target
        /\ Entries[t].burnt = tasks[t].retry /\ Entries[t].sent = delivered[t]
    BY <1>2, ReadEntry
  <1>4. delivered' = [delivered EXCEPT ![t] = Bump(@, 2)] /\ UNCHANGED <<tasks, job, channels>>
    BY <1>1, <1>2 DEF Deliver, Accepted, Is, LedgerInv
  <1>5. pc'[w] = "sent" /\ \A v \in Workers \ {w} : pc'[v] = pc[v]
    BY DEF Deliver, Goto, LedgerInv, SafeInv, TypeInv, TypeOK
  <1>6. Holders(t)' = {w}
    BY <1>1, <1>2, <1>4, <1>5 DEF Holders, Busy, InFlight
  <1>7. delivered'[t] = Ledger!More(delivered[t])
    BY <1>4 DEF Ledger!More, Bump, LedgerInv, SafeInv, TypeInv, TypeOK
  <1>8. (\E v \in Holders(t) : pc[v] = "sent")' = TRUE
    BY <1>5, <1>6
  <1>9. EntryOf(t)' = Ledger!Entry("RUNNING", tasks[t].target, tasks[t].retry,
                                  Ledger!More(delivered[t]), {w}, TRUE)
    BY <1>2, <1>4, <1>6, <1>7, <1>8 DEF EntryOf, Is, Ledger!Entry
  <1>10. \A u \in TaskId \ {t} : EntryOf(u)' = EntryOf(u)
    <2>1. \A u \in TaskId \ {t} : delivered'[u] = delivered[u]
      BY <1>4 DEF LedgerInv, SafeInv, TypeInv, TypeOK
    <2> QED
      BY <1>1, <1>4, <1>5, <2>1, OthersKept
  <1>11. Ledger!Send(t)
    BY <1>2, <1>3, <1>4, <1>9, <1>10, ChangeOne DEF Ledger!Send, Ledger!Held, Ledger!Is
  <1> QED
    BY <1>11 DEF LedgerStep, Ledger!Next

\* The holder is gone and has reported nothing.
LEMMA LeavesSilently ==
  ASSUME LedgerInv, NEW w \in Workers, Busy(w), Return(w), UNCHANGED table
  PROVE  LedgerStep
  <1>1. PICK t \in TaskId : t = job[w]
    BY HolderIs
  <1>2. tasks[t].status = "RUNNING" /\ Entries[t].holder = {w}
    BY <1>1, HolderIs
  <1>3. /\ Entries[t].status = "RUNNING" /\ Entries[t].target = tasks[t].target
        /\ Entries[t].burnt = tasks[t].retry /\ Entries[t].sent = delivered[t]
    BY <1>2, ReadEntry
  <1>4. Entries' = [Entries EXCEPT ![t] = Ledger!At("RUNNING", tasks[t].target,
                                                    tasks[t].retry, delivered[t])]
    BY <1>1, <1>2, LeftEntry DEF table, Leaves
  <1>5. Ledger!Abandon(t)
    BY <1>2, <1>3, <1>4 DEF Ledger!Abandon, Ledger!Held, Ledger!Is, Ledger!Maybe, table
  <1> QED
    BY <1>5 DEF LedgerStep, Ledger!Next

\* What the ledger does not see: the claim's lock, the way to the send, the
\* disconnection.
LEMMA WorkerStutters ==
  ASSUME LedgerInv, NEW w \in Workers,
         \/ ClaimSelect(w) \/ BeginSend(w)
         \/ ~Busy(w) /\ Return(w) /\ UNCHANGED table
  PROVE  LedgerStep
  <1>1. UNCHANGED <<tasks, delivered, channels>>
    BY DEF ClaimSelect, BeginSend, table
  <1>2. CASE BeginSend(w)
    <2>1. /\ pc'[w] = "sending" /\ pc[w] = "claimed" /\ job' = job
          /\ \A v \in Workers \ {w} : pc'[v] = pc[v]
      BY <1>2 DEF BeginSend, Goto, LedgerInv, SafeInv, TypeInv, TypeOK
    <2>2. \A t \in TaskId : /\ Holders(t)' = Holders(t)
                            /\ (\E v \in Holders(t)' : pc'[v] = "sent") <=>
                               (\E v \in Holders(t) : pc[v] = "sent")
      BY <2>1 DEF Holders, Busy, InFlight
    <2>3. \A t \in TaskId : EntryOf(t)' = EntryOf(t)
      BY <1>1, <2>2 DEF EntryOf, Is
    <2> QED
      BY <1>1, <2>3, ChangeNone DEF LedgerStep
  <1>3. CASE ClaimSelect(w) \/ (~Busy(w) /\ Return(w))
    <2>1. /\ ~Busy(w) /\ ~Busy(w)'
          /\ \A v \in Workers \ {w} : pc'[v] = pc[v] /\ job'[v] = job[v]
      BY <1>3
      DEF ClaimSelect, Return, Goto, Busy, InFlight, LedgerInv, SafeInv, TypeInv, TypeOK
    <2>2. \A t \in TaskId : EntryOf(t)' = EntryOf(t)
      BY <1>1, <2>1, SameEntry DEF Busy
    <2> QED
      BY <1>1, <2>2, ChangeNone DEF LedgerStep
  <1> QED
    BY <1>2, <1>3

LEMMA WorkerLedger ==
  ASSUME Healthy, LedgerInv, NEW w \in Workers, WorkerStep(w)
  PROVE  LedgerStep
  <1>1. CASE GiveBack(w) \/ Unauthorized(w) \/ Fail(w) \/ AmbiguousSend(w)
    <2>1. /\ pc[w] \in {"claimed", "sending"} /\ Leaves(w) /\ UNCHANGED channels
          /\ \E s \in {"PENDING", "FAILED"} : Report(job[w], s)
      BY <1>1 DEF GiveBack, Unauthorized, Fail, AmbiguousSend, Leaves
    <2>2. \/ delivered' = delivered
          \/ delivered' = [delivered EXCEPT ![job[w]] = Bump(@, 2)]
      BY <1>1 DEF GiveBack, Unauthorized, Fail, AmbiguousSend, Accepted
    <2> QED
      BY <2>1, <2>2, ReportGivesUp
  <1>2. CASE Complete(w) \/ SkipAndPrune(w)
    BY <1>2, ReportEnds
  <1>3. CASE ClaimCommit(w) \/ ClaimFails(w)
    BY <1>3, ClaimTakes
  <1>4. CASE Deliver(w)
    BY <1>4, DeliverSends
  <1>5. CASE Abandon(w) \/ Close(w) \/ Crash(w)
    <2>1. Return(w) /\ UNCHANGED table
      BY <1>5 DEF Abandon, Close, Crash
    <2> QED
      BY <2>1, LeavesSilently, WorkerStutters
  <1>6. CASE ClaimSelect(w) \/ BeginSend(w)
    BY <1>6, WorkerStutters
  <1> QED
    BY <1>1, <1>2, <1>3, <1>4, <1>5, <1>6
    DEF WorkerStep, Progress, Fault, CloseFails, Healthy

-----------------------------------------------------------------------------
(* Every other step is a step of the ledger, or none *)

\* A step that moves no worker and one row nobody holds.
LEMMA UnheldEntry ==
  ASSUME LedgerInv, NEW t \in TaskId, tasks[t].status # "RUNNING",
         tasks'[t].status # "none", UNCHANGED <<pc, job>>,
         \A u \in TaskId \ {t} : tasks'[u] = tasks[u] /\ delivered'[u] = delivered[u]
  PROVE  Entries' = [Entries EXCEPT ![t] =
                       Ledger!At(tasks'[t].status, tasks'[t].target, tasks'[t].retry,
                                 delivered'[t])]
  <1>1. Holders(t)' = {}
    <2>1. Holders(t) = {}
      BY NobodyHolds
    <2> QED
      BY <2>1 DEF Holders, Busy
  <1>2. EntryOf(t)' = Ledger!At(tasks'[t].status, tasks'[t].target, tasks'[t].retry,
                                delivered'[t])
    BY <1>1 DEF EntryOf, Is, Ledger!At, Ledger!Entry
  <1>3. \A u \in TaskId \ {t} : EntryOf(u)' = EntryOf(u)
    BY SameEntry DEF Busy
  <1> QED
    BY <1>2, <1>3, ChangeOne

LEMMA InsertAccepts ==
  ASSUME LedgerInv, NEW target \in Targets, Insert(target)
  PROVE  LedgerStep
  <1>1. PICK t \in TaskId : t = nextId
    BY QueueAssumption DEF Insert, LedgerInv, SafeInv, TypeInv, TypeOK, TaskId
  <1>2. tasks[t].status = "none" /\ Entries[t] = Ledger!Nothing
    <2>1. t >= nextId
      BY <1>1, QueueAssumption DEF TaskId
    <2>2. tasks[t].status = "none"
      BY <2>1 DEF LedgerInv, SafeInv, FreshIds, Is
    <2> QED
      BY <2>2, ReadEntry DEF EntryOf, Is, Ledger!Nothing
  <1>3. /\ tasks' = [tasks EXCEPT ![t] = [status |-> "PENDING", target |-> target,
                                          retry |-> 0, age |-> 0]]
        /\ delivered' = [delivered EXCEPT ![t] = 0] /\ UNCHANGED <<channels, pc, job>>
    BY <1>1 DEF Insert, locals
  <1>4. Entries' = [Entries EXCEPT ![t] = Ledger!At("PENDING", target, 0, 0)]
    <2>1. /\ tasks'[t].status = "PENDING" /\ tasks'[t].target = target
          /\ tasks'[t].retry = 0 /\ delivered'[t] = 0
          /\ \A u \in TaskId \ {t} : tasks'[u] = tasks[u] /\ delivered'[u] = delivered[u]
      BY <1>3 DEF LedgerInv, SafeInv, TypeInv, TypeOK
    <2> QED
      BY <1>2, <1>3, <2>1, UnheldEntry
  <1>5. Ledger!Accept(t)
    BY <1>2, <1>3, <1>4 DEF Ledger!Accept
  <1> QED
    BY <1>5 DEF LedgerStep, Ledger!Next

\* retry_task and cancel_task.
LEMMA ButtonMoves ==
  ASSUME LedgerInv, NEW t \in TaskId, Retry(t) \/ Cancel(t)
  PROVE  LedgerStep
  <1>1. tasks[t].status \in {"FAILED", "PENDING"} /\ UNCHANGED <<channels, pc, job, delivered>>
    BY DEF Retry, Cancel, Is, locals
  <1>2. /\ Entries[t].status = tasks[t].status /\ Entries[t].target = tasks[t].target
        /\ Entries[t].burnt = tasks[t].retry /\ Entries[t].sent = delivered[t]
    BY <1>1, ReadEntry
  <1>3. /\ tasks'[t].status = IF Retry(t) THEN "PENDING" ELSE "CANCELLED"
        /\ tasks'[t].target = tasks[t].target /\ tasks'[t].retry = tasks[t].retry
        /\ \A u \in TaskId \ {t} : tasks'[u] = tasks[u]
    BY DEF Retry, Cancel, Requeued, Set, Is, LedgerInv, SafeInv, TypeInv, TypeOK
  <1>4. Entries' = [Entries EXCEPT ![t] = Ledger!At(tasks'[t].status, tasks[t].target,
                                                    tasks[t].retry, delivered[t])]
    BY <1>1, <1>3, UnheldEntry
  <1>5. CASE Retry(t)
    <2>1. \A u \in {t} : Ledger!Is(u, "FAILED") /\ Entries[u].burnt < MaxRetries
      BY <1>2, <1>5 DEF Retry, Is, Ledger!Is
    <2>2. Entries' = [Entries EXCEPT ![t] =
            Ledger!At("PENDING", Entries[t].target, Entries[t].burnt, Entries[t].sent)]
      BY <1>2, <1>3, <1>4, <1>5
    <2>3. DOMAIN Entries = TaskId /\ Entries = [u \in DOMAIN Entries |-> Entries[u]]
      BY DEF Entries
    <2>4. Entries' = [u \in TaskId |->
            IF u \notin {t} THEN Entries[u]
            ELSE Ledger!At("PENDING", Entries[u].target, Entries[u].burnt, Entries[u].sent)]
      BY <2>2, <2>3
    <2>5. Ledger!Requeue({t})
      BY <1>1, <2>1, <2>4 DEF Ledger!Requeue
    <2> QED
      BY <2>5 DEF LedgerStep, Ledger!Next
  <1>6. CASE Cancel(t)
    <2>1. ~Retry(t)
      BY <1>6 DEF Retry, Cancel, Is
    <2>2. Ledger!Cancel(t)
      BY <1>1, <1>2, <1>3, <1>4, <1>6, <2>1 DEF Cancel, Is, Ledger!Cancel, Ledger!Is
    <2> QED
      BY <2>2 DEF LedgerStep, Ledger!Next
  <1> QED
    BY <1>5, <1>6

LEMMA PurgePurges ==
  ASSUME LedgerInv, NEW t \in TaskId, PurgeTask(t)
  PROVE  LedgerStep
  <1>1. /\ Entries[t].status \in {"COMPLETED", "FAILED", "CANCELLED"}
        /\ UNCHANGED <<channels, pc, job>>
    BY ReadEntry DEF PurgeTask, locals
  <1>2. /\ tasks'[t] = NoRow
        /\ \A u \in TaskId \ {t} : tasks'[u] = tasks[u] /\ delivered'[u] = delivered[u]
    BY DEF PurgeTask, LedgerInv, SafeInv, TypeInv, TypeOK
  <1>3. EntryOf(t)' = Ledger!Nothing
    BY <1>2 DEF EntryOf, Is, NoRow, Ledger!Nothing
  <1>4. \A u \in TaskId \ {t} : EntryOf(u)' = EntryOf(u)
    BY <1>1, <1>2, SameEntry DEF Busy
  <1>5. Ledger!Purge(t)
    BY <1>1, <1>3, <1>4, ChangeOne DEF Ledger!Purge
  <1> QED
    BY <1>5 DEF LedgerStep, Ledger!Next

\* Nothing that is swept is held: here the clocks matter.
LEMMA SweepRecovers ==
  ASSUME Healthy, LedgerInv, Sweep
  PROVE  LedgerStep
  <1>1. \A t \in Stale : /\ tasks[t] \in Row /\ tasks[t].status = "RUNNING"
                         /\ t \in TaskId /\ Holders(t) = {}
    BY NothingStale, RowStatus
    DEF StaleIsOrphaned, Stale, Holders, Is, LedgerInv, SafeInv, TypeInv, TypeOK
  <1>2. \A t \in Stale : /\ Entries[t].status = "RUNNING" /\ Entries[t].holder = {}
                         /\ Entries[t].target = tasks[t].target
                         /\ Entries[t].burnt = tasks[t].retry /\ Entries[t].sent = delivered[t]
    BY <1>1, ReadEntry
  <1>3. UNCHANGED <<channels, pc, job, delivered>>
    BY DEF Sweep, locals
  <1>4. ASSUME NEW t \in TaskId \ Stale PROVE EntryOf(t)' = Entries[t]
    <2>1. tasks'[t] = tasks[t]
      BY <1>4 DEF Sweep
    <2> QED
      BY <1>3, <1>4, <2>1, SameEntry, ReadEntry DEF Busy
  <1>5. ASSUME NEW t \in Stale
        PROVE  EntryOf(t)' = Ledger!At(IF Entries[t].burnt >= MaxRetries THEN "FAILED"
                                       ELSE "PENDING", Entries[t].target,
                                       Entries[t].burnt + 1, Entries[t].sent)
    <2>1. tasks[t].retry \in 0 .. MaxRetries
      BY <1>1, <1>5, QueueAssumption DEF LedgerInv, SafeInv, RetryBound, Row, RetryCap, Is
    <2>2. tasks'[t] = Swept(tasks[t])
      BY <1>1, <1>5 DEF Sweep
    <2>3. /\ tasks'[t].status = IF tasks[t].retry >= MaxRetries THEN "FAILED" ELSE "PENDING"
          /\ tasks'[t].target = tasks[t].target /\ tasks'[t].retry = tasks[t].retry + 1
      BY <2>1, <2>2, QueueAssumption DEF Swept, Set, Bump, RetryCap
    <2>4. Holders(t)' = {}
      BY <1>1, <1>3, <1>5 DEF Holders, Busy
    <2>5. EntryOf(t)' = Ledger!At(tasks'[t].status, tasks'[t].target, tasks'[t].retry,
                                  delivered'[t])
      BY <2>3, <2>4 DEF EntryOf, Is, Ledger!At, Ledger!Entry
    <2> QED
      BY <1>2, <1>3, <1>5, <2>3, <2>5
  <1>6. Ledger!Recover(Stale)
    BY <1>2, <1>3, <1>4, <1>5 DEF Ledger!Recover, Ledger!Orphaned, Ledger!Is, Entries
  <1> QED
    BY <1>6 DEF LedgerStep, Ledger!Next, Stale

LEMMA RequeueRequeues ==
  ASSUME LedgerInv, RequeueFailed
  PROVE  LedgerStep
  <1>1. \A t \in Eligible : /\ t \in TaskId /\ tasks[t].status = "FAILED"
                            /\ tasks[t].retry < MaxRetries /\ Holders(t) = {}
    BY NobodyHolds DEF Eligible, Is
  <1>2. \A t \in Eligible : /\ Entries[t].status = "FAILED"
                            /\ Entries[t].target = tasks[t].target
                            /\ Entries[t].burnt = tasks[t].retry
                            /\ Entries[t].sent = delivered[t]
    BY <1>1, ReadEntry
  <1>3. UNCHANGED <<channels, pc, job, delivered>>
    BY DEF RequeueFailed, locals
  <1>4. ASSUME NEW t \in TaskId \ Eligible PROVE EntryOf(t)' = Entries[t]
    <2>1. tasks'[t] = tasks[t]
      BY <1>4 DEF RequeueFailed
    <2> QED
      BY <1>3, <1>4, <2>1, SameEntry, ReadEntry DEF Busy
  <1>5. ASSUME NEW t \in Eligible
        PROVE  EntryOf(t)' = Ledger!At("PENDING", Entries[t].target, Entries[t].burnt,
                                       Entries[t].sent)
    <2>1. /\ tasks'[t].status = "PENDING" /\ tasks'[t].target = tasks[t].target
          /\ tasks'[t].retry = tasks[t].retry
      BY <1>1, <1>5 DEF RequeueFailed, Requeued, Set
    <2>2. Holders(t)' = {}
      BY <1>1, <1>3, <1>5 DEF Holders, Busy
    <2> QED
      BY <1>2, <1>3, <1>5, <2>1, <2>2 DEF EntryOf, Is, Ledger!At, Ledger!Entry
  <1>6. Ledger!Requeue(Eligible)
    BY <1>1, <1>2, <1>3, <1>4, <1>5 DEF Ledger!Requeue, Ledger!Is, Entries
  <1> QED
    BY <1>6 DEF LedgerStep, Ledger!Next, Eligible

LEMMA TickStutters ==
  ASSUME LedgerInv, Tick
  PROVE  LedgerStep
  <1>1. \A t \in TaskId : /\ tasks'[t].status = tasks[t].status
                          /\ tasks[t].status # "none" =>
                               /\ tasks'[t].target = tasks[t].target
                               /\ tasks'[t].retry = tasks[t].retry
    BY DEF Tick, Set
  <1>2. UNCHANGED <<channels, pc, job, delivered>>
    BY DEF Tick
  <1>3. \A t \in TaskId : EntryOf(t)' = EntryOf(t)
    BY <1>1, <1>2 DEF EntryOf, Is, Holders, Busy
  <1> QED
    BY <1>2, <1>3, ChangeNone DEF LedgerStep

LEMMA NextLedger ==
  ASSUME Healthy
  PROVE  LedgerInv /\ [Next]_vars => [Ledger!Next]_(Ledger!ledger)
  <1> SUFFICES ASSUME LedgerInv, [Next]_vars PROVE LedgerStep
    BY DEF LedgerStep, Ledger!ledger
  <1>1. CASE UNCHANGED vars
    BY <1>1, ChangeNone DEF vars, LedgerStep, EntryOf, Is, Holders, Busy
  <1> QED
    BY <1>1, WorkerLedger, InsertAccepts, ButtonMoves, PurgePurges, SweepRecovers,
       RequeueRequeues, TickStutters
    DEF Next, Operator, PurgeAll, Healthy

LEMMA InitLedger == Init => LedgerInv /\ Ledger!Init
  <1> SUFFICES ASSUME Init PROVE LedgerInv /\ Ledger!Init
    OBVIOUS
  <1>1. LedgerInv
    BY InitSafeInv DEF Init, LedgerInv
  <1>2. \A t \in TaskId : EntryOf(t) = Ledger!Nothing
    BY DEF Init, EntryOf, Is, NoRow, Ledger!Nothing
  <1> QED
    BY <1>1, <1>2 DEF Ledger!Init, Entries, Init

\* The queue implements the ledger: whatever crashes, swallowed database
\* errors and lost answers do, for any number of workers and tasks, as long
\* as no run outlasts the claim timeout, disconnecting does not raise and
\* nobody truncates the table.
THEOREM QueueImplementsLedger == Healthy => (Spec => ImplementsLedger)
  <1> SUFFICES ASSUME Healthy PROVE Spec => Ledger!Spec
    BY DEF ImplementsLedger
  <1>1. LedgerInv /\ [Next]_vars => LedgerInv'
    BY NextLedgerInv
  <1>2. LedgerInv /\ [Next]_vars => [Ledger!Next]_(Ledger!ledger)
    BY NextLedger
  <1> QED
    BY <1>1, <1>2, InitLedger, PTL DEF Spec, Ledger!Spec

-----------------------------------------------------------------------------
(* What follows from the ledger alone *)

\* An answered holder has sent, and so has whoever completed; a skipped task's
\* channel is gone. Inductive over the steps of the ledger, whatever steps of
\* the queue they stand for.
Promise ==
    \A t \in TaskId :
        /\ Entries[t].status = "RUNNING" /\ Entries[t].acked => Entries[t].sent > 0
        /\ Entries[t].status = "COMPLETED" => Entries[t].sent > 0
        /\ Entries[t].status = "SKIPPED" => Entries[t].target \notin channels

LEMMA StepPromise ==
  ASSUME LedgerInv, Promise, LedgerStep
  PROVE  Promise'
  <1>1. \A t \in TaskId : Entries[t].status # "none" => Entries[t].sent \in 0 .. 2
    BY ReadEntry DEF LedgerInv, SafeInv, TypeInv, TypeOK
  <1>2. DOMAIN Entries = TaskId /\ Entries = [t \in DOMAIN Entries |-> Entries[t]]
    BY DEF Entries
  <1> USE DEF Ledger!At, Ledger!Entry, Ledger!Is, Ledger!Held, Promise
  <1>3. CASE Entries' = Entries /\ UNCHANGED channels
    BY <1>3
  <1>4. ASSUME NEW t \in TaskId,
               Ledger!Accept(t) \/ Ledger!Take(t) \/ Ledger!Cancel(t) \/ Ledger!Purge(t)
        PROVE  Promise'
    BY <1>2, <1>4
    DEF Ledger!Accept, Ledger!Take, Ledger!Cancel, Ledger!Purge, Ledger!Nothing
  <1>5. ASSUME NEW t \in TaskId, Ledger!Send(t) PROVE Promise'
    BY <1>1, <1>2, <1>5 DEF Ledger!Send, Ledger!More
  <1>6. ASSUME NEW t \in TaskId, Ledger!Abandon(t) \/ Ledger!GiveUp(t) PROVE Promise'
    BY <1>2, <1>6 DEF Ledger!Abandon, Ledger!GiveUp
  <1>7. ASSUME NEW t \in TaskId, Ledger!Complete(t) PROVE Promise'
    BY <1>2, <1>7 DEF Ledger!Complete
  <1>8. ASSUME NEW t \in TaskId, Ledger!Skip(t) PROVE Promise'
    BY <1>2, <1>8 DEF Ledger!Skip
  <1>9. ASSUME NEW S \in SUBSET TaskId, Ledger!Recover(S) \/ Ledger!Requeue(S) PROVE Promise'
    BY <1>9 DEF Ledger!Recover, Ledger!Requeue, Ledger!Orphaned
  <1> QED
    BY <1>3, <1>4, <1>5, <1>6, <1>7, <1>8, <1>9 DEF LedgerStep, Ledger!Next

LEMMA PromiseHolds ==
  ASSUME Healthy
  PROVE  Spec => [](LedgerInv /\ Promise)
  <1>1. Init => LedgerInv /\ Promise
    <2> SUFFICES ASSUME Init PROVE LedgerInv /\ Promise
      OBVIOUS
    <2>1. LedgerInv /\ Entries = [t \in TaskId |-> [status |-> "none"]]
      BY InitLedger DEF Ledger!Init, Ledger!Nothing
    <2> QED
      BY <2>1 DEF Promise
  <1>2. LedgerInv /\ Promise /\ [Next]_vars => (LedgerInv /\ Promise)'
    BY NextLedgerInv, NextLedger, StepPromise DEF LedgerStep, Ledger!ledger
  <1> QED
    BY <1>1, <1>2, PTL DEF Spec

\* Telegram accepted a message for every row that says COMPLETED.
THEOREM CompletedDelivered == Healthy => (Spec => []CompletedWasDelivered)
  <1> SUFFICES ASSUME Healthy PROVE Spec => []CompletedWasDelivered
    OBVIOUS
  <1>1. LedgerInv /\ Promise => CompletedWasDelivered
    BY ReadEntry DEF Promise, CompletedWasDelivered, Is
  <1> QED
    BY <1>1, PromiseHolds, PTL

\* No task is skipped without its channel being deleted with it.
THEOREM SkippedPruned == Healthy => (Spec => []SkippedIsPruned)
  <1> SUFFICES ASSUME Healthy PROVE Spec => []SkippedIsPruned
    OBVIOUS
  <1>1. LedgerInv /\ Promise => SkippedIsPruned
    BY ReadEntry DEF Promise, SkippedIsPruned, Is
  <1> QED
    BY <1>1, PromiseHolds, PTL

-----------------------------------------------------------------------------
(* The seeder beside the queue *)

\* What a seeder is doing, and the variables of Seeding.
Pass == [todo: SUBSET Targets, due: Seq(Targets), force: BOOLEAN, open: BOOLEAN,
         taken: SUBSET Targets, stale: SUBSET Targets]

SeedTypeOK ==
    /\ disabled \subseteq Targets
    /\ fresh \subseteq TaskId
    /\ excused \subseteq fresh
    /\ pass \in [Seeders -> Pass]
    /\ \A s \in Seeders : ~Seeding(s) => pass[s] = NoPass
    /\ pruned \subseteq Targets

\* Inductive under every fault.
SeedBase == TypeInv /\ FreshIds /\ SeedTypeOK

\* The channels a pass is still to look at or about to insert.
Named(s) == pass[s].todo \cup {pass[s].due[i] : i \in DOMAIN pass[s].due}

\* A pass names a pruned channel only if it had read it before: what it reads
\* is configured then.
PassUnpruned ==
    /\ pruned \cap channels = {}
    /\ \A s \in Seeders : Named(s) \cap (pruned \ EnvTargets) \subseteq pass[s].stale

\* What a pass is about to insert: each channel once, and unless the pass is
\* forced or knows of one the window has no task for the channel.
DueIsFree ==
    \A s \in Seeders : \A i \in DOMAIN pass[s].due :
        /\ pass[s].due[i] \notin pass[s].todo
        /\ \A j \in DOMAIN pass[s].due : pass[s].due[i] = pass[s].due[j] => i = j
        /\ \/ pass[s].force \/ pass[s].due[i] \in pass[s].taken
           \/ \A t \in fresh : tasks[t].target # pass[s].due[i]

\* The window holds rows of the table.
FreshExist == \A t \in fresh : ~Is(t, "none")

\* The inductive invariant behind DuplicateHasCause.
SeedInv == SeedBase /\ FreshExist /\ DueIsFree /\ DuplicateHasCause

\* A step that leaves the histories of a pass aside.
PassKept(s) ==
    /\ pass'[s].todo = pass[s].todo /\ pass'[s].due = pass[s].due
    /\ pass'[s].force = pass[s].force /\ pass'[s].open = pass[s].open

-----------------------------------------------------------------------------

\* Sequences under Append.
LEMMA SeqFacts ==
  ASSUME NEW S, NEW q \in Seq(S), NEW e \in S
  PROVE  /\ Len(q) \in Nat /\ DOMAIN q = 1 .. Len(q)
         /\ \A i \in DOMAIN q : q[i] \in S
         /\ Append(q, e) \in Seq(S)
         /\ DOMAIN Append(q, e) = 1 .. Len(q) + 1
         /\ \A i \in DOMAIN q : Append(q, e)[i] = q[i]
         /\ Append(q, e)[Len(q) + 1] = e
  OBVIOUS

\* The steps of the queue in which nothing is inserted.
LEMMA QueueStepIsNext ==
  ASSUME TypeInv, QueueStep
  PROVE  /\ Next
         /\ \A t \in TaskId : Is(t, "none") => Is(t, "none")'
         /\ channels' \subseteq channels
  <1>0. TypeOK
    BY DEF TypeInv
  <1>1. CASE \E w \in Workers : ~Seeding(w) /\ WorkerStep(w)
    <2>1. PICK w \in Workers : ~Seeding(w) /\ WorkerStep(w)
      BY <1>1
    <2>2. channels' \subseteq channels
      BY <2>1 DEF WorkerStep, Progress, Fault, ClaimSelect, ClaimCommit, ClaimFails, GiveBack,
        Unauthorized, Abandon, BeginSend, Deliver, AmbiguousSend, Fail, SkipAndPrune,
        Complete, Close, CloseFails, Crash, table
    <2> QED
      BY <2>1, <2>2, WorkerKeepsNone DEF Next
  <1>2. CASE Sweep \/ RequeueFailed \/ Tick
    BY <1>0, <1>2 DEF Sweep, Stale, RequeueFailed, Eligible, Tick, Aging, Next, TypeOK, Is
  <1>3. CASE Operator
    <2>1. \A t \in TaskId : Is(t, "none") => Is(t, "none")'
      BY <1>0, <1>3 DEF Operator, Retry, Cancel, PurgeTask, PurgeAll, TypeOK, Is, NoRow
    <2>2. channels' = channels
      BY <1>3 DEF Operator, Retry, Cancel, PurgeTask, PurgeAll
    <2> QED
      BY <1>3, <2>1, <2>2 DEF Next
  <1> QED
    BY <1>1, <1>2, <1>3 DEF QueueStep

\* The ids a pass takes at its commit.
New(s) == nextId .. nextId + Len(pass[s].due) - 1

\* Its rows are new, and the rest of the table is left alone.
LEMMA CommitRows ==
  ASSUME SeedBase, NEW s \in Seeders, SeedCommit(s)
  PROVE  /\ New(s) \subseteq TaskId
         /\ \A t \in New(s) :
               /\ Is(t, "none") /\ t - nextId + 1 \in DOMAIN pass[s].due
               /\ tasks'[t] \in Row /\ tasks'[t].status = "PENDING" /\ tasks'[t].retry = 0
               /\ tasks'[t].target = pass[s].due[t - nextId + 1]
               /\ delivered'[t] = 0
         /\ \A t \in TaskId \ New(s) : tasks'[t] = tasks[t] /\ delivered'[t] = delivered[t]
         /\ tasks' \in [TaskId -> Row \cup {NoRow}]
         /\ delivered' \in [TaskId -> 0 .. 2]
         /\ nextId' \in 1 .. MaxTasks + 1 /\ \A t \in TaskId : t >= nextId' <=> t >= nextId /\ t \notin New(s)
         /\ fresh' = fresh \cup New(s)
         /\ excused' = excused \cup
               {t \in New(s) : pass[s].force \/ pass[s].due[t - nextId + 1] \in pass[s].taken}
  <1> DEFINE due == pass[s].due
             row(t) == [status |-> "PENDING", target |-> due[t - nextId + 1], retry |-> 0, age |-> 0]
  <1>1. /\ due \in Seq(Targets) /\ Len(due) \in Nat /\ DOMAIN due = 1 .. Len(due)
        /\ nextId \in 1 .. MaxTasks + 1
    BY DEF SeedBase, SeedTypeOK, Pass, TypeInv, TypeOK
  <1>2. New(s) \subseteq TaskId
    BY DEF SeedCommit, New
  <1>3. \A t \in New(s) : t \in TaskId /\ t >= nextId /\ t - nextId + 1 \in DOMAIN due
    BY <1>1, <1>2 DEF New
  <1>4. \A t \in New(s) : row(t) \in Row
    <2>1. \A t \in New(s) : due[t - nextId + 1] \in Targets
      BY <1>1, <1>3
    <2> QED
      BY <2>1, QueueAssumption DEF Row, Status, RetryCap
  <1>5. /\ \A t \in New(s) : tasks'[t] = row(t) /\ delivered'[t] = 0
        /\ \A t \in TaskId \ New(s) : tasks'[t] = tasks[t] /\ delivered'[t] = delivered[t]
    BY <1>2 DEF SeedCommit, New
  <1>6. tasks' = [t \in TaskId |-> tasks'[t]] /\ delivered' = [t \in TaskId |-> delivered'[t]]
    BY DEF SeedCommit
  <1>7. \A t \in New(s) :
            /\ tasks'[t] \in Row /\ tasks'[t].status = "PENDING" /\ tasks'[t].retry = 0
            /\ tasks'[t].target = pass[s].due[t - nextId + 1]
            /\ delivered'[t] = 0
    <2> TAKE t \in New(s)
    <2>1. row(t) \in Row /\ tasks'[t] = row(t) /\ delivered'[t] = 0
      BY <1>4, <1>5
    <2>2. /\ row(t).status = "PENDING" /\ row(t).retry = 0
          /\ row(t).target = pass[s].due[t - nextId + 1]
      OBVIOUS
    <2> HIDE DEF row
    <2> QED
      BY <2>1, <2>2
  <1>8. tasks' \in [TaskId -> Row \cup {NoRow}] /\ delivered' \in [TaskId -> 0 .. 2]
    <2>1. \A t \in New(s) : tasks'[t] \in Row /\ delivered'[t] \in 0 .. 2
      BY <1>7
    <2>2. \A t \in TaskId \ New(s) : tasks'[t] \in Row \cup {NoRow} /\ delivered'[t] \in 0 .. 2
      BY <1>5 DEF SeedBase, TypeInv, TypeOK
    <2>3. \A t \in TaskId : tasks'[t] \in Row \cup {NoRow} /\ delivered'[t] \in 0 .. 2
      BY <2>1, <2>2
    <2> QED
      BY <1>6, <2>3
  <1>9. nextId' = nextId + Len(due)
    BY DEF SeedCommit
  <1>10. nextId' \in 1 .. MaxTasks + 1
    <2>1. CASE Len(due) = 0
      BY <1>1, <1>9, <2>1
    <2>2. CASE Len(due) # 0
      <3>1. nextId + Len(due) - 1 \in New(s)
        BY <1>1, <2>2 DEF New
      <3> QED
        BY <1>1, <1>2, <1>9, <3>1, QueueAssumption DEF TaskId
    <2> QED
      BY <2>1, <2>2
  <1>11. \A t \in TaskId : t >= nextId' <=> t >= nextId /\ t \notin New(s)
    BY <1>1, <1>9, QueueAssumption DEF New, TaskId
  <1>12. \A t \in New(s) : Is(t, "none")
    BY <1>3 DEF SeedBase, FreshIds
  <1>13. /\ fresh' = fresh \cup New(s)
         /\ excused' = excused \cup
               {t \in New(s) : pass[s].force \/ pass[s].due[t - nextId + 1] \in pass[s].taken}
    BY DEF SeedCommit, New
  <1> HIDE DEF row
  <1> QED
    BY <1>2, <1>3, <1>5, <1>8, <1>10, <1>11, <1>12, <1>13, <1>7

LEMMA BegunType ==
  ASSUME NEW targets \in SUBSET Targets, NEW force \in BOOLEAN
  PROVE  /\ Begun(targets, force) \in Pass
         /\ Begun(targets, force).todo = targets /\ Begun(targets, force).due = << >>
         /\ Begun(targets, force).open
  BY DEF Begun, Pass

LEMMA NoPassType ==
  /\ NoPass \in Pass /\ NoPass.todo = {} /\ NoPass.due = << >> /\ ~NoPass.open
  <1> DEFINE b == Begun({}, FALSE)
  <1>1. b \in Pass /\ b.todo = {} /\ b.due = << >>
    BY BegunType
  <1>2. NoPass = [b EXCEPT !.open = FALSE]
    BY DEF NoPass
  <1> HIDE DEF b
  <1> QED
    BY <1>1, <1>2 DEF Pass

\* A commit ends its pass, and another that is open learns of its channels.
LEMMA CommitPasses ==
  ASSUME SeedTypeOK, NEW s \in Seeders, SeedCommit(s)
  PROVE  /\ pass' \in [Seeders -> Pass]
         /\ pass'[s] = NoPass
         /\ \A r \in Seeders \ {s} :
               /\ PassKept(r) /\ pass'[r].stale = pass[r].stale
               /\ ~Seeding(r) => pass'[r] = NoPass
               /\ pass[r].taken \subseteq pass'[r].taken
               /\ Seeding(r) => {pass[s].due[i] : i \in DOMAIN pass[s].due} \subseteq pass'[r].taken
  <1> DEFINE names == {pass[s].due[i] : i \in DOMAIN pass[s].due}
             q(r) == [pass[r] EXCEPT !.taken = @ \cup names]
  <1>1. pass' = [r \in Seeders |-> IF r = s \/ ~Seeding(r) THEN NoPass ELSE q(r)]
    BY DEF SeedCommit
  <1>2. names \subseteq Targets
    <2>1. pass[s].due \in Seq(Targets)
      BY DEF SeedTypeOK, Pass
    <2> QED
      BY <2>1
  <1> HIDE DEF names
  <1>3. \A r \in Seeders :
           /\ q(r) \in Pass /\ q(r).todo = pass[r].todo /\ q(r).due = pass[r].due
           /\ q(r).force = pass[r].force /\ q(r).open = pass[r].open /\ q(r).stale = pass[r].stale
           /\ q(r).taken = pass[r].taken \cup names
    BY <1>2 DEF SeedTypeOK, Pass
  <1> HIDE DEF q
  <1>4. pass' \in [Seeders -> Pass] /\ pass'[s] = NoPass
    BY <1>1, <1>3, NoPassType
  <1>5. ASSUME NEW r \in Seeders \ {s}
        PROVE  /\ PassKept(r) /\ pass'[r].stale = pass[r].stale
               /\ ~Seeding(r) => pass'[r] = NoPass
               /\ pass[r].taken \subseteq pass'[r].taken
               /\ Seeding(r) => names \subseteq pass'[r].taken
    <2>1. CASE Seeding(r)
      BY <1>1, <1>3, <2>1 DEF PassKept
    <2>2. CASE ~Seeding(r)
      BY <1>1, <2>2 DEF PassKept, SeedTypeOK
    <2> QED
      BY <2>1, <2>2
  <1> QED
    BY <1>4, <1>5 DEF names

\* What a step of a pass before its commit does to the passes.
LEMMA PassMoves ==
  ASSUME SeedTypeOK, NEW s \in Seeders,
         \/ \E targets \in SUBSET Targets, force \in BOOLEAN : SeedStart(s, targets, force)
         \/ \E target \in Targets : SeedTarget(s, target)
         \/ SeedAbort(s)
  PROVE  /\ pass' \in [Seeders -> Pass]
         /\ \A r \in Seeders \ {s} : pass'[r] = pass[r]
         /\ \A r \in Seeders : (~Seeding(r) => pass[r] = NoPass)'
  <1>1. CASE \E targets \in SUBSET Targets, force \in BOOLEAN : SeedStart(s, targets, force)
    <2>1. PICK targets \in SUBSET Targets, force \in BOOLEAN : SeedStart(s, targets, force)
      BY <1>1
    <2>2. pass' = [pass EXCEPT ![s] = Begun(targets, force)]
      BY <2>1 DEF SeedStart
    <2> QED
      BY <2>2, BegunType DEF SeedTypeOK, Seeding
  <1>2. CASE \E target \in Targets : SeedTarget(s, target)
    <2>1. PICK target \in Targets : SeedTarget(s, target)
      BY <1>2
    <2> DEFINE d == IF ~pass[s].force /\ Blocked(target) THEN pass[s].due ELSE Append(pass[s].due, target)
               k == IF Overlooked(target) THEN pass[s].taken \cup {target} ELSE pass[s].taken \ {target}
               r == [pass[s] EXCEPT !.todo = @ \ {target}, !.due = d, !.taken = k]
    <2>2. pass[s] \in Pass
      BY DEF SeedTypeOK
    <2>3. Seeding(s)
      <3>1. pass[s] # NoPass
        BY <2>1, NoPassType DEF SeedTarget
      <3> QED
        BY <3>1 DEF SeedTypeOK
    <2>4. d \in Seq(Targets) /\ k \in SUBSET Targets
      BY <2>2, SeqFacts DEF Pass
    <2>5. pass' = [pass EXCEPT ![s] = r]
      BY <2>1, <2>2 DEF SeedTarget, Pass
    <2> HIDE DEF d, k
    <2>6. r \in Pass /\ r.open = pass[s].open
      BY <2>2, <2>4 DEF Pass
    <2> HIDE DEF r
    <2>7. /\ pass' \in [Seeders -> Pass] /\ pass'[s].open = pass[s].open
          /\ \A q \in Seeders \ {s} : pass'[q] = pass[q]
      BY <2>5, <2>6 DEF SeedTypeOK
    <2>8. Seeding(s)' /\ \A q \in Seeders \ {s} : Seeding(q)' <=> Seeding(q)
      BY <2>3, <2>7 DEF Seeding
    <2> QED
      BY <2>7, <2>8 DEF SeedTypeOK
  <1>3. CASE SeedAbort(s)
    <2>1. pass' = [pass EXCEPT ![s] = NoPass]
      BY <1>3 DEF SeedAbort
    <2> QED
      BY <2>1, NoPassType DEF SeedTypeOK, Seeding
  <1> QED
    BY <1>1, <1>2, <1>3

\* What a queue step does to the passes and to the window.
LEMMA QueuePasses ==
  ASSUME TypeInv, SeedTypeOK, QueueStep
  PROVE  /\ pass' \in [Seeders -> Pass]
         /\ \A s \in Seeders :
               /\ PassKept(s) /\ pass'[s].taken = pass[s].taken
               /\ ~Seeding(s) => pass'[s] = NoPass
               /\ Seeding(s) => pass'[s].stale = pass[s].stale \cup (channels \ channels')
         /\ fresh' \subseteq fresh /\ excused' = excused \cap fresh'
  <1> DEFINE q(s) == [pass[s] EXCEPT !.stale = @ \cup (channels \ channels')]
  <1>1. pass' = [s \in Seeders |-> IF Seeding(s) THEN q(s) ELSE pass[s]]
    BY DEF QueueStep
  <1>2. channels \subseteq Targets
    BY DEF TypeInv, TypeOK
  <1>3. \A s \in Seeders :
           /\ q(s) \in Pass /\ q(s).todo = pass[s].todo /\ q(s).due = pass[s].due
           /\ q(s).force = pass[s].force /\ q(s).open = pass[s].open /\ q(s).taken = pass[s].taken
           /\ q(s).stale = pass[s].stale \cup (channels \ channels')
    BY <1>2 DEF SeedTypeOK, Pass
  <1> HIDE DEF q
  <1>4. pass' \in [Seeders -> Pass]
    BY <1>1, <1>3 DEF SeedTypeOK
  <1>5. ASSUME NEW s \in Seeders
        PROVE  /\ PassKept(s) /\ pass'[s].taken = pass[s].taken
               /\ ~Seeding(s) => pass'[s] = NoPass
               /\ Seeding(s) => pass'[s].stale = pass[s].stale \cup (channels \ channels')
    BY <1>1, <1>3 DEF PassKept, SeedTypeOK
  <1> QED
    BY <1>4, <1>5 DEF QueueStep

LEMMA ConfiguredType == SeedBase => Configured \subseteq Targets /\ EnvTargets \subseteq Targets
  BY SeedingAssumption DEF SeedBase, TypeInv, TypeOK, Configured

LEMMA NextSeedBase == SeedBase /\ [SeedNext]_allVars => SeedBase'
  <1> SUFFICES ASSUME SeedBase, [SeedNext]_allVars PROVE SeedBase'
    OBVIOUS
  <1>0. TypeInv /\ TypeOK /\ FreshIds /\ SeedTypeOK
    BY DEF SeedBase, TypeInv
  <1>v. ASSUME UNCHANGED vars PROVE TypeInv' /\ FreshIds'
    BY <1>0, <1>v, NextTypeInv, NextFreshIds
  <1>1. CASE QueueStep
    <2>1. TypeInv' /\ FreshIds' /\ channels' \subseteq channels
      BY <1>0, <1>1, QueueStepIsNext, NextTypeInv, NextFreshIds
    <2>2. SeedTypeOK'
      BY <1>0, <1>1, <2>1, QueuePasses DEF QueueStep, SeedTypeOK, TypeOK, Seeding, PassKept
    <2> QED
      BY <2>1, <2>2 DEF SeedBase
  <1>2. ASSUME NEW s \in Seeders, SeedStep(s) PROVE SeedBase'
    <2>1. CASE SeedCommit(s)
      <3>1. TypeOK' /\ JobHeld'
        BY <1>0, <2>1, CommitRows DEF SeedCommit, locals, TypeInv, TypeOK, JobHeld
      <3>2. ClaimHolds'
        <4>1. \A w \in Workers : pc[w] = "locking" => job[w] \in TaskId \ New(s)
          BY <1>0, <2>1, CommitRows DEF TypeInv, JobHeld, ClaimHolds, Is
        <4> QED
          BY <1>0, <2>1, <4>1, CommitRows DEF SeedCommit, locals, TypeInv, ClaimHolds, Is
      <3>3. FreshIds'
        BY <1>0, <2>1, CommitRows DEF FreshIds, Is
      <3>4. SeedTypeOK'
        <4>1. UNCHANGED <<disabled, pruned>> /\ fresh' \subseteq TaskId /\ excused' \subseteq fresh'
          BY <1>0, <2>1, CommitRows DEF SeedCommit, SeedTypeOK
        <4>2. \A r \in Seeders : (~Seeding(r) => pass[r] = NoPass)'
          BY <1>0, <2>1, CommitPasses DEF PassKept, Seeding
        <4> QED
          BY <1>0, <2>1, <4>1, <4>2, CommitPasses DEF SeedTypeOK
      <3> QED
        BY <3>1, <3>2, <3>3, <3>4 DEF SeedBase, TypeInv
    <2>2. CASE \/ \E targets \in SUBSET Targets, force \in BOOLEAN : SeedStart(s, targets, force)
               \/ \E target \in Targets : SeedTarget(s, target)
               \/ SeedAbort(s)
      <3>1. UNCHANGED <<vars, disabled, fresh, excused, pruned>>
        BY <2>2 DEF SeedStart, SeedTarget, SeedAbort
      <3>2. SeedTypeOK'
        BY <1>0, <2>2, <3>1, PassMoves DEF SeedTypeOK
      <3> QED
        BY <1>v, <3>1, <3>2 DEF SeedBase
    <2> QED
      BY <1>2, <2>1, <2>2, ConfiguredType DEF SeedStep
  <1>3. CASE TargetStep
    <2>1. /\ UNCHANGED <<tasks, nextId, delivered, locals, fresh, pass, excused>>
          /\ channels' \subseteq Targets /\ disabled' \subseteq Targets /\ pruned' \subseteq Targets
      BY <1>0, <1>3 DEF TargetStep, Import, Toggle, Delete, SeedTypeOK, TypeOK, vars, locals
    <2>2. TypeInv' /\ FreshIds'
      BY <1>0, <2>1 DEF TypeInv, TypeOK, JobHeld, ClaimHolds, FreshIds, Is, locals
    <2>3. SeedTypeOK'
      BY <1>0, <2>1 DEF SeedTypeOK, Seeding
    <2> QED
      BY <2>2, <2>3 DEF SeedBase
  <1>4. CASE Expire \/ UNCHANGED allVars
    <2>1. UNCHANGED <<vars, disabled, pass, pruned>> /\ fresh' \subseteq fresh /\ excused' \subseteq fresh'
      BY <1>0, <1>4 DEF Expire, allVars, seedVars, SeedTypeOK
    <2>2. SeedTypeOK'
      BY <1>0, <2>1 DEF SeedTypeOK, Seeding
    <2> QED
      BY <1>v, <2>1, <2>2 DEF SeedBase
  <1> QED
    BY <1>1, <1>2, <1>3, <1>4 DEF SeedNext

LEMMA InitSeedBase == SeedInit => SeedBase
  <1> SUFFICES ASSUME SeedInit PROVE SeedBase
    OBVIOUS
  <1>1. TypeInv /\ FreshIds
    BY InitTypeInv DEF SeedInit, Init, FreshIds, Is, NoRow
  <1>3. SeedTypeOK
    BY NoPassType DEF SeedInit, SeedTypeOK
  <1> QED
    BY <1>1, <1>3 DEF SeedBase

-----------------------------------------------------------------------------
(* A pruned channel is not seeded *)

\* Checking a target names no new one.
LEMMA TargetNames ==
  ASSUME SeedTypeOK, NEW s \in Seeders, NEW target \in Targets, SeedTarget(s, target)
  PROVE  /\ target \in pass[s].todo /\ pass'[s].todo = pass[s].todo \ {target}
         /\ pass'[s].force = pass[s].force /\ pass'[s].stale = pass[s].stale
         /\ pass'[s].taken = IF Overlooked(target) THEN pass[s].taken \cup {target}
                             ELSE pass[s].taken \ {target}
         /\ \/ pass'[s].due = pass[s].due
            \/ /\ pass[s].force \/ ~Blocked(target)
               /\ DOMAIN pass'[s].due = DOMAIN pass[s].due \cup {Len(pass[s].due) + 1}
               /\ \A i \in DOMAIN pass[s].due : pass'[s].due[i] = pass[s].due[i]
               /\ pass'[s].due[Len(pass[s].due) + 1] = target
         /\ Named(s)' \subseteq Named(s)
  <1> DEFINE d == IF ~pass[s].force /\ Blocked(target) THEN pass[s].due ELSE Append(pass[s].due, target)
             k == IF Overlooked(target) THEN pass[s].taken \cup {target} ELSE pass[s].taken \ {target}
             r == [pass[s] EXCEPT !.todo = @ \ {target}, !.due = d, !.taken = k]
  <1>1. pass[s] \in Pass /\ pass[s].due \in Seq(Targets) /\ target \in pass[s].todo
    BY DEF SeedTypeOK, Pass, SeedTarget
  <1>2. pass' = [pass EXCEPT ![s] = r]
    BY <1>1 DEF SeedTarget, Pass
  <1>3. \/ d = pass[s].due
        \/ (pass[s].force \/ ~Blocked(target)) /\ d = Append(pass[s].due, target)
    OBVIOUS
  <1> HIDE DEF d, k
  <1>4. /\ r.todo = pass[s].todo \ {target} /\ r.force = pass[s].force
        /\ r.stale = pass[s].stale /\ r.taken = k /\ r.due = d
    BY <1>1 DEF Pass
  <1> HIDE DEF r
  <1>5. pass'[s] = r
    BY <1>2 DEF SeedTypeOK
  <1>6. \/ d = pass[s].due
        \/ /\ pass[s].force \/ ~Blocked(target)
           /\ DOMAIN d = DOMAIN pass[s].due \cup {Len(pass[s].due) + 1}
           /\ \A i \in DOMAIN pass[s].due : d[i] = pass[s].due[i]
           /\ d[Len(pass[s].due) + 1] = target
    <2>1. CASE d = pass[s].due
      BY <2>1
    <2>2. CASE (pass[s].force \/ ~Blocked(target)) /\ d = Append(pass[s].due, target)
      <3>1. /\ DOMAIN d = 1 .. Len(pass[s].due) + 1 /\ DOMAIN pass[s].due = 1 .. Len(pass[s].due)
            /\ Len(pass[s].due) \in Nat
            /\ \A i \in DOMAIN pass[s].due : d[i] = pass[s].due[i]
            /\ d[Len(pass[s].due) + 1] = target
        BY <1>1, <2>2, SeqFacts
      <3>2. DOMAIN d = DOMAIN pass[s].due \cup {Len(pass[s].due) + 1}
        BY <3>1
      <3> QED
        BY <2>2, <3>1, <3>2
    <2> QED
      BY <1>3, <2>1, <2>2
  <1>7. Named(s)' \subseteq Named(s)
    <2>1. Named(s)' = (pass[s].todo \ {target}) \cup {d[i] : i \in DOMAIN d}
      BY <1>4, <1>5 DEF Named
    <2>2. \A i \in DOMAIN d : d[i] \in {pass[s].due[j] : j \in DOMAIN pass[s].due} \cup {target}
      BY <1>6
    <2> QED
      BY <1>1, <2>1, <2>2 DEF Named
  <1> QED
    BY <1>1, <1>4, <1>5, <1>6, <1>7 DEF k

LEMMA NoPassNames == ASSUME NEW s, pass[s] = NoPass PROVE Named(s) = {}
  BY NoPassType DEF Named

LEMMA NextUnpruned == SeedBase /\ PassUnpruned /\ [SeedNext]_allVars => PassUnpruned'
  <1> SUFFICES ASSUME SeedBase, PassUnpruned, [SeedNext]_allVars PROVE PassUnpruned'
    OBVIOUS
  <1>0. TypeInv /\ SeedTypeOK
    BY DEF SeedBase
  <1>1. CASE QueueStep
    <2>1. channels' \subseteq channels /\ pruned' = pruned \cup (channels \ channels')
      BY <1>0, <1>1, QueueStepIsNext DEF QueueStep
    <2>2. ASSUME NEW s \in Seeders
          PROVE  Named(s)' \cap (pruned' \ EnvTargets) \subseteq pass'[s].stale
      <3>1. Named(s)' = Named(s)
        BY <1>0, <1>1, QueuePasses DEF Named, PassKept
      <3>2. CASE Seeding(s)
        BY <1>0, <1>1, <2>1, <3>1, <3>2, QueuePasses DEF PassUnpruned
      <3>3. CASE ~Seeding(s)
        BY <1>0, <3>1, <3>3, NoPassNames DEF SeedTypeOK
      <3> QED
        BY <3>2, <3>3
    <2> QED
      BY <2>1, <2>2 DEF PassUnpruned
  <1>2. ASSUME NEW s \in Seeders, SeedStep(s) PROVE PassUnpruned'
    <2>0. UNCHANGED <<channels, pruned>>
      BY <1>2 DEF SeedStep, SeedStart, SeedTarget, SeedCommit, SeedAbort, vars
    <2>1. ASSUME NEW targets \in {Configured, EnvTargets}, NEW force \in BOOLEAN,
                 SeedStart(s, targets, force)
          PROVE  PassUnpruned'
      <3>1. targets \subseteq Targets /\ \A r \in Seeders \ {s} : pass'[r] = pass[r]
        BY <1>0, <2>1, PassMoves, ConfiguredType
      <3>2. pass'[s] = Begun(targets, force)
        BY <1>0, <2>1 DEF SeedStart, SeedTypeOK
      <3>3. Named(s)' = targets
        BY <3>1, <3>2, BegunType DEF Named
      <3>4. Named(s)' \cap (pruned \ EnvTargets) = {}
        BY <3>3 DEF Configured, PassUnpruned
      <3> QED
        BY <2>0, <3>1, <3>4 DEF PassUnpruned, Named
    <2>2. ASSUME NEW target \in Targets, SeedTarget(s, target) PROVE PassUnpruned'
      <3>1. \A r \in Seeders \ {s} : pass'[r] = pass[r]
        BY <1>0, <2>2, PassMoves
      <3>2. Named(s)' \subseteq Named(s) /\ pass'[s].stale = pass[s].stale
        BY <1>0, <2>2, TargetNames
      <3> QED
        BY <2>0, <3>1, <3>2 DEF PassUnpruned, Named
    <2>3. CASE SeedAbort(s) \/ SeedCommit(s)
      <3>1. /\ pass'[s] = NoPass
            /\ \A r \in Seeders \ {s} : Named(r)' = Named(r) /\ pass'[r].stale = pass[r].stale
        BY <1>0, <2>3, CommitPasses DEF SeedAbort, SeedTypeOK, PassKept, Named
      <3>2. Named(s)' = {}
        BY <3>1, NoPassType DEF Named
      <3> QED
        BY <2>0, <3>1, <3>2 DEF PassUnpruned
    <2> QED
      BY <1>2, <2>1, <2>2, <2>3 DEF SeedStep
  <1>3. CASE TargetStep
    <2>1. /\ pass' = pass /\ pruned' \subseteq pruned /\ pruned' \cap channels' = {}
      BY <1>3 DEF TargetStep, Import, Toggle, Delete, PassUnpruned, vars
    <2> QED
      BY <2>1 DEF PassUnpruned, Named
  <1>4. CASE Expire \/ UNCHANGED allVars
    BY <1>4 DEF Expire, allVars, seedVars, vars, PassUnpruned, Named
  <1> QED
    BY <1>1, <1>2, <1>3, <1>4 DEF SeedNext

\* A new task is for a channel its pass names.
LEMMA InsertNamed ==
  ASSUME SeedBase, [SeedNext]_allVars, NEW t \in TaskId, Is(t, "none"), tasks'[t] # NoRow
  PROVE  \E s \in Seeders : /\ SeedCommit(s) /\ t \in New(s)
                            /\ tasks'[t].target \in Named(s) /\ pruned' = pruned
  <1>0. TypeInv /\ TypeOK
    BY DEF SeedBase, TypeInv
  <1>1. tasks[t] = NoRow
    BY <1>0, RowStatus DEF TypeOK, Is
  <1>2. CASE QueueStep
    <2>1. Is(t, "none")' /\ TypeOK'
      BY <1>0, <1>2, QueueStepIsNext, NextTypeInv DEF TypeInv
    <2> QED
      BY <2>1, RowStatus DEF TypeOK, Is
  <1>3. ASSUME NEW s \in Seeders, SeedCommit(s)
        PROVE  t \in New(s) /\ tasks'[t].target \in Named(s) /\ pruned' = pruned
    <2>1. t \in New(s)
      BY <1>1, <1>3, CommitRows
    <2>2. tasks'[t].target = pass[s].due[t - nextId + 1] /\ t - nextId + 1 \in DOMAIN pass[s].due
      BY <1>3, <2>1, CommitRows
    <2> QED
      BY <1>3, <2>1, <2>2 DEF Named, SeedCommit
  <1>4. CASE UNCHANGED tasks
    BY <1>1, <1>4
  <1> QED
    BY <1>2, <1>3, <1>4
    DEF SeedNext, SeedStep, SeedStart, SeedTarget, SeedAbort, TargetStep, Import, Toggle, Delete,
        Expire, allVars, vars

\* For any number of workers and manual passes, and whatever crashes, database
\* errors and operators do: a pass inserts no task for a channel that was pruned
\* before it read its targets.
THEOREM PrunedStays == SeedSpec => PrunedStaysOut
  <1>1. SeedInit => SeedBase /\ PassUnpruned
    <2> SUFFICES ASSUME SeedInit PROVE PassUnpruned
      BY InitSeedBase
    <2>1. \A s \in Seeders : pass[s] = NoPass
      BY DEF SeedInit
    <2> QED
      BY <2>1, NoPassNames DEF SeedInit, PassUnpruned
  <1>2. SeedBase /\ PassUnpruned /\ [SeedNext]_allVars => SeedBase' /\ PassUnpruned'
    BY NextSeedBase, NextUnpruned
  <1>3. SeedBase /\ PassUnpruned /\ [SeedNext]_allVars =>
          [\A s \in Seeders : \A target \in pruned \ EnvTargets :
              Inserts(s, target) => target \in pass[s].stale]_allVars
    <2> SUFFICES ASSUME SeedBase, PassUnpruned, [SeedNext]_allVars,
                        NEW s \in Seeders, NEW target \in pruned \ EnvTargets, Inserts(s, target)
                 PROVE  target \in pass[s].stale
      OBVIOUS
    <2>1. PICK t \in TaskId : Is(t, "none") /\ tasks'[t] # NoRow /\ tasks'[t].target = target
      BY DEF Inserts
    <2>2. PICK r \in Seeders : SeedCommit(r) /\ target \in Named(r)
      BY <2>1, InsertNamed
    <2>3. r = s
      BY <2>2, CommitPasses DEF SeedBase, Inserts, PassKept, Seeding
    <2> QED
      BY <2>2, <2>3 DEF PassUnpruned
  <1> QED
    BY <1>1, <1>2, <1>3, PTL DEF SeedSpec, PrunedStaysOut

-----------------------------------------------------------------------------
(* Why a channel has two tasks *)

\* The queue is as safe beside its seeders as by itself.
LEMMA NextSeedSafe ==
  ASSUME Healthy
  PROVE  SafeInv /\ SeedTypeOK /\ [SeedNext]_allVars => SafeInv' /\ SeedTypeOK'
  <1> SUFFICES ASSUME SafeInv, SeedTypeOK, [SeedNext]_allVars PROVE SafeInv' /\ SeedTypeOK'
    OBVIOUS
  <1>0. SeedBase /\ TypeInv' /\ FreshIds' /\ SeedTypeOK'
    BY NextSeedBase DEF SafeInv, SeedBase
  <1>1. CASE QueueStep
    BY <1>0, <1>1, QueueStepIsNext, NextSafeInv DEF SeedBase
  <1>2. CASE UNCHANGED vars
    BY <1>0, <1>2, NextSafeInv
  <1>3. ASSUME NEW s \in Seeders, SeedCommit(s) PROVE SafeInv'
    <2>1. RetryBound'
      <3> SUFFICES ASSUME NEW t \in TaskId, tasks'[t].status # "none"
                   PROVE  /\ tasks'[t].retry <= MaxRetries + 1
                          /\ tasks'[t].retry = MaxRetries + 1 => tasks'[t].status = "FAILED"
        BY DEF RetryBound, Is
      <3>1. CASE t \in New(s)
        <4>1. tasks'[t].retry = 0
          BY <1>0, <1>3, <3>1, CommitRows
        <4> QED
          BY <4>1, QueueAssumption
      <3>2. CASE t \notin New(s)
        <4>1. tasks'[t] = tasks[t]
          BY <1>0, <1>3, <3>2, CommitRows
        <4> QED
          BY <4>1 DEF SafeInv, RetryBound, Is
      <3> QED
        BY <3>1, <3>2
    <2>2. \A w \in Workers : Busy(w) => tasks'[job[w]] = tasks[job[w]]
      <3> SUFFICES ASSUME NEW w \in Workers, Busy(w) PROVE tasks'[job[w]] = tasks[job[w]]
        OBVIOUS
      <3>1. job[w] \in TaskId /\ Is(job[w], "RUNNING")
        BY BusyStep DEF SafeInv, TypeInv, JobHeld, InFlightIsRunning
      <3>2. job[w] \notin New(s)
        BY <1>0, <1>3, <3>1, CommitRows DEF Is
      <3> QED
        BY <1>0, <1>3, <3>1, <3>2, CommitRows
    <2> QED
      BY <1>0, <1>3, <2>1, <2>2, TableSafe DEF SeedCommit, locals
  <1>4. CASE TargetStep
    <2>1. UNCHANGED <<tasks, pc, job, held>>
      BY <1>4 DEF TargetStep, Import, Toggle, Delete, vars, locals
    <2> QED
      BY <1>0, <2>1, TableSafe DEF SafeInv, RetryBound, Is
  <1> QED
    BY <1>0, <1>1, <1>2, <1>3, <1>4
    DEF SeedNext, SeedStep, SeedStart, SeedTarget, SeedAbort, Expire, allVars

\* Every queue step keeps the channel of a row.
LEMMA QueueKeepsTargets ==
  ASSUME TypeInv, QueueStep, NEW t \in TaskId, ~Is(t, "none")'
  PROVE  ~Is(t, "none") /\ tasks'[t].target = tasks[t].target
  <1>0. TypeOK /\ ~Is(t, "none")
    BY QueueStepIsNext DEF TypeInv
  <1>1. CASE \E w \in Workers : WorkerStep(w)
    <2>1. PICK w \in Workers : WorkerStep(w)
      BY <1>1
    <2>2. CASE ClaimCommit(w) \/ ClaimFails(w)
      <3>1. job[w] \in TaskId
        BY <2>2 DEF ClaimCommit, ClaimFails, TypeInv, JobHeld
      <3> QED
        BY <1>0, <2>2, <3>1 DEF ClaimCommit, ClaimFails, Claimed, Set, TypeOK
    <2>3. CASE pc[w] # "idle" /\ \E s \in Status : Report(job[w], s)
      <3>1. PICK s \in Status : Report(job[w], s)
        BY <2>3
      <3>2. job[w] \in TaskId
        BY <2>3 DEF TypeInv, JobHeld
      <3>3. tasks'[t] = tasks[t] \/ tasks'[t] = Reported(tasks[t], s)
        BY <3>1, <3>2, ReportType
      <3> QED
        BY <1>0, <3>3 DEF Reported, Set
    <2>4. CASE UNCHANGED tasks
      BY <1>0, <2>4
    <2> QED
      BY <2>1, <2>2, <2>3, <2>4
      DEF WorkerStep, Progress, Fault, ClaimSelect, GiveBack, Unauthorized, Abandon, BeginSend,
          Deliver, AmbiguousSend, Fail, SkipAndPrune, Complete, Close, CloseFails, Crash, table,
          Report, Status
  <1>2. CASE Sweep \/ RequeueFailed \/ Tick
    BY <1>0, <1>2 DEF Sweep, Swept, RequeueFailed, Requeued, Tick, Set
  <1>3. CASE Operator
    <2>1. CASE \E u \in TaskId : Retry(u) \/ Cancel(u)
      BY <1>0, <2>1 DEF Retry, Cancel, Requeued, Set, TypeOK
    <2>2. CASE (\E u \in TaskId : PurgeTask(u)) \/ PurgeAll
      BY <1>0, <2>2 DEF PurgeTask, PurgeAll, NoRow, Is, TypeOK
    <2> QED
      BY <1>3, <2>1, <2>2 DEF Operator
  <1> QED
    BY <1>0, <1>1, <1>2, <1>3 DEF QueueStep

LEMMA QueueSeedInv ==
  ASSUME SeedInv, QueueStep
  PROVE  FreshExist' /\ DueIsFree' /\ DuplicateHasCause'
  <1>0. TypeInv /\ SeedTypeOK /\ fresh' \subseteq fresh /\ excused' = excused \cap fresh'
    BY QueuePasses DEF SeedInv, SeedBase
  <1>1. \A t \in fresh' : t \in TaskId /\ ~Is(t, "none")'
    <2>1. \A t \in fresh' : t \in TaskId /\ tasks'[t] # NoRow
      BY <1>0 DEF QueueStep, SeedTypeOK
    <2>2. TypeOK'
      BY <1>0, QueueStepIsNext, NextTypeInv DEF TypeInv
    <2> QED
      BY <2>1, <2>2, RowStatus DEF TypeOK, Is
  <1>2. \A t \in fresh' : tasks'[t].target = tasks[t].target
    BY <1>0, <1>1, QueueKeepsTargets
  <1>3. DueIsFree'
    BY <1>0, <1>2, QueuePasses DEF SeedInv, DueIsFree, PassKept
  <1>4. DuplicateHasCause'
    BY <1>0, <1>2 DEF SeedInv, DuplicateHasCause
  <1> QED
    BY <1>1, <1>3, <1>4 DEF FreshExist

\* The check of one target: what is not blocked and not overlooked is free.
LEMMA TargetSeedInv ==
  ASSUME SeedInv, NEW s \in Seeders, NEW target \in Targets, SeedTarget(s, target)
  PROVE  DueIsFree'
  <1>0. /\ SeedTypeOK /\ UNCHANGED <<tasks, fresh>>
        /\ \A r \in Seeders \ {s} : pass'[r] = pass[r]
    BY PassMoves DEF SeedInv, SeedBase, SeedTarget, vars
  <1>1. /\ target \in pass[s].todo /\ pass'[s].todo = pass[s].todo \ {target}
        /\ pass'[s].force = pass[s].force
        /\ pass'[s].taken = IF Overlooked(target) THEN pass[s].taken \cup {target}
                            ELSE pass[s].taken \ {target}
        /\ \/ pass'[s].due = pass[s].due
           \/ /\ pass[s].force \/ ~Blocked(target)
              /\ DOMAIN pass'[s].due = DOMAIN pass[s].due \cup {Len(pass[s].due) + 1}
              /\ \A i \in DOMAIN pass[s].due : pass'[s].due[i] = pass[s].due[i]
              /\ pass'[s].due[Len(pass[s].due) + 1] = target
    BY <1>0, TargetNames
  <1>2. ~Blocked(target) /\ ~Overlooked(target) => \A t \in fresh : tasks[t].target # target
    <2> SUFFICES ASSUME NEW t \in fresh, ~Blocked(target), ~Overlooked(target),
                        tasks[t].target = target
                 PROVE  FALSE
      OBVIOUS
    <2>1. t \in TaskId /\ ~Is(t, "none")
      BY <1>0 DEF SeedInv, FreshExist, SeedTypeOK
    <2>2. tasks[t].status \in Status
      BY <2>1, RowStatus DEF SeedInv, SeedBase, TypeInv, TypeOK, Is, Row
    <2> QED
      BY <2>2 DEF Blocked, Overlooked, Status
  <1>3. \A i \in DOMAIN pass[s].due :
           /\ pass[s].due[i] # target /\ pass[s].due[i] \notin pass[s].todo
           /\ \A j \in DOMAIN pass[s].due : pass[s].due[i] = pass[s].due[j] => i = j
           /\ \/ pass[s].force \/ pass[s].due[i] \in pass[s].taken
              \/ \A t \in fresh : tasks[t].target # pass[s].due[i]
    BY <1>1 DEF SeedInv, DueIsFree
  <1> SUFFICES ASSUME NEW i \in DOMAIN pass'[s].due
               PROVE  /\ pass'[s].due[i] \notin pass'[s].todo
                      /\ \A j \in DOMAIN pass'[s].due : pass'[s].due[i] = pass'[s].due[j] => i = j
                      /\ \/ pass[s].force \/ pass'[s].due[i] \in pass'[s].taken
                         \/ \A t \in fresh : tasks[t].target # pass'[s].due[i]
    BY <1>0, <1>1 DEF SeedInv, DueIsFree
  <1>4. CASE pass'[s].due = pass[s].due
    BY <1>1, <1>3, <1>4
  <1>5. CASE /\ pass[s].force \/ ~Blocked(target)
             /\ DOMAIN pass'[s].due = DOMAIN pass[s].due \cup {Len(pass[s].due) + 1}
             /\ \A j \in DOMAIN pass[s].due : pass'[s].due[j] = pass[s].due[j]
             /\ pass'[s].due[Len(pass[s].due) + 1] = target
    <2>1. \A j \in DOMAIN pass'[s].due :
             \/ j \in DOMAIN pass[s].due /\ pass'[s].due[j] = pass[s].due[j] /\ pass'[s].due[j] # target
             \/ j = Len(pass[s].due) + 1 /\ pass'[s].due[j] = target
      BY <1>3, <1>5
    <2>2. CASE i \in DOMAIN pass[s].due /\ pass'[s].due[i] = pass[s].due[i] /\ pass'[s].due[i] # target
      BY <1>1, <1>3, <2>1, <2>2
    <2>3. CASE i = Len(pass[s].due) + 1 /\ pass'[s].due[i] = target
      <3>1. pass'[s].due[i] \notin pass'[s].todo
        BY <1>1, <2>3
      <3>2. \A j \in DOMAIN pass'[s].due : pass'[s].due[i] = pass'[s].due[j] => i = j
        BY <2>1, <2>3
      <3>3. \/ pass[s].force \/ target \in pass'[s].taken
            \/ \A t \in fresh : tasks[t].target # target
        BY <1>1, <1>2, <1>5
      <3> QED
        BY <2>3, <3>1, <3>2, <3>3
    <2> QED
      BY <2>1, <2>2, <2>3
  <1> QED
    BY <1>1, <1>4, <1>5

\* The commit of a pass: its rows are the youngest of the window, and what it
\* inserts beside another task has its cause.
LEMMA CommitSeedInv ==
  ASSUME SeedInv, NEW s \in Seeders, SeedCommit(s)
  PROVE  FreshExist' /\ DueIsFree' /\ DuplicateHasCause'
  <1>0. SeedBase /\ SeedTypeOK /\ TypeInv /\ FreshIds
    BY DEF SeedInv, SeedBase
  <1>1. nextId \in Nat /\ TaskId \subseteq Nat
    BY <1>0, QueueAssumption DEF TypeInv, TypeOK, TaskId
  <1>2. \A t \in New(s) :
           /\ t \in TaskId /\ tasks'[t].status = "PENDING" /\ t >= nextId
           /\ t - nextId + 1 \in DOMAIN pass[s].due
           /\ tasks'[t].target = pass[s].due[t - nextId + 1]
    BY <1>0, <1>1, CommitRows DEF New
  <1>3. \A t \in fresh : t \in TaskId /\ t < nextId /\ t \notin New(s) /\ tasks'[t] = tasks[t]
    <2> SUFFICES ASSUME NEW t \in fresh
                 PROVE  t \in TaskId /\ t < nextId /\ t \notin New(s) /\ tasks'[t] = tasks[t]
      OBVIOUS
    <2>1. t \in TaskId /\ ~Is(t, "none")
      BY <1>0 DEF SeedInv, FreshExist, SeedTypeOK
    <2>2. t < nextId
      BY <1>0, <1>1, <2>1 DEF FreshIds
    <2>3. t \notin New(s)
      BY <1>1, <1>2, <2>1, <2>2
    <2> QED
      BY <1>0, <2>1, <2>2, <2>3, CommitRows
  <1>4. /\ fresh' = fresh \cup New(s)
        /\ excused' = excused \cup
              {t \in New(s) : pass[s].force \/ pass[s].due[t - nextId + 1] \in pass[s].taken}
    BY <1>0, CommitRows
  <1>5. FreshExist'
    BY <1>2, <1>3, <1>4 DEF SeedInv, FreshExist, Is
  <1>6. DueIsFree'
    <2> SUFFICES ASSUME NEW r \in Seeders, NEW i \in DOMAIN pass'[r].due
                 PROVE  /\ pass'[r].due[i] \notin pass'[r].todo
                        /\ \A j \in DOMAIN pass'[r].due : pass'[r].due[i] = pass'[r].due[j] => i = j
                        /\ \/ pass'[r].force \/ pass'[r].due[i] \in pass'[r].taken
                           \/ \A t \in fresh' : tasks'[t].target # pass'[r].due[i]
      BY DEF DueIsFree
    <2>1. pass'[r] # NoPass
      BY NoPassType
    <2>2. /\ r # s /\ Seeding(r) /\ PassKept(r) /\ pass[r].taken \subseteq pass'[r].taken
          /\ {pass[s].due[j] : j \in DOMAIN pass[s].due} \subseteq pass'[r].taken
      BY <1>0, <2>1, CommitPasses
    <2>3. \A t \in New(s) : tasks'[t].target \in pass'[r].taken
      BY <1>2, <2>2
    <2> QED
      BY <1>3, <1>4, <2>2, <2>3 DEF SeedInv, DueIsFree, PassKept
  <1>7. DuplicateHasCause'
    <2> SUFFICES ASSUME NEW t \in fresh', NEW u \in fresh', t < u,
                        tasks'[t].target = tasks'[u].target
                 PROVE  u \in excused'
      BY DEF DuplicateHasCause
    <2>1. CASE t \in fresh /\ u \in fresh
      BY <1>3, <1>4, <2>1 DEF SeedInv, DuplicateHasCause
    <2>2. CASE t \in fresh /\ u \in New(s)
      <3>1. u - nextId + 1 \in DOMAIN pass[s].due /\ tasks[t].target = pass[s].due[u - nextId + 1]
        BY <1>2, <1>3, <2>2
      <3>2. pass[s].force \/ pass[s].due[u - nextId + 1] \in pass[s].taken
        BY <2>2, <3>1 DEF SeedInv, DueIsFree
      <3> QED
        BY <1>4, <2>2, <3>2
    <2>3. CASE t \in New(s) /\ u \in New(s)
      <3> DEFINE i == t - nextId + 1
                 j == u - nextId + 1
      <3>0. /\ i \in DOMAIN pass[s].due /\ j \in DOMAIN pass[s].due
            /\ pass[s].due[i] = pass[s].due[j]
        BY <1>2, <2>3
      <3> HIDE DEF i, j
      <3>1. i = j
        BY <3>0 DEF SeedInv, DueIsFree
      <3>2. t \in Nat /\ u \in Nat
        BY <1>1, <1>2, <2>3
      <3>3. t = u
        BY <1>1, <3>1, <3>2 DEF i, j
      <3> QED
        BY <3>2, <3>3
    <2>4. CASE t \in New(s) /\ u \in fresh
      <3>1. t \in Nat /\ u \in Nat /\ t >= nextId /\ u < nextId
        BY <1>1, <1>2, <1>3, <2>4
      <3> QED
        BY <1>1, <3>1
    <2> QED
      BY <1>4, <2>1, <2>2, <2>3, <2>4
  <1> QED
    BY <1>5, <1>6, <1>7

LEMMA NextSeedInv == SeedInv /\ [SeedNext]_allVars => SeedInv'
  <1> SUFFICES ASSUME SeedInv, [SeedNext]_allVars
               PROVE  FreshExist' /\ DueIsFree' /\ DuplicateHasCause'
    BY NextSeedBase DEF SeedInv
  <1>0. SeedBase /\ SeedTypeOK
    BY DEF SeedInv, SeedBase
  <1>1. CASE QueueStep
    BY <1>1, QueueSeedInv
  <1>2. ASSUME NEW s \in Seeders, SeedStep(s)
        PROVE  FreshExist' /\ DueIsFree' /\ DuplicateHasCause'
    <2>1. CASE SeedCommit(s)
      BY <2>1, CommitSeedInv
    <2>2. CASE ~SeedCommit(s)
      <3>1. UNCHANGED <<tasks, fresh, excused>>
        BY <1>2, <2>2 DEF SeedStep, SeedStart, SeedTarget, SeedAbort, vars
      <3>2. FreshExist' /\ DuplicateHasCause'
        BY <3>1 DEF SeedInv, FreshExist, DuplicateHasCause, Is
      <3>3. CASE \E target \in Targets : SeedTarget(s, target)
        BY <3>2, <3>3, TargetSeedInv
      <3>4. ASSUME NEW targets \in SUBSET Targets, NEW force \in BOOLEAN,
                   SeedStart(s, targets, force) \/ SeedAbort(s)
            PROVE  DueIsFree'
        <4>1. \A r \in Seeders \ {s} : pass'[r] = pass[r]
          BY <1>0, <3>4, PassMoves
        <4>2. pass'[s].due = << >>
          BY <1>0, <3>4, BegunType, NoPassType DEF SeedStart, SeedAbort, SeedTypeOK
        <4> QED
          BY <3>1, <4>1, <4>2 DEF SeedInv, DueIsFree
      <3> QED
        BY <1>0, <1>2, <2>2, <3>2, <3>3, <3>4, ConfiguredType DEF SeedStep
    <2> QED
      BY <2>1, <2>2
  <1>3. CASE TargetStep \/ Expire \/ UNCHANGED allVars
    <2>1. /\ UNCHANGED <<tasks, pass>> /\ fresh' \subseteq fresh /\ excused \cap fresh' \subseteq excused'
      BY <1>3 DEF TargetStep, Import, Toggle, Delete, Expire, allVars, seedVars, vars, locals
    <2> QED
      BY <2>1 DEF SeedInv, FreshExist, DueIsFree, DuplicateHasCause, Is
  <1> QED
    BY <1>1, <1>2, <1>3 DEF SeedNext

LEMMA InitSeedInv == SeedInit => SeedInv
  <1> SUFFICES ASSUME SeedInit PROVE SeedInv
    OBVIOUS
  <1>1. \A s \in Seeders : pass[s].due = << >>
    BY NoPassType DEF SeedInit
  <1> QED
    BY <1>1, InitSeedBase DEF SeedInv, SeedInit, FreshExist, DueIsFree, DuplicateHasCause

\* For any number of channels, tasks, workers and manual passes and under every
\* fault: the window holds two tasks for a channel only where the later was
\* forced, passed over a running, failed or cancelled one, or overlapped the
\* pass that inserted the earlier.
THEOREM DuplicatesHaveCause == SeedSpec => []DuplicateHasCause
  <1>1. SeedInv => DuplicateHasCause
    BY DEF SeedInv
  <1> QED
    BY <1>1, NextSeedInv, InitSeedInv, PTL DEF SeedSpec

-----------------------------------------------------------------------------
(* What the queue promises holds beside its seeders *)

\* No two workers execute one task, whoever seeds beside them and however
\* workers crash.
THEOREM ExclusiveBesideSeeders == Healthy => (SeedSpec => []NoDoubleExecution)
  <1> SUFFICES ASSUME Healthy PROVE SeedSpec => []NoDoubleExecution
    OBVIOUS
  <1>1. SeedInit => SafeInv /\ SeedTypeOK
    BY InitSafeInv, InitSeedBase DEF SeedInit, SeedBase
  <1>2. SafeInv /\ SeedTypeOK /\ [SeedNext]_allVars => SafeInv' /\ SeedTypeOK'
    BY NextSeedSafe
  <1>3. SafeInv => NoDoubleExecution
    BY DEF SafeInv
  <1> QED
    BY <1>1, <1>2, <1>3, PTL DEF SeedSpec

LEMMA NextSeedDelivery ==
  ASSUME Healthy, Faults \subseteq {"error"}
  PROVE  DeliveryInv /\ SeedTypeOK /\ [SeedNext]_allVars => DeliveryInv' /\ SeedTypeOK'
  <1> SUFFICES ASSUME DeliveryInv, SeedTypeOK, [SeedNext]_allVars
               PROVE  DeliveredIsNotRepeated' /\ AtMostOneDelivery'
    BY NextSeedSafe DEF DeliveryInv
  <1>0. SeedBase
    BY DEF DeliveryInv, SafeInv, SeedBase
  <1>1. CASE QueueStep
    BY <1>0, <1>1, QueueStepIsNext, NextDeliveryInv DEF SeedBase, DeliveryInv
  <1>2. ASSUME NEW s \in Seeders, SeedCommit(s)
        PROVE  DeliveredIsNotRepeated' /\ AtMostOneDelivery'
    <2>1. /\ \A t \in TaskId : delivered'[t] = 0 \/ (tasks'[t] = tasks[t] /\ delivered'[t] = delivered[t])
          /\ UNCHANGED <<pc, job>>
      BY <1>0, <1>2, CommitRows DEF SeedCommit, locals
    <2> QED
      BY <2>1 DEF DeliveryInv, DeliveredIsNotRepeated, AtMostOneDelivery, Is
  <1>3. CASE UNCHANGED <<tasks, delivered, pc, job>>
    BY <1>3 DEF DeliveryInv, DeliveredIsNotRepeated, AtMostOneDelivery, Is
  <1> QED
    BY <1>1, <1>2, <1>3
    DEF SeedNext, SeedStep, SeedStart, SeedTarget, SeedAbort, TargetStep, Import, Toggle, Delete,
        Expire, allVars, vars, locals

\* Where nothing fails and no run outlasts the claim timeout, seeding at any
\* moment makes no task's message go out twice.
THEOREM OnceBesideSeeders == Healthy /\ Faults \subseteq {"error"} => (SeedSpec => []AtMostOneDelivery)
  <1> SUFFICES ASSUME Healthy, Faults \subseteq {"error"} PROVE SeedSpec => []AtMostOneDelivery
    OBVIOUS
  <1>1. SeedInit => DeliveryInv /\ SeedTypeOK
    BY InitDeliveryInv, InitSeedBase DEF SeedInit, SeedBase
  <1>2. DeliveryInv /\ SeedTypeOK /\ [SeedNext]_allVars => DeliveryInv' /\ SeedTypeOK'
    BY NextSeedDelivery
  <1>3. DeliveryInv => AtMostOneDelivery
    BY DEF DeliveryInv
  <1> QED
    BY <1>1, <1>2, <1>3, PTL DEF SeedSpec

=============================================================================
