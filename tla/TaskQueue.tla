----------------------------- MODULE TaskQueue -----------------------------
(***************************************************************************)
(* The `tasks` table and everything that writes it: the workers that claim *)
(* a row, send its message and report (src/core/dispatcher.py), the two    *)
(* maintenance passes (sweep_stale_tasks, requeue_failed_tasks) and the    *)
(* task buttons of the dashboard (src/dashboard/services.py).              *)
(*                                                                         *)
(* Every SQL transaction is one step, except the claim, whose row lock is  *)
(* visible to others (SKIP LOCKED) between its UPDATE and its COMMIT.      *)
(* Time is counted in ticks; the age of a row is the time since its        *)
(* updated_at, and is kept only where some query reads it.                 *)
(***************************************************************************)
EXTENDS Integers, FiniteSets

CONSTANTS
    Workers,       \* the worker processes
    Targets,       \* the channels a task may be for
    MaxTasks,      \* bound: how many ids the serial column hands out
    MaxRetries,    \* GROWTH_MAX_RETRIES
    BaseDelay,     \* GROWTH_REQUEUE_BASE_DELAY_SECONDS, in ticks
    ClaimTimeout,  \* GROWTH_CLAIM_TIMEOUT_MINUTES, in ticks
    MaxRun,        \* the longest time from a claim to its report, in ticks
    Faults         \* the faults the environment may inject

FaultKinds == {"crash",       \* a worker process dies, at any point
               "error",       \* an account, session or Telegram call raises
               "db",          \* a transaction fails and the code swallows it
               "disconnect",  \* client.disconnect() raises
               "ambiguous",   \* a send raises although it was delivered
               "purgeAll"}    \* TRUNCATE ... RESTART IDENTITY under live workers

ASSUME QueueAssumption ==
    /\ MaxTasks \in Nat \ {0}
    /\ MaxRetries \in Nat \ {0}
    /\ BaseDelay \in Nat \ {0}
    /\ ClaimTimeout \in Nat \ {0}
    /\ MaxRun \in Nat \ {0}
    /\ Faults \subseteq FaultKinds

VARIABLES
    tasks,      \* the rows of the table, by id
    nextId,     \* the sequence behind tasks.id
    channels,   \* the rows of target_channels
    pc,         \* where each worker is in process_next_task
    job,        \* the id a worker holds in its local `task`, 0 for none
    held,       \* ticks since the worker started its claim
    delivered,  \* history: messages Telegram accepted for the row
    detached    \* history: workers whose row was truncated under them

vars == <<tasks, nextId, channels, pc, job, held, delivered, detached>>

-----------------------------------------------------------------------------
(* Types *)

TaskId == 1 .. MaxTasks
Status == {"PENDING", "RUNNING", "COMPLETED", "FAILED", "CANCELLED", "SKIPPED"}

\* retry_count is only compared with MaxRetries and ages only with the two
\* delays, so each counter saturates just above what is compared.
RetryCap == MaxRetries + 2
Backoff(retry) == BaseDelay * 2^retry
AgeCap == (IF ClaimTimeout >= Backoff(MaxRetries) THEN ClaimTimeout ELSE Backoff(MaxRetries)) + 1
Bump(n, cap) == IF n < cap THEN n + 1 ELSE n

NoRow == [status |-> "none"]
Row == [status: Status, target: Targets, retry: 0 .. RetryCap, age: Nat]

\* UPDATE tasks SET status, retry_count, updated_at: the row keeps its target.
Set(row, status, retry, age) ==
    [status |-> status, target |-> row.target, retry |-> retry, age |-> age]

InFlight == {"claimed", "sending", "sent"}
Step == {"idle", "locking", "closing"} \cup InFlight

TypeOK ==
    /\ tasks \in [TaskId -> Row \cup {NoRow}]
    /\ nextId \in 1 .. MaxTasks + 1
    /\ channels \subseteq Targets
    /\ pc \in [Workers -> Step]
    /\ job \in [Workers -> TaskId \cup {0}]
    /\ held \in [Workers -> 0 .. MaxRun]
    /\ delivered \in [TaskId -> 0 .. 2]
    /\ detached \subseteq Workers

Init ==
    /\ tasks = [t \in TaskId |-> NoRow]
    /\ nextId = 1
    /\ channels = Targets
    /\ pc = [w \in Workers |-> "idle"]
    /\ job = [w \in Workers |-> 0]
    /\ held = [w \in Workers |-> 0]
    /\ delivered = [t \in TaskId |-> 0]
    /\ detached = {}

-----------------------------------------------------------------------------
(* State functions *)

Is(t, status) == tasks[t].status = status
Busy(w) == pc[w] \in InFlight
Locked == {job[w] : w \in {v \in Workers : pc[v] = "locking"}}
\* Mutant: the claim without SKIP LOCKED.
ClaimableLocked == {t \in TaskId : Is(t, "PENDING")}
Claimable == {t \in TaskId : Is(t, "PENDING") /\ t \notin Locked}
\* Mutants: a claim is stale as soon as it is as old as the timeout; a claim
\* with no attempt left is not recovered.
StaleTooEarly == {t \in TaskId : Is(t, "RUNNING") /\ tasks[t].age >= ClaimTimeout}
StaleUnlessLast == {t \in TaskId : /\ Is(t, "RUNNING")
                                   /\ tasks[t].age > ClaimTimeout
                                   /\ tasks[t].retry < MaxRetries}
Stale == {t \in TaskId : Is(t, "RUNNING") /\ tasks[t].age > ClaimTimeout}
\* Mutants: one attempt too many is requeued; the last one is not.
EligibleBeyond == {t \in TaskId : Is(t, "FAILED") /\ tasks[t].retry <= MaxRetries}
EligibleButLast == {t \in TaskId : Is(t, "FAILED") /\ tasks[t].retry < MaxRetries - 1}
Eligible == {t \in TaskId : /\ Is(t, "FAILED")
                            /\ tasks[t].retry < MaxRetries
                            /\ tasks[t].age > Backoff(tasks[t].retry)}

\* Mutant: handing a task back refunds an attempt.
ReportedRefund(row, status) ==
    Set(row, status, IF status = "FAILED" THEN row.retry + 1 ELSE row.retry - 1, 0)

\* What update_task_status writes into a row.
Reported(row, status) ==
    Set(row, status, IF status = "FAILED" THEN Bump(row.retry, RetryCap) ELSE row.retry, 0)

\* update_task_status: an UPDATE by id alone, whatever the row says now.
WithStatus(t, status) ==
    IF Is(t, "none") THEN tasks ELSE [tasks EXCEPT ![t] = Reported(tasks[t], status)]

\* The report of a worker waits for a row lock; a failed transaction is
\* logged and forgotten, so the worker goes on as if it had been written.
Report(t, status) ==
    /\ t \notin Locked
    /\ \/ tasks' = WithStatus(t, status)
       \/ "db" \in Faults /\ UNCHANGED tasks

Goto(w, step) == pc' = [pc EXCEPT ![w] = step]

\* process_next_task is over: its locals are gone.
Return(w) ==
    /\ pc' = [pc EXCEPT ![w] = "idle"]
    /\ job' = [job EXCEPT ![w] = 0]
    /\ held' = [held EXCEPT ![w] = 0]
    /\ detached' = detached \ {w}

table == <<tasks, nextId, channels, delivered>>
locals == <<pc, job, held, detached>>

-----------------------------------------------------------------------------
(* claim_next_task *)

\* The WITH .. FOR UPDATE SKIP LOCKED query and its UPDATE. No row in the
\* repository is given a priority, so the order is the order of ids.
ClaimSelect(w) ==
    /\ pc[w] = "idle"
    /\ \E t \in Claimable :
          /\ \A u \in Claimable : t <= u
          /\ job' = [job EXCEPT ![w] = t]
    /\ Goto(w, "locking")
    /\ UNCHANGED <<table, held, detached>>

\* The table as the claim leaves it; NOW() is the start of the transaction.
Claimed(w) ==
    [tasks EXCEPT ![job[w]] = Set(@, "RUNNING", @.retry, held[w])]

ClaimCommit(w) ==
    /\ pc[w] = "locking"
    /\ tasks' = Claimed(w)
    /\ Goto(w, "claimed")
    /\ UNCHANGED <<nextId, channels, delivered, job, held, detached>>

\* The commit raises and the exception is swallowed: the claim is rolled
\* back, or it reached the server and nobody knows of it.
ClaimFails(w) ==
    /\ "db" \in Faults
    /\ pc[w] = "locking"
    /\ tasks' \in {tasks, Claimed(w)}
    /\ Return(w)
    /\ UNCHANGED <<nextId, channels, delivered>>

-----------------------------------------------------------------------------
(* process_next_task, from the claim to the report *)

\* No active account, a FloodWait, or no transport left (also a connection
\* lost while sending): the row goes back to PENDING, retry_count untouched.
GiveBack(w) ==
    /\ pc[w] \in {"claimed", "sending"}
    /\ Report(job[w], "PENDING")
    /\ Return(w)
    /\ UNCHANGED <<nextId, channels, delivered>>

\* The account is not authorized: PENDING, then the client is disconnected.
Unauthorized(w) ==
    /\ pc[w] = "claimed"
    /\ Report(job[w], "PENDING")
    /\ Goto(w, "closing")
    /\ held' = [held EXCEPT ![w] = 0]
    /\ UNCHANGED <<nextId, channels, delivered, job, detached>>

\* get_active_accounts() or create_client() raises, outside the try: the
\* exception reaches the worker loop and the row stays RUNNING.
Abandon(w) ==
    /\ "error" \in Faults
    /\ pc[w] = "claimed"
    /\ Return(w)
    /\ UNCHANGED table

BeginSend(w) ==
    /\ pc[w] = "claimed"
    /\ Goto(w, "sending")
    /\ UNCHANGED <<table, job, held, detached>>

\* The history counts only what was sent for the row the worker claimed.
Accepted(w) ==
    IF w \in detached \/ Is(job[w], "none") THEN delivered
    ELSE [delivered EXCEPT ![job[w]] = Bump(@, 2)]

Deliver(w) ==
    /\ pc[w] = "sending"
    /\ delivered' = Accepted(w)
    /\ Goto(w, "sent")
    /\ UNCHANGED <<tasks, nextId, channels, job, held, detached>>

\* Telegram accepted the message, the answer was lost: the exception is a
\* ConnectionError (PENDING) or any other (FAILED).
AmbiguousSend(w) ==
    /\ "ambiguous" \in Faults
    /\ pc[w] = "sending"
    /\ delivered' = Accepted(w)
    /\ \E status \in {"PENDING", "FAILED"} : Report(job[w], status)
    /\ Return(w)
    /\ UNCHANGED <<nextId, channels>>

\* Any other exception, connecting or sending.
Fail(w) ==
    /\ "error" \in Faults
    /\ pc[w] \in {"claimed", "sending"}
    /\ Report(job[w], "FAILED")
    /\ Return(w)
    /\ UNCHANGED <<nextId, channels, delivered>>

\* Mutant: the status and the deletion in a transaction each.
SkipThenPrune(w) ==
    /\ pc[w] = "sending"
    /\ Report(job[w], "SKIPPED")
    /\ channels' \in {channels, channels \ Targets}
    /\ Return(w)
    /\ UNCHANGED <<nextId, delivered>>

\* skip_task(.., prune_target): NoDiscussionGroupError or a permission
\* error. The status and the deletion commit together or not at all; the
\* target is the one of the claimed task, whatever row bears its id now.
SkipAndPrune(w) ==
    /\ pc[w] = "sending"
    /\ \/ /\ job[w] \notin Locked
          /\ tasks' = WithStatus(job[w], "SKIPPED")
          /\ \E target \in IF w \in detached \/ Is(job[w], "none")
                             THEN Targets ELSE {tasks[job[w]].target} :
                channels' = channels \ {target}
       \/ "db" \in Faults /\ UNCHANGED <<tasks, channels>>
    /\ Return(w)
    /\ UNCHANGED <<nextId, delivered>>

\* Mutant: COMPLETED is written whatever execute_task says.
CompleteUnsent(w) ==
    /\ pc[w] \in {"sending", "sent"}
    /\ Report(job[w], "COMPLETED")
    /\ Goto(w, "closing")
    /\ held' = [held EXCEPT ![w] = 0]
    /\ UNCHANGED <<nextId, channels, delivered, job, detached>>

Complete(w) ==
    /\ pc[w] = "sent"
    /\ Report(job[w], "COMPLETED")
    /\ Goto(w, "closing")
    /\ held' = [held EXCEPT ![w] = 0]
    /\ UNCHANGED <<nextId, channels, delivered, job, detached>>

\* client.disconnect() after COMPLETED or after an unauthorized account.
Close(w) ==
    /\ pc[w] = "closing"
    /\ Return(w)
    /\ UNCHANGED table

\* It raises, inside the try: a second report overwrites the first.
CloseFails(w) ==
    /\ "disconnect" \in Faults
    /\ pc[w] = "closing"
    /\ \E status \in {"PENDING", "FAILED"} : Report(job[w], status)
    /\ Return(w)
    /\ UNCHANGED <<nextId, channels, delivered>>

\* SIGKILL or power loss; an open claim is rolled back by the server.
Crash(w) ==
    /\ "crash" \in Faults
    /\ pc[w] # "idle"
    /\ Return(w)
    /\ UNCHANGED table

-----------------------------------------------------------------------------
(* Maintenance and dashboard *)

\* seed_tasks: one new PENDING row, for a target that may have been deleted
\* since the seeder read it (Seeding says which targets are due).
Insert(target) ==
    /\ nextId <= MaxTasks
    /\ tasks' = [tasks EXCEPT ![nextId] =
                    [status |-> "PENDING", target |-> target, retry |-> 0, age |-> 0]]
    /\ delivered' = [delivered EXCEPT ![nextId] = 0]
    /\ nextId' = nextId + 1
    /\ UNCHANGED <<channels, locals>>

\* Mutant: a claim is given up one attempt later.
SweptLate(row) ==
    Set(row, IF row.retry > MaxRetries THEN "FAILED" ELSE "PENDING",
        Bump(row.retry, RetryCap), 0)

\* retry_count is compared before it is incremented.
Swept(row) ==
    Set(row, IF row.retry >= MaxRetries THEN "FAILED" ELSE "PENDING",
        Bump(row.retry, RetryCap), 0)

\* sweep_stale_tasks, by the worker's maintenance pass or the dashboard.
Sweep ==
    /\ Stale # {}
    /\ tasks' = [t \in TaskId |->
          IF t \in Stale THEN Swept(tasks[t]) ELSE tasks[t]]
    /\ UNCHANGED <<nextId, channels, delivered, locals>>

Requeued(row) == Set(row, "PENDING", row.retry, 0)

\* requeue_failed_tasks: the exponential backoff has elapsed.
RequeueFailed ==
    /\ Eligible # {}
    /\ tasks' = [t \in TaskId |-> IF t \in Eligible THEN Requeued(tasks[t]) ELSE tasks[t]]
    /\ UNCHANGED <<nextId, channels, delivered, locals>>

\* Mutant: the retry button on a row in any status.
RetryAnything(t) ==
    /\ ~Is(t, "none")
    /\ tasks[t].retry < MaxRetries
    /\ tasks' = [tasks EXCEPT ![t] = Requeued(@)]
    /\ UNCHANGED <<nextId, channels, delivered, locals>>

\* retry_task: the dashboard's retry button, no backoff.
Retry(t) ==
    /\ Is(t, "FAILED")
    /\ tasks[t].retry < MaxRetries
    /\ tasks' = [tasks EXCEPT ![t] = Requeued(@)]
    /\ UNCHANGED <<nextId, channels, delivered, locals>>

\* cancel_task waits for an open claim and then finds the row RUNNING.
Cancel(t) ==
    /\ Is(t, "PENDING")
    /\ t \notin Locked
    /\ tasks' = [tasks EXCEPT ![t] = Set(@, "CANCELLED", @.retry, 0)]
    /\ UNCHANGED <<nextId, channels, delivered, locals>>

\* purge_task deletes a finished row; a SKIPPED one it leaves.
PurgeTask(t) ==
    /\ tasks[t].status \in {"COMPLETED", "FAILED", "CANCELLED"}
    /\ tasks' = [tasks EXCEPT ![t] = NoRow]
    /\ delivered' = [delivered EXCEPT ![t] = 0]
    /\ UNCHANGED <<nextId, channels, locals>>

\* purge_all_tasks: the TRUNCATE waits for open claims, then ids restart.
PurgeAll ==
    /\ "purgeAll" \in Faults
    /\ Locked = {}
    /\ nextId > 1
    /\ tasks' = [t \in TaskId |-> NoRow]
    /\ delivered' = [t \in TaskId |-> 0]
    /\ nextId' = 1
    /\ detached' = {w \in Workers : pc[w] # "idle"}
    /\ UNCHANGED <<channels, pc, job, held>>

-----------------------------------------------------------------------------
(* Time *)

Clocked(w) == Busy(w) \/ pc[w] = "locking"
Aging(t) == Is(t, "RUNNING") \/ (Is(t, "FAILED") /\ tasks[t].retry < MaxRetries)

\* One tick, unless it would take a worker beyond MaxRun.
Tick ==
    /\ \A w \in Workers : Clocked(w) => held[w] < MaxRun
    /\ held' = [w \in Workers |-> IF Clocked(w) THEN held[w] + 1 ELSE held[w]]
    /\ tasks' = [t \in TaskId |->
          IF Aging(t) THEN Set(tasks[t], tasks[t].status, tasks[t].retry,
                               Bump(tasks[t].age, AgeCap))
          ELSE tasks[t]]
    /\ UNCHANGED <<nextId, channels, delivered, pc, job, detached>>

-----------------------------------------------------------------------------

\* What a worker does by itself once it has picked a row.
Progress(w) ==
    \/ ClaimCommit(w) \/ GiveBack(w) \/ Unauthorized(w) \/ Abandon(w)
    \/ BeginSend(w) \/ Deliver(w) \/ Fail(w) \/ SkipAndPrune(w)
    \/ Complete(w) \/ Close(w)

Fault(w) == ClaimFails(w) \/ AmbiguousSend(w) \/ CloseFails(w) \/ Crash(w)

WorkerStep(w) == ClaimSelect(w) \/ Progress(w) \/ Fault(w)

Operator ==
    \/ \E t \in TaskId : Retry(t) \/ Cancel(t) \/ PurgeTask(t)
    \/ PurgeAll

Next ==
    \/ \E w \in Workers : WorkerStep(w)
    \/ \E target \in Targets : Insert(target)
    \/ Sweep \/ RequeueFailed
    \/ Operator
    \/ Tick

Spec == Init /\ [][Next]_vars

\* Time passes, a worker that has claimed goes on until it reports (its
\* awaits are bounded by MaxRun), and the worker loop runs both passes
\* every GROWTH_SWEEP_INTERVAL_SECONDS. Nothing forces a claim.
Fairness ==
    /\ WF_vars(Tick)
    /\ \A w \in Workers : WF_vars(Progress(w))
    /\ WF_vars(Sweep)
    /\ WF_vars(RequeueFailed)

FairSpec == Spec /\ Fairness

-----------------------------------------------------------------------------
(* Safety *)

\* From the claim's UPDATE to its COMMIT the row stays PENDING and is one
\* worker's only: others skip the lock, buttons and reports wait for it.
ClaimHolds ==
    \A w \in Workers : pc[w] = "locking" =>
        /\ Is(job[w], "PENDING")
        /\ \A v \in Workers \ {w} : pc[v] = "locking" => job[v] # job[w]

\* No two workers execute the same task: the claim hands a row to one worker
\* (FOR UPDATE SKIP LOCKED, committed before anything is sent), and nothing
\* makes the row claimable again before that worker has reported.
NoDoubleExecution ==
    \A v, w \in Workers : Busy(v) /\ Busy(w) /\ job[v] = job[w] => v = w

\* While a worker executes a task its row says RUNNING: no sweep, button or
\* late report of another worker has moved it.
InFlightIsRunning ==
    \A w \in Workers : Busy(w) => Is(job[w], "RUNNING")

\* A claim the sweeper would recover is in flight nowhere: sweep_stale_tasks
\* says of a claim older than the timeout that it "can no longer be in flight".
StaleIsOrphaned ==
    \A w \in Workers : Busy(w) => job[w] \notin Stale

\* Sweeper, failures and retries together burn at most one attempt more than
\* GROWTH_MAX_RETRIES, and the row that has burnt it is FAILED.
RetryBound ==
    \A t \in TaskId : ~Is(t, "none") =>
        /\ tasks[t].retry <= MaxRetries + 1
        /\ tasks[t].retry = MaxRetries + 1 => Is(t, "FAILED")

\* GROWTH_MAX_RETRIES is the number of attempts: none starts once they are
\* burnt (settings.py: "Attempts before a task is terminally FAILED").
AttemptBudget ==
    \A t \in TaskId : Is(t, "RUNNING") => tasks[t].retry < MaxRetries

\* A row says COMPLETED only when Telegram accepted a message for it.
CompletedWasDelivered ==
    \A t \in TaskId : Is(t, "COMPLETED") => delivered[t] > 0

\* A task skipped as un-commentable has taken its channel with it: status and
\* deletion are one transaction, whatever fails around it.
SkippedIsPruned ==
    \A t \in TaskId : Is(t, "SKIPPED") => tasks[t].target \notin channels

\* With no fault but exceptions before the send a task's message is sent at
\* most once, whatever sweeps, requeues, retries and cancellations happen
\* around it (TaskQueueProofs; a crash or a lost answer may repeat it).
AtMostOneDelivery == \A t \in TaskId : delivered[t] <= 1

\* What was sent is on record: a row with a delivered message is still with
\* the worker that sent it, or COMPLETED. None waits to be sent again.
DeliveredIsNotRepeated ==
    \A t \in TaskId : delivered[t] > 0 =>
        \/ Is(t, "COMPLETED") \/ Is(t, "none")
        \/ \E w \in Workers : job[w] = t /\ pc[w] = "sent"

-----------------------------------------------------------------------------
(* Action properties *)

LegalMoves ==
    {<<"none", "PENDING">>,
     <<"PENDING", "RUNNING">>, <<"PENDING", "CANCELLED">>,
     <<"RUNNING", "PENDING">>, <<"RUNNING", "COMPLETED">>,
     <<"RUNNING", "FAILED">>, <<"RUNNING", "SKIPPED">>,
     <<"FAILED", "PENDING">>,
     <<"COMPLETED", "none">>, <<"FAILED", "none">>, <<"CANCELLED", "none">>}

\* Every step moves every row along the task's life cycle: a report finds
\* the row RUNNING, and COMPLETED, SKIPPED and CANCELLED are final.
LifeCycle ==
    [][\A t \in TaskId :
         \/ tasks'[t].status = tasks[t].status
         \/ <<tasks[t].status, tasks'[t].status>> \in LegalMoves]_vars

Stays(t, status) == Is(t, status) => tasks'[t].status \in {status, "none"}

\* A delivered task keeps the status COMPLETED (TERMINAL_STATUSES).
CompletedIsFinal == [][\A t \in TaskId : Stays(t, "COMPLETED")]_vars

\* A cancelled task stays cancelled (cancel_task: "terminal CANCELLED status").
CancelledIsFinal == [][\A t \in TaskId : Stays(t, "CANCELLED")]_vars

-----------------------------------------------------------------------------
(* Liveness *)

\* A claim nobody will report on does not stay RUNNING: the sweeper ends it.
ClaimEnds == \A t \in TaskId : Is(t, "RUNNING") ~> ~Is(t, "RUNNING")

\* A failure with attempts left goes back to the queue by itself, unless an
\* operator deletes it or the late report of a worker that lost the row burns
\* its last attempt.
FailureRetried ==
    \A t \in TaskId :
        Is(t, "FAILED") /\ tasks[t].retry < MaxRetries
          ~> ~Is(t, "FAILED") \/ tasks[t].retry >= MaxRetries

=============================================================================
