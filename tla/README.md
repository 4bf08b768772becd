# Verification of the growth daemon

TLA+ models of the daemon under `src/`, checked with TLC and, where the prover
reaches, proved with TLAPS. Paths below are relative to the repository:
`src/core/x.py` is the file of that name in its `src` directory.

1. [The system](#1-the-system)
2. [The modules](#2-the-modules)
3. [The runs](#3-the-runs)
4. [Fairness](#4-fairness)
5. [What is proved](#5-what-is-proved)
6. [Disagreements between code and documentation](#6-disagreements-between-code-and-documentation)
7. [What the models leave out](#7-what-the-models-leave-out)
8. [Plan](#8-plan)

## 1. The system

The daemon posts messages to Telegram channels from userbot accounts. Its
processes share a PostgreSQL database and nothing else:

- **worker** processes (`src/core/worker.py`, asyncio, one task at a time);
- the **dashboard** (`src/dashboard`, `src/api`: FastAPI; `def` routes run in a
  thread pool, discovery runs are threads of their own);
- **operator scripts** (`scripts/`).

Arrows of dependence: the seeder reads `target_channels` and writes `tasks`; the
dispatcher claims `tasks`, writes `tasks`, `accounts` and deletes from
`target_channels`; the discovery pipeline fills `discovered_targets` and from
there `target_channels`; the auto-pilot calls the discovery engines; the worker
calls dispatcher, sweeper, requeue pass and seeder, and reads the settings
through a cache each process keeps.

### Inventory

| Part | State | Operations | What is hard | What makes it correct |
|---|---|---|---|---|
| Task queue: `core/dispatcher.py`, task buttons in `dashboard/services.py` | `tasks`, the deletion of targets; a worker's local task and account | claim, execute, report, skip and prune, sweep, requeue, retry, cancel, purge, truncate | two workers, two passes and the dashboard on one row; crashes; swallowed database errors; lost answers; reports by id alone; ids that restart | no task executed twice, a legal life cycle, a bounded number of attempts, COMPLETED means delivered, SKIPPED means pruned, claims and failures do not get stuck |
| Seeder: `core/seeder.py` | reads targets and recent tasks, writes `tasks` | seed (loop, button, command line), force | check, then insert, in READ COMMITTED from several processes; targets read before they are pruned | a second task per channel and window, or one for a pruned channel, only for a known cause |
| Worker daemon: `core/worker.py` | loop flags, failure counter, timers | boot, iterate, sweep, requeue, seed, refresh settings, trip, stop | outages, exceptions that skip maintenance, signals, restarts by the supervisor | the breaker stops the next iteration, maintenance recurs, a signal stops it, lifecycle rows tell the truth |
| Health: `core/health.py` | none (`system_logs`) | heartbeat, probes | a heartbeat inferred from best-effort rows | as above |
| Settings: `core/settings.py`, routes of `dashboard/app.py` | `system_settings`, global `_CACHE` per process | get, set, invalidate, set flag | an unlocked global under threads, a copy as old as its process, several keys in several transactions | a stale cache only after a load that overlapped an invalidation, or failed |
| Accounts: `accounts/manager.py`, `scripts/healthcheck_accounts.py`, `scripts/import_account.py` | `accounts.status`, `failure_count` | pick, report success or failure, health check, import | read in one transaction, verdict written by id in a later one | no failure report is lost, dead sessions leave service, and come back only by who had them at hand |
| Task execution: `process_next_task`, `execute_task`, `connect_with_fallback` | the client, the entity, the thread it found; a channel's and a membership's state at Telegram | transports in turn, authorize, jitter, resolve, find the thread, join, send, read back, handle the exception, disconnect | every call may raise into one of five handlers, some swallow, and the channel changes between two calls | comments land in the thread, a channel is pruned only for a known cause, no client is leaked, an open channel goes on being served |
| Templates: `dashboard/services.py` | `message_templates.is_active` | insert, update, toggle, delete | overlapping READ COMMITTED transactions that lock rows in different orders | one active template, none silenced by accident, every request answered |
| Discovery pool: `services/discussion_validator.py`, `discovery_crawler.py`, `discovery_studio.py`, `api/discovery_routes.py` | `discovered_targets`, two run flags | crawl, validate, re-probe, promote, delete, purge, prune | a flag read in one step and raised in a later one; two transactions per accepted channel; restarts | a validated row has its channel, settled channels stay out, runs end and starve no row |
| Auto-pilot: `services/discovery_autopilot.py` | one shared state object | start, stop, loop | start and stop on one object from several threads | the flag is up exactly while a loop runs; it stops when asked and when the pool stays empty |
| Keyword discovery: `services/discovery.py` | its run flag, `discovered_targets` | scan, promote | calls an asynchronous client without awaiting it, so nothing is ever accepted; a FloodWait ends the run it is said to pause | not modelled |
| Rate limiter: `core/rate_limiter.py` | none | quiet hours, jitter | looked at before the claim, minutes before the send | in `Execution`; the comparison of hours is not modelled |
| Dashboard views, metrics, spintax, rendering | none, or read-only | | | not modelled |
| Connection pool, migrations, login scripts, deployment, `core/backoff.py`, `core/redis_client.py` | library or files | | | not modelled: I/O, dialogues with a person, or without a caller |

`PROJECT.json` lists every part with its status, and under `hazards` each place
where the hard behaviour bites, with the property that watches it.

## 2. The modules

| Module | Models | Composition |
|---|---|---|
| `TaskQueue` | the `tasks` table and every writer of it | base of `Seeding` and `TaskQueueLedger` |
| `TaskLedger` | abstract: what the queue promises of a task | refined by `TaskQueueLedger` |
| `TaskQueueLedger` | the refinement mapping from `TaskQueue` to `TaskLedger` | `EXTENDS TaskQueue`, `INSTANCE TaskLedger WITH` |
| `Execution` | one worker's run on Telegram, call by call | the inside of what `TaskQueue` calls `BeginSend` .. `Close` |
| `Seeding` | `seed_tasks` and the target table | `EXTENDS TaskQueue`: its steps are the queue's steps, passes and target operations |
| `WorkerLoop` | one daemon around `process_next_task`, supervisor and heartbeat | sees a task as True, False or an exception |
| `Settings` | settings cache of the dashboard process | `WorkerLoop` has the worker's copy |
| `Accounts` | `accounts` under workers, health checks, imports, with its theorems | |
| `Templates` | `message_templates` at the level of statements and row locks | |
| `Discovery` | crawls, validation runs, pool, promotion, operators | |
| `Autopilot` | the loop, with an engine run as one step | sees of `Discovery` how many rows a run added, checked, validated |
| `TaskQueueProofs` | theorems about the queue, that it implements the ledger, and about the queue beside its seeders | `EXTENDS Seeding, TaskQueueLedger` |
| `DiscoveryProofs`, `ExecutionProofs`, `WorkerLoopProofs`, `SettingsProofs`, `TemplatesProofs`, `AutopilotProofs` | theorems about the module each is named after | |
| `MC*` | the symmetry sets TLC needs | each extends its module; a module without one is run as it is, its configuration naming the model values |

A comment that begins "Mutant" marks an operator that is not the code: it is what
a plausible bug would make of the operator next to it. It is there to show that
the properties notice; nothing in a specification uses it.

### TaskQueue

Each SQL transaction is one action. The claim is two, `ClaimSelect` and
`ClaimCommit`, since its row lock is visible to others in between: other claims
pass over a locked row (SKIP LOCKED), buttons and reports wait for it. What
`process_next_task` does after the claim is one action per way out:

| Code | Action |
|---|---|
| `claim_next_task` | `ClaimSelect`, `ClaimCommit`, `ClaimFails` (the exception is swallowed, with the commit done or not) |
| no active account, FloodWait, no transport | `GiveBack` |
| account not authorized | `Unauthorized`, then `Close` |
| `get_active_accounts` or `create_client` raises outside the `try` | `Abandon`: the row stays RUNNING |
| `execute_task` delivers; COMPLETED; `disconnect()` | `BeginSend`, `Deliver`, `Complete`, `Close` |
| `execute_task` raises after the delivery | `AmbiguousSend` |
| `disconnect()` raises inside the `try` | `CloseFails`: a second report over the first |
| `NoDiscussionGroupError`, permission error | `SkipAndPrune`, one transaction with the deletion |
| last `except` | `Fail` |
| `update_task_status` | `Report`: by id alone, and forgotten if the database refuses it |
| `sweep_stale_tasks`, `requeue_failed_tasks` | `Sweep`, `RequeueFailed` |
| `retry_task`, `cancel_task`, `purge_task`, `purge_all_tasks` | `Retry`, `Cancel`, `PurgeTask`, `PurgeAll` |

Time is in ticks. A row's `age` is the time since `updated_at`; `held` is how long
a worker has had its claim, at most `MaxRun`. `NOW()` is the start of the
transaction, so a claim's row is as old as the claim when it commits.
`delivered` counts what Telegram accepted for the row; `detached` marks workers
whose row was truncated under them, whose sends therefore belong to no row.

### TaskLedger

An entry has a status, a channel, how many attempts are burnt, how many messages
are sent, who holds the task and whether Telegram has answered the holder. There
are no locks, clocks, ids that run out, or steps of a worker. The mapping
(`EntryOf` in `TaskQueueLedger`) takes burnt from `retry_count`, sent from the
history of deliveries, and the holders from the workers that are between their
claim and their report. `ImplementsLedger` says that every step of the queue is
a step of the ledger or none: a claim whose commit is swallowed is a task taken by
nobody, a lost answer an attempt that may or may not have sent.

### Execution

| Code | Action |
|---|---|
| quiet hours, claim | `Claim` |
| no account; `get_active_accounts` or `create_client` raises | `NoAccount`, `Prepare` |
| `connect_with_fallback` | `Connect`, `TransportFails`, one step per transport |
| `is_user_authorized`, restriction, hand back | `Authorize`, `RestrictAccount`, `Release` |
| `wait_jitter`, `_resolve_entity` and the swallowed upgrade | `Pace`, `Resolve`, `Upgrade` |
| `_comment_in_discussion` | `LatestPost`, `Thread`, `Join`, `Send`, `SendLost` |
| read-back, COMPLETED, `disconnect()` | `Verify`, `Complete`, `Leave` |
| an exception anywhere | `CallRaises`, `LoggedOut` |
| the five handlers | `HandBack`, `Skip`, `FailTask` then `Blame`, and `Close` |

A channel has a mood (open, locked, gated, private, closed) that changes at any
time, an account may be limited or logged out, and `member` says where it has
joined. The latest post of a channel may be a service message, not yet forwarded or
deleted before its thread is asked for, and the answer about it may be empty or not
list the group. `shut` is a history of the run: was there a moment when the account could
not have commented? `leaked` is one, too. `Requeue` and `Seed` stand for the
passes of `TaskQueue` and `Seeding`.

### Seeding

A pass reads its targets (`SeedStart`), checks them one by one (`SeedTarget`) and
commits all its rows at once (`SeedCommit`), or rolls back (`SeedAbort`). `fresh`
is the dedupe window as a set of ids, which `Expire` shrinks from its oldest end.
`Manual` seeders stand for the button and the command line: they may be forced,
interrupted or lose their database at any time. The rest are histories: `pruned` is
which channels `skip_task` took out, a pass's `stale` which of them it had read
before; `taken` names the channels a pass inserts for beside a task that its check
passes over or that was committed behind it, and `excused` the rows that came of it.

### WorkerLoop

`pc` walks through `GrowthWorker.run`: boot (`Start`, `Announce`, `BootSweep`,
`BootSeed`), the loop (`Enter`, then `Processed`, `Idle` or `Raised`), the
maintenance block (`Refresh`, `SweepPass`, `SeedPass`), which a raising iteration
skips, the breaker (`Judge`, `Trip`), and the exits. `due` holds the passes whose
interval has elapsed. The sweep's timer is set even if it did not reach the database,
since both its passes swallow their exceptions; a seeding pass that raises stays due. `heartbeat` is the newest lifecycle row. `streak`, `asked` and `lost`
are histories the properties compare the code's own counters and flags with.

### Settings, Accounts, Templates

`Settings` splits `_load_cache` into check, SELECT, assignment and the second
read of the global, and a save into a transaction and an invalidation per key.
`Accounts` has a worker's pick and its report as two steps, and a health check as
a set of accounts read once, then a verdict and a write for each, oldest first; `overtaken` is the history of the accounts a process had at hand while
they were taken out of service. `Templates` has each
statement of a transaction, each row a table-wide UPDATE writes, the locks they
take, and the victim the server picks when they deadlock.

### Discovery and Autopilot

In `Discovery` a validation run is: trigger (first look at the flag), thread
start (second look), fetch, `start()`, connect, and per row attempt, probe, mark,
promote. A forced promotion reads its row and inserts its channel in two transactions,
so it may configure a channel whose row is deleted in between. The fetch says in one relation, `IsFirst`, what `ORDER BY .. LIMIT` gives.
Marking and promoting are two transactions. A crawl reads its exclusion
set, then upserts handles. `cut` and `settled` are histories: rows a fault kept
from being promoted, and channels that were pruned while their row said
VALIDATED. In `Autopilot` the state object is shared by every loop ever started;
`AskStop` and `RequestStop` are two steps
because the route checks before it writes. A pool whose count cannot be read looks
empty. `overlap` is a history: loops ran side
by side, which is when the first to end lowers the flag of all.

## 3. The runs

All runs finish within the bounds below. The bounds are model parameters named in
the module headers; counters saturate just above the largest value they are
compared with, so nothing is cut off but the supply of ids.

| Run | Instance | Distinct states | Shows |
|---|---|---|---|
| `queue` | 2 workers, 2 tasks, 2 channels, 2 retries, runs within the claim timeout; crash, error, db, ambiguous | 267 thousand | `NoDoubleExecution`, `StaleIsOrphaned`, `RetryBound`, `CompletedWasDelivered`, `SkippedIsPruned`, `LifeCycle`, `ImplementsLedger` |
| `queue_live` | 2 workers, 1 task, 2 retries, runs longer than the timeout; every fault | 19 thousand | `TypeOK`, `ClaimEnds`, `FailureRetried` |
| `execution` | a channel and a group named by its id, five moods, the last transport gets through, up to 2 faults of any kind, posts and answers among them | 406 thousand | `TypeOK`, `CommentsInThread`, `PruneHasCause`, `LeakIsFault`, `OpenIsServed` |
| `seeding` | a worker whose calls raise, a manual seeder, 2 tasks, 2 channels, one of them from the environment; sweeps, requeues, operators | 1.7 million | `DuplicateHasCause`, `PrunedStaysOut` |
| `loop` | a supervised daemon, threshold 3, two values; every fault | 162 thousand | `LoopTypeOK`, `HeartbeatTrue`, `SignalStops`, `MaintenanceRecurs` |
| `templates` | 2 templates, 2 requests | 23 thousand | `TypeOK`, `AtMostOneActive`, `NoAccidentalSilence`, `RequestEnds` |
| `settings` | 2 keys and the reload flag, 2 readers, a save, a reload; failing statements | 1.4 million | `TypeOK`, `StaleHasCause` |
| `accounts` | 2 accounts, one unusable, 2 workers, a health check; every fault | 56 thousand | `TypeOK`, `FailuresCounted`, `DeadLeaves`, `ReturnHasCause` |
| `discovery` | 2 validators that may overlap, a crawler, 2 handles, every operation and fault | 2.1 million | `TypeOK`, `ValidatedWasPromoted`, `SettledStaysOut` |
| `discovery_live` | a validator, a crawler, a poisoned handle and two others | 1.5 thousand | `FlagFalls`, `NoStarvation` |
| `autopilot` | two loops, in turn or side by side, quota 2, floor 1, batches of 2, a list of 1; every fault | 176 thousand | `TypeOK`, `FlagIsLoop`, `StopEnds`, `EmptyPoolEnds` |
| `pruned_transient` | violation of `PruneIsTerminal` | | the finding of section 6 |

Why the bounds are enough:

- *Two workers, two tasks* give every pairwise race for a row and for the order of
  claims; a third worker only repeats a pair. `MaxRetries = 2` separates a first
  failure, a last one, and the attempt the sweeper adds beyond it.
- *`MaxRun = ClaimTimeout`* is the edge of the assumption under which the sweeper
  may be trusted: a claim is stale when its age *exceeds* the timeout. `queue_live`
  goes beyond that edge, and truncates the table.
- *Execution: a channel and a group* are the two ways a message is addressed, and the
  group's id the two ways a target is resolved; a run holds one target, so more only
  wait. Two faults are one in a call and one in the handler it leads to. With the
  last transport alone getting through, the sequence is tried to its end.
- *Seeding: two ids, two seeders* are a task and the second one for its channel: from
  one pass or from two that overlap, beside a row that waits, runs, has failed, was
  skipped or is orphaned. A third row of a channel repeats the second. The manual
  pass may hold a channel while the worker prunes it. Both properties are proved for
  any number of workers, under crashes, too.
- *Threshold 3* leaves room for an interrupted streak.
- *Templates: two rows, two requests* are the smallest deadlock, and both the rows
  an activation sees and one inserted beside it.
- *Discovery: two handles, one per batch*: a run and an operator on the same row
  beside an unrelated one. `MaxAttempts = 0` in `discovery` drops the order of
  the queue, on which no safety property depends; `discovery_live` has it.
- *Quota 2 with batches of 2 and a list of 1*: a quota met in one run or in two, and
  more validated channels than the snapshot lists. Two loops are the second start
  let in before the first has raised its flag, and the one after it has ended.

Deadlock is checked in every run: none of these systems may stop.

Each property has a mutant in `PROJECT.json`: a change to one modelled operator,
such as a claim without SKIP LOCKED or a skip in two transactions, under which
the same run reports it violated.

## 4. Fairness

- `TaskQueue`: time passes; a worker that holds a claim goes on (Telethon's calls
  and the transports have timeouts; `MaxRun` bounds them); both maintenance
  passes recur, which `MaintenanceRecurs` shows of the loop. Nothing forces a
  claim, a fault or an operator.
- `Execution`: the run's awaits end, quiet hours pass, the passes recover and seed
  (weak). A pending task is claimed again and again as claims go by ascending id and
  a new task has a higher one than those that wait: strong fairness of `Claim`, since
  the worker is busy or suspended in between. Faults are finitely many, so that what
  `OpenIsServed` promises is promised once they have stopped.
- `WorkerLoop`: the process is scheduled, intervals elapse, and
  `restart: unless-stopped` (docker-compose.yml) starts a worker that is down.
- `Accounts`: the health check is run again and again, as the runbook asks.
- `Templates`: strong fairness of a request's next statement and of the deadlock
  detector: PostgreSQL's lock queues are first come, first served, and it looks
  for deadlocks after a second.
- `Discovery`: threads run and their calls end. For `NoStarvation`, while the
  auto-pilot asks for run after run and one connects now and then.
- `Autopilot`: the thread runs, its sleeps end, and a stop request that has passed
  its check is written.

## 5. What is proved

Every theorem holds for all values of the constants under the assumption of the
module it is about.

### The queue

`QueueAssumption`: the limits are positive naturals.

| Theorem | Says | Needs |
|---|---|---|
| `TypeCorrect` | `TypeOK` | nothing: every fault |
| `ClaimsHold` | a claim's lock is one worker's from UPDATE to COMMIT, and its row PENDING | nothing: every fault |
| `ExclusiveExecution` | `NoDoubleExecution` | `Healthy` |
| `SweptIsOrphaned` | `StaleIsOrphaned` | `Healthy` |
| `RetriesBounded` | `RetryBound` | `Healthy` |
| `LifeCycleKept` | `LifeCycle` | `Healthy` |
| `DeliveredOnce` | `AtMostOneDelivery` | `Healthy`, and no fault but exceptions before the send |
| `QueueImplementsLedger` | `ImplementsLedger` | `Healthy` |
| `CompletedDelivered` | `CompletedWasDelivered` | `Healthy` |
| `SkippedPruned` | `SkippedIsPruned` | `Healthy` |
| `PrunedStays` | `PrunedStaysOut`, of `SeedSpec` | nothing: every fault |
| `DuplicatesHaveCause` | `DuplicateHasCause`, of `SeedSpec` | nothing: every fault |
| `ExclusiveBesideSeeders` | `NoDoubleExecution`, of `SeedSpec` | `Healthy` |
| `OnceBesideSeeders` | `AtMostOneDelivery`, of `SeedSpec` | `Healthy`, and no fault but exceptions before the send |

`Healthy` is: no run outlasts the claim timeout, `disconnect()` does not raise, the
table is not truncated. Crashes, swallowed database errors and lost answers stay
allowed. Each of the three conditions is needed: dropping the first gives
`gap_stale_in_flight.cfg`, the second `gap_completed_overwritten.cfg`, the third
`gap_completed_undelivered.cfg`.

The argument has layers, each an inductive invariant over the one before.

1. `TypeInv` adds to `TypeOK` that a worker inside `process_next_task` holds an id
   (`JobHeld`) and `ClaimHolds`. `TypeOK` alone is not inductive: the claim's
   UPDATE writes the fields of a row, and there is a row only because what the
   worker locked is still PENDING.
2. `SafeInv` adds `FreshIds` (ids not handed out have no row), `InFlightIsRunning`,
   `NoDoubleExecution`, `RetryBound` and `ClaimAge`: the row of a claim is no older
   than the claim. `ClaimAge` links the table's clock and the worker's. Without it
   the sweeper could take a claim in flight, its row would be PENDING, and a second
   worker would claim it.
3. `DeliveryInv` adds that what was sent is in the hands of the worker that sent it
   or COMPLETED (`DeliveredIsNotRepeated`). `AtMostOneDelivery` follows.
4. The refinement stands on `LedgerInv`, which is `SafeInv` with no detached worker.
   One lemma per action shows which entry it changes and how (`ChangeOne`), or that
   the holders of every row stay (`SameEntry`). That a COMPLETED entry was sent and a
   SKIPPED one has lost its channel is proved of the ledger, where it is short, and
   carried over by the mapping.
5. Beside seeders, `SeedBase` joins `TypeInv` and `FreshIds` with the types of the
   passes. A pass writes PENDING rows under ids not handed out and nothing else of the
   queue's, so the invariants of layers 2 and 3 carry over to `SeedSpec` and any
   number of seeders. `PrunedStaysOut` needs
   `PassUnpruned`: a pass names a pruned channel only if it had read it before, since
   what it reads is configured, and what is configured is not pruned.
6. `SeedInv` carries `DuplicateHasCause`. `FreshExist`: an id in the window has its row.
   `DueIsFree`: a channel a pass is about to insert has no task in the window, unless
   the pass is forced or has it in `taken`; and it is on the pass's list once.
   `SeedCommit` keeps that for the other passes, as it adds to their `taken` what it
   inserts. No assumption about faults is needed: what a sweep, a requeue or a
   retry brings back was in the window all along.

### The other modules

| Module | Theorem | Says | Inductive invariant |
|---|---|---|---|
| `ExecutionProofs` | `TypeCorrect` | `TypeOK` | itself |
| | `CommentsBelong` | `CommentsInThread` | `CommentInv`: a run that knows its channel has found the thread before it writes |
| | `PrunesForCause` | `PruneHasCause` | `CauseInv`, over `CommentInv`: a refusal is raised only where the account was shut out, the flags were not seen, or the post or Telegram's answer had no thread; `shut` remembers |
| | `LeaksAreFaults` | `LeakIsFault` | `ClientInv`: a task is claimed without a client |
| `WorkerLoopProofs` | `TypeCorrect` | `LoopTypeOK` | `CounterInv`: the counter is below the threshold wherever the loop goes on |
| | `HeartbeatKept` | `HeartbeatTrue` | itself |
| `SettingsProofs` | `TypeCorrect` | `TypeOK` | itself |
| | `StaleCause` | `StaleHasCause` | `CacheInv`: what a reader holds and has not overlapped a write is the table |
| `TemplatesProofs` | `TypeCorrect` | `TypeOK` | itself |
| | `OneActive` | `AtMostOneActive` | `OneInv`: row locks exclude one another (`Locking`), a transaction switches on its own row only (`Switching`), an activation has cleared every other row or has yet to (`Covering`), statements come in order (`Shaped`) |
| | `SilenceAsked` | `NoAccidentalSilence` | `SilenceInv`, over `OneInv`: an activation that has written its own row has switched it on, and whoever activates nothing writes no other row (`Decided`), and an edit writes a row as it is (`Keeping`) |
| `DiscoveryProofs` | `TypeCorrect` | `TypeOK` | `PoolInv`: ids not handed out have no row (`FreshRows`), the rows a run holds are the channels it read (`HandsAgree`), a run at a target has one (`AtTarget`). Without them a run could validate the row of another channel |
| | `SettledStays` | `SettledStaysOut` | `SettledInv`: a settled channel has its VALIDATED row, is in no run's hands and is not configured (`SettledRests`) |
| | `ValidatedPromoted` | `ValidatedWasPromoted` | `PromotedInv`: itself, over `PoolInv` |
| | `FlagTells` | `FlagIsTrue`, where `create_client` does not raise | itself, over `TypeOK` |
| `AutopilotProofs` | `TypeCorrect` | `TypeOK` | itself |
| | `FlagIsTheLoop` | `FlagIsLoop` | `FlagInv`: without `overlap` there is one loop at most |
| `Accounts` | `TypeCorrect` | `TypeOK` | itself |
| | `ReportsCounted` | `FailuresCounted` | itself, over `TypeOK` |
| | `ReturnsForCause` | `ReturnHasCause` | `HandsKnow`: an account at hand that is out of service was taken out since it was picked |

`FlagTells` is the other half of `gap_validation_wedged.cfg`: what that shows going wrong
goes wrong for no other cause. So, under every fault, are `DuplicatesHaveCause` of
the two `gap_seed_*.cfg`, `ReturnsForCause` of `gap_account_reactivated.cfg` and
`PrunesForCause` of the finding. The other theorems need no restriction on the faults.
The assumptions on constants are that of
each module: channels and groups are disjoint and neither a target nor a row is the
marker `"none"`; the settings' keys are a finite set; thresholds and limits are
naturals.

Every safety property that a run checks is proved. Only model-checked is liveness,
which is beyond this prover, as is ENABLED: `ClaimEnds` and `FailureRetried` of the
queue, `OpenIsServed`, `SignalStops` and `MaintenanceRecurs`, `RequestEnds`,
`DeadLeaves`, `FlagFalls` and `NoStarvation`, `StopEnds` and `EmptyPoolEnds`.

No proof rests on an order chosen by CHOOSE, whose existence would be induction over
finite sets: `IsFirst` in `Discovery` and `Oldest` in `Accounts` say which rows come
first, and a step has them if they are there.

## 6. Disagreements between code and documentation

One is a finding with a run of its own.

- `pruned_transient` (`PruneIsTerminal`): `_resolve_entity` swallows every exception
  of `GetChannelsRequest` (`core/dispatcher.py:576-581`) and goes on with a peer that
  has no flags. The channel then looks like a chat; the message goes to the channel
  itself, which refuses it (`CHAT_ADMIN_REQUIRED`), and the permission handler
  deletes an open channel for a FloodWait. "Auto-pruning fires ONLY for terminal
  comment-ineligibility exceptions [..] never for transient errors like FloodWait or
  connection failures" (108-112). It is not the only way an open channel is lost: the
  run's one post may be a service message, deleted, or not yet forwarded when its thread
  is asked for (`core/dispatcher.py:435-456`), and the answer may hold no message or
  not list the group (467-481); `PruneIsTerminal` is violated with `Faults = {"post"}`
  and with `Faults = {"answer"}`, too. `PruneHasCause` shows that these are all: a
  FloodWait or a lost connection in any other call prunes nothing.

The others are kept as configurations that reproduce them. They are no part of the
regular runs; `tlc -config gap_x.cfg Module` shows a trace for each. Where a
run in section 3 checks the same promise it does so under the condition that
makes it true.

| Configuration (module) | Violated | What the code does | What is said |
|---|---|---|---|
| `gap_stale_in_flight` (`MCTaskQueue`) | `StaleIsOrphaned` | a timeout of one minute is accepted by the form, and connecting and jitter alone may take longer | a claim older than the timeout "can no longer be in flight" (`core/dispatcher.py:194-197`) |
| `gap_attempt_budget` (`MCTaskQueue`) | `AttemptBudget` | the sweeper compares `retry_count` before it increments it, so one more attempt starts | "marked FAILED once it has exhausted max_retries attempts" (`core/dispatcher.py:198-199`), "Attempts before a task is terminally FAILED" (`core/settings.py:28`) |
| `gap_completed_overwritten` (`MCTaskQueue`) | `CompletedIsFinal` | `client.disconnect()` is inside the `try` after COMPLETED is written (`core/dispatcher.py:613`); when it raises, a handler writes PENDING or FAILED over COMPLETED and the message is sent again | COMPLETED is one of the "Terminal statuses" (77-78) |
| `gap_cancelled_overwritten` (`MCTaskQueue`) | `CancelledIsFinal` | a task swept under a live worker and cancelled is overwritten by its report | "terminal CANCELLED status" (`dashboard/services.py:465`) |
| `gap_completed_undelivered` (`MCTaskQueue`) | `CompletedWasDelivered` | a worker reports on an id that TRUNCATE .. RESTART IDENTITY gave to another task | metrics count COMPLETED as "completed deliveries" (`core/metrics.py:27-29`) |
| `gap_seed_race` (`MCSeeding`) | `NoDuplicateTask` | two passes check before either commits | "the dedupe window prevents duplicates" (`core/seeder.py:93`) |
| `gap_seed_running` (`MCSeeding`) | `NoDuplicateTask` | a RUNNING row left by a crash does not block, and is swept back to PENDING beside the new one | the same |
| `gap_pruned_rediscovered` (`MCDiscovery`) | `RemovedStaysOut` | a pruned channel the pool did not know is crawled, validated and promoted again | "the seeder can never reseed a channel that is permanently un-commentable" (`core/dispatcher.py:105-106`) |
| `gap_quiet_send` (`Execution`) | `QuietKept` | quiet hours are looked at before the claim; connecting and the jitter follow | "quiet-hours suspension" (README.md) |
| `gap_reload_loop` (`WorkerLoop`) | `ReloadOnce` | nothing lowers `WORKER_RESTART_REQUESTED` (`core/worker.py:121`): every process that boots after one request stops at its first poll | one request, one reload: "Worker will reload within ~60s" (`dashboard/app.py:391`) |
| `gap_setting_never_reaches` (`WorkerLoop`) | `SettingReaches` | the worker refreshes its settings from a cache it never drops | "edit them without touching files or restarting services" (`core/settings.py:3-4`) |
| `gap_reload_ignored` (`WorkerLoop`) | `ReloadHonoured` | the reload flag is read from that cache, too | "Worker will reload within ~60s (next settings poll)." (`dashboard/app.py:391`) |
| `gap_breaker_not_consecutive` (`WorkerLoop`) | `TripsOnConsecutive` | an idle iteration does not reset the counter | "N consecutive loop failures halt the daemon" (README.md:49) |
| `gap_unreachable_never_trips` (`WorkerLoop`) | `UnreachableTrips` | an outage reads as an empty queue | the breaker's first cause is "database unreachable" (RUNBOOK.md:55) |
| `gap_settings_race` (`MCSettings`) | `CacheFresh` | a load that overlaps a save puts the old rows back | "upserts + invalidates the cache" (`core/settings.py:7`) |
| `gap_settings_raise` (`MCSettings`) | `NeverRaises` | `_CACHE` is invalidated between the check and the second read | "Never raises." (`core/settings.py:62`) |
| `gap_settings_half` (`MCSettings`) | `AllOrNothing` | a transaction per key | "all-or-nothing" (`dashboard/app.py:362`) |
| `gap_account_reactivated` (`Accounts`) | `RestrictedStays` | a task that fails writes ACTIVE over the verdict of the health check | "retire the account — do not force-reactivate" (RUNBOOK.md:67) |
| `gap_account_forgotten` (`Accounts`) | `CleanReturns` | the health check looks at ACTIVE accounts only, so a restricted one never returns by it | "Run the healthcheck" (RUNBOOK.md:65) |
| `gap_validation_overlap` (`MCDiscovery`) | `OneRun` | two requests pass both looks at the flag before either run raises it | "validator already running" (`services/discussion_validator.py:368`) |
| `gap_validation_wedged` (`MCDiscovery`) | `FlagIsTrue` | `create_client` raises between `start()` and the `try`, and the flag stays up | the same |
| `gap_autopilot_twice` (`Autopilot`) | `OneLoop` | the flag is raised in the thread, after the check | "Auto-Pilot loop is already running" (`services/discovery_autopilot.py:208`) |
| `gap_autopilot_stop_lost` (`Autopilot`) | `StopHonoured` | a second loop's `start()` clears the stop signal | "breaks all sleeps within 0.5s and finishes the run cleanly" (`services/discovery_autopilot.py:6-7`) |
| `gap_autopilot_quota` (`Autopilot`) | `QuotaMet` | channels already configured count towards the quota | "until `target_quota` channels have been validated and promoted" (`services/discovery_autopilot.py:3-4`) |

Noted without a configuration: a template inserted beside an activation leaves two
active ones ("exactly one active source", `dashboard/services.py:290-292`;
`AtMostOneActive` excludes just that); "atomically upserts the channel"
(`services/discussion_validator.py:5-7`) is two transactions
(`ValidatedWasPromoted` says what a fault between them leaves); an environment
target is seeded again after it was pruned (`PrunedStaysOut` excludes it); a
FAILED row does not block the dedupe window and is requeued beside the new one
(`DuplicateHasCause` excuses it); the supervisor starts a
worker again whose breaker has tripped; the keyword engine calls an asynchronous
client without awaiting it and uses `SearchGlobalRequest`, which it does not import
(`services/discovery.py`); and `scripts/complete_telegram_login.py` and
`scripts/generate_session_qr.py` call `client.export_session_string()`, which the
library does not have.

## 7. What the models leave out

- **Names and texts.** Channels are model values, so two spellings of one channel
  are not modelled, nor is the wording of messages, logs or pages.
- **Inside `Execution`.** `COMMENT_REPLY` tasks, which no code creates; aliases of a
  target; the comparison of hours that makes quiet hours; what read-back reports,
  which is swallowed.
- **The seeder's window** is one set; `--dedupe-hours` with another value is not
  varied. A bulk import that rolls back because of a concurrent insert changes
  nothing and is left out.
- **Autopilot's list of validated handles** is that of its own run; with another
  validation run under way it could be another's.
- **The form's range checks**: a form holds a value they let through.
- **The connection pool**: a request it refuses is a statement that fails, which
  every module that uses the database has as a fault.
- **Keyword discovery, metrics, rendering, login and deployment**, as section 1 says.

## 8. Plan

Done, in this order: `TaskQueue`, its proofs, `Seeding`, `WorkerLoop`, `Discovery`,
`Autopilot`, `Accounts`, `Templates`, `Settings`; then `TaskLedger` and the
refinement with its proof, `Execution`, and the proofs about `Execution`,
`WorkerLoop`, `Settings`, `Templates`, `Autopilot` and `Accounts`; then those about
`Discovery`, about the queue beside its seeders, and the silence of templates.

Next, extending the model:

1. Pure algorithms against reference definitions: quiet hours across midnight
   (`core/rate_limiter.py`), the requeue backoff, the breaker's sleep.
2. An abstract validated set that `Discovery` implements.
3. Keyword discovery, for the flag and the statuses it shares with the pool.

Next, proving: that set's refinement, over `PoolInv`; and more of section 6 from the
other side, as `FlagTells` and `ReturnsForCause` do: the condition under which a
promise that can be broken holds.
