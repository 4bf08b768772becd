------------------------------ MODULE Seeding ------------------------------
(***************************************************************************)
(* seed_tasks (src/core/seeder.py) composed with the queue it feeds and    *)
(* the target table it reads. A pass is run by a worker between two tasks, *)
(* or by a manual seeder: `python -m src.core.seeder` and the dashboard's  *)
(* seed buttons. It reads the targets in one transaction, then in another  *)
(* checks each for a recent task and inserts; nothing is visible before    *)
(* the one commit at its end.                                              *)
(***************************************************************************)
EXTENDS TaskQueue, Sequences

CONSTANTS
    Manual,      \* manual seeders that may run beside the workers
    EnvTargets   \* GROWTH_TARGET_CHANNELS

ASSUME SeedingAssumption ==
    /\ EnvTargets \subseteq Targets
    /\ Manual \cap Workers = {}

VARIABLES
    disabled,   \* rows of target_channels with enabled = FALSE
    fresh,      \* ids created within GROWTH_SEED_DEDUPE_HOURS
    pass,       \* what each seeder is doing
    excused,    \* history: fresh ids that may be a channel's second
    pruned      \* history: channels skip_task deleted, not imported since

seedVars == <<disabled, fresh, pass, excused, pruned>>
allVars == <<vars, seedVars>>

Seeders == Workers \cup Manual

\* A pass, with two histories. `taken`: channels it is to insert for although
\* they have a task, one that the check does not look for or that another pass
\* has committed since. `stale`: channels pruned since it read its targets.
Begun(targets, force) ==
    [todo |-> targets, due |-> << >>, force |-> force, open |-> TRUE, taken |-> {}, stale |-> {}]
NoPass == [Begun({}, FALSE) EXCEPT !.open = FALSE]
Seeding(s) == pass[s].open

SeedInit ==
    /\ Init
    /\ disabled = {}
    /\ fresh = {}
    /\ excused = {}
    /\ pass = [s \in Seeders |-> NoPass]
    /\ pruned = {}

-----------------------------------------------------------------------------
(* A pass *)

\* Mutant: the channels of earlier tasks are targets too.
ConfiguredFromHistory ==
    (channels \ disabled) \cup {tasks[t].target : t \in {u \in TaskId : ~Is(u, "none")}}

\* _db_targets() + _env_targets(): a table that cannot be read is empty.
Configured == (channels \ disabled) \cup EnvTargets

\* Only the buttons and the command line can force; a worker seeds between
\* two calls of process_next_task. The last conjunct is the bound on ids.
SeedStart(s, targets, force) ==
    /\ ~Seeding(s)
    /\ s \in Workers => pc[s] = "idle" /\ ~force
    /\ targets # {}
    /\ nextId <= MaxTasks
    /\ pass' = [pass EXCEPT ![s] = Begun(targets, force)]
    /\ UNCHANGED <<vars, disabled, fresh, excused, pruned>>

\* Mutant: DEDUPE_SQL without one of its statuses.
BlockedByFinished(target) ==
    \E t \in fresh : /\ tasks[t].status \in {"COMPLETED", "SKIPPED"}
                     /\ tasks[t].target = target

\* DEDUPE_SQL.
Blocked(target) ==
    \E t \in fresh : /\ tasks[t].status \in {"PENDING", "COMPLETED", "SKIPPED"}
                     /\ tasks[t].target = target

\* What DEDUPE_SQL does not look for.
Overlooked(target) ==
    \E t \in fresh : /\ tasks[t].status \in {"RUNNING", "FAILED", "CANCELLED"}
                     /\ tasks[t].target = target

\* One target of the loop. The row is inserted here and takes its id at the
\* commit: what lies between only decides which of two passes' rows is older.
SeedTarget(s, target) ==
    /\ target \in pass[s].todo
    /\ pass' = [pass EXCEPT
          ![s].todo = @ \ {target},
          ![s].due = IF ~pass[s].force /\ Blocked(target) THEN @ ELSE Append(@, target),
          ![s].taken = IF Overlooked(target) THEN @ \cup {target} ELSE @ \ {target}]
    /\ UNCHANGED <<vars, disabled, fresh, excused, pruned>>

\* The rows of the pass appear together, with the next ids.
SeedCommit(s) ==
    /\ Seeding(s)
    /\ pass[s].todo = {}
    /\ LET due == pass[s].due
           new == nextId .. nextId + Len(due) - 1
       IN /\ new \subseteq TaskId
          /\ tasks' = [t \in TaskId |->
                IF t \in new
                  THEN [status |-> "PENDING", target |-> due[t - nextId + 1],
                        retry |-> 0, age |-> 0]
                  ELSE tasks[t]]
          /\ delivered' = [t \in TaskId |-> IF t \in new THEN 0 ELSE delivered[t]]
          /\ nextId' = nextId + Len(due)
          /\ fresh' = fresh \cup new
          /\ excused' = excused \cup
                {t \in new : pass[s].force \/ due[t - nextId + 1] \in pass[s].taken}
          /\ pass' = [r \in Seeders |->
                IF r = s \/ ~Seeding(r) THEN NoPass
                ELSE [pass[r] EXCEPT !.taken = @ \cup {due[i] : i \in DOMAIN due}]]
    /\ UNCHANGED <<channels, locals, disabled, pruned>>

\* A manual seeder may lose its database or be interrupted at any time, a
\* worker where Faults says so.
Fails(s, faults) == s \in Manual \/ Faults \cap faults # {}

\* The process dies, or the transaction raises and rolls back.
SeedAbort(s) ==
    /\ Fails(s, {"crash", "db"})
    /\ Seeding(s)
    /\ pass' = [pass EXCEPT ![s] = NoPass]
    /\ UNCHANGED <<vars, disabled, fresh, excused, pruned>>

SeedStep(s) ==
    \/ \E force \in BOOLEAN : SeedStart(s, Configured, force)
    \/ Fails(s, {"db"}) /\ \E force \in BOOLEAN : SeedStart(s, EnvTargets, force)
    \/ \E target \in Targets : SeedTarget(s, target)
    \/ SeedCommit(s)
    \/ SeedAbort(s)

-----------------------------------------------------------------------------
(* The target table *)

\* bulk_import_targets: what is there already stays as it is. insert_target
\* is the same with one channel, and a conflict if it is there.
Import(targets) ==
    /\ targets # {}
    /\ channels' = channels \cup targets
    /\ pruned' = pruned \ targets
    /\ UNCHANGED <<tasks, nextId, delivered, locals, disabled, fresh, pass, excused>>

\* set_target_enabled.
Toggle(target) ==
    /\ disabled' = (disabled \ {target}) \cup ({target} \ disabled)
    /\ UNCHANGED <<vars, fresh, pass, excused, pruned>>

\* delete_target; purge_targets deletes every row.
Delete(targets) ==
    /\ targets # {}
    /\ channels' = channels \ targets
    /\ disabled' = disabled \ targets
    /\ UNCHANGED <<tasks, nextId, delivered, locals, fresh, pass, excused, pruned>>

TargetStep ==
    \/ \E targets \in SUBSET (Targets \ channels) : Import(targets)
    \/ \E target \in channels : Toggle(target)
    \/ \E target \in channels : Delete({target})
    \/ Delete(channels)

-----------------------------------------------------------------------------

\* A worker that is seeding does nothing else. Rows that are deleted are no
\* longer fresh; a channel deleted by a step of the queue was pruned.
QueueStep ==
    /\ \/ \E w \in Workers : ~Seeding(w) /\ WorkerStep(w)
       \/ Sweep \/ RequeueFailed
       \/ Operator
       \/ Tick
    /\ fresh' = {t \in fresh : tasks'[t] # NoRow}
    /\ excused' = excused \cap fresh'
    /\ disabled' = disabled \cap channels'
    /\ pruned' = pruned \cup (channels \ channels')
    /\ pass' = [s \in Seeders |->
          IF Seeding(s) THEN [pass[s] EXCEPT !.stale = @ \cup (channels \ channels')] ELSE pass[s]]

\* The oldest rows leave the window. NOW() stands still in a transaction.
Expire ==
    /\ \A s \in Seeders : ~Seeding(s)
    /\ \E t \in fresh : fresh' = {u \in fresh : u > t}
    /\ excused' = excused \cap fresh'
    /\ UNCHANGED <<vars, disabled, pass, pruned>>

SeedNext ==
    \/ QueueStep
    \/ \E s \in Seeders : SeedStep(s)
    \/ TargetStep
    \/ Expire

SeedSpec == SeedInit /\ [][SeedNext]_allVars

-----------------------------------------------------------------------------
(* Properties *)

\* "the dedupe window prevents duplicates" (seed_tasks). It does not where two
\* passes overlap, nor for a task that runs, has failed or is cancelled.
NoDuplicateTask ==
    \A t, u \in fresh :
        /\ tasks[t].target = tasks[u].target
        /\ {tasks[t].status, tasks[u].status} \cap {"FAILED", "CANCELLED"} = {}
        => t = u

\* What the window promises all the same, to any number of workers and manual
\* passes, whatever crashes, fails, sweeps and requeues around them: a channel
\* has a second task in the window only if the pass was forced, if the first
\* was running, failed or cancelled when the pass checked, or if it came from
\* a pass that committed between that check and this commit. A task that
\* waits, was delivered or was skipped never gets another beside it otherwise.
DuplicateHasCause ==
    \A t, u \in fresh : t < u /\ tasks[t].target = tasks[u].target => u \in excused

\* s commits a task for the channel.
Inserts(s, target) ==
    /\ Seeding(s) /\ ~Seeding(s)'
    /\ \E t \in TaskId : Is(t, "none") /\ tasks'[t] # NoRow /\ tasks'[t].target = target

\* "the seeder can never reseed a channel that is permanently un-commentable"
\* (skip_task): a task for a pruned channel that nobody imported and the
\* environment does not name comes only from a pass that had read the channel
\* before another worker pruned it.
PrunedStaysOut ==
    [][\A s \in Seeders : \A target \in pruned \ EnvTargets :
          Inserts(s, target) => target \in pass[s].stale]_allVars

=============================================================================
