---------------------------- MODULE WorkerLoop -----------------------------
(***************************************************************************)
(* One worker daemon (src/core/worker.py) around process_next_task: boot,  *)
(* the loop with its maintenance passes, the circuit breaker, signals and  *)
(* the dashboard's reload request; the settings it reads through the cache *)
(* of src/core/settings.py; and the lifecycle rows of system_logs that     *)
(* src/core/health.py turns into a heartbeat.                              *)
(*                                                                         *)
(* process_next_task is one step here (TaskQueue has its detail): what the *)
(* loop sees of it is True, False or an exception.                         *)
(***************************************************************************)
EXTENDS Integers

CONSTANTS
    Values,      \* values an editable setting can have
    Default,     \* the one of SETTING_DEFS or of the container's environment
    Threshold,   \* failure_threshold
    Supervised,  \* docker-compose restarts the worker (unless-stopped)
    Faults       \* the faults the environment may inject

FaultKinds == {"db",     \* the database goes away and comes back
               "kill",   \* SIGKILL
               "error"}  \* process_next_task raises

ASSUME LoopAssumption ==
    /\ Default \in Values
    /\ Threshold \in Nat \ {0}
    /\ Supervised \in BOOLEAN
    /\ Faults \subseteq FaultKinds

VARIABLES
    db,         \* is the database reachable
    stored,     \* system_settings: the setting and the reload flag
    heartbeat,  \* the newest lifecycle row of system_logs
    lost,       \* history: the process ended, or went on, without its row
    pc,         \* where the daemon is
    running,    \* is_running
    failures,   \* consecutive_failures
    cache,      \* _CACHE: a copy of `stored`
    using,      \* the setting as the loop uses it
    due,        \* the passes whose interval has elapsed (or that never ran)
    streak,     \* history: iterations that failed one after the other
    asked       \* history: a reload was requested and no process stopped for it

vars == <<db, stored, heartbeat, lost, pc, running, failures, cache, using, due, streak, asked>>

Passes == {"settings", "sweep", "seed"}
NotSet == "not set"
NoFlag == [value |-> NotSet, reload |-> FALSE]
Settings == [value : Values \cup {NotSet}, reload : BOOLEAN]
Place == {"down", "started", "boot sweep", "boot seed", "loop", "process", "settings",
          "sweep", "seed", "failed", "pause", "reload", "trip", "stopping"}

LoopTypeOK ==
    /\ db \in BOOLEAN
    /\ stored \in Settings
    /\ heartbeat \in {"none", "WORKER_STARTED", "WORKER_STOPPED", "CIRCUIT_BREAKER_TRIPPED"}
    /\ lost \in BOOLEAN
    /\ pc \in Place
    /\ running \in BOOLEAN
    /\ failures \in 0 .. Threshold /\ (pc = "process" => failures < Threshold)
    /\ cache \in Settings
    /\ using \in Values
    /\ due \subseteq Passes
    /\ streak \in 0 .. Threshold
    /\ asked \in BOOLEAN

Init ==
    /\ db = TRUE
    /\ stored = NoFlag
    /\ heartbeat = "none"
    /\ lost = FALSE
    /\ pc = "down"
    /\ running = FALSE
    /\ failures = 0
    /\ cache = NoFlag
    /\ using = Default
    /\ due = {}
    /\ streak = 0
    /\ asked = FALSE

shared == <<db, stored, heartbeat, lost>>
breaker == <<failures, streak>>
local == <<running, failures, cache, using, due, streak, asked>>

\* get_setting: the cached row, else the environment or the default. What
\* apply_db_settings_to_env publishes is the cache again.
Setting(copy) == IF copy.value = NotSet THEN Default ELSE copy.value

\* record_log: the failure to write is logged and swallowed.
Record(event) ==
    /\ heartbeat' = IF db THEN event ELSE heartbeat
    /\ lost' = ~db

-----------------------------------------------------------------------------
(* Boot *)

\* GrowthWorker(): the first read fills _CACHE, for the life of the process;
\* with no database it fills it with nothing.
Start ==
    /\ pc = "down"
    /\ pc' = "started"
    /\ cache' = IF db THEN stored ELSE NoFlag
    /\ using' = Setting(cache')
    /\ running' = TRUE
    /\ failures' = 0
    /\ due' = Passes
    /\ streak' = 0
    /\ UNCHANGED <<shared, asked>>

Announce ==
    /\ pc = "started"
    /\ pc' = "boot sweep"
    /\ Record("WORKER_STARTED")
    /\ UNCHANGED <<db, stored, local>>

\* _run_sweeper: the two passes swallow their own exceptions, so the timer is
\* set whether or not they reached the database.
Swept == due' = due \ {"sweep"}

\* _run_seeder: without the database seed_tasks raises, and stays due, unless
\* there is no target to seed: then it returns, as the read of the table falls
\* back to the environment and the environment names none.
Seeded ==
    \/ due' = due \ {"seed"}
    \/ ~db /\ UNCHANGED due

\* Mutant: a daemon that leaves the first sweep to the loop.
BootNoSweep ==
    /\ pc = "boot sweep"
    /\ pc' = "boot seed"
    /\ UNCHANGED <<shared, local>>

\* Orphaned claims are recovered before the seeder looks at the queue.
BootSweep ==
    /\ pc = "boot sweep"
    /\ pc' = "boot seed"
    /\ Swept
    /\ UNCHANGED <<shared, running, breaker, cache, using, asked>>

BootSeed ==
    /\ pc = "boot seed"
    /\ pc' = "loop"
    /\ Seeded
    /\ UNCHANGED <<shared, running, breaker, cache, using, asked>>

-----------------------------------------------------------------------------
(* The loop *)

\* `while self.is_running`: process_next_task is called.
Enter ==
    /\ pc = "loop" /\ running
    /\ pc' = "process"
    /\ UNCHANGED <<shared, local>>

\* True: a task was delivered.
Processed ==
    /\ pc = "process" /\ db
    /\ pc' = "settings"
    /\ failures' = 0
    /\ streak' = 0
    /\ UNCHANGED <<shared, running, cache, using, due, asked>>

\* False: quiet hours, nothing to claim (a database that is down reads as
\* that), or a task that was reported on. Only the loop sleeps.
Idle ==
    /\ pc = "process"
    /\ pc' = "settings"
    /\ streak' = 0
    /\ UNCHANGED <<shared, running, failures, cache, using, due, asked>>

\* It raised: between the claim and the try, or in a handler's disconnect().
\* Maintenance is skipped. Nothing is claimed without the database.
Raised ==
    /\ "error" \in Faults
    /\ pc = "process" /\ db
    /\ pc' = "failed"
    /\ failures' = failures + 1
    /\ streak' = streak + 1
    /\ UNCHANGED <<shared, running, cache, using, due, asked>>

\* Mutant: the breaker trips one failure late.
JudgeLate ==
    /\ pc = "failed"
    /\ pc' = IF failures > Threshold THEN "trip" ELSE "pause"
    /\ UNCHANGED <<shared, local>>

\* The except branch: trip, or sleep.
Judge ==
    /\ pc = "failed"
    /\ pc' = IF failures >= Threshold THEN "trip" ELSE "pause"
    /\ UNCHANGED <<shared, local>>

Resume ==
    /\ pc = "pause"
    /\ pc' = "loop"
    /\ UNCHANGED <<shared, local>>

Trip ==
    /\ pc = "trip"
    /\ pc' = "stopping"
    /\ running' = FALSE
    /\ Record("CIRCUIT_BREAKER_TRIPPED")
    /\ UNCHANGED <<db, stored, breaker, cache, using, due, asked>>

\* Every 60 s the settings are applied again and the reload flag is read:
\* both from _CACHE.
Refresh ==
    /\ pc = "settings"
    /\ IF "settings" \in due
         THEN /\ using' = Setting(cache)
              /\ due' = due \ {"settings"}
              /\ pc' = IF cache.reload THEN "reload" ELSE "sweep"
         ELSE pc' = "sweep" /\ UNCHANGED <<using, due>>
    /\ UNCHANGED <<shared, running, breaker, cache, asked>>

Reload ==
    /\ pc = "reload"
    /\ pc' = "stopping"
    /\ running' = FALSE
    /\ asked' = FALSE
    /\ UNCHANGED <<shared, breaker, cache, using, due>>

SweepPass ==
    /\ pc = "sweep"
    /\ pc' = "seed"
    /\ IF "sweep" \in due THEN Swept ELSE UNCHANGED due
    /\ UNCHANGED <<shared, running, breaker, cache, using, asked>>

SeedPass ==
    /\ pc = "seed"
    /\ pc' = "loop"
    /\ IF "seed" \in due THEN Seeded ELSE UNCHANGED due
    /\ UNCHANGED <<shared, running, breaker, cache, using, asked>>

\* Mutant: the loop is left only when no pass is due.
LeaveWhenQuiet ==
    /\ pc = "loop" /\ ~running /\ due = {}
    /\ pc' = "stopping"
    /\ UNCHANGED <<shared, local>>

\* `while self.is_running` is over.
LeaveLoop ==
    /\ pc = "loop" /\ ~running
    /\ pc' = "stopping"
    /\ UNCHANGED <<shared, local>>

\* Mutant: the last row is left to the operator.
ExitSilently == pc = "stopping" /\ pc' = "down" /\ UNCHANGED <<shared, local>>

Exit ==
    /\ pc = "stopping"
    /\ pc' = "down"
    /\ Record("WORKER_STOPPED")
    /\ UNCHANGED <<db, stored, local>>

-----------------------------------------------------------------------------
(* The environment *)

\* SIGTERM or SIGINT: the handler runs when the loop awaits, and the task and
\* the passes that follow are finished first.
Signal ==
    /\ pc \in {"process", "pause"} /\ running
    /\ running' = FALSE
    /\ UNCHANGED <<shared, pc, breaker, cache, using, due, asked>>

Kill ==
    /\ "kill" \in Faults
    /\ pc # "down"
    /\ pc' = "down"
    /\ lost' = TRUE
    /\ UNCHANGED <<db, stored, heartbeat, local>>

\* Some pass's interval has elapsed.
Elapse(name) ==
    /\ pc # "down"
    /\ name \notin due
    /\ due' = due \cup {name}
    /\ UNCHANGED <<shared, pc, running, breaker, cache, using, asked>>

\* POST /api/settings: set_setting clears the cache of the dashboard's own
\* process.
Save(value) ==
    /\ db
    /\ stored' = [stored EXCEPT !.value = value]
    /\ UNCHANGED <<db, heartbeat, lost, pc, local>>

\* POST /api/worker/reload. Nothing in the code writes "false".
RequestReload ==
    /\ db
    /\ stored' = [stored EXCEPT !.reload = TRUE]
    /\ asked' = TRUE
    /\ UNCHANGED <<db, heartbeat, lost, pc, running, breaker, cache, using, due>>

SwitchDb ==
    /\ "db" \in Faults
    /\ db' = ~db
    /\ UNCHANGED <<stored, heartbeat, lost, pc, local>>

-----------------------------------------------------------------------------

\* What the daemon does by itself.
Daemon ==
    \/ Announce \/ BootSweep \/ BootSeed
    \/ Enter \/ Processed \/ Idle \/ Raised \/ Judge \/ Resume \/ Trip
    \/ Refresh \/ Reload \/ SweepPass \/ SeedPass \/ LeaveLoop \/ Exit

Next ==
    \/ Daemon
    \/ Start
    \/ Signal \/ Kill
    \/ \E name \in Passes : Elapse(name)
    \/ \E value \in Values : Save(value)
    \/ RequestReload
    \/ SwitchDb

Spec == Init /\ [][Next]_vars

\* The process is scheduled, its awaits are bounded, intervals elapse, and a
\* supervisor starts a worker that is down.
Fairness ==
    /\ WF_vars(Daemon)
    /\ \A name \in Passes : WF_vars(Elapse(name))
    /\ Supervised => WF_vars(Start)

FairSpec == Spec /\ Fairness

-----------------------------------------------------------------------------
(* Properties *)

\* The breaker counts consecutive failures ("N consecutive loop failures halt
\* the daemon", README): when it trips, the last N iterations failed.
TripsOnConsecutive == pc = "trip" => streak >= Threshold

\* The newest lifecycle row tells whether the daemon is alive
\* (get_worker_heartbeat), until a kill or an unreachable database keeps it
\* from writing one, and again from the next row on.
HeartbeatTrue == ~lost =>
    /\ pc = "down" => heartbeat # "WORKER_STARTED"
    /\ pc \in Place \ {"down", "started", "trip", "stopping"}
          => heartbeat = "WORKER_STARTED"

\* SIGTERM ends the daemon whatever its loop is doing.
SignalStops == ~running ~> pc = "down"

\* A pass that is due runs with the database reachable.
Serves(name) == db /\ name \in due /\ name \notin due'

\* Under a supervisor, once the database stays up and no more kills come,
\* orphan recovery and seeding run again and again: even if every iteration
\* raises and skips them, if the process booted in an outage, or if the passes
\* of the outage were counted as done.
MaintenanceRecurs ==
    \A name \in {"sweep", "seed"} :
        <>[]db /\ <>[][~Kill]_vars => []<><<Serves(name)>>_vars

\* A saved setting reaches the worker "without touching files or restarting
\* services" (settings.py).
SettingReaches ==
    \A value \in Values : <>[](stored.value = value /\ pc # "down") => <>(using = value)

\* "Worker will reload within ~60s (next settings poll)" (app.py).
ReloadHonoured == ~<>[](asked /\ running)

\* One request reloads the worker once: a worker that stops to reload does so
\* for a request no worker has stopped for.
ReloadOnce == pc = "reload" => asked

\* A database that stays unreachable trips the breaker (RUNBOOK, "Most common
\* causes: database unreachable").
UnreachableTrips == <>[](~db /\ running) => <>(pc = "trip")

=============================================================================
