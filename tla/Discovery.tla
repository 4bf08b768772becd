----------------------------- MODULE Discovery -----------------------------
(***************************************************************************)
(* The discovery pipeline inside the dashboard's process: crawl runs that  *)
(* fill the pool (src/services/discovery_crawler.py), validation runs that *)
(* decide its rows and promote channels (discussion_validator.py), and the *)
(* operator's actions on both tables (discovery_studio.py).  Each run is a *)
(* thread; what keeps them apart is a `running` flag that is read in one   *)
(* step and set in a later one.                                            *)
(***************************************************************************)
EXTENDS Integers, FiniteSets, Sequences, SequencesExt

CONSTANTS
    Handles,     \* channels Telegram knows
    Poison,      \* handles whose probe raises an error the code does not map
    Validators,  \* threads that may run run_validation
    Crawlers,    \* threads that may run run_crawl
    MaxRows,     \* bound: how many ids the serial column hands out
    MaxAttempts, \* bound: attempt_count saturates here
    Batch,       \* BATCH_SIZE
    Operations,  \* what operators do beside starting runs
    Faults       \* the faults the environment may inject

OperationKinds == {"reprobe", "promote", "delete", "purge", "import", "remove"}
FaultKinds == {"crash",    \* the dashboard process dies and is restarted
               "session",  \* create_client raises
               "db",       \* a transaction fails
               "flood",    \* Telegram answers FLOOD_WAIT
               "account"}  \* no account is ACTIVE

ASSUME DiscoveryAssumption ==
    /\ Poison \subseteq Handles
    /\ Validators \cap Crawlers = {}
    /\ MaxRows \in Nat \ {0}
    /\ MaxAttempts \in Nat
    /\ Batch \in Nat \ {0}
    /\ Operations \subseteq OperationKinds
    /\ Faults \subseteq FaultKinds

VARIABLES
    rows,        \* discovered_targets, by id
    nextRow,     \* the sequence behind its ids
    channels,    \* the rows of target_channels
    running,     \* VALIDATOR_STATE.running
    run,         \* each validation thread
    crawling,    \* CRAWLER_STATE.running
    crawl,       \* each crawl thread
    removed,     \* history: channels deleted or pruned from target_channels
    settled,     \* history: those whose pool row was VALIDATED, in no run's hands, untouched since
    cut          \* history: rows a fault kept from being promoted, untouched since

pool == <<rows, nextRow>>
validation == <<running, run>>
crawls == <<crawling, crawl>>
history == <<removed, settled, cut>>
vars == <<pool, channels, validation, crawls, history>>

RowId == 1 .. MaxRows
NoRow == [status |-> "none"]
Verdict == {"PENDING_VALIDATION", "VALIDATED_HAS_DISCUSSION", "DISQUALIFIED_NO_DISCUSSION"}
Row == [handle: Handles, status: Verdict, attempts: 0 .. MaxAttempts]
Run == [at: {"idle", "spawned", "checked", "fetched", "connect", "attempt", "probe", "promote",
             "ending"},
        single: RowId \cup {0}, batch: Seq(RowId \X Handles)]
CrawlRun == [at: {"idle", "spawned", "checked", "sweep"}, known: SUBSET Handles]
NoRun == [at |-> "idle", single |-> 0, batch |-> << >>]
NoCrawl == [at |-> "idle", known |-> {}]

TypeOK ==
    /\ rows \in [RowId -> Row \cup {NoRow}]
    /\ nextRow \in 1 .. MaxRows + 1
    /\ channels \subseteq Handles
    /\ running \in BOOLEAN
    /\ run \in [Validators -> Run]
    /\ crawling \in BOOLEAN
    /\ crawl \in [Crawlers -> CrawlRun]
    /\ \A i, j \in RowId : rows[i] # NoRow /\ rows[j] # NoRow /\ rows[i].handle = rows[j].handle
                            => i = j
    /\ removed \subseteq Handles
    /\ settled \subseteq removed
    /\ cut \subseteq RowId

Init ==
    /\ rows = [id \in RowId |-> NoRow]
    /\ nextRow = 1
    /\ channels \in SUBSET (Handles \ Poison)
    /\ running = FALSE
    /\ run = [v \in Validators |-> NoRun]
    /\ crawling = FALSE
    /\ crawl = [c \in Crawlers |-> NoCrawl]
    /\ removed = {}
    /\ settled = {}
    /\ cut = {}

-----------------------------------------------------------------------------
(* The pool *)

HasStatus(id, status) == rows[id].status = status
PoolHandles == {rows[id].handle : id \in {i \in RowId : rows[i] # NoRow}}
Pending == {id \in RowId : HasStatus(id, "PENDING_VALIDATION")}

\* UPDATEs by id; no row is no error.
Marked(id, status) ==
    IF rows[id] = NoRow THEN rows ELSE [rows EXCEPT ![id].status = status]
Attempted(id) ==
    IF rows[id] = NoRow \/ rows[id].attempts = MaxAttempts THEN rows
    ELSE [rows EXCEPT ![id].attempts = @ + 1]

\* Mutant: FETCH_PENDING_SQL ordered by id alone.
Older(i, j) == i < j

\* FETCH_PENDING_SQL: fewest attempts first.
Before(i, j) == \/ rows[i].attempts < rows[j].attempts
                \/ rows[i].attempts = rows[j].attempts /\ i < j

\* The first rows of those wanted, BATCH_SIZE of them unless there are fewer.
IsFirst(ids, wanted) ==
    /\ \A m, n \in DOMAIN ids : m < n => Before(ids[m], ids[n])
    /\ \A id \in wanted \ ToSet(ids) :
          Len(ids) = Batch /\ \A n \in DOMAIN ids : Before(ids[n], id)

-----------------------------------------------------------------------------
(* A validation run *)

Move(v, at) == run' = [run EXCEPT ![v].at = at]

\* start_background_validation, or the autopilot's call.
Trigger(v, single) ==
    /\ run[v].at = "idle"
    /\ ~running
    /\ run' = [run EXCEPT ![v] = [at |-> "spawned", single |-> single, batch |-> << >>]]
    /\ UNCHANGED <<pool, channels, running, crawls, history>>

\* The second look at the flag, in the thread.
Check(v) ==
    /\ run[v].at = "spawned"
    /\ run' = [run EXCEPT ![v] = IF running THEN NoRun ELSE [@ EXCEPT !.at = "checked"]]
    /\ UNCHANGED <<pool, channels, running, crawls, history>>

\* The account is missing, or nothing is pending: start() and finish(). A
\* re-probe whose row is gone or decided returns without either, and so does
\* an exception from the account table.
NothingToDo(v) ==
    /\ run[v].at = "checked"
    /\ \/ "account" \in Faults /\ running' = FALSE
       \/ run[v].single = 0 /\ (Pending = {} \/ "db" \in Faults) /\ running' = FALSE
       \/ run[v].single # 0 /\ run[v].single \notin Pending /\ UNCHANGED running
       \/ "db" \in Faults /\ UNCHANGED running
    /\ run' = [run EXCEPT ![v] = NoRun]
    /\ UNCHANGED <<pool, channels, crawls, history>>

\* What the run is for: the row it was started for, or all.
Wanted(v) == IF run[v].single = 0 THEN Pending ELSE Pending \cap {run[v].single}

\* The batch is read.
Fetch(v) ==
    /\ run[v].at = "checked"
    /\ \E n \in 1 .. Batch : \E ids \in [1 .. n -> Wanted(v)] :
          /\ IsFirst(ids, Wanted(v))
          /\ run' = [run EXCEPT ![v] = [at |-> "fetched", single |-> 0,
                         batch |-> [k \in 1 .. n |-> <<ids[k], rows[ids[k]].handle>>]]]
    /\ UNCHANGED <<pool, channels, running, crawls, history>>

\* VALIDATOR_STATE.start(), then create_client outside the try: where it
\* raises the thread dies with the flag up.
StartRun(v) ==
    /\ run[v].at = "fetched"
    /\ running' = TRUE
    /\ \/ Move(v, "connect")
       \/ "session" \in Faults /\ run' = [run EXCEPT ![v] = NoRun]
    /\ UNCHANGED <<pool, channels, crawls, history>>

\* connect_with_fallback.
Connect(v) ==
    /\ run[v].at = "connect"
    /\ Move(v, "attempt")
    /\ UNCHANGED <<pool, channels, running, crawls, history>>

ConnectFails(v) ==
    /\ run[v].at = "connect"
    /\ Move(v, "ending")
    /\ UNCHANGED <<pool, channels, running, crawls, history>>

Id(v) == Head(run[v].batch)[1]
Handle(v) == Head(run[v].batch)[2]
NextTarget(v) ==
    run' = [run EXCEPT ![v].at = "attempt", ![v].batch = Tail(@)]

\* record_attempt, before the probe.
Attempt(v) ==
    /\ run[v].at = "attempt"
    /\ run[v].batch # << >>
    /\ \/ rows' = Attempted(Id(v)) /\ Move(v, "probe")
       \/ "db" \in Faults /\ Move(v, "ending") /\ UNCHANGED rows
    /\ UNCHANGED <<nextRow, channels, running, crawls, history>>

\* Mutant: the channel is promoted by another pass, if there is one.
MarkOnly(v) ==
    /\ run[v].at = "probe"
    /\ rows' = Marked(Id(v), "VALIDATED_HAS_DISCUSSION")
    /\ NextTarget(v)
    /\ UNCHANGED <<nextRow, channels, running, crawls, history>>

\* The discussion is open: mark_validated, a transaction of its own.
Validate(v) ==
    /\ run[v].at = "probe"
    /\ Handle(v) \notin Poison
    /\ \/ /\ rows' = Marked(Id(v), "VALIDATED_HAS_DISCUSSION")
          /\ Move(v, "promote")
       \/ "db" \in Faults /\ Move(v, "ending") /\ UNCHANGED rows
    /\ UNCHANGED <<nextRow, channels, running, crawls, history>>

\* promote_target, ON CONFLICT DO NOTHING.
Promote(v) ==
    /\ run[v].at = "promote"
    /\ \/ channels' = channels \cup {Handle(v)} /\ NextTarget(v) /\ UNCHANGED cut
       \/ "db" \in Faults /\ Move(v, "ending") /\ UNCHANGED channels /\ cut' = cut \cup {Id(v)}
    /\ UNCHANGED <<pool, running, crawls, removed, settled>>

\* mark_disqualified: no discussion, a closed one, or a terminal error.
Disqualify(v) ==
    /\ run[v].at = "probe"
    /\ Handle(v) \notin Poison
    /\ \/ /\ rows' = Marked(Id(v), "DISQUALIFIED_NO_DISCUSSION")
          /\ NextTarget(v)
       \/ "db" \in Faults /\ Move(v, "ending") /\ UNCHANGED rows
    /\ UNCHANGED <<nextRow, channels, running, crawls, history>>

\* A FloodWait or any other exception ends the run; the rest stays pending.
Interrupted(v) ==
    /\ run[v].at = "probe"
    /\ Handle(v) \in Poison \/ "flood" \in Faults
    /\ Move(v, "ending")
    /\ UNCHANGED <<pool, channels, running, crawls, history>>

\* Mutant: the handler of an interrupted run does not finish.
FinishUnlessInterrupted(v) ==
    /\ \/ run[v].at = "attempt" /\ run[v].batch = << >> /\ running' = FALSE
       \/ run[v].at = "ending" /\ UNCHANGED running
    /\ run' = [run EXCEPT ![v] = NoRun]
    /\ UNCHANGED <<pool, channels, crawls, history>>

\* VALIDATOR_STATE.finish(), after the pause if it was a FloodWait.
Finish(v) ==
    /\ \/ run[v].at = "attempt" /\ run[v].batch = << >>
       \/ run[v].at = "ending"
    /\ running' = FALSE
    /\ run' = [run EXCEPT ![v] = NoRun]
    /\ UNCHANGED <<pool, channels, crawls, history>>

ValidatorStep(v) ==
    \/ Check(v) \/ NothingToDo(v) \/ Fetch(v) \/ StartRun(v) \/ Connect(v)
    \/ ConnectFails(v) \/ Attempt(v) \/ Validate(v) \/ Promote(v) \/ Disqualify(v)
    \/ Interrupted(v) \/ Finish(v)

-----------------------------------------------------------------------------
(* A crawl run *)

TriggerCrawl(c) ==
    /\ crawl[c].at = "idle"
    /\ ~crawling
    /\ crawl' = [crawl EXCEPT ![c].at = "spawned"]
    /\ UNCHANGED <<pool, channels, validation, crawling, history>>

CheckCrawl(c) ==
    /\ crawl[c].at = "spawned"
    /\ crawl' = [crawl EXCEPT ![c].at = IF crawling THEN "idle" ELSE "checked"]
    /\ UNCHANGED <<pool, channels, validation, crawling, history>>

\* No account or no seed: start() and finish(). An exception from the account
\* table ends the thread without either.
NoSeeds(c) ==
    /\ crawl[c].at = "checked"
    /\ \/ (channels = {} \/ Faults \cap {"account", "db"} # {}) /\ crawling' = FALSE
       \/ "db" \in Faults /\ UNCHANGED crawling
    /\ crawl' = [crawl EXCEPT ![c] = NoCrawl]
    /\ UNCHANGED <<pool, channels, validation, history>>

\* CRAWLER_STATE.start(), the exclusion set (what cannot be read is left
\* out), and create_client outside the try.
StartCrawl(c) ==
    /\ crawl[c].at = "checked"
    /\ channels # {}
    /\ crawling' = TRUE
    /\ \/ \E known \in {channels \cup PoolHandles}
                        \cup (IF "db" \in Faults THEN {{}, channels} ELSE {}) :
             crawl' = [crawl EXCEPT ![c] = [at |-> "sweep", known |-> known]]
       \/ "session" \in Faults /\ crawl' = [crawl EXCEPT ![c] = NoCrawl]
    /\ UNCHANGED <<pool, channels, validation, history>>

\* The row INSERT_DISCOVERED_SQL adds.
Discovered(handle) ==
    [rows EXCEPT ![nextRow] = [handle |-> handle, status |-> "PENDING_VALIDATION", attempts |-> 0]]

\* Mutant: INSERT_DISCOVERED_SQL on a table without the UNIQUE constraint.
UpsertBlind(c, handle) ==
    /\ crawl[c].at = "sweep"
    /\ handle \notin crawl[c].known
    /\ nextRow <= MaxRows
    /\ rows' = Discovered(handle)
    /\ nextRow' = nextRow + 1
    /\ crawl' = [crawl EXCEPT ![c].known = @ \cup {handle}]
    /\ UNCHANGED <<channels, validation, crawling, history>>

\* Mutant: a conflict resets the row that is there.
UpsertReset(c, handle) ==
    /\ crawl[c].at = "sweep"
    /\ handle \notin crawl[c].known
    /\ IF handle \in PoolHandles
         THEN rows' = [id \in RowId |->
                         IF rows[id] # NoRow /\ rows[id].handle = handle
                           THEN [rows[id] EXCEPT !.status = "PENDING_VALIDATION"] ELSE rows[id]]
              /\ UNCHANGED nextRow
         ELSE nextRow <= MaxRows /\ rows' = Discovered(handle) /\ nextRow' = nextRow + 1
    /\ crawl' = [crawl EXCEPT ![c].known = @ \cup {handle}]
    /\ UNCHANGED <<channels, validation, crawling, history>>

\* A candidate outside the set: upsert_pending, ON CONFLICT DO NOTHING; only
\* what was inserted joins the set. A conflict changes nothing.
Upsert(c, handle) ==
    /\ crawl[c].at = "sweep"
    /\ handle \notin crawl[c].known
    /\ handle \notin PoolHandles
    /\ nextRow <= MaxRows
    /\ rows' = Discovered(handle)
    /\ nextRow' = nextRow + 1
    /\ crawl' = [crawl EXCEPT ![c].known = @ \cup {handle}]
    /\ UNCHANGED <<channels, validation, crawling, history>>

\* The last seed, a FloodWait or any exception.
EndCrawl(c) ==
    /\ crawl[c].at = "sweep"
    /\ crawling' = FALSE
    /\ crawl' = [crawl EXCEPT ![c] = NoCrawl]
    /\ UNCHANGED <<pool, channels, validation, history>>

CrawlerRun(c) ==
    \/ CheckCrawl(c) \/ NoSeeds(c) \/ StartCrawl(c) \/ EndCrawl(c)

-----------------------------------------------------------------------------
(* Operators, and the queue that prunes *)

\* reprobe_target, whatever the row's status; the single probe the route then
\* asks for is a Trigger that may be refused.
Reprobe(id) ==
    /\ "reprobe" \in Operations
    /\ rows[id] # NoRow
    /\ rows' = Marked(id, "PENDING_VALIDATION")
    /\ settled' = settled \ {rows[id].handle}
    /\ cut' = cut \ {id}
    /\ UNCHANGED <<nextRow, channels, validation, crawls, removed>>

Configure(handle) ==
    /\ channels' = channels \cup {handle}
    /\ removed' = removed \ {handle}
    /\ settled' = settled \ {handle}
    /\ cut' = {id \in cut : rows[id] # NoRow /\ rows[id].handle # handle}
    /\ UNCHANGED <<pool, validation, crawls>>

\* force_promote_target: the insert is a transaction after the one that read the
\* row. A row deleted in between has left no trace, so its channel is any.
ForcePromote(handle) ==
    /\ "promote" \in Operations
    /\ \E id \in 1 .. nextRow - 1 : rows[id] # NoRow => rows[id].handle = handle
    /\ Configure(handle)

\* insert_target and bulk_import_targets.
Import(handle) == "import" \in Operations /\ handle \notin channels /\ Configure(handle)

\* delete_target_record and purge_disqualified.
Drop(ids) ==
    /\ rows' = [id \in RowId |-> IF id \in ids THEN NoRow ELSE rows[id]]
    /\ settled' = settled \ {rows[id].handle : id \in ids}
    /\ cut' = cut \ ids
    /\ UNCHANGED <<nextRow, channels, validation, crawls, removed>>

DeleteRow(id) == "delete" \in Operations /\ rows[id] # NoRow /\ Drop({id})

PurgeDisqualified ==
    LET ids == {id \in RowId : HasStatus(id, "DISQUALIFIED_NO_DISCUSSION")}
    IN "purge" \in Operations /\ ids # {} /\ Drop(ids)

\* The channels some run has read and not finished with; the rows marked and
\* not yet promoted.
InHand == UNION {{entry[2] : entry \in ToSet(run[v].batch)} : v \in Validators}
Promoting == {Id(v) : v \in {w \in Validators : run[w].at = "promote"}}

\* delete_target, purge_targets, or skip_task's prune.
RemoveChannel(handle) ==
    /\ "remove" \in Operations
    /\ handle \in channels
    /\ channels' = channels \ {handle}
    /\ removed' = removed \cup {handle}
    /\ settled' = settled \cup {h \in {handle} \ InHand : \E id \in RowId :
                     rows[id] # NoRow /\ rows[id].handle = h
                     /\ HasStatus(id, "VALIDATED_HAS_DISCUSSION")}
    /\ UNCHANGED <<pool, validation, crawls, cut>>

Operate ==
    \/ \E id \in RowId : Reprobe(id) \/ DeleteRow(id)
    \/ \E handle \in Handles : ForcePromote(handle) \/ Import(handle) \/ RemoveChannel(handle)
    \/ PurgeDisqualified

\* The process is restarted with fresh state objects.
Crash ==
    /\ "crash" \in Faults
    /\ running' = FALSE /\ crawling' = FALSE
    /\ run' = [v \in Validators |-> NoRun]
    /\ crawl' = [c \in Crawlers |-> NoCrawl]
    /\ cut' = cut \cup Promoting
    /\ UNCHANGED <<pool, channels, removed, settled>>

-----------------------------------------------------------------------------

Next ==
    \/ \E v \in Validators : ValidatorStep(v) \/ Trigger(v, 0)
    \/ \E v \in Validators, id \in RowId :
          "reprobe" \in Operations /\ rows[id] # NoRow /\ Trigger(v, id)
    \/ \E c \in Crawlers : 
          \/ CrawlerRun(c) \/ TriggerCrawl(c)
          \/ \E handle \in Handles : Upsert(c, handle)
    \/ Operate
    \/ Crash

Spec == Init /\ [][Next]_vars

\* Threads run and their calls are bounded. While the autopilot is on it asks
\* for one validation run after another, and now and then a run connects.
Fairness ==
    /\ \A v \in Validators : WF_vars(ValidatorStep(v))
    /\ \A c \in Crawlers : WF_vars(CrawlerRun(c))
Autopilot ==
    \A v \in Validators : WF_vars(Trigger(v, 0)) /\ SF_vars(Connect(v))

FairSpec == Spec /\ Fairness
AutopilotSpec == FairSpec /\ Autopilot

-----------------------------------------------------------------------------
(* Properties *)

\* Every channel the validator accepts gets to target_channels, where it stays
\* until someone removes it ("atomically upserts the channel", says the
\* validator): marking and promoting are two transactions, and only a crash
\* or a database error right between them leaves a row without its channel.
ValidatedWasPromoted ==
    \A id \in RowId : HasStatus(id, "VALIDATED_HAS_DISCUSSION") =>
        rows[id].handle \in channels \cup removed \/ id \in cut \cup Promoting

\* A validated channel that was pruned or deleted does not come back by
\* itself: no crawl resets its row, no run promotes it again, until an
\* operator re-probes, deletes, promotes or imports it.
SettledStaysOut == [][\A h \in settled : h \in channels' => h \notin settled']_vars

\* A pruned channel comes back only at an operator's hand ("can never reseed a
\* channel that is permanently un-commentable", skip_task).
RemovedStaysOut == [][\A h \in removed : h \in channels' => h \notin removed']_vars

Started(v) == run[v].at \notin {"idle", "spawned", "checked", "fetched"}

\* One validation run at a time: a second caller is told "already running".
OneRun == \A v, w \in Validators : Started(v) /\ Started(w) => v = w

\* "already running" is said of a run that is there.
FlagIsTrue == running => \E v \in Validators : Started(v)

\* While runs are asked for, no row whose probe raises keeps another pending:
\* FETCH_PENDING_SQL takes the least attempted first.
NoStarvation ==
    \A id \in RowId :
        (HasStatus(id, "PENDING_VALIDATION") /\ rows[id].handle \notin Poison)
            ~> ~HasStatus(id, "PENDING_VALIDATION")

\* A run ends and lowers its flag, whatever Telegram or the database answer.
FlagFalls == running ~> ~running

=============================================================================
