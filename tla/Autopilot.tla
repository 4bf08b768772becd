----------------------------- MODULE Autopilot -----------------------------
(***************************************************************************)
(* The auto-pilot (src/services/discovery_autopilot.py): a thread that     *)
(* crawls while the pending pool is low, validates in batches and sleeps   *)
(* between, until its quota is met, the pool stays empty or an operator    *)
(* asks it to stop.  What start and stop read and write is one state       *)
(* object, shared with every loop that was ever started.                   *)
(*                                                                         *)
(* A crawl and a validation run are one step each (Discovery has their     *)
(* detail): the loop sees how many rows were added, checked and promoted.  *)
(***************************************************************************)
EXTENDS Integers

CONSTANTS
    Loops,       \* threads that may run run_autopilot_loop
    Quota,       \* target_quota
    Floor,       \* POOL_FLOOR
    EmptyLimit,  \* EMPTY_SWEEP_LIMIT
    Batch,       \* batch_limit
    Shown,       \* how many handles a validation snapshot lists
    MaxPending,  \* bound: size of the pending pool
    Faults       \* "raise": an engine raises; "busy": another caller runs it;
                 \* "db": the pool cannot be counted

ASSUME AutopilotAssumption ==
    /\ Quota \in Nat \ {0}
    /\ Floor \in Nat /\ EmptyLimit \in Nat \ {0}
    /\ Batch \in Nat \ {0} /\ Shown \in Nat \ {0}
    /\ MaxPending \in Nat
    /\ Faults \subseteq {"raise", "busy", "db"}

VARIABLES
    running, stop, phase, promoted,  \* AUTOPILOT_STATE
    loop,       \* each thread
    asking,     \* an operator's stop request between its check and its write
    pending,    \* rows in PENDING_VALIDATION
    inserted,   \* history: channels promoted since start() that were not configured before
    overlap     \* history: loops ran side by side, and one of them still does

state == <<running, stop, phase, promoted>>
vars == <<state, loop, asking, pending, inserted, overlap>>

Phase == {"idle", "starting", "crawling", "validating", "cooling_down",
          "stopping", "completed", "stopped", "error"}
NoLoop == [at |-> "idle", empty |-> 0, seen |-> 0]

\* Both counters are only compared with the quota.
Cap == Quota + Batch
Plus(n, m) == IF n + m < Cap THEN n + m ELSE Cap

TypeOK ==
    /\ running \in BOOLEAN /\ stop \in BOOLEAN /\ asking \in BOOLEAN
    /\ phase \in Phase
    /\ promoted \in 0 .. Cap
    /\ loop \in [Loops -> [at : {"idle", "spawned", "top", "crawl", "cool crawl",
                                 "before validation", "validate", "judge", "cool"},
                           empty : 0 .. EmptyLimit, seen : 0 .. MaxPending]]
    /\ pending \in 0 .. MaxPending
    /\ inserted \in 0 .. Cap
    /\ overlap \in BOOLEAN

Init ==
    /\ running = FALSE /\ stop = FALSE /\ asking = FALSE
    /\ phase = "idle"
    /\ promoted = 0
    /\ loop = [l \in Loops |-> NoLoop]
    /\ pending \in 0 .. MaxPending
    /\ inserted = 0
    /\ overlap = FALSE

In(l) == loop[l].at \notin {"idle", "spawned"}
Beside(l) == \E k \in Loops \ {l} : In(k)

-----------------------------------------------------------------------------
(* Start and stop *)

\* start_background_autopilot looks at the flag; the thread raises it later.
Spawn(l) ==
    /\ loop[l].at = "idle"
    /\ ~running
    /\ loop' = [loop EXCEPT ![l].at = "spawned"]
    /\ UNCHANGED <<state, asking, pending, inserted, overlap>>

\* AUTOPILOT_STATE.start(), in the thread.
Start(l) ==
    /\ loop[l].at = "spawned"
    /\ running' = TRUE /\ stop' = FALSE /\ phase' = "starting" /\ promoted' = 0
    /\ inserted' = 0
    /\ loop' = [loop EXCEPT ![l].at = "top"]
    /\ overlap' = (overlap \/ Beside(l))
    /\ UNCHANGED <<asking, pending>>

\* stop_background_autopilot: the check, and then request_stop().
AskStop ==
    /\ running /\ ~asking
    /\ asking' = TRUE
    /\ UNCHANGED <<state, loop, pending, inserted, overlap>>

RequestStop ==
    /\ asking
    /\ asking' = FALSE
    /\ stop' = TRUE /\ phase' = "stopping"
    /\ UNCHANGED <<running, promoted, loop, pending, inserted, overlap>>

-----------------------------------------------------------------------------
(* The loop *)

\* The thread returns.
Return(l) ==
    /\ loop' = [loop EXCEPT ![l] = NoLoop]
    /\ overlap' = (overlap /\ Beside(l))

\* finish() and the return.
End(l, final) ==
    /\ running' = FALSE /\ phase' = final
    /\ Return(l)
    /\ UNCHANGED <<stop, promoted>>

Enter(l, at, name) ==
    /\ loop' = [loop EXCEPT ![l].at = at]
    /\ phase' = name
    /\ UNCHANGED <<running, stop, promoted, overlap>>

\* Mutant: the phase is taken for the stop signal.
StopSeenByPhase == phase = "stopping"

\* What the checks and _interruptible_sleep read.
StopSeen == stop

\* Another thread's finish() has ended this loop, too.
Leave(l) ==
    /\ loop[l].at = "top" /\ ~running
    /\ Return(l)
    /\ UNCHANGED <<state, asking, pending, inserted>>

\* pool_stats(): a database error is swallowed and reads as an empty pool.
Counted == IF "db" \in Faults THEN {pending, 0} ELSE {pending}

Top(l) ==
    /\ loop[l].at = "top" /\ running
    /\ IF StopSeen THEN End(l, "stopped")
       ELSE IF promoted >= Quota THEN End(l, "completed")
       ELSE \E count \in Counted :
            /\ loop' = [loop EXCEPT ![l].at = IF count < Floor THEN "crawl" ELSE "before validation",
                                    ![l].seen = count]
            /\ phase' = IF count < Floor THEN "crawling" ELSE phase
            /\ UNCHANGED <<running, stop, promoted, overlap>>
    /\ UNCHANGED <<asking, pending, inserted>>

\* Mutant: the sweeps are counted from zero every time.
CrawlForgets(l) ==
    /\ loop[l].at = "crawl"
    /\ \E added \in 0 .. MaxPending - pending : pending' = pending + added
    /\ loop' = [loop EXCEPT ![l].at = "cool crawl", ![l].empty = 0]
    /\ phase' = "cooling_down"
    /\ UNCHANGED <<running, stop, promoted, asking, inserted, overlap>>

\* run_crawl; without an account or a seed, or while another caller crawls,
\* it adds nothing. The pool that must be empty is the one read at the top.
Crawl(l) ==
    /\ loop[l].at = "crawl"
    /\ \E added \in 0 .. MaxPending - pending :
          LET sweeps == IF added > 0 THEN 0
                        ELSE IF loop[l].empty < EmptyLimit THEN loop[l].empty + 1 ELSE EmptyLimit
          IN /\ pending' = pending + added
             /\ IF sweeps >= EmptyLimit /\ loop[l].seen = 0
                  THEN End(l, "completed")
                  ELSE /\ loop' = [loop EXCEPT ![l].at = "cool crawl", ![l].empty = sweeps]
                       /\ phase' = "cooling_down"
                       /\ UNCHANGED <<running, stop, promoted, overlap>>
    /\ UNCHANGED <<asking, inserted>>

CoolAfterCrawl(l) ==
    /\ loop[l].at = "cool crawl"
    /\ IF StopSeen THEN End(l, "stopped") ELSE Enter(l, "before validation", phase)
    /\ UNCHANGED <<asking, pending, inserted>>

BeforeValidation(l) ==
    /\ loop[l].at = "before validation"
    /\ IF StopSeen THEN End(l, "stopped") ELSE Enter(l, "validate", "validating")
    /\ UNCHANGED <<asking, pending, inserted>>

\* Mutant: a short pool is taken for a full batch.
FullBatch == Batch

\* What FETCH_PENDING_SQL finds, up to the limit.
Available == IF pending < Batch THEN pending ELSE Batch

\* run_validation on a batch: `good` of the `done` rows were validated, `new`
\* of those were not in target_channels. The snapshot lists at most Shown of
\* the validated ones, new or not.
Validate(l) ==
    /\ loop[l].at = "validate"
    /\ \E done \in 0 .. Available :
       \E good \in 0 .. done : \E new \in 0 .. good :
          /\ pending' = pending - done
          /\ inserted' = Plus(inserted, new)
          /\ promoted' = Plus(promoted, IF good < Shown THEN good ELSE Shown)
    /\ loop' = [loop EXCEPT ![l].at = "judge"]
    /\ phase' = "cooling_down"
    /\ UNCHANGED <<running, stop, asking, overlap>>

\* "already running": no counts, no list.
Refused(l) ==
    /\ "busy" \in Faults
    /\ loop[l].at = "validate"
    /\ Enter(l, "judge", "cooling_down")
    /\ UNCHANGED <<asking, pending, inserted>>

Judge(l) ==
    /\ loop[l].at = "judge"
    /\ IF promoted >= Quota THEN End(l, "completed") ELSE Enter(l, "cool", phase)
    /\ UNCHANGED <<asking, pending, inserted>>

\* The cooldown between batches, or the idle poll.
Cool(l) ==
    /\ loop[l].at = "cool"
    /\ IF StopSeen THEN End(l, "stopped") ELSE Enter(l, "top", phase)
    /\ UNCHANGED <<asking, pending, inserted>>

\* Mutant: the except branch only logs.
RaisedUnfinished(l) ==
    /\ "raise" \in Faults
    /\ loop[l].at \in {"crawl", "validate"}
    /\ Return(l)
    /\ UNCHANGED <<state, asking, pending, inserted>>

\* The account table is unreachable, or create_client raises.
Raised(l) ==
    /\ "raise" \in Faults
    /\ loop[l].at \in {"crawl", "validate"}
    /\ End(l, "error")
    /\ UNCHANGED <<asking, pending, inserted>>

\* Other callers' runs add and take rows.
Others ==
    /\ "busy" \in Faults
    /\ pending' \in 0 .. MaxPending
    /\ UNCHANGED <<state, loop, asking, inserted, overlap>>

Step(l) ==
    \/ Start(l) \/ Leave(l) \/ Top(l) \/ Crawl(l) \/ CoolAfterCrawl(l)
    \/ BeforeValidation(l) \/ Validate(l) \/ Refused(l) \/ Judge(l) \/ Cool(l)
    \/ Raised(l)

Next ==
    \/ \E l \in Loops : Spawn(l) \/ Step(l)
    \/ AskStop \/ RequestStop
    \/ Others

Spec == Init /\ [][Next]_vars

\* Threads run, their sleeps and engines end, a request is carried out.
FairSpec == Spec /\ WF_vars(RequestStop) /\ \A l \in Loops : WF_vars(Step(l))

-----------------------------------------------------------------------------
(* Properties *)

\* "An operator stop signal breaks all sleeps .. and finishes the run
\* cleanly": whatever the loop is doing when it comes, and though every phase
\* overwrites the one the signal set. Only a second start, let in while the
\* thread of the first had not begun, can wipe the signal.
StopEnds == stop ~> ~running \/ ~stop

\* The same, said without that exception.
StopHonoured == stop ~> ~running

\* With a pool that stays empty the loop gives up ("give up after N crawls
\* with zero new targets"), whatever crawls found before.
EmptyPoolEnds == running ~> (~running \/ pending > 0)

\* The flag that refuses a second start is up exactly while a loop runs: no
\* way out of the loop, by return, break or exception, leaves it behind. Only
\* of loops let in side by side the first to end lowers it for all.
FlagIsLoop == ~overlap => (running <=> \E l \in Loops : In(l))

\* One loop at a time: a second start is told "already running".
OneLoop == \A k, l \in Loops : In(k) /\ In(l) => k = l

\* "until `target_quota` channels have been validated and promoted": the run
\* that says completed and found the pool alive has configured that many.
QuotaMet == phase = "completed" /\ promoted >= Quota => inserted >= Quota

=============================================================================
