------------------------------ MODULE Settings ------------------------------
(***************************************************************************)
(* The settings of the dashboard process: the table system_settings and    *)
(* the module global _CACHE (src/core/settings.py). The settings form is   *)
(* read by threads of a pool (api_get_settings, a `def` route), saved on   *)
(* the event loop (api_save_settings, an `async def` route that awaits     *)
(* nothing once it has the form), and a reload request of another thread   *)
(* sets the restart flag. Nothing locks _CACHE.                            *)
(***************************************************************************)
EXTENDS Integers, Sequences, FiniteSets, SequencesExt

CONSTANTS
    Keys,     \* setting keys, Flag among them
    Flag,     \* WORKER_RESTART_REQUESTED
    Values,   \* values a form may hold
    Default,  \* stands for a missing row: the environment, else the definition
    NoCache,  \* stands for None
    Readers,  \* threads that read the form
    Reloads,  \* threads that request a reload
    Faults    \* {"db"}: a statement may fail

ASSUME SettingsAssumption ==
    /\ IsFiniteSet(Keys) /\ Flag \in Keys
    /\ Values # {}
    /\ Default \notin Values
    /\ NoCache \notin [Keys -> Values \cup {Default}]
    /\ Readers \cap Reloads = {}
    /\ Faults \subseteq {"db"}

VARIABLES
    stored,  \* system_settings; Default where there is no row
    cache,   \* _CACHE
    read,    \* what each reader is doing
    save,    \* what the event loop is doing
    reload,  \* the step of each reload request
    raced    \* history: a load overlapped an invalidation, or failed

vars == <<stored, cache, read, save, reload, raced>>

Table == [Keys -> Values \cup {Default}]
Empty == [key \in Keys |-> Default]
Form == Keys \ {Flag}
NoRead == [at |-> "idle", todo |-> {}, loaded |-> Empty, got |-> Empty]
NoSave == [at |-> "idle", todo |-> << >>, before |-> Empty]

TypeOK ==
    /\ stored \in Table
    /\ cache \in Table \cup {NoCache}
    /\ read \in [Readers -> [at : {"idle", "check", "select", "assign", "return", "raised"},
                             todo : SUBSET Form, loaded : Table, got : Table]]
    /\ \A r \in Readers :
          read[r].at \in {"check", "select", "assign", "return"} => read[r].todo # {}
    /\ save \in [at : {"idle", "upsert", "invalidate", "failed"},
                 todo : Seq(Form \X Values), before : Table]
    /\ save.at \in {"upsert", "invalidate"} => save.todo # << >>
    /\ reload \in [Reloads -> {"idle", "upsert", "invalidate"}]
    /\ raced \in BOOLEAN

Init ==
    /\ stored = Empty
    /\ cache = NoCache
    /\ read = [r \in Readers |-> NoRead]
    /\ save = NoSave
    /\ reload = [u \in Reloads |-> "idle"]
    /\ raced = FALSE

\* invalidate_cache.
Invalidate ==
    /\ cache' = NoCache
    /\ raced' = (raced \/ \E r \in Readers : read[r].at = "assign")

-----------------------------------------------------------------------------
(* api_get_settings: get_setting of each key *)

Get(r) ==
    /\ read[r].at = "idle"
    /\ Form # {}
    /\ read' = [read EXCEPT ![r] = [NoRead EXCEPT !.at = "check", !.todo = Form]]
    /\ UNCHANGED <<stored, cache, save, reload, raced>>

\* _load_cache: if _CACHE is None.
Check(r) ==
    /\ read[r].at = "check"
    /\ read' = [read EXCEPT ![r].at = IF cache = NoCache THEN "select" ELSE "return"]
    /\ UNCHANGED <<stored, cache, save, reload, raced>>

Select(r) ==
    /\ read[r].at = "select"
    /\ read' = [read EXCEPT ![r].at = "assign", ![r].loaded = stored]
    /\ UNCHANGED <<stored, cache, save, reload, raced>>

\* except Exception: _CACHE = {}.
SelectFails(r) ==
    /\ "db" \in Faults
    /\ read[r].at = "select"
    /\ read' = [read EXCEPT ![r].at = "assign", ![r].loaded = Empty]
    /\ raced' = TRUE
    /\ UNCHANGED <<stored, cache, save, reload>>

Assign(r) ==
    /\ read[r].at = "assign"
    /\ cache' = read[r].loaded
    /\ read' = [read EXCEPT ![r].at = "return"]
    /\ UNCHANGED <<stored, save, reload, raced>>

\* Mutant: the loop over the keys does not end.
ReturnOnward(r) ==
    /\ read[r].at = "return"
    /\ cache # NoCache
    /\ \E key \in read[r].todo :
          read' = [read EXCEPT ![r].at = "check", ![r].todo = @ \ {key}]
    /\ UNCHANGED <<stored, cache, save, reload, raced>>

\* return _CACHE, the global again; `key in None` raises.
Return(r) ==
    /\ read[r].at = "return"
    /\ IF cache = NoCache
         THEN read' = [read EXCEPT ![r] = [NoRead EXCEPT !.at = "raised"]]
         ELSE \E key \in read[r].todo :
                LET left == read[r].todo \ {key}
                IN read' = [read EXCEPT ![r].got[key] = cache[key], ![r].todo = left,
                                        ![r].loaded = Empty,
                                        ![r].at = IF left = {} THEN "idle" ELSE "check"]
    /\ UNCHANGED <<stored, cache, save, reload, raced>>

\* The route answers 500.
Answer500(r) ==
    /\ read[r].at = "raised"
    /\ read' = [read EXCEPT ![r] = NoRead]
    /\ UNCHANGED <<stored, cache, save, reload, raced>>

-----------------------------------------------------------------------------
(* api_save_settings *)

\* What the form gives and validation lets through, in the order of
\* SETTING_DEFS.
Save ==
    /\ save.at = "idle"
    /\ \E keys \in (SUBSET Form) \ {{}} : \E value \in [keys -> Values] :
          \E order \in SetToSeqs(keys) :
             save' = [at |-> "upsert", before |-> stored,
                      todo |-> [i \in DOMAIN order |-> <<order[i], value[order[i]]>>]]
    /\ UNCHANGED <<stored, cache, read, reload, raced>>

\* set_setting: a transaction per key.
Upsert ==
    /\ save.at = "upsert"
    /\ stored' = [stored EXCEPT ![Head(save.todo)[1]] = Head(save.todo)[2]]
    /\ save' = [save EXCEPT !.at = "invalidate"]
    /\ UNCHANGED <<cache, read, reload, raced>>

\* The exception ends the request: 500, what was saved stays.
UpsertFails ==
    /\ "db" \in Faults
    /\ save.at = "upsert"
    /\ save' = [save EXCEPT !.at = "failed"]
    /\ UNCHANGED <<stored, cache, read, reload, raced>>

\* Mutant: the cache is dropped between keys, not after the last.
SaveInvalidatesBetween ==
    /\ save.at = "invalidate"
    /\ IF Len(save.todo) = 1
         THEN save' = NoSave /\ UNCHANGED <<cache, raced>>
         ELSE save' = [save EXCEPT !.at = "upsert", !.todo = Tail(@)] /\ Invalidate
    /\ UNCHANGED <<stored, read, reload>>

SaveInvalidates ==
    /\ save.at = "invalidate"
    /\ Invalidate
    /\ save' = IF Len(save.todo) = 1 THEN NoSave
               ELSE [save EXCEPT !.at = "upsert", !.todo = Tail(@)]
    /\ UNCHANGED <<stored, read, reload>>

SaveEnds ==
    /\ save.at = "failed"
    /\ save' = NoSave
    /\ UNCHANGED <<stored, cache, read, reload, raced>>

-----------------------------------------------------------------------------
(* api_worker_reload: set_worker_restart_flag(True) *)

SetFlag(u, value) ==
    /\ reload[u] = "idle"
    /\ stored' = [stored EXCEPT ![Flag] = value]
    /\ reload' = [reload EXCEPT ![u] = "invalidate"]
    /\ UNCHANGED <<cache, read, save, raced>>

\* except Exception: pass. The route says ok all the same.
SetFlagFails(u) ==
    /\ "db" \in Faults
    /\ reload[u] = "idle"
    /\ reload' = [reload EXCEPT ![u] = "invalidate"]
    /\ UNCHANGED <<stored, cache, read, save, raced>>

FlagInvalidates(u) ==
    /\ reload[u] = "invalidate"
    /\ Invalidate
    /\ reload' = [reload EXCEPT ![u] = "idle"]
    /\ UNCHANGED <<stored, read, save>>

-----------------------------------------------------------------------------

Reading(r) ==
    Check(r) \/ Select(r) \/ SelectFails(r) \/ Assign(r) \/ Return(r) \/ Answer500(r)

Next ==
    \/ \E r \in Readers : Get(r) \/ Reading(r)
    \/ Save \/ Upsert \/ UpsertFails \/ SaveInvalidates \/ SaveEnds
    \/ \E u \in Reloads :
          \/ \E value \in Values : SetFlag(u, value)
          \/ SetFlagFails(u) \/ FlagInvalidates(u)

Spec == Init /\ [][Next]_vars

-----------------------------------------------------------------------------
(* Properties *)

\* When no save is under way a cache that differs from the table owes it to
\* a load that overlapped an invalidation, or that failed.
StaleHasCause ==
    save.at \notin {"invalidate"} /\ (\A u \in Reloads : reload[u] = "idle")
       => cache \in {NoCache, stored} \/ raced

\* "set_setting() upserts + invalidates the cache" (settings.py): once the
\* requests are done, what the cache says is what the table says.
CacheFresh ==
    /\ save.at = "idle"
    /\ \A r \in Readers : read[r].at = "idle"
    /\ \A u \in Reloads : reload[u] = "idle"
    => cache \in {NoCache, stored}

\* get_setting "Never raises" (settings.py).
NeverRaises == \A r \in Readers : read[r].at # "raised"

\* "Validate every provided value first, then persist - all-or-nothing"
\* (api_save_settings): a save that fails has changed no setting.
AllOrNothing ==
    save.at = "failed" => \A key \in Form : stored[key] = save.before[key]

=============================================================================
