----------------------------- MODULE TaskLedger -----------------------------
(***************************************************************************)
(* What the queue promises of a task, and nothing of how: no workers'      *)
(* steps, no locks, no clocks. A task is a ledger entry, an attempt is a   *)
(* holder, and a holder sends at most one message. TaskQueueLedger says    *)
(* in which sense TaskQueue implements it.                                 *)
(***************************************************************************)
EXTENDS Integers, FiniteSets

CONSTANTS
    Workers,    \* who may hold a task
    Targets,    \* the channels tasks are for
    TaskId,     \* the entries
    MaxRetries  \* attempts after which a failed task is not taken up again

VARIABLES
    entry,    \* the entries
    channels  \* the channels that still get tasks

ledger == <<entry, channels>>

Nothing == [status |-> "none"]

\* An entry: how many attempts have been burnt and messages sent, who holds
\* the task, and whether Telegram has answered the holder.
Entry(status, target, burnt, sent, holder, acked) ==
    [status |-> status, target |-> target, burnt |-> burnt, sent |-> sent,
     holder |-> holder, acked |-> acked]

\* A task nobody works on.
At(status, target, burnt, sent) == Entry(status, target, burnt, sent, {}, FALSE)

More(n) == IF n < 2 THEN n + 1 ELSE n

Init ==
    /\ entry = [t \in TaskId |-> Nothing]
    /\ channels = Targets

Is(t, status) == entry[t].status = status
Held(t) == Is(t, "RUNNING") /\ entry[t].holder # {}
Orphaned(t) == Is(t, "RUNNING") /\ entry[t].holder = {}

\* What an attempt that ends without an answer from Telegram may have sent.
Maybe(t) == {entry[t].sent, More(entry[t].sent)}

-----------------------------------------------------------------------------

\* A task is new, and for one channel.
Accept(t) ==
    /\ entry[t] = Nothing
    /\ \E target \in Targets : entry' = [entry EXCEPT ![t] = At("PENDING", target, 0, 0)]
    /\ UNCHANGED channels

\* One worker takes it, within the budget, or is gone as soon as it has.
Take(t) ==
    /\ Is(t, "PENDING") /\ entry[t].burnt <= MaxRetries
    /\ \E holder \in {{}} \cup {{w} : w \in Workers} :
          entry' = [entry EXCEPT ![t] =
              Entry("RUNNING", @.target, @.burnt, @.sent, holder, FALSE)]
    /\ UNCHANGED channels

\* The holder sends, once.
Send(t) ==
    /\ Held(t) /\ ~entry[t].acked
    /\ entry' = [entry EXCEPT ![t] =
          Entry("RUNNING", @.target, @.burnt, More(@.sent), @.holder, TRUE)]
    /\ UNCHANGED channels

\* The holder is gone, or its report is.
Abandon(t) ==
    /\ Held(t)
    /\ \E sent \in Maybe(t) :
          /\ entry[t].acked => sent = entry[t].sent
          /\ entry' = [entry EXCEPT ![t] = At("RUNNING", @.target, @.burnt, sent)]
    /\ UNCHANGED channels

\* The attempt is handed back and costs nothing, or failed and costs one.
GiveUp(t) ==
    /\ Held(t) /\ ~entry[t].acked
    /\ \E sent \in Maybe(t) :
          \/ entry' = [entry EXCEPT ![t] = At("PENDING", @.target, @.burnt, sent)]
          \/ entry' = [entry EXCEPT ![t] = At("FAILED", @.target, @.burnt + 1, sent)]
    /\ UNCHANGED channels

Complete(t) ==
    /\ Held(t) /\ entry[t].acked
    /\ entry' = [entry EXCEPT ![t] = At("COMPLETED", @.target, @.burnt, @.sent)]
    /\ UNCHANGED channels

\* The task and its channel leave together.
Skip(t) ==
    /\ Held(t) /\ ~entry[t].acked
    /\ entry' = [entry EXCEPT ![t] = At("SKIPPED", @.target, @.burnt, @.sent)]
    /\ channels' = channels \ {entry[t].target}

\* Orphans come back, and only orphans; each has cost an attempt.
Recover(S) ==
    /\ \A t \in S : Orphaned(t)
    /\ entry' = [t \in TaskId |->
          IF t \notin S THEN entry[t]
          ELSE At(IF entry[t].burnt >= MaxRetries THEN "FAILED" ELSE "PENDING",
                  entry[t].target, entry[t].burnt + 1, entry[t].sent)]
    /\ UNCHANGED channels

\* Failures come back while their budget lasts.
Requeue(S) ==
    /\ \A t \in S : Is(t, "FAILED") /\ entry[t].burnt < MaxRetries
    /\ entry' = [t \in TaskId |->
          IF t \notin S THEN entry[t]
          ELSE At("PENDING", entry[t].target, entry[t].burnt, entry[t].sent)]
    /\ UNCHANGED channels

Cancel(t) ==
    /\ Is(t, "PENDING")
    /\ entry' = [entry EXCEPT ![t] = At("CANCELLED", @.target, @.burnt, @.sent)]
    /\ UNCHANGED channels

Purge(t) ==
    /\ entry[t].status \in {"COMPLETED", "FAILED", "CANCELLED"}
    /\ entry' = [entry EXCEPT ![t] = Nothing]
    /\ UNCHANGED channels

Next ==
    \/ \E t \in TaskId :
          \/ Accept(t) \/ Take(t) \/ Send(t) \/ Abandon(t) \/ GiveUp(t)
          \/ Complete(t) \/ Skip(t) \/ Cancel(t) \/ Purge(t)
    \/ \E S \in SUBSET TaskId : Recover(S) \/ Requeue(S)

Spec == Init /\ [][Next]_ledger

=============================================================================
