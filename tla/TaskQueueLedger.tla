--------------------------- MODULE TaskQueueLedger ---------------------------
(***************************************************************************)
(* TaskQueue as an implementation of TaskLedger: the row and the history   *)
(* of its messages become the entry, the workers between their claim and   *)
(* their report its holders. Locks, clocks, the sequence and what a worker *)
(* does after its report are hidden.                                       *)
(***************************************************************************)
EXTENDS TaskQueue

Holders(t) == {w \in Workers : Busy(w) /\ job[w] = t}

EntryOf(t) ==
    IF Is(t, "none") THEN [status |-> "none"]
    ELSE [status |-> tasks[t].status, target |-> tasks[t].target,
          burnt |-> tasks[t].retry, sent |-> delivered[t],
          holder |-> Holders(t), acked |-> \E w \in Holders(t) : pc[w] = "sent"]

Entries == [t \in TaskId |-> EntryOf(t)]

Ledger == INSTANCE TaskLedger WITH entry <- Entries

\* The queue keeps its promise: whatever crashes, swallowed database errors
\* and lost answers do, a task is held by one worker at a time, sent at most
\* once per holder, recovered only when nobody holds it, taken up again only
\* within its budget, and COMPLETED only by a holder Telegram answered.
ImplementsLedger == Ledger!Spec

=============================================================================
