----------------------------- MODULE Execution -----------------------------
(***************************************************************************)
(* What one worker does with a claimed task on Telegram                    *)
(* (src/core/dispatcher.py: process_next_task, execute_task,               *)
(* _resolve_entity, _comment_in_discussion; src/accounts/manager.py:       *)
(* connect_with_fallback), beside what Telegram is like meanwhile: which   *)
(* channels take comments, where the account has joined, what the account  *)
(* is worth. TaskQueue has the row's life and several workers, Accounts    *)
(* the account's; here each is what this worker reads and writes of it.    *)
(* Each awaited call is a step, and so is each transaction.                *)
(***************************************************************************)
EXTENDS Integers, Sequences, FiniteSets, FiniteSetsExt

CONSTANTS
    Broadcast,  \* targets that are broadcast channels
    Groups,     \* targets that are groups
    Numeric,    \* targets named by their id
    Open,       \* positions in TRANSPORT_FALLBACKS that get through
    Moods,      \* what a channel may be like
    MaxFaults,  \* bound: how many faults happen
    Faults      \* the faults the environment may inject

MoodKinds == {"open",     \* comments are open
              "locked",   \* nobody may write
              "gated",    \* an administrator has to admit members
              "private",  \* the discussion cannot be seen
              "closed"}   \* no post, no linked discussion
FaultKinds == {"connection",  \* a call raises ConnectionError
               "flood",       \* a call raises FloodWaitError
               "error",       \* a call raises something else
               "db",          \* a transaction fails
               "post",        \* the latest post has no thread, or is deleted
               "answer",      \* Telegram's answer leaves out what is looked for
               "disconnect"}  \* client.disconnect() raises

ASSUME ExecutionAssumption ==
    /\ Broadcast \cap Groups = {} /\ "none" \notin Broadcast \cup Groups
    /\ Numeric \subseteq Broadcast \cup Groups
    /\ Open \subseteq 1 .. 3
    /\ Moods \subseteq MoodKinds
    /\ MaxFaults \in Nat
    /\ Faults \subseteq FaultKinds

VARIABLES
    row,       \* the status of each target's newest task
    channels,  \* target_channels
    active,    \* is the account ACTIVE in the accounts table
    run,       \* process_next_task
    leaked,    \* history: the last run left its client connected
    mood,      \* what each target is like
    member,    \* the account in each discussion group
    account,   \* what the account is worth to Telegram
    quiet,     \* is_quiet_hours()
    left       \* how many more faults may happen

tables == <<row, channels, active>>
telegram == <<mood, member, account, quiet>>
vars == <<tables, run, leaked, telegram, left>>

Targets == Broadcast \cup Groups
Status == {"PENDING", "RUNNING", "COMPLETED", "FAILED", "SKIPPED"}
Calls == {"connect", "authorize", "resolve", "post", "thread", "join", "send"}
Place == Calls \cup {"idle", "claimed", "restrict", "release", "pace", "upgrade", "verify",
                     "complete", "leave", "catch", "blame", "close"}
Error == {"none", "connection", "flood", "error", "no discussion", "permission"}
\* The post the run fetched, as Telegram has it; the chat its comment is for.
Post == {"none", "ready", "service", "fresh", "gone"}
Chat == {"none", "group", "channel", "unmatched"}
NoRun == [at |-> "idle", target |-> "none", tried |-> 0, client |-> FALSE, entity |-> "none",
          post |-> "none", origin |-> 0, chat |-> "none", error |-> "none", sent |-> {},
          shut |-> FALSE]

TypeOK ==
    /\ row \in [Targets -> Status]
    /\ channels \subseteq Targets
    /\ active \in BOOLEAN
    /\ run \in [at : Place, target : Targets \cup {"none"}, tried : 0 .. 2, client : BOOLEAN,
                entity : {"none", "bare", "full"}, post : Post, origin : 0 .. 2, chat : Chat,
                error : Error, sent : SUBSET (0 .. 2), shut : BOOLEAN]
    /\ run.at = "idle" <=> run.target = "none"
    /\ run.at \in {"catch", "blame", "close"} <=> run.error # "none"
    /\ leaked \in BOOLEAN
    /\ mood \in [Targets -> MoodKinds]
    /\ member \in [Targets -> {"out", "asked", "in"}]
    /\ account \in {"good", "limited", "dead"}
    /\ quiet \in BOOLEAN
    /\ left \in 0 .. MaxFaults

Init ==
    /\ row = [t \in Targets |-> "PENDING"]
    /\ channels = Targets
    /\ active = TRUE
    /\ run = NoRun
    /\ leaked = FALSE
    /\ mood \in [Targets -> Moods] /\ \A t \in Groups : mood[t] \in {"open", "locked"}
    /\ member = [t \in Targets |-> "out"]
    /\ account = "good"
    /\ quiet = FALSE
    /\ left = MaxFaults

\* May this account write where a task for the target belongs?
Writable(t, moods, members, worth) ==
    /\ worth = "good"
    /\ moods[t] = "open" \/ (moods[t] = "gated" /\ members[t] = "in")
CanComment(t) == Writable(t, mood, member, account)

Hit(fault) == fault \in Faults /\ left > 0 /\ left' = left - 1

At(place) == run.at = place
Goto(place) == run' = [run EXCEPT !.at = place]
Raise(error) == run' = [run EXCEPT !.at = "catch", !.error = error]

\* process_next_task is over; a client that is still connected stays so.
Return ==
    /\ run' = NoRun
    /\ leaked' = run.client

\* update_task_status swallows what it raises.
Report(status) ==
    \/ row' = [row EXCEPT ![run.target] = status] /\ UNCHANGED left
    \/ Hit("db") /\ UNCHANGED row

-----------------------------------------------------------------------------
(* From the claim to the authorized client *)

Claim(t) ==
    /\ At("idle") /\ ~quiet
    /\ row[t] = "PENDING"
    /\ row' = [row EXCEPT ![t] = "RUNNING"]
    /\ run' = [NoRun EXCEPT !.at = "claimed", !.target = t, !.shut = ~CanComment(t)]
    /\ leaked' = FALSE
    /\ UNCHANGED <<channels, active, telegram, left>>

NoAccount ==
    /\ At("claimed") /\ ~active
    /\ Report("PENDING") /\ Return
    /\ UNCHANGED <<channels, active, telegram>>

\* get_active_accounts and create_client are outside the try.
Prepare ==
    /\ At("claimed")
    /\ \/ active /\ Goto("connect") /\ UNCHANGED <<leaked, left>>
       \/ Hit("db") /\ Return
    /\ UNCHANGED <<tables, telegram>>

Tried == run.tried + 1
\* Mutants: the sequence has no end; its last transport is not tried.
NextEndless == run' = [run EXCEPT !.tried = Tried]
NextButLast == IF Tried < 2 THEN run' = [run EXCEPT !.tried = Tried] ELSE Raise("connection")
\* What is left to try when a transport has failed; the client is
\* disconnected after each.
NextTransport == IF Tried < 3 THEN run' = [run EXCEPT !.tried = Tried] ELSE Raise("connection")

\* connect_with_fallback, one transport of TRANSPORT_FALLBACKS.
Connect ==
    /\ At("connect")
    /\ IF Tried \in Open THEN run' = [run EXCEPT !.at = "authorize", !.client = TRUE]
                         ELSE NextTransport
    /\ UNCHANGED <<tables, leaked, telegram, left>>

TransportFails ==
    /\ At("connect")
    /\ Hit("connection") /\ NextTransport
    /\ UNCHANGED <<tables, leaked, telegram>>

\* is_user_authorized.
Authorize ==
    /\ At("authorize")
    /\ Goto(IF account = "dead" THEN "restrict" ELSE "pace")
    /\ UNCHANGED <<tables, leaked, telegram, left>>

\* update_account_status raises what fails, inside the try.
RestrictAccount ==
    /\ At("restrict")
    /\ \/ active' = FALSE /\ Goto("release") /\ UNCHANGED left
       \/ Hit("db") /\ Raise("error") /\ UNCHANGED active
    /\ UNCHANGED <<row, channels, leaked, telegram>>

Release ==
    /\ At("release")
    /\ Report("PENDING") /\ Goto("leave")
    /\ UNCHANGED <<channels, active, leaked, telegram>>

-----------------------------------------------------------------------------
(* execute_task *)

\* wait_jitter.
Pace ==
    /\ At("pace")
    /\ Goto("resolve")
    /\ UNCHANGED <<tables, leaked, telegram, left>>

Route(entity) ==
    run' = [run EXCEPT !.entity = entity,
                       !.at = IF entity = "full" /\ run.target \in Broadcast THEN "post" ELSE "send"]

\* An id is resolved to the entity itself, or like a name when the session
\* does not know it; a name only to a bare peer, which has no flags.
Resolve ==
    /\ At("resolve")
    /\ \/ run.target \in Numeric /\ Route("full")
       \/ Goto("upgrade")
    /\ UNCHANGED <<tables, leaked, telegram, left>>

\* GetChannelsRequest; every exception is swallowed, and the bare peer kept
\* as it is after an answer without the channel.
Upgrade ==
    /\ At("upgrade")
    /\ \/ account # "dead" /\ Route("full") /\ UNCHANGED left
       \/ account = "dead" /\ Route("bare") /\ UNCHANGED left
       \/ \E fault \in {"connection", "flood", "error", "answer"} : Hit(fault) /\ Route("bare")
    /\ UNCHANGED <<tables, leaked, telegram>>

\* The latest post: a channel may have none, or a service message there, or
\* one that is not forwarded to the discussion group yet.
LatestPost ==
    /\ At("post") /\ account # "dead"
    /\ \/ mood[run.target] = "closed" /\ Raise("no discussion") /\ UNCHANGED left
       \/ run' = [run EXCEPT !.at = "thread", !.post = "ready"] /\ UNCHANGED left
       \/ Hit("post") /\ run' = [run EXCEPT !.at = "thread", !.post = "fresh"]
       \/ /\ Hit("post")
          /\ run' = [run EXCEPT !.at = "catch", !.error = "no discussion", !.post = "service"]
    /\ UNCHANGED <<tables, leaked, telegram>>

\* Telegram forwards the post to the group.
Forward ==
    /\ At("thread") /\ run.post = "fresh"
    /\ run' = [run EXCEPT !.post = "ready"]
    /\ UNCHANGED <<tables, leaked, telegram, left>>

\* The channel deletes it.
Vanish ==
    /\ At("thread") /\ run.post # "gone"
    /\ Hit("post") /\ run' = [run EXCEPT !.post = "gone"]
    /\ UNCHANGED <<tables, leaked, telegram>>

\* What GetDiscussionMessageRequest answers with: the ids of the thread's
\* messages in the group, one or an album in any order, and the chats.
Albums == {<<1>>, <<1, 2>>, <<2, 1>>}
Listings == {<<"channel", "group">>, <<"group", "channel">>}
\* Mutants: messages[0], chats[0].
FirstOf(ids) == Head(ids)
FirstListed(chats) == Head(chats)
Origin(ids) == Min({ids[i] : i \in DOMAIN ids})
\* The chat with the id of the origin's peer.
Discussion(chats) == IF \E i \in DOMAIN chats : chats[i] = "group" THEN "group" ELSE "unmatched"

Thread ==
    /\ At("thread") /\ account # "dead"
    /\ IF mood[run.target] \in {"private", "closed"} \/ run.post # "ready"
       THEN Raise("no discussion") /\ UNCHANGED left
       ELSE \/ /\ \E ids \in Albums, chats \in Listings :
                    run' = [run EXCEPT !.at = "join", !.origin = Origin(ids),
                                       !.chat = Discussion(chats)]
               /\ UNCHANGED left
            \/ /\ Hit("answer")  \* no messages, or not the chat they are in
               /\ run' = [run EXCEPT !.at = "catch", !.error = "no discussion",
                                     !.chat = "unmatched"]
    /\ UNCHANGED <<tables, leaked, telegram>>

\* JoinChannelRequest; whoever is in is told so, which is no error.
Join ==
    /\ At("join") /\ account # "dead"
    /\ member' = [member EXCEPT ![run.target] =
          IF @ = "in" \/ mood[run.target] = "private" THEN @
          ELSE IF mood[run.target] = "gated" THEN "asked" ELSE "in"]
    /\ IF member'[run.target] = "in" THEN Goto("send") ELSE Raise("no discussion")
    /\ UNCHANGED <<tables, leaked, mood, account, quiet, left>>

\* A comment goes to the discussion group, anything else to the entity
\* itself; a broadcast channel takes no messages from a subscriber.
Accepted == CanComment(run.target) /\ (run.target \in Broadcast => run.chat = "group")
Sent(place, error) ==
    run' = [run EXCEPT !.at = place, !.error = error, !.sent = @ \cup {run.origin}]

Send ==
    /\ At("send") /\ account # "dead"
    /\ IF Accepted THEN Sent("verify", "none")
       ELSE Raise(IF run.entity = "full" /\ run.target \in Broadcast
                    THEN "no discussion" ELSE "permission")
    /\ UNCHANGED <<tables, leaked, telegram, left>>

\* The message was accepted, the answer was lost.
SendLost ==
    /\ At("send") /\ Accepted
    /\ Hit("connection") /\ Sent("catch", "connection")
    /\ UNCHANGED <<tables, leaked, telegram>>

\* Any call may raise; FloodWait, ConnectionError and the rest have a handler
\* each.
CallRaises ==
    /\ run.at \in Calls
    /\ \E fault \in {"connection", "flood", "error"} \ (IF At("connect") THEN {"connection"} ELSE {}) :
          Hit(fault) /\ Raise(fault)
    /\ UNCHANGED <<tables, leaked, telegram>>

\* A session that is logged out under the run is no case of its own.
LoggedOut ==
    /\ run.at \in {"post", "thread", "join", "send"} /\ account = "dead"
    /\ Raise("error")
    /\ UNCHANGED <<tables, leaked, telegram, left>>

\* _verify_delivery and _record_delivery swallow everything.
Verify ==
    /\ At("verify")
    /\ Goto("complete")
    /\ UNCHANGED <<tables, leaked, telegram, left>>

Complete ==
    /\ At("complete")
    /\ Report("COMPLETED") /\ Goto("leave")
    /\ UNCHANGED <<channels, active, leaked, telegram>>

\* client.disconnect(), still inside the try.
Leave ==
    /\ At("leave")
    /\ \/ run' = NoRun /\ UNCHANGED left
       \/ Hit("disconnect") /\ \E error \in {"connection", "error"} : Raise(error)
    /\ UNCHANGED <<tables, leaked, telegram>>

-----------------------------------------------------------------------------
(* The handlers *)

\* ConnectionError and FloodWaitError hand the task back.
HandBack ==
    /\ At("catch") /\ run.error \in {"connection", "flood"}
    /\ Report("PENDING") /\ Goto("close")
    /\ UNCHANGED <<channels, active, leaked, telegram>>

\* skip_task: the status and the deletion in one transaction, or neither.
Skip ==
    /\ At("catch") /\ run.error \in {"no discussion", "permission"}
    /\ \/ /\ row' = [row EXCEPT ![run.target] = "SKIPPED"]
          /\ channels' = channels \ {run.target}
          /\ UNCHANGED left
       \/ Hit("db") /\ UNCHANGED <<row, channels>>
    /\ Goto("close")
    /\ UNCHANGED <<active, leaked, telegram>>

\* Everything else: FAILED, then the account is blamed.
FailTask ==
    /\ At("catch") /\ run.error = "error"
    /\ Report("FAILED") /\ Goto("blame")
    /\ UNCHANGED <<channels, active, leaked, telegram>>

\* update_account_status(.., ACTIVE); where it raises, nothing disconnects.
Blame ==
    /\ At("blame")
    /\ \/ active' = TRUE /\ Goto("close") /\ UNCHANGED <<leaked, left>>
       \/ Hit("db") /\ Return /\ UNCHANGED active
    /\ UNCHANGED <<row, channels, telegram>>

\* Mutant: the handler does not disconnect.
ReturnConnected ==
    /\ At("close")
    /\ Return
    /\ UNCHANGED <<tables, telegram, left>>

Close ==
    /\ At("close")
    /\ \/ run' = NoRun /\ UNCHANGED <<leaked, left>>
       \/ Hit("disconnect") /\ Return
    /\ UNCHANGED <<tables, telegram>>

-----------------------------------------------------------------------------
(* Beside the run *)

\* requeue_failed_tasks and sweep_stale_tasks, when their delays are over.
Requeue(t) ==
    /\ row[t] = "FAILED" \/ (row[t] = "RUNNING" /\ run.target # t)
    /\ row' = [row EXCEPT ![t] = "PENDING"]
    /\ UNCHANGED <<channels, active, run, leaked, telegram, left>>

\* seed_tasks, when the dedupe window is over.
Seed(t) ==
    /\ t \in channels /\ row[t] \in {"COMPLETED", "FAILED", "SKIPPED"}
    /\ row' = [row EXCEPT ![t] = "PENDING"]
    /\ UNCHANGED <<channels, active, run, leaked, telegram, left>>

\* import_account, after a new login.
Login ==
    /\ ~active
    /\ active' = TRUE /\ account' = "good"
    /\ UNCHANGED <<row, channels, run, leaked, mood, member, quiet, left>>

\* A change of Telegram's that the run may fall into.
Seen(moods, members, worth) ==
    run' = [run EXCEPT !.shut = @ \/ /\ run.target \in Targets
                                     /\ ~Writable(run.target, moods, members, worth)]

ChangeMood(t) ==
    /\ \E m \in Moods \ {mood[t]} :
          /\ t \in Groups => m \in {"open", "locked"}
          /\ mood' = [mood EXCEPT ![t] = m]
    /\ Seen(mood', member, account)
    /\ UNCHANGED <<tables, leaked, member, account, quiet, left>>

\* An administrator admits the account.
Admit(t) ==
    /\ member[t] = "asked"
    /\ member' = [member EXCEPT ![t] = "in"]
    /\ UNCHANGED <<tables, run, leaked, mood, account, quiet, left>>

\* Telegram limits the account, lifts the limit or logs it out.
ChangeAccount ==
    /\ account # "dead"
    /\ account' \in {"good", "limited", "dead"} \ {account}
    /\ Seen(mood, member, account')
    /\ UNCHANGED <<tables, leaked, mood, member, quiet, left>>

Clock ==
    /\ quiet' = ~quiet
    /\ UNCHANGED <<tables, run, leaked, mood, member, account, left>>

-----------------------------------------------------------------------------

Proceed ==
    \/ NoAccount \/ Prepare \/ Connect \/ TransportFails \/ Authorize \/ RestrictAccount \/ Release
    \/ Pace \/ Resolve \/ Upgrade \/ LatestPost \/ Thread \/ Join \/ Send \/ SendLost
    \/ CallRaises \/ LoggedOut \/ Verify \/ Complete \/ Leave
    \/ HandBack \/ Skip \/ FailTask \/ Blame \/ Close

Next ==
    \/ Proceed
    \/ \E t \in Targets : Claim(t) \/ Requeue(t) \/ Seed(t) \/ ChangeMood(t) \/ Admit(t)
    \/ Forward \/ Vanish \/ Login \/ ChangeAccount \/ Clock

Spec == Init /\ [][Next]_vars

\* The worker runs and its awaits end; quiet hours pass; the loop's passes
\* recover and seed. A target's task is claimed sooner or later: claims are in
\* the order of ids, and a new task has a higher one than those that wait.
Fairness ==
    /\ WF_vars(Proceed)
    /\ WF_vars(Clock)
    /\ \A t \in Targets : WF_vars(Requeue(t)) /\ WF_vars(Seed(t)) /\ SF_vars(Claim(t))

FairSpec == Spec /\ Fairness

-----------------------------------------------------------------------------
(* Properties *)

\* What a broadcast channel looks like to a run that has not seen its flags.
Blind == run.entity = "bare" /\ run.target \in Broadcast

Pruned(t) == t \in channels /\ t \notin channels'

\* What a run could not comment under: a post without a thread, or a thread
\* whose group Telegram did not name.
Threadless == run.post \in {"service", "fresh", "gone"} \/ run.chat = "unmatched"

\* A channel is given up only for one of three causes: at some moment of the
\* run the account could not have commented there; the run never learnt what
\* kind of channel it is; the one post it looked at, or Telegram's answer
\* about that post, had no thread to offer. An open channel whose post was
\* answered for is not lost to a FloodWait, a lost connection, another failure
\* of a call, or a comment sent to the channel in place of its group.
PruneHasCause == [][\A t \in Targets : Pruned(t) => run.shut \/ Blind \/ Threadless]_vars

\* "Auto-pruning fires ONLY for terminal comment-ineligibility [..] never for
\* transient errors like FloodWait or connection failures" (skip_task).
PruneIsTerminal == [][\A t \in Targets : Pruned(t) => run.shut]_vars

\* What is said under a broadcast channel is said under its latest post: a
\* reply to the origin of the thread, never to another message of an album
\* and never to the channel itself.
CommentsInThread == run.target \in Broadcast => run.sent \subseteq {1}

\* process_next_task leaves no client connected, unless the very step with
\* which it ends is a database or disconnection error.
LeakIsFault == [][leaked' /\ ~leaked => left' < left]_vars

\* Nothing is sent in quiet hours ("quiet-hours suspension", README).
QuietKept == [][run'.sent # {} /\ run.sent = {} => ~quiet]_vars

\* A configured target that stays open to an account in service is served
\* again and again, whatever failed before: nothing the handlers do, no
\* transport, no order of errors, parks its task for good.
OpenIsServed ==
    \A t \in Targets :
        <>[](t \in channels /\ CanComment(t) /\ active) => []<>(row[t] = "COMPLETED")

=============================================================================
