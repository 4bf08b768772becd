-------------------------- MODULE ExecutionProofs --------------------------
(* Proofs about Execution, for every value of its constants. *)
EXTENDS Execution, TLAPS

-----------------------------------------------------------------------------
(* Type correctness *)

\* The parts of TypeOK: a run, and what the steps of a run write.
Run == [at : Place, target : Targets \cup {"none"}, tried : 0 .. 2, client : BOOLEAN,
        entity : {"none", "bare", "full"}, post : Post, origin : 0 .. 2, chat : Chat,
        error : Error, sent : SUBSET (0 .. 2), shut : BOOLEAN]
RunTyped ==
    /\ run \in Run
    /\ run.at = "idle" <=> run.target = "none"
    /\ run.at \in {"catch", "blame", "close"} <=> run.error # "none"
RestTyped ==
    /\ row \in [Targets -> Status]
    /\ channels \subseteq Targets
    /\ active \in BOOLEAN
    /\ leaked \in BOOLEAN
    /\ mood \in [Targets -> MoodKinds]
    /\ member \in [Targets -> {"out", "asked", "in"}]
    /\ account \in {"good", "limited", "dead"}
    /\ quiet \in BOOLEAN
    /\ left \in 0 .. MaxFaults

LEMMA Typed == TypeOK <=> RunTyped /\ RestTyped
  BY DEF TypeOK, RunTyped, RestTyped, Run

LEMMA TypedNext == RunTyped' /\ RestTyped' => TypeOK'
  BY DEF TypeOK, RunTyped, RestTyped, Run

LEMMA NoTarget == "none" \notin Targets
  BY ExecutionAssumption DEF Targets

\* A fault is one less to come.
LEMMA Faulty ==
  ASSUME left \in 0 .. MaxFaults, NEW fault, Hit(fault)
  PROVE  left' \in 0 .. MaxFaults /\ left' < left
  BY ExecutionAssumption DEF Hit

\* The message that is answered, in any album.
LEMMA OriginIsFirst == \A answer \in Albums : Origin(answer) = 1
  <1> SUFFICES ASSUME NEW answer \in Albums
               PROVE  Origin(answer) = 1
    OBVIOUS
  <1>1. {answer[i] : i \in DOMAIN answer} \in {{1}, {1, 2}}
    <2>1. CASE answer = <<1>>
      BY <2>1
    <2>2. CASE answer = <<1, 2>>
      <3>1. DOMAIN answer = {1, 2} /\ answer[1] = 1 /\ answer[2] = 2
        BY <2>2
      <3> QED
        BY <3>1
    <2>3. CASE answer = <<2, 1>>
      <3>1. DOMAIN answer = {1, 2} /\ answer[1] = 2 /\ answer[2] = 1
        BY <2>3
      <3> QED
        BY <3>1
    <2> QED
      BY <2>1, <2>2, <2>3 DEF Albums
  <1> QED
    BY <1>1 DEF Origin, Min

\* The group, wherever the answer lists it.
LEMMA DiscussionIsGroup == \A chats \in Listings : Discussion(chats) = "group"
  <1>1. Discussion(<<"channel", "group">>) = "group"
    BY DEF Discussion
  <1>2. Discussion(<<"group", "channel">>) = "group"
    BY DEF Discussion
  <1> QED
    BY <1>1, <1>2 DEF Listings

\* A transition of the run to another place that is not a handler.
LEMMA GotoType ==
  ASSUME RunTyped, NEW place \in Place \ {"idle", "catch", "blame", "close"},
         run.at \notin {"idle", "catch", "blame", "close"}, Goto(place)
  PROVE  RunTyped'
  BY DEF RunTyped, Goto, Run

\* From handler to handler.
LEMMA HandlerType ==
  ASSUME RunTyped, NEW place \in {"blame", "close"}, run.at \in {"catch", "blame"}, Goto(place)
  PROVE  RunTyped'
  BY DEF RunTyped, Goto, Run, Place

\* An exception of the run.
LEMMA RaiseType ==
  ASSUME RunTyped, run.at # "idle", NEW error \in Error \ {"none"}, Raise(error)
  PROVE  RunTyped'
  BY DEF RunTyped, Raise, Run, Place

LEMMA Resting == NoRun \in Run /\ NoRun.at = "idle" /\ NoRun.target = "none" /\ NoRun.error = "none"
  BY DEF NoRun, Run, Place, Error, Post, Chat

\* The end of the run.
LEMMA EndType ==
  ASSUME run' = NoRun
  PROVE  RunTyped'
  BY Resting DEF RunTyped

\* The way to the thread or to the message.
LEMMA RouteType ==
  ASSUME RunTyped, run.at \in {"resolve", "upgrade"}, NEW entity \in {"bare", "full"}, Route(entity)
  PROVE  RunTyped'
  <1>1. PICK place \in {"post", "send"} : run' = [run EXCEPT !.entity = entity, !.at = place]
    BY DEF Route
  <1> QED
    BY <1>1 DEF RunTyped, Run, Place, Calls

\* The update of the row, or its failure.
LEMMA ReportType ==
  ASSUME RunTyped, RestTyped, run.at # "idle", NEW status \in Status, Report(status)
  PROVE  row' \in [Targets -> Status] /\ left' \in 0 .. MaxFaults
  <1>1. CASE row' = [row EXCEPT ![run.target] = status] /\ UNCHANGED left
    BY <1>1 DEF RestTyped
  <1>2. CASE Hit("db") /\ UNCHANGED row
    BY <1>2, Faulty DEF RestTyped
  <1> QED
    BY <1>1, <1>2 DEF Report

\* The steps up to the authorized client.
LEMMA ConnectType ==
  ASSUME TypeOK, NoAccount \/ Prepare \/ Connect \/ TransportFails \/ Authorize \/ RestrictAccount \/ Release
  PROVE  TypeOK'
  <1> USE Typed, TypedNext
  <1>1. CASE NoAccount
    <2>1. RunTyped'
      BY <1>1, EndType DEF NoAccount, Return
    <2>2. RestTyped'
      BY <1>1, ReportType DEF NoAccount, Return, At, Status, telegram, RestTyped, RunTyped, Run
    <2> QED
      BY <2>1, <2>2
  <1>2. CASE Prepare
    <2>1. RunTyped'
      BY <1>2, EndType, GotoType DEF Prepare, Return, At, Place, Calls
    <2>2. RestTyped'
      BY <1>2, Faulty DEF Prepare, Return, tables, telegram, RestTyped, RunTyped, Run
    <2> QED
      BY <2>1, <2>2
  <1>3. CASE Connect \/ TransportFails
    <2>1. RunTyped'
      <3>1. CASE NextTransport
        <4>1. CASE Tried < 3
          BY <1>3, <3>1, <4>1 DEF Connect, TransportFails, NextTransport, Tried, At, RunTyped, Run
        <4>2. CASE ~(Tried < 3)
          BY <1>3, <3>1, <4>2, RaiseType DEF Connect, TransportFails, NextTransport, At, Error
        <4> QED
          BY <4>1, <4>2
      <3>2. CASE run' = [run EXCEPT !.at = "authorize", !.client = TRUE]
        BY <1>3, <3>2 DEF Connect, TransportFails, At, RunTyped, Run, Place, Calls
      <3> QED
        BY <1>3, <3>1, <3>2 DEF Connect, TransportFails
    <2>2. RestTyped'
      BY <1>3, Faulty DEF Connect, TransportFails, tables, telegram, RestTyped
    <2> QED
      BY <2>1, <2>2
  <1>4. CASE Authorize
    <2>1. RunTyped'
      BY <1>4, GotoType DEF Authorize, At, Place, Calls
    <2>2. RestTyped'
      BY <1>4 DEF Authorize, tables, telegram, RestTyped
    <2> QED
      BY <2>1, <2>2
  <1>5. CASE RestrictAccount
    <2>1. RunTyped'
      BY <1>5, GotoType, RaiseType DEF RestrictAccount, At, Place, Error
    <2>2. RestTyped'
      BY <1>5, Faulty DEF RestrictAccount, telegram, RestTyped
    <2> QED
      BY <2>1, <2>2
  <1>6. CASE Release
    <2>1. RunTyped'
      BY <1>6, GotoType DEF Release, At, Place
    <2>2. RestTyped'
      BY <1>6, ReportType DEF Release, At, Status, telegram, RestTyped
    <2> QED
      BY <2>1, <2>2
  <1> QED
    BY <1>1, <1>2, <1>3, <1>4, <1>5, <1>6

\* execute_task.
LEMMA TaskType ==
  ASSUME TypeOK, Pace \/ Resolve \/ Upgrade \/ LatestPost \/ Thread \/ Join \/ Send \/ SendLost
                 \/ CallRaises \/ LoggedOut \/ Verify \/ Complete \/ Leave
  PROVE  TypeOK'
  <1> USE Typed, TypedNext
  <1>1. CASE Pace \/ Verify
    <2>1. RunTyped'
      BY <1>1, GotoType DEF Pace, Verify, At, Place, Calls
    <2>2. RestTyped'
      BY <1>1 DEF Pace, Verify, tables, telegram, RestTyped
    <2> QED
      BY <2>1, <2>2
  <1>2. CASE Resolve \/ Upgrade
    <2>1. RunTyped'
      <3>1. CASE Goto("upgrade")
        BY <1>2, <3>1, GotoType DEF Resolve, Upgrade, At, Place, Calls
      <3>2. CASE Route("full") \/ Route("bare")
        <4>1. run.at \in {"resolve", "upgrade"}
          BY <1>2 DEF Resolve, Upgrade, At
        <4>2. CASE Route("full")
          BY <4>1, <4>2, RouteType
        <4>3. CASE Route("bare")
          BY <4>1, <4>3, RouteType
        <4> QED
          BY <3>2, <4>2, <4>3
      <3> QED
        BY <1>2, <3>1, <3>2 DEF Resolve, Upgrade
    <2>2. RestTyped'
      BY <1>2, Faulty DEF Resolve, Upgrade, tables, telegram, RestTyped
    <2> QED
      BY <2>1, <2>2
  <1>3. CASE LatestPost \/ Thread
    <2>1. RunTyped'
      <3>1. CASE Raise("no discussion")
        BY <1>3, <3>1, RaiseType DEF LatestPost, Thread, At, Error
      <3>2. CASE \E post \in Post : run' = [run EXCEPT !.at = "thread", !.post = post]
        BY <1>3, <3>2 DEF LatestPost, Thread, At, RunTyped, Run, Place, Calls
      <3>3. CASE \/ run' = [run EXCEPT !.at = "catch", !.error = "no discussion", !.post = "service"]
                 \/ run' = [run EXCEPT !.at = "catch", !.error = "no discussion", !.chat = "unmatched"]
        BY <1>3, <3>3 DEF LatestPost, Thread, At, RunTyped, Run, Place, Post, Chat, Error
      <3>4. CASE run' = [run EXCEPT !.at = "join", !.origin = 1, !.chat = "group"]
        <4>1. run.at \in {"post", "thread"}
          BY <1>3 DEF LatestPost, Thread, At
        <4>2. 1 \in 0 .. 2 /\ "group" \in Chat /\ "join" \in Place
          BY DEF Chat, Place, Calls
        <4> QED
          BY <3>4, <4>1, <4>2 DEF RunTyped, Run
      <3> QED
        BY <1>3, <3>1, <3>2, <3>3, <3>4, OriginIsFirst, DiscussionIsGroup DEF LatestPost, Thread, Post
    <2>2. RestTyped'
      BY <1>3, Faulty DEF LatestPost, Thread, tables, telegram, RestTyped
    <2> QED
      BY <2>1, <2>2
  <1>4. CASE Join
    <2>1. RunTyped'
      BY <1>4, GotoType, RaiseType DEF Join, At, Place, Calls, Error
    <2>2. member' \in [Targets -> {"out", "asked", "in"}]
      BY <1>4 DEF Join, RestTyped
    <2>3. RestTyped'
      BY <1>4, <2>2 DEF Join, tables, RestTyped
    <2> QED
      BY <2>1, <2>3
  <1>5. CASE Send \/ SendLost
    <2>1. RunTyped'
      <3>1. CASE Sent("verify", "none")
        BY <1>5, <3>1 DEF Send, SendLost, Sent, At, RunTyped, Run, Place
      <3>2. CASE Sent("catch", "connection")
        BY <1>5, <3>2 DEF Send, SendLost, Sent, At, RunTyped, Run, Place, Error
      <3>3. CASE Raise("no discussion") \/ Raise("permission")
        BY <1>5, <3>3, RaiseType DEF Send, SendLost, At, Error
      <3> QED
        BY <1>5, <3>1, <3>2, <3>3 DEF Send, SendLost
    <2>2. RestTyped'
      BY <1>5, Faulty DEF Send, SendLost, tables, telegram, RestTyped
    <2> QED
      BY <2>1, <2>2
  <1>6. CASE CallRaises \/ LoggedOut
    <2>1. RunTyped'
      BY <1>6, RaiseType DEF CallRaises, LoggedOut, Calls, Error
    <2>2. RestTyped'
      BY <1>6, Faulty DEF CallRaises, LoggedOut, tables, telegram, RestTyped
    <2> QED
      BY <2>1, <2>2
  <1>7. CASE Complete
    <2>1. RunTyped'
      BY <1>7, GotoType DEF Complete, At, Place
    <2>2. RestTyped'
      BY <1>7, ReportType DEF Complete, At, Status, telegram, RestTyped
    <2> QED
      BY <2>1, <2>2
  <1>8. CASE Leave
    <2>1. RunTyped'
      BY <1>8, EndType, RaiseType DEF Leave, At, Error
    <2>2. RestTyped'
      BY <1>8, Faulty DEF Leave, tables, telegram, RestTyped
    <2> QED
      BY <2>1, <2>2
  <1> QED
    BY <1>1, <1>2, <1>3, <1>4, <1>5, <1>6, <1>7, <1>8

\* The handlers.
LEMMA HandlersType ==
  ASSUME TypeOK, HandBack \/ Skip \/ FailTask \/ Blame \/ Close
  PROVE  TypeOK'
  <1> USE Typed, TypedNext
  <1>1. CASE HandBack \/ FailTask
    <2>1. RunTyped'
      BY <1>1, HandlerType DEF HandBack, FailTask, At
    <2>2. RestTyped'
      BY <1>1, ReportType DEF HandBack, FailTask, At, Status, telegram, RestTyped
    <2> QED
      BY <2>1, <2>2
  <1>2. CASE Skip
    <2>1. RunTyped'
      BY <1>2, HandlerType DEF Skip, At
    <2>2. RestTyped'
      BY <1>2, Faulty DEF Skip, Status, telegram, RestTyped
    <2> QED
      BY <2>1, <2>2
  <1>3. CASE Blame
    <2>1. RunTyped'
      BY <1>3, HandlerType, EndType DEF Blame, Return, At
    <2>2. RestTyped'
      BY <1>3, Faulty DEF Blame, Return, telegram, RestTyped, RunTyped, Run
    <2> QED
      BY <2>1, <2>2
  <1>4. CASE Close
    <2>1. RunTyped'
      BY <1>4, EndType DEF Close, Return
    <2>2. RestTyped'
      BY <1>4, Faulty DEF Close, Return, tables, telegram, RestTyped, RunTyped, Run
    <2> QED
      BY <2>1, <2>2
  <1> QED
    BY <1>1, <1>2, <1>3, <1>4

\* What happens beside the run.
LEMMA BesideType ==
  ASSUME TypeOK,
         (\E t \in Targets : Claim(t) \/ Requeue(t) \/ Seed(t) \/ ChangeMood(t) \/ Admit(t))
         \/ Forward \/ Vanish \/ Login \/ ChangeAccount \/ Clock
  PROVE  TypeOK'
  <1> USE Typed, TypedNext
  <1>1. ASSUME NEW t \in Targets, Claim(t)
        PROVE  TypeOK'
    <2>1. RunTyped'
      <3> DEFINE after == [NoRun EXCEPT !.at = "claimed", !.target = t, !.shut = ~CanComment(t)]
      <3>1. after \in Run /\ after.at = "claimed" /\ after.target = t /\ after.error = "none"
        <4>1. CanComment(t) \in BOOLEAN /\ "claimed" \in Place
          BY DEF CanComment, Writable, Place
        <4> QED
          BY <4>1, Resting DEF Run
      <3>2. run' = after
        BY <1>1 DEF Claim
      <3> HIDE DEF after
      <3> QED
        BY <3>1, <3>2, NoTarget DEF RunTyped
    <2>2. RestTyped'
      BY <1>1 DEF Claim, Status, telegram, RestTyped
    <2> QED
      BY <2>1, <2>2
  <1>2. ASSUME NEW t \in Targets, Requeue(t) \/ Seed(t)
        PROVE  TypeOK'
    <2>1. RunTyped'
      BY <1>2 DEF Requeue, Seed, RunTyped
    <2>2. RestTyped'
      BY <1>2 DEF Requeue, Seed, Status, telegram, RestTyped
    <2> QED
      BY <2>1, <2>2
  <1>3. ASSUME (\E t \in Targets : ChangeMood(t)) \/ ChangeAccount
        PROVE  TypeOK'
    <2>1. \E moods, members, worth : Seen(moods, members, worth)
      BY <1>3 DEF ChangeMood, ChangeAccount
    <2>2. RunTyped'
      BY <2>1 DEF Seen, Writable, RunTyped, Run
    <2>3. RestTyped'
      BY <1>3, ExecutionAssumption DEF ChangeMood, ChangeAccount, tables, RestTyped
    <2> QED
      BY <2>2, <2>3
  <1>4. ASSUME NEW t \in Targets, Admit(t)
        PROVE  TypeOK'
    <2>1. RunTyped'
      BY <1>4 DEF Admit, RunTyped
    <2>2. RestTyped'
      BY <1>4 DEF Admit, tables, RestTyped
    <2> QED
      BY <2>1, <2>2
  <1>5. ASSUME Login \/ Clock
        PROVE  TypeOK'
    <2>1. RunTyped'
      BY <1>5 DEF Login, Clock, RunTyped
    <2>2. RestTyped'
      BY <1>5 DEF Login, Clock, tables, RestTyped
    <2> QED
      BY <2>1, <2>2
  <1>6. ASSUME Forward \/ Vanish
        PROVE  TypeOK'
    <2>1. RunTyped'
      BY <1>6 DEF Forward, Vanish, At, RunTyped, Run, Post
    <2>2. RestTyped'
      BY <1>6, Faulty DEF Forward, Vanish, tables, telegram, RestTyped
    <2> QED
      BY <2>1, <2>2
  <1> QED
    BY <1>1, <1>2, <1>3, <1>4, <1>5, <1>6

LEMMA NextType == TypeOK /\ [Next]_vars => TypeOK'
  <1> SUFFICES ASSUME TypeOK, [Next]_vars
               PROVE  TypeOK'
    OBVIOUS
  <1>1. CASE UNCHANGED vars
    BY <1>1 DEF vars, tables, telegram, TypeOK
  <1>2. CASE Proceed
    BY <1>2, ConnectType, TaskType, HandlersType DEF Proceed
  <1>3. CASE Next /\ ~Proceed
    BY <1>3, BesideType DEF Next
  <1> QED
    BY <1>1, <1>2, <1>3

\* The tables, the run and what Telegram says of the account have their types
\* for any number of channels and groups and any order of faults.
THEOREM TypeCorrect == Spec => []TypeOK
  <1>1. Init => TypeOK
    <2> SUFFICES ASSUME Init
                 PROVE  TypeOK
      OBVIOUS
    <2>1. RunTyped
      BY Resting DEF Init, RunTyped
    <2>2. RestTyped
      <3>1. mood \in [Targets -> MoodKinds]
        BY ExecutionAssumption DEF Init
      <3>2. left \in 0 .. MaxFaults
        BY ExecutionAssumption DEF Init
      <3> QED
        BY <3>1, <3>2 DEF Init, RestTyped, Status
    <2> QED
      BY <2>1, <2>2, Typed
  <1>2. TypeOK /\ [Next]_vars => TypeOK'
    BY NextType
  <1> QED
    BY <1>1, <1>2, PTL DEF Spec

-----------------------------------------------------------------------------
(* Comments *)

\* A comment is a reply to the first message of the answer, in the group.
\* Where a run that knows its channel is about to write, it has both.
Replies ==
    /\ run.chat = "group" => run.origin = 1
    /\ run.at = "join" => run.chat = "group"
    /\ run.at = "send" /\ run.target \in Broadcast /\ run.entity = "full" => run.chat = "group"
CommentInv == Replies /\ CommentsInThread

\* The steps that neither find out where to write nor write.
OtherStep ==
    \/ NoAccount \/ Prepare \/ Connect \/ TransportFails \/ Authorize \/ RestrictAccount
    \/ Release \/ Pace \/ CallRaises \/ LoggedOut \/ Verify \/ Complete
    \/ Leave \/ HandBack \/ Skip \/ FailTask \/ Blame \/ Close

\* They end the run, go on or raise what is no refusal.
LEMMA OtherSteps ==
  ASSUME TypeOK, OtherStep
  PROVE  \/ run' = NoRun
         \/ /\ run'.at \notin {"claimed", "post", "thread", "join", "send"}
            /\ run'.error \in {run.error, "connection", "flood", "error"}
            /\ run'.target = run.target /\ run'.shut = run.shut /\ run'.entity = run.entity
            /\ run'.post = run.post /\ run'.origin = run.origin /\ run'.chat = run.chat
            /\ run'.sent = run.sent
  <1>1. \/ run' = NoRun
        \/ \E place \in Place \ {"claimed", "post", "thread", "join", "send"} : Goto(place)
        \/ \E error \in {"connection", "flood", "error"} : Raise(error)
        \/ At("connect") /\ run' = [run EXCEPT !.tried = Tried]
        \/ run' = [run EXCEPT !.at = "authorize", !.client = TRUE]
    <2> USE DEF Place, Calls
    <2>1. CASE NoAccount \/ Prepare \/ Authorize \/ RestrictAccount \/ Release
      BY <2>1 DEF NoAccount, Prepare, Return, Authorize, RestrictAccount, Release
    <2>2. CASE Connect \/ TransportFails
      BY <2>2 DEF Connect, TransportFails, NextTransport
    <2>3. CASE Pace \/ CallRaises \/ LoggedOut \/ Verify \/ Complete \/ Leave
      BY <2>3 DEF Pace, CallRaises, LoggedOut, Verify, Complete, Leave
    <2>4. CASE HandBack \/ Skip \/ FailTask \/ Blame \/ Close
      BY <2>4 DEF HandBack, Skip, FailTask, Blame, Close, Return
    <2> QED
      BY <2>1, <2>2, <2>3, <2>4 DEF OtherStep
  <1>2. run \in Run
    BY Typed DEF RunTyped
  <1>3. CASE \E place \in Place \ {"claimed", "post", "thread", "join", "send"} : Goto(place)
    BY <1>2, <1>3 DEF Goto, Run
  <1>4. CASE \E error \in {"connection", "flood", "error"} : Raise(error)
    BY <1>2, <1>4 DEF Raise, Run
  <1>5. CASE \/ At("connect") /\ run' = [run EXCEPT !.tried = Tried]
             \/ run' = [run EXCEPT !.at = "authorize", !.client = TRUE]
    BY <1>2, <1>5 DEF At, Run
  <1> QED
    BY <1>1, <1>3, <1>4, <1>5

LEMMA NextComment == TypeOK /\ CommentInv /\ [Next]_vars => CommentInv'
  <1> SUFFICES ASSUME TypeOK, CommentInv, [Next]_vars
               PROVE  CommentInv'
    OBVIOUS
  <1>t. run \in Run
    BY Typed DEF RunTyped
  <1> USE DEF CommentInv, Replies, CommentsInThread
  <1>1. CASE OtherStep
    BY <1>1, OtherSteps DEF NoRun
  <1>2. CASE Resolve \/ Upgrade
    <2>1. CASE Goto("upgrade")
      BY <1>t, <2>1 DEF Goto, Run
    <2>2. CASE Route("full") \/ Route("bare")
      BY <1>t, <2>2 DEF Route, Run
    <2> QED
      BY <1>2, <2>1, <2>2 DEF Resolve, Upgrade
  <1>3. CASE LatestPost \/ Thread
    <2>1. \/ Raise("no discussion")
          \/ \E post \in Post : run' = [run EXCEPT !.at = "thread", !.post = post]
          \/ run' = [run EXCEPT !.at = "catch", !.error = "no discussion", !.post = "service"]
          \/ run' = [run EXCEPT !.at = "catch", !.error = "no discussion", !.chat = "unmatched"]
          \/ run' = [run EXCEPT !.at = "join", !.origin = 1, !.chat = "group"]
      BY <1>3, OriginIsFirst, DiscussionIsGroup DEF LatestPost, Thread, Post
    <2> QED
      BY <1>t, <2>1 DEF Raise, Run
  <1>4. CASE Join
    <2>1. CASE Goto("send")
      BY <1>t, <1>4, <2>1 DEF Join, Goto, At, Run
    <2>2. CASE Raise("no discussion")
      BY <1>t, <2>2 DEF Raise, Run
    <2> QED
      BY <1>4, <2>1, <2>2 DEF Join
  <1>5. CASE Send \/ SendLost
    <2>1. CASE Accepted /\ \E place \in {"verify", "catch"}, error \in Error : Sent(place, error)
      <3>1. PICK place \in {"verify", "catch"}, error \in Error : Sent(place, error)
        BY <2>1
      <3>2. /\ run'.at \in {"verify", "catch"} /\ run'.target = run.target
            /\ run'.origin = run.origin /\ run'.chat = run.chat
            /\ run'.sent = run.sent \cup {run.origin}
        BY <1>t, <3>1 DEF Sent, Run
      <3>3. run.target \in Broadcast => run.origin = 1
        BY <1>5, <2>1 DEF Send, SendLost, Accepted, At
      <3> QED
        BY <3>2, <3>3
    <2>2. CASE \E error \in Error : Raise(error)
      BY <1>t, <2>2 DEF Raise, Run
    <2> QED
      BY <1>5, <2>1, <2>2 DEF Send, SendLost, Error
  <1>6. CASE \E t \in Targets : Claim(t)
    BY <1>6 DEF Claim, NoRun
  <1>7. CASE (\E t \in Targets : ChangeMood(t)) \/ ChangeAccount
    <2>1. \E moods, members, worth : Seen(moods, members, worth)
      BY <1>7 DEF ChangeMood, ChangeAccount
    <2> QED
      BY <1>t, <2>1 DEF Seen, Run
  <1>8. CASE run' = run
    BY <1>8
  <1>9. (\E t \in Targets : Requeue(t) \/ Seed(t) \/ Admit(t)) \/ Login \/ Clock \/ UNCHANGED vars
        => run' = run
    BY DEF Requeue, Seed, Admit, Login, Clock, vars
  <1>10. CASE Forward \/ Vanish
    BY <1>t, <1>10 DEF Forward, Vanish, Run
  <1> QED
    BY <1>1, <1>2, <1>3, <1>4, <1>5, <1>6, <1>7, <1>8, <1>9, <1>10
       DEF Next, Proceed, OtherStep

\* Whatever album the thread begins with and whatever the run meets: what is
\* said under a broadcast channel answers the origin of the thread of its
\* latest post.
THEOREM CommentsBelong == Spec => []CommentsInThread
  <1>1. Init => CommentInv
    BY DEF Init, NoRun, CommentInv, Replies, CommentsInThread
  <1>2. TypeOK /\ CommentInv /\ [Next]_vars => CommentInv'
    BY NextComment
  <1>3. CommentInv => CommentsInThread
    BY DEF CommentInv
  <1> QED
    BY <1>1, <1>2, <1>3, TypeCorrect, PTL DEF Spec

-----------------------------------------------------------------------------
(* Pruning *)

\* A refusal is raised only where the account cannot comment at that moment,
\* where the run has not seen the channel's flags, or where it has no thread;
\* whatever shuts the account out between the claim and then is remembered.
CauseInv ==
    /\ run.target # "none" => run.shut \/ CanComment(run.target)
    /\ run.error \in {"no discussion", "permission"} => run.shut \/ Blind \/ Threadless
    /\ run.at \in {"post", "thread", "join", "send"} => run.entity # "none"
    /\ run.at = "thread" => run.post # "none"

\* A step that neither refuses nor changes what the account may do.
LEMMA KeepsCause ==
  ASSUME TypeOK, CauseInv, UNCHANGED <<mood, member, account>>,
         \/ run' = NoRun
         \/ /\ run'.target = run.target /\ run'.shut = run.shut /\ run'.entity = run.entity
            /\ run'.post = run.post /\ run'.chat = run.chat
            /\ run'.error \in {run.error, "none", "connection", "flood", "error"}
            /\ run'.at \notin {"post", "thread", "join", "send"}
  PROVE  CauseInv'
  <1>1. CASE run' = NoRun
    BY <1>1 DEF CauseInv, NoRun
  <1>2. CASE /\ run'.target = run.target /\ run'.shut = run.shut /\ run'.entity = run.entity
             /\ run'.post = run.post /\ run'.chat = run.chat
             /\ run'.error \in {run.error, "none", "connection", "flood", "error"}
             /\ run'.at \notin {"post", "thread", "join", "send"}
    <2>1. CanComment(run.target)' <=> CanComment(run.target)
      BY <1>2 DEF CanComment, Writable
    <2>2. (Blind \/ Threadless)' <=> Blind \/ Threadless
      BY <1>2 DEF Blind, Threadless
    <2> QED
      BY <1>2, <2>1, <2>2 DEF CauseInv
  <1> QED
    BY <1>1, <1>2

\* A refusal, for a reason.
LEMMA Refusal ==
  ASSUME TypeOK, CauseInv, run.target # "none", NEW error \in Error, Raise(error),
         \/ ~CanComment(run.target)
         \/ (Blind \/ Threadless) /\ UNCHANGED <<mood, member, account>>
  PROVE  CauseInv'
  <1>1. /\ run'.at = "catch" /\ run'.target = run.target
        /\ run'.shut = run.shut /\ run'.entity = run.entity
        /\ run'.post = run.post /\ run'.chat = run.chat
    BY Typed DEF RunTyped, Run, Raise
  <1>2. CASE ~CanComment(run.target)
    <2>1. run.shut
      BY <1>2 DEF CauseInv
    <2> QED
      BY <1>1, <2>1 DEF CauseInv
  <1>3. CASE (Blind \/ Threadless) /\ UNCHANGED <<mood, member, account>>
    <2>1. CanComment(run.target)' <=> CanComment(run.target)
      BY <1>1, <1>3 DEF CanComment, Writable
    <2> QED
      BY <1>1, <1>3, <2>1 DEF CauseInv, Blind, Threadless
  <1> QED
    BY <1>2, <1>3

\* The run goes on with the entity it has.
LEMMA Onward ==
  ASSUME TypeOK, CauseInv, run.entity # "none", run.error = "none",
         run'.target = run.target, run'.shut = run.shut, run'.entity = run.entity,
         run'.error \in {"none", "connection"}, run'.at = "thread" => run'.post # "none",
         CanComment(run.target) => CanComment(run.target)'
  PROVE  CauseInv'
  BY DEF CauseInv

LEMMA NextCause == TypeOK /\ CommentInv /\ CauseInv /\ [Next]_vars => CauseInv'
  <1> SUFFICES ASSUME TypeOK, CommentInv, CauseInv, [Next]_vars
               PROVE  CauseInv'
    OBVIOUS
  <1>t. run \in Run /\ RunTyped
    BY Typed DEF RunTyped
  <1>1. CASE OtherStep
    <2>1. UNCHANGED <<mood, member, account>>
      <3>1. UNCHANGED telegram
        BY <1>1 DEF OtherStep, NoAccount, Prepare, Connect, TransportFails, Authorize, RestrictAccount,
                    Release, Pace, CallRaises, LoggedOut, Verify, Complete, Leave, HandBack, Skip,
                    FailTask, Blame, Close
      <3> QED
        BY <3>1 DEF telegram
    <2> QED
      BY <1>1, <2>1, OtherSteps, KeepsCause
  <1>2. CASE Resolve \/ Upgrade
    <2>0. UNCHANGED <<mood, member, account>>
      BY <1>2 DEF Resolve, Upgrade, telegram
    <2>1. CASE Goto("upgrade")
      <3>1. /\ run'.target = run.target /\ run'.shut = run.shut /\ run'.entity = run.entity
            /\ run'.post = run.post /\ run'.chat = run.chat
            /\ run'.error = run.error /\ run'.at = "upgrade"
        BY <1>t, <2>1 DEF Goto, Run
      <3> QED
        BY <2>0, <3>1, KeepsCause
    <2>2. CASE Route("full") \/ Route("bare")
      <3>1. /\ run'.target = run.target /\ run'.shut = run.shut /\ run'.error = run.error
            /\ run'.entity # "none" /\ run'.at \in {"post", "send"}
        BY <1>t, <2>2 DEF Route, Run
      <3>2. run.error = "none"
        BY <1>t, <1>2 DEF Resolve, Upgrade, At, RunTyped
      <3>3. CanComment(run.target)' <=> CanComment(run.target)
        BY <2>0, <3>1 DEF CanComment, Writable
      <3> QED
        BY <3>1, <3>2, <3>3 DEF CauseInv
    <2> QED
      BY <1>2, <2>1, <2>2 DEF Resolve, Upgrade
  <1>3. ASSUME run.at \in {"post", "thread", "join", "send"}
        PROVE  run.target # "none" /\ run.entity # "none" /\ run.error = "none"
    BY <1>t, <1>3 DEF CauseInv, RunTyped
  <1>4. CASE LatestPost \/ Thread
    <2>1. run.at \in {"post", "thread"} /\ UNCHANGED <<mood, member, account>>
      BY <1>4 DEF LatestPost, Thread, At, telegram
    <2>2. CASE mood[run.target] \in {"private", "closed"} /\ Raise("no discussion")
      <3>1. ~CanComment(run.target)
        BY <2>2 DEF CanComment, Writable
      <3> QED
        BY <1>3, <2>1, <2>2, <3>1, Refusal DEF Error
    <2>3. CASE run.at = "thread" /\ run.post # "ready" /\ Raise("no discussion")
      <3>1. Threadless
        BY <1>t, <2>3 DEF Threadless, CauseInv, Run, Post
      <3> QED
        BY <1>3, <2>1, <2>3, <3>1, Refusal DEF Error
    <2>4. CASE \/ \E post \in Post \ {"none"} : run' = [run EXCEPT !.at = "thread", !.post = post]
               \/ run' = [run EXCEPT !.at = "join", !.origin = 1, !.chat = "group"]
      <3>1. /\ run'.target = run.target /\ run'.shut = run.shut /\ run'.entity = run.entity
            /\ run'.error = run.error /\ (run'.at = "thread" => run'.post # "none")
        BY <1>t, <2>4 DEF Run
      <3>2. CanComment(run.target)' <=> CanComment(run.target)
        BY <2>1, <3>1 DEF CanComment, Writable
      <3> QED
        BY <1>3, <2>1, <3>1, <3>2, Onward
    <2>5. CASE \/ run' = [run EXCEPT !.at = "catch", !.error = "no discussion", !.post = "service"]
               \/ run' = [run EXCEPT !.at = "catch", !.error = "no discussion", !.chat = "unmatched"]
      <3>1. /\ run'.target = run.target /\ run'.shut = run.shut /\ run'.entity = run.entity
            /\ run'.at = "catch" /\ Threadless'
        BY <1>t, <2>5 DEF Run, Threadless
      <3>2. CanComment(run.target)' <=> CanComment(run.target)
        BY <2>1, <3>1 DEF CanComment, Writable
      <3> QED
        BY <3>1, <3>2 DEF CauseInv
    <2> QED
      BY <1>4, <2>1, <2>2, <2>3, <2>4, <2>5, OriginIsFirst, DiscussionIsGroup
         DEF LatestPost, Thread, At, Post
  <1>5. CASE Join
    <2>1. run.at = "join" /\ run.target \in Targets /\ UNCHANGED <<mood, account>>
      BY <1>t, <1>5 DEF Join, At, RunTyped, Run
    <2>2. CASE Goto("send")
      <3>1. /\ run'.target = run.target /\ run'.shut = run.shut /\ run'.entity = run.entity
            /\ run'.error = run.error /\ run'.at = "send"
        BY <1>t, <2>2 DEF Goto, Run
      <3>2. member'[run.target] = "in" \/ member'[run.target] = member[run.target]
            \/ (mood[run.target] = "gated" /\ member[run.target] # "in")
        BY <1>5, <2>1, Typed DEF Join, RestTyped
      <3>3. CanComment(run.target) => CanComment(run.target)'
        BY <2>1, <3>1, <3>2 DEF CanComment, Writable
      <3> QED
        BY <1>3, <2>1, <3>1, <3>3, Onward
    <2>3. CASE Raise("no discussion") /\ member'[run.target] # "in"
      <3>1. mood[run.target] = "private" \/ (mood[run.target] = "gated" /\ member[run.target] # "in")
        BY <1>5, <2>1, <2>3, Typed DEF Join, RestTyped
      <3>2. ~CanComment(run.target)
        BY <3>1 DEF CanComment, Writable
      <3> QED
        BY <1>3, <2>1, <2>3, <3>2, Refusal DEF Error
    <2> QED
      BY <1>5, <2>2, <2>3 DEF Join
  <1>6. CASE Send \/ SendLost
    <2>1. run.at = "send" /\ UNCHANGED <<mood, member, account>>
      BY <1>6 DEF Send, SendLost, At, telegram
    <2>2. CASE Sent("verify", "none") \/ Sent("catch", "connection")
      <3>1. /\ run'.target = run.target /\ run'.shut = run.shut /\ run'.entity = run.entity
            /\ run'.error \in {"none", "connection"} /\ run'.at \in {"verify", "catch"}
        BY <1>t, <2>2 DEF Sent, Run
      <3>2. CanComment(run.target)' <=> CanComment(run.target)
        BY <2>1, <3>1 DEF CanComment, Writable
      <3> QED
        BY <1>3, <2>1, <3>1, <3>2, Onward
    <2>3. CASE ~Accepted /\ \E error \in {"no discussion", "permission"} : Raise(error)
      <3>1. ~CanComment(run.target) \/ Blind
        BY <1>t, <1>3, <2>1, <2>3 DEF Accepted, Blind, Run, CommentInv, Replies
      <3> QED
        BY <1>3, <2>1, <2>3, <3>1, Refusal DEF Error
    <2> QED
      BY <1>6, <2>2, <2>3 DEF Send, SendLost
  <1>7. CASE \E t \in Targets : Claim(t)
    BY <1>7 DEF Claim, NoRun, telegram, CauseInv, CanComment, Writable
  <1>8. CASE (\E t \in Targets : ChangeMood(t)) \/ ChangeAccount
    <2>1. Seen(mood', member', account')
      BY <1>8 DEF ChangeMood, ChangeAccount
    <2>2. /\ run'.target = run.target /\ run'.entity = run.entity
          /\ run'.error = run.error /\ run'.at = run.at
          /\ run'.post = run.post /\ run'.chat = run.chat
          /\ run'.shut = (run.shut \/ (run.target \in Targets /\ ~Writable(run.target, mood', member', account')))
      BY <1>t, <2>1 DEF Seen, Run
    <2>3. run.target # "none" => run.target \in Targets
      BY <1>t DEF Run
    <2>4. CanComment(run.target)' = Writable(run.target, mood', member', account')
      BY <2>2 DEF CanComment
    <2> QED
      BY <2>2, <2>3, <2>4 DEF CauseInv, Blind, Threadless
  <1>9. CASE (\E t \in Targets : Requeue(t) \/ Seed(t) \/ Admit(t)) \/ Login \/ Clock \/ UNCHANGED vars
    <2>1. run' = run
      BY <1>9 DEF Requeue, Seed, Admit, Login, Clock, vars
    <2>2. /\ mood' = mood /\ account' \in {account, "good"}
          /\ \A t \in Targets : member[t] = "in" => member'[t] = "in"
      BY <1>9, Typed DEF Requeue, Seed, Admit, Login, Clock, vars, telegram, RestTyped
    <2>3. run.target # "none" => run.target \in Targets
      BY <1>t DEF Run
    <2>4. run.target # "none" /\ CanComment(run.target) => CanComment(run.target)'
      BY <2>1, <2>2, <2>3 DEF CanComment, Writable
    <2> QED
      BY <2>1, <2>4 DEF CauseInv, Blind, Threadless
  <1>10. CASE Forward \/ Vanish
    <2>1. run.at = "thread" /\ UNCHANGED <<mood, member, account>>
      BY <1>10 DEF Forward, Vanish, At, telegram
    <2>2. /\ run'.target = run.target /\ run'.shut = run.shut /\ run'.entity = run.entity
          /\ run'.error = run.error /\ run'.post # "none"
      BY <1>t, <1>10 DEF Forward, Vanish, Run
    <2>3. CanComment(run.target)' <=> CanComment(run.target)
      BY <2>1, <2>2 DEF CanComment, Writable
    <2> QED
      BY <1>3, <2>1, <2>2, <2>3, Onward
  <1> QED
    BY <1>1, <1>2, <1>4, <1>5, <1>6, <1>7, <1>8, <1>9, <1>10 DEF Next, Proceed, OtherStep

\* For any number of channels, whatever Telegram refuses when and whatever
\* fails: a channel leaves the configuration only in a run that could not have
\* commented there, that never saw the channel's flags, or whose one post or
\* answer had no thread.
THEOREM PrunesForCause == Spec => PruneHasCause
  <1>1. Init => CauseInv
    BY DEF Init, NoRun, CauseInv
  <1>c. Init => CommentInv
    BY DEF Init, NoRun, CommentInv, Replies, CommentsInThread
  <1>d. TypeOK /\ CommentInv /\ [Next]_vars => CommentInv'
    BY NextComment
  <1>2. TypeOK /\ CommentInv /\ CauseInv /\ [Next]_vars => CauseInv'
    BY NextCause
  <1>3. CauseInv /\ [Next]_vars => [\A t \in Targets : Pruned(t) => run.shut \/ Blind \/ Threadless]_vars
    <2> SUFFICES ASSUME CauseInv, Next, NEW t \in Targets, Pruned(t)
                 PROVE  run.shut \/ Blind \/ Threadless
      BY DEF vars
    <2>1. Skip
      BY DEF Pruned, Next, Proceed, tables, NoAccount, Prepare, Connect, TransportFails, Authorize,
             RestrictAccount, Release, Pace, Resolve, Upgrade, LatestPost, Thread, Join, Send,
             SendLost, CallRaises, LoggedOut, Verify, Complete, Leave, HandBack, FailTask, Blame,
             Close, Claim, Requeue, Seed, ChangeMood, Admit, Forward, Vanish, Login, ChangeAccount,
             Clock
    <2> QED
      BY <2>1 DEF Skip, CauseInv
  <1> QED
    BY <1>1, <1>c, <1>d, <1>2, <1>3, TypeCorrect, PTL DEF Spec, PruneHasCause

-----------------------------------------------------------------------------
(* Clients *)

\* A task is claimed without a client.
ClientInv == At("claimed") => ~run.client

\* The only ways out that leave a client behind are a database error or an
\* error of disconnect() in the last step of process_next_task.
THEOREM LeaksAreFaults == Spec => LeakIsFault
  <1>1. Init => ClientInv
    BY DEF Init, NoRun, ClientInv, At
  <1>2. TypeOK /\ ClientInv /\ [Next]_vars => ClientInv'
    <2> SUFFICES ASSUME TypeOK, ClientInv, [Next]_vars, run'.at = "claimed"
                 PROVE  ~run'.client
      BY DEF ClientInv, At
    <2>1. CASE \E t \in Targets : Claim(t)
      BY <2>1 DEF Claim, NoRun
    <2>2. CASE ~\E t \in Targets : Claim(t)
      <3>1. run \in Run
        BY Typed DEF RunTyped
      <3>2. ~OtherStep
        BY OtherSteps DEF NoRun
      <3>3. ~(Resolve \/ Upgrade \/ LatestPost \/ Thread \/ Join \/ Send \/ SendLost)
        BY <3>1 DEF Resolve, Upgrade, LatestPost, Thread, Join, Send, SendLost, Goto, Route, Raise,
                    Sent, Run
      <3>6. ~(Forward \/ Vanish)
        BY <3>1 DEF Forward, Vanish, At, Run
      <3>4. run' = run \/ \E moods, members, worth : Seen(moods, members, worth)
        BY <2>2, <3>2, <3>3, <3>6 DEF Next, Proceed, OtherStep, Requeue, Seed, ChangeMood, Admit, Login,
                                ChangeAccount, Clock, vars
      <3>5. run'.at = run.at /\ run'.client = run.client
        BY <3>1, <3>4 DEF Seen, Run
      <3> QED
        BY <3>5 DEF ClientInv, At
    <2> QED
      BY <2>1, <2>2
  <1>3. TypeOK /\ ClientInv /\ [Next]_vars => [leaked' /\ ~leaked => left' < left]_vars
    <2> SUFFICES ASSUME TypeOK, ClientInv, Next, leaked', ~leaked
                 PROVE  left' < left
      BY DEF vars
    <2>1. leaked' # leaked
      OBVIOUS
    <2>2. ~\E t \in Targets : Claim(t)
      BY DEF Claim
    <2>3. NoAccount \/ Prepare \/ Blame \/ Close
      BY <2>1, <2>2
      DEF Next, Proceed, Connect, TransportFails, Authorize,
             RestrictAccount, Release, Pace, Resolve, Upgrade, LatestPost, Thread, Join, Send,
             SendLost, CallRaises, LoggedOut, Verify, Complete, Leave, HandBack, Skip, FailTask,
             Requeue, Seed, ChangeMood, Admit, Forward, Vanish, Login, ChangeAccount, Clock
    <2>4. ~NoAccount
      BY DEF NoAccount, Return, ClientInv
    <2>5. Hit("db") \/ Hit("disconnect")
      BY <2>1, <2>3, <2>4 DEF Prepare, Blame, Close
    <2> QED
      BY <2>5, Faulty, Typed DEF RestTyped
  <1> QED
    BY <1>1, <1>2, <1>3, TypeCorrect, PTL DEF Spec, LeakIsFault

=============================================================================
