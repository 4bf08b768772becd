------------------------------ MODULE Accounts ------------------------------
(***************************************************************************)
(* The `accounts` table: the status and failure_count that AccountManager  *)
(* keeps (src/accounts/manager.py), written by the workers                 *)
(* (process_next_task), by scripts/healthcheck_accounts.py and by          *)
(* scripts/import_account.py.  Each picks its accounts in one transaction  *)
(* and writes what it found out in a later one, by id alone.               *)
(***************************************************************************)
EXTENDS Integers, TLAPS

CONSTANTS
    N,           \* accounts have the ids 1 .. N
    Broken,      \* those whose session string create_client rejects
    Workers,     \* worker processes
    Scripts,     \* runs of the health check that may overlap
    MaxFailures, \* bound: failure_count saturates here
    Faults       \* the faults the environment may inject

FaultKinds == {"error",       \* an exception in execute_task
               "disconnect",  \* client.disconnect() raises
               "network"}     \* Telegram cannot be reached

ASSUME AccountsAssumption ==
    /\ N \in Nat \ {0}
    /\ Broken \subseteq 1 .. N
    /\ MaxFailures \in Nat \ {0}
    /\ Workers \cap Scripts = {}
    /\ Faults \subseteq FaultKinds

VARIABLES
    account,  \* the rows
    health,   \* what Telegram would say of the session
    using,    \* the account each worker works with
    script,   \* each health check
    seen,     \* history: failures reported since the account was imported
    overtaken \* history: accounts taken out of service since a process picked them

vars == <<account, health, using, script, seen>>
allVars == <<vars, overtaken>>

Processes == Workers \cup Scripts

Id == 1 .. N
Count == 0 .. MaxFailures
Account == [status: {"ACTIVE", "RESTRICTED"}, failures: Count]
Use == [at: {"idle", "working", "closing"}, id: Id \cup {0}, read: Count]
NoUse == [at |-> "idle", id |-> 0, read |-> 0]
Check == [at: {"idle", "probe", "write", "close"}, id: Id \cup {0}, todo: SUBSET Id,
          verdict: {"none", "clean", "unfit", "error"}]
NoCheck == [at |-> "idle", id |-> 0, todo |-> {}, verdict |-> "none"]

\* A health check has an account exactly while it runs, and older ones only
\* are behind it.
TypeOK ==
    /\ account \in [Id -> Account]
    /\ health \in [Id -> {"good", "limited", "dead"}]
    /\ using \in [Workers -> Use]
    /\ \A w \in Workers : using[w].at = "idle" <=> using[w].id = 0
    /\ script \in [Scripts -> Check]
    /\ \A s \in Scripts : /\ script[s].at = "idle" <=> script[s].id = 0
                          /\ script[s].at = "idle" => script[s].todo = {}
                          /\ \A other \in script[s].todo : script[s].id < other
    /\ seen \in [Id -> Count]
    /\ overtaken \in [Processes -> SUBSET Id]

\* Freshly imported, or restricted by an earlier health check.
Init ==
    /\ account \in [Id -> {[status |-> "ACTIVE", failures |-> 0],
                            [status |-> "RESTRICTED", failures |-> 1]}]
    /\ health \in [Id -> {"good", "limited"}]
    /\ using = [w \in Workers |-> NoUse]
    /\ script = [s \in Scripts |-> NoCheck]
    /\ seen = [id \in Id |-> account[id].failures]
    /\ overtaken = [p \in Processes |-> {}]

Bump(n) == IF n < MaxFailures THEN n + 1 ELSE n

\* Mutant: get_active_accounts without its WHERE.
Everyone == Id

Active == {id \in Id : account[id].status = "ACTIVE"}

\* Mutant: ORDER BY id DESC.
Newest(ids) == {id \in ids : \A other \in ids : id >= other}

\* get_active_accounts: ORDER BY id. The one element of a set that is first.
Oldest(ids) == {id \in ids : \A other \in ids : id <= other}

\* update_account_status: an UPDATE by id alone; the increment is the server's.
Update(id, status, failed) ==
    /\ account' = [account EXCEPT ![id] =
          [status |-> status, failures |-> IF failed THEN Bump(@.failures) ELSE @.failures]]
    /\ seen' = IF failed THEN [seen EXCEPT ![id] = Bump(@)] ELSE seen

-----------------------------------------------------------------------------
(* A worker: process_next_task *)

\* get_active_accounts()[0].
Take(w) ==
    /\ using[w].at = "idle"
    /\ \E id \in Oldest(Active) :
          using' = [using EXCEPT ![w] =
              [at |-> "working", id |-> id, read |-> account[id].failures]]
    /\ UNCHANGED <<account, health, script, seen>>

\* The task was sent, skipped or handed back, or create_client raised: nothing is reported of the
\* account (record_success has no caller).
WorkEnds(w) ==
    /\ using[w].at = "working"
    /\ using' = [using EXCEPT ![w] = NoUse]
    /\ UNCHANGED <<account, health, script, seen>>

\* Mutant: failure_count is computed from the row the worker read.
WorkFailsFromRead(w) ==
    /\ "error" \in Faults
    /\ using[w].at = "working"
    /\ account' = [account EXCEPT ![using[w].id] =
                      [status |-> "ACTIVE", failures |-> Bump(using[w].read)]]
    /\ seen' = [seen EXCEPT ![using[w].id] = Bump(@)]
    /\ using' = [using EXCEPT ![w] = NoUse]
    /\ UNCHANGED <<health, script>>

\* The last handler: a failure more, and ACTIVE whatever the row says now.
WorkFails(w) ==
    /\ "error" \in Faults
    /\ using[w].at = "working"
    /\ using[w].id \notin Broken
    /\ Update(using[w].id, "ACTIVE", TRUE)
    /\ using' = [using EXCEPT ![w] = NoUse]
    /\ UNCHANGED <<health, script>>

\* is_user_authorized() says no.
Unauthorized(w) ==
    /\ using[w].at = "working"
    /\ using[w].id \notin Broken
    /\ health[using[w].id] = "dead"
    /\ Update(using[w].id, "RESTRICTED", TRUE)
    /\ using' = [using EXCEPT ![w].at = "closing"]
    /\ UNCHANGED <<health, script>>

Close(w) ==
    /\ using[w].at = "closing"
    /\ using' = [using EXCEPT ![w] = NoUse]
    /\ UNCHANGED <<account, health, script, seen>>

\* disconnect() raises inside the try: the last handler again.
CloseFails(w) ==
    /\ "disconnect" \in Faults
    /\ using[w].at = "closing"
    /\ Update(using[w].id, "ACTIVE", TRUE)
    /\ using' = [using EXCEPT ![w] = NoUse]
    /\ UNCHANGED <<health, script>>

-----------------------------------------------------------------------------
(* run_healthchecks *)

\* Mutant: the account checked stays in the list.
CheckAndKeep(s, ids) ==
    \E id \in Oldest(ids) :
        script' = [script EXCEPT ![s] =
            [at |-> "probe", id |-> id, todo |-> ids, verdict |-> "none"]]

\* The loop goes on with the first of ids, if there is one.
CheckFirst(s, ids) ==
    \E id \in Oldest(ids) :
        script' = [script EXCEPT ![s] =
            [at |-> "probe", id |-> id, todo |-> ids \ {id}, verdict |-> "none"]]

\* The accounts that are ACTIVE when the script starts.
StartCheck(s) ==
    /\ script[s].at = "idle"
    /\ CheckFirst(s, Active)
    /\ UNCHANGED <<account, health, using, seen>>

\* create_client is outside the try: the script ends there.
CheckDies(s) ==
    /\ script[s].at = "probe"
    /\ script[s].id \in Broken
    /\ script' = [script EXCEPT ![s] = NoCheck]
    /\ UNCHANGED <<account, health, using, seen>>

\* Authorization, restriction flag, SpamBot. A SpamBot that does not answer
\* means clean.
Probe(s) ==
    /\ script[s].at = "probe"
    /\ script[s].id \notin Broken
    /\ \E verdict \in {"clean", "unfit", "error"} :
          /\ verdict = "clean" => \/ health[script[s].id] = "good"
                                  \/ health[script[s].id] = "limited" /\ "network" \in Faults
          /\ verdict = "unfit" => health[script[s].id] # "good"
          /\ verdict = "error" => "network" \in Faults
          /\ script' = [script EXCEPT ![s].at = "write", ![s].verdict = verdict]
    /\ UNCHANGED <<account, health, using, seen>>

\* The verdict is written by id, whatever happened to the row meanwhile; any
\* exception means RESTRICTED.
Write(s) ==
    /\ script[s].at = "write"
    /\ IF script[s].verdict = "clean" THEN Update(script[s].id, "ACTIVE", FALSE)
                                      ELSE Update(script[s].id, "RESTRICTED", TRUE)
    /\ script' = [script EXCEPT ![s].at = "close"]
    /\ UNCHANGED <<health, using>>

\* The next account, if there is one.
NextCheck(s) ==
    \/ CheckFirst(s, script[s].todo)
    \/ script[s].todo = {} /\ script' = [script EXCEPT ![s] = NoCheck]

CloseCheck(s) ==
    /\ script[s].at = "close"
    /\ NextCheck(s)
    /\ UNCHANGED <<account, health, using, seen>>

\* disconnect() raises after a verdict: one more update.
CloseCheckFails(s) ==
    /\ "disconnect" \in Faults
    /\ script[s].at = "close" /\ script[s].verdict # "error"
    /\ Update(script[s].id, "RESTRICTED", TRUE)
    /\ NextCheck(s)
    /\ UNCHANGED <<health, using>>

-----------------------------------------------------------------------------
(* Operators and Telegram *)

\* import_account, after a login that worked: ACTIVE, no failures.
Import(id) ==
    /\ id \notin Broken
    /\ account' = [account EXCEPT ![id] = [status |-> "ACTIVE", failures |-> 0]]
    /\ seen' = [seen EXCEPT ![id] = 0]
    /\ \E h \in {"good", "limited"} : health' = [health EXCEPT ![id] = h]
    /\ UNCHANGED <<using, script>>

\* Telegram limits an account, logs it out, or lifts a limit.
Change(id) ==
    /\ \E h \in {"good", "limited", "dead"} :
          /\ health[id] # "dead" /\ h # health[id]
          /\ health' = [health EXCEPT ![id] = h]
    /\ UNCHANGED <<account, using, script, seen>>

-----------------------------------------------------------------------------

WorkerStep(w) ==
    Take(w) \/ WorkEnds(w) \/ WorkFails(w) \/ Unauthorized(w) \/ Close(w) \/ CloseFails(w)
ScriptStep(s) ==
    \/ StartCheck(s) \/ CheckDies(s) \/ Probe(s) \/ Write(s)
    \/ CloseCheck(s) \/ CloseCheckFails(s)

Move ==
    \/ \E w \in Workers : WorkerStep(w)
    \/ \E s \in Scripts : ScriptStep(s)
    \/ \E id \in Id : Import(id) \/ Change(id)

\* The accounts a process has picked and is to write, or may still come to.
AtHand(p) ==
    Id \cap IF p \in Workers THEN {using[p].id} ELSE {script[p].id} \cup script[p].todo

Service(id, before, after) == account[id].status = before /\ account'[id].status = after

\* The history: what a process has at hand and leaves service meanwhile.
Overtake ==
    overtaken' = [p \in Processes |->
        {id \in AtHand(p)' : \/ id \in overtaken[p]
                             \/ id \in AtHand(p) /\ Service(id, "ACTIVE", "RESTRICTED")}]

Next == Move /\ Overtake

Spec == Init /\ [][Next]_allVars

\* The health check is run again and again, as the RUNBOOK has it.
FairSpec == Spec /\ \A s \in Scripts : WF_vars(ScriptStep(s))

-----------------------------------------------------------------------------
(* Properties *)

\* No failure report is lost between workers and health checks that write
\* the same account: each adds to what the row says then.
FailuresCounted == \A id \in Id : account[id].failures = seen[id]

\* An account taken out of service comes back by an import only ("retire the
\* account - do not force-reactivate", RUNBOOK). It does not: two processes that
\* have the same account at hand write what each found out.
RestrictedStays ==
    [][\A id \in Id : Service(id, "RESTRICTED", "ACTIVE") => account'[id].failures = 0]_allVars

\* p writes what it found out.
Reports(p) == IF p \in Workers THEN using'[p] # using[p] ELSE script'[p] # script[p]

\* How far the promise goes, with any number of workers and health checks: but
\* for an import, an account comes back into service only by the report of a
\* process that had picked it, or had it on its list, when it was taken out.
\* One that nobody had at hand by then stays out.
ReturnHasCause ==
    [][\A id \in Id : Service(id, "RESTRICTED", "ACTIVE") =>
          \/ account'[id].failures = 0
          \/ \E p \in Processes : id \in overtaken[p] /\ Reports(p)]_allVars

\* With health checks run again and again a session that stays dead does not
\* stay in service, however tasks fail on it in between; but a session string
\* that cannot be used shields every account after its own.
DeadLeaves ==
    \A id \in Id : (\A b \in Broken : id < b) =>
        (health[id] = "dead" ~> account[id].status = "RESTRICTED" \/ health[id] # "dead")

\* "Account marked RESTRICTED: run the healthcheck" (RUNBOOK): an account
\* whose limits Telegram has lifted for good returns to service.
CleanReturns ==
    \A id \in Id : <>[](health[id] = "good") => []<>(account[id].status = "ACTIVE")

-----------------------------------------------------------------------------
(* Proofs *)

\* What update_account_status leaves in the row and adds to the count.
LEMMA UpdateRows ==
  ASSUME TypeOK, NEW id \in Id, NEW status \in {"ACTIVE", "RESTRICTED"}, NEW failed \in BOOLEAN,
         Update(id, status, failed)
  PROVE  /\ account' \in [Id -> Account] /\ seen' \in [Id -> Count]
         /\ FailuresCounted => FailuresCounted'
  <1>1. \A n \in Count : Bump(n) \in Count
    BY AccountsAssumption DEF Bump, Count
  <1> DEFINE row == [status |-> status,
                     failures |-> IF failed THEN Bump(account[id].failures) ELSE account[id].failures]
  <1>2. /\ row \in Account
        /\ row.failures = IF failed THEN Bump(account[id].failures) ELSE account[id].failures
    BY <1>1 DEF TypeOK, Account
  <1>3. /\ account' = [account EXCEPT ![id] = row]
        /\ seen' = [seen EXCEPT ![id] = IF failed THEN Bump(@) ELSE @]
    BY DEF Update, TypeOK
  <1>4. (IF failed THEN Bump(seen[id]) ELSE seen[id]) \in Count
    BY <1>1 DEF TypeOK
  <1> HIDE DEF row
  <1> QED
    BY <1>2, <1>3, <1>4 DEF TypeOK, FailuresCounted

\* A health check that goes on, or ends.
LEMMA CheckMoves ==
  ASSUME TypeOK, NEW s \in Scripts,
         \/ \E ids \in SUBSET Id : CheckFirst(s, ids)
         \/ script' = [script EXCEPT ![s] = NoCheck]
  PROVE  /\ script' \in [Scripts -> Check]
         /\ \A r \in Scripts : /\ script'[r].at = "idle" <=> script'[r].id = 0
                               /\ script'[r].at = "idle" => script'[r].todo = {}
                               /\ \A other \in script'[r].todo : script'[r].id < other
  <1>1. PICK check \in Check :
           /\ script' = [script EXCEPT ![s] = check]
           /\ check.at = "idle" <=> check.id = 0
           /\ check.at = "idle" => check.todo = {}
           /\ \A other \in check.todo : check.id < other
    <2>1. CASE \E ids \in SUBSET Id : CheckFirst(s, ids)
      <3>1. PICK ids \in SUBSET Id : CheckFirst(s, ids)
        BY <2>1
      <3>2. PICK id \in Oldest(ids) :
               script' = [script EXCEPT ![s] =
                   [at |-> "probe", id |-> id, todo |-> ids \ {id}, verdict |-> "none"]]
        BY <3>1 DEF CheckFirst
      <3>3. id \in Id /\ id \in Int /\ id # 0
        BY <3>1, AccountsAssumption DEF Oldest, Id
      <3>4. \A other \in ids \ {id} : id < other
        <4>1. \A other \in ids : other \in Int /\ id <= other
          BY AccountsAssumption DEF Oldest, Id
        <4> QED
          BY <3>3, <4>1
      <3> DEFINE check == [at |-> "probe", id |-> id, todo |-> ids \ {id}, verdict |-> "none"]
      <3>5. check \in Check
        BY <3>1, <3>3 DEF Check
      <3>6. check.at = "probe" /\ check.id = id /\ check.todo = ids \ {id}
        OBVIOUS
      <3> HIDE DEF check
      <3> QED
        BY <3>2, <3>3, <3>4, <3>5, <3>6 DEF check
    <2>2. CASE script' = [script EXCEPT ![s] = NoCheck]
      <3>1. NoCheck \in Check /\ NoCheck.at = "idle" /\ NoCheck.id = 0 /\ NoCheck.todo = {}
        BY DEF NoCheck, Check
      <3> QED
        BY <2>2, <3>1
    <2> QED
      BY <2>1, <2>2
  <1> QED
    BY <1>1 DEF TypeOK

\* The part of TypeOK that the history has no say in.
Shape ==
    /\ account \in [Id -> Account]
    /\ health \in [Id -> {"good", "limited", "dead"}]
    /\ using \in [Workers -> Use]
    /\ \A w \in Workers : using[w].at = "idle" <=> using[w].id = 0
    /\ script \in [Scripts -> Check]
    /\ \A s \in Scripts : /\ script[s].at = "idle" <=> script[s].id = 0
                          /\ script[s].at = "idle" => script[s].todo = {}
                          /\ \A other \in script[s].todo : script[s].id < other
    /\ seen \in [Id -> Count]

LEMMA MoveShape == ASSUME TypeOK, Move \/ UNCHANGED vars PROVE Shape'
  <1>1. ASSUME NEW w \in Workers, WorkerStep(w) PROVE Shape'
    <2>0. NoUse \in Use /\ NoUse.at = "idle" /\ NoUse.id = 0
      BY AccountsAssumption DEF NoUse, Use, Count
    <2>1. CASE Take(w)
      <3>1. PICK id \in Id :
               using' = [using EXCEPT ![w] =
                   [at |-> "working", id |-> id, read |-> account[id].failures]]
        <4>1. Oldest(Active) \subseteq Id
          BY DEF Oldest, Active
        <4> QED
          BY <2>1, <4>1 DEF Take
      <3>2. id # 0 /\ account[id].failures \in Count
        BY AccountsAssumption DEF Id, TypeOK, Account
      <3> DEFINE use == [at |-> "working", id |-> id, read |-> account[id].failures]
      <3>3. use \in Use /\ use.at = "working" /\ use.id = id
        BY <3>2 DEF Use
      <3> HIDE DEF use
      <3>4. using' = [using EXCEPT ![w] = use]
        BY <3>1 DEF use
      <3> QED
        BY <2>1, <3>2, <3>3, <3>4 DEF Take, TypeOK, Shape
    <2>2. CASE WorkEnds(w) \/ Close(w)
      BY <2>0, <2>2 DEF WorkEnds, Close, TypeOK, Shape
    <2>3. using[w].at # "idle" => using[w].id \in Id
      BY DEF TypeOK, Use
    <2>4. CASE WorkFails(w) \/ CloseFails(w)
      <3>1. account' \in [Id -> Account] /\ seen' \in [Id -> Count]
        BY <2>3, <2>4, UpdateRows DEF WorkFails, CloseFails
      <3> QED
        BY <2>0, <2>4, <3>1 DEF WorkFails, CloseFails, TypeOK, Shape
    <2>5. CASE Unauthorized(w)
      <3>1. account' \in [Id -> Account] /\ seen' \in [Id -> Count]
        BY <2>3, <2>5, UpdateRows DEF Unauthorized
      <3> QED
        BY <2>5, <3>1 DEF Unauthorized, TypeOK, Shape, Use
    <2> QED
      BY <1>1, <2>1, <2>2, <2>4, <2>5 DEF WorkerStep
  <1>2. ASSUME NEW s \in Scripts, ScriptStep(s) PROVE Shape'
    <2>1. script[s].todo \in SUBSET Id /\ Active \in SUBSET Id
      BY DEF TypeOK, Check, Active
    <2>2. script[s].at # "idle" => script[s].id \in Id
      BY DEF TypeOK, Check
    <2>3. CASE StartCheck(s) \/ CheckDies(s) \/ CloseCheck(s)
      <3>1. \/ \E ids \in SUBSET Id : CheckFirst(s, ids)
            \/ script' = [script EXCEPT ![s] = NoCheck]
        BY <2>1, <2>3 DEF StartCheck, CheckDies, CloseCheck, NextCheck
      <3> QED
        BY <2>3, <3>1, CheckMoves DEF StartCheck, CheckDies, CloseCheck, TypeOK, Shape
    <2>4. CASE Probe(s)
      <3>1. script' \in [Scripts -> Check]
        <4>1. PICK verdict \in {"clean", "unfit", "error"} :
                 script' = [script EXCEPT ![s].at = "write", ![s].verdict = verdict]
          BY <2>4 DEF Probe
        <4>2. script[s] \in Check /\ script \in [Scripts -> Check]
          BY DEF TypeOK
        <4>3. [[script[s] EXCEPT !.at = "write"] EXCEPT !.verdict = verdict] \in Check
          BY <4>2 DEF Check
        <4> QED
          BY <4>1, <4>2, <4>3
      <3>2. /\ script'[s].at = "write" /\ script[s].at = "probe"
            /\ script'[s].id = script[s].id /\ script'[s].todo = script[s].todo
            /\ \A r \in Scripts \ {s} : script'[r] = script[r]
        BY <2>4 DEF Probe, TypeOK, Shape, Check
      <3> QED
        BY <2>4, <3>1, <3>2 DEF Probe, TypeOK, Shape
    <2>5. CASE Write(s)
      <3>1. account' \in [Id -> Account] /\ seen' \in [Id -> Count]
        BY <2>2, <2>5, UpdateRows DEF Write
      <3> QED
        BY <2>5, <3>1 DEF Write, TypeOK, Shape, Check
    <2>6. CASE CloseCheckFails(s)
      <3>1. account' \in [Id -> Account] /\ seen' \in [Id -> Count]
        BY <2>2, <2>6, UpdateRows DEF CloseCheckFails
      <3> QED
        BY <2>1, <2>6, <3>1, CheckMoves DEF CloseCheckFails, NextCheck, TypeOK, Shape
    <2> QED
      BY <1>2, <2>3, <2>4, <2>5, <2>6 DEF ScriptStep
  <1>3. ASSUME NEW id \in Id, Import(id) PROVE Shape'
    <2>1. 0 \in Count /\ [status |-> "ACTIVE", failures |-> 0] \in Account
      BY AccountsAssumption DEF Account, Count
    <2>2. /\ account' \in [Id -> Account] /\ seen' \in [Id -> Count]
          /\ health' \in [Id -> {"good", "limited", "dead"}] /\ using' = using /\ script' = script
      BY <1>3, <2>1 DEF Import, TypeOK
    <2> QED
      BY <2>2 DEF TypeOK, Shape
  <1>5. ASSUME NEW id \in Id, Change(id) PROVE Shape'
    BY <1>5 DEF Change, TypeOK, Shape
  <1>4. CASE UNCHANGED vars
    BY <1>4 DEF vars, TypeOK, Shape
  <1> QED
    BY <1>1, <1>2, <1>3, <1>4, <1>5 DEF Move

LEMMA NextTypeOK == TypeOK /\ [Next]_allVars => TypeOK'
  <1> SUFFICES ASSUME TypeOK, [Next]_allVars PROVE TypeOK'
    OBVIOUS
  <1>1. Shape'
    BY MoveShape DEF Next, allVars
  <1>2. overtaken' \in [Processes -> SUBSET Id]
    BY DEF Next, Overtake, AtHand, TypeOK, allVars
  <1> QED
    BY <1>1, <1>2 DEF Shape, TypeOK

\* Accounts, sessions, workers and health checks keep their types, a check
\* goes through its accounts in order and none runs without one, for any
\* number of each and under every fault.
THEOREM TypeCorrect == Spec => []TypeOK
  <1>1. Init => TypeOK
    BY AccountsAssumption DEF Init, TypeOK, Account, Count, Use, NoUse, Check, NoCheck
  <1> QED
    BY <1>1, NextTypeOK, PTL DEF Spec

LEMMA NextCounts == TypeOK /\ FailuresCounted /\ [Next]_allVars => FailuresCounted'
  <1> SUFFICES ASSUME TypeOK, FailuresCounted, [Next]_allVars PROVE FailuresCounted'
    OBVIOUS
  <1>1. ASSUME NEW w \in Workers, WorkerStep(w) PROVE FailuresCounted'
    <2>1. CASE Take(w) \/ WorkEnds(w) \/ Close(w)
      BY <2>1 DEF Take, WorkEnds, Close, FailuresCounted
    <2>2. using[w].at # "idle" => using[w].id \in Id
      BY DEF TypeOK, Use
    <2>3. CASE WorkFails(w) \/ CloseFails(w) \/ Unauthorized(w)
      BY <2>2, <2>3, UpdateRows DEF WorkFails, CloseFails, Unauthorized
    <2> QED
      BY <1>1, <2>1, <2>3 DEF WorkerStep
  <1>2. ASSUME NEW s \in Scripts, ScriptStep(s) PROVE FailuresCounted'
    <2>1. CASE StartCheck(s) \/ CheckDies(s) \/ Probe(s) \/ CloseCheck(s)
      BY <2>1 DEF StartCheck, CheckDies, Probe, CloseCheck, FailuresCounted
    <2>2. script[s].at # "idle" => script[s].id \in Id
      BY DEF TypeOK, Check
    <2>3. CASE Write(s) \/ CloseCheckFails(s)
      BY <2>2, <2>3, UpdateRows DEF Write, CloseCheckFails
    <2> QED
      BY <1>2, <2>1, <2>3 DEF ScriptStep
  <1>3. ASSUME NEW id \in Id, Import(id) \/ Change(id) PROVE FailuresCounted'
    BY <1>3 DEF Import, Change, FailuresCounted, TypeOK
  <1>4. CASE UNCHANGED vars
    BY <1>4 DEF vars, FailuresCounted
  <1> QED
    BY <1>1, <1>2, <1>3, <1>4 DEF Next, Move, allVars

\* No report of a failure is lost, for any number of accounts, workers and
\* health checks and whatever Telegram does: the increment is the server's.
THEOREM ReportsCounted == Spec => []FailuresCounted
  <1>1. Init => FailuresCounted
    BY DEF Init, FailuresCounted
  <1> QED
    BY <1>1, NextCounts, TypeCorrect, PTL DEF Spec

\* Whatever a process has at hand was in service when it picked it: what is out
\* of service now was taken out since.
HandsKnow ==
    \A p \in Processes : \A id \in AtHand(p) :
        account[id].status = "RESTRICTED" => id \in overtaken[p]

LEMMA CheckPicks ==
  ASSUME TypeOK, NEW s \in Scripts, NEW ids \in SUBSET Id, CheckFirst(s, ids)
  PROVE  /\ AtHand(s)' \subseteq ids
         /\ \A p \in Scripts \ {s} : script'[p] = script[p]
  <1>1. PICK id \in Oldest(ids) :
           script' = [script EXCEPT ![s] =
               [at |-> "probe", id |-> id, todo |-> ids \ {id}, verdict |-> "none"]]
    BY DEF CheckFirst
  <1>2. script'[s].id = id /\ script'[s].todo = ids \ {id} /\ id \in ids
    BY <1>1 DEF TypeOK, Oldest
  <1>3. s \notin Workers
    BY AccountsAssumption
  <1> QED
    BY <1>1, <1>2, <1>3 DEF AtHand, TypeOK

\* A process gets hold of accounts that are in service only.
LEMMA PicksActive ==
  ASSUME TypeOK, [Next]_allVars, NEW p \in Processes, NEW id \in AtHand(p)'
  PROVE  \/ id \in AtHand(p)
         \/ account[id].status = "ACTIVE" /\ account' = account
  <1>0. Active \in SUBSET Id /\ Oldest(Active) \subseteq Active
    BY DEF Active, Oldest
  <1>1. ASSUME NEW w \in Workers, WorkerStep(w)
        PROVE  \/ id \in AtHand(p)
               \/ account[id].status = "ACTIVE" /\ account' = account
    <2>1. CASE Take(w)
      <3>1. CASE p = w
        BY <1>0, <2>1, <3>1 DEF Take, AtHand, Active, TypeOK
      <3>2. CASE p # w
        BY <2>1, <3>2 DEF Take, AtHand, TypeOK
      <3> QED
        BY <3>1, <3>2
    <2>2. CASE ~Take(w)
      <3>1. /\ script' = script /\ \A v \in Workers \ {w} : using'[v] = using[v]
            /\ using'[w].id \in {using[w].id, 0}
        <4>1. CASE WorkEnds(w) \/ WorkFails(w) \/ Close(w) \/ CloseFails(w)
          <5>1. using' = [using EXCEPT ![w] = NoUse] /\ script' = script
            BY <4>1 DEF WorkEnds, WorkFails, Close, CloseFails
          <5> QED
            BY <5>1 DEF NoUse, TypeOK
        <4>2. CASE Unauthorized(w)
          BY <4>2 DEF Unauthorized, TypeOK, Use
        <4> QED
          BY <1>1, <2>2, <4>1, <4>2 DEF WorkerStep
      <3>2. 0 \notin Id
        BY DEF Id
      <3> QED
        BY <3>1, <3>2 DEF AtHand
    <2> QED
      BY <2>1, <2>2
  <1>2. ASSUME NEW s \in Scripts, ScriptStep(s)
        PROVE  \/ id \in AtHand(p)
               \/ account[id].status = "ACTIVE" /\ account' = account
    <2>0. using' = using /\ s \notin Workers /\ 0 \notin Id /\ script[s].todo \in SUBSET Id
      <3>1. using' = using
        BY <1>2 DEF ScriptStep, StartCheck, CheckDies, Probe, Write, CloseCheck, CloseCheckFails
      <3>2. script[s] \in Check
        BY DEF TypeOK
      <3>3. s \notin Workers /\ 0 \notin Id
        BY AccountsAssumption DEF Id
      <3> QED
        BY <3>1, <3>2, <3>3 DEF Check
    <2>1. CASE p = s
      <3>1. CASE StartCheck(s)
        BY <1>0, <2>1, <3>1, CheckPicks DEF StartCheck, Active
      <3>2. CASE NextCheck(s)
        <4>1. CASE CheckFirst(s, script[s].todo)
          BY <2>0, <2>1, <4>1, CheckPicks DEF AtHand
        <4>2. CASE script' = [script EXCEPT ![s] = NoCheck]
          BY <2>0, <2>1, <4>2 DEF AtHand, NoCheck, TypeOK
        <4> QED
          BY <3>2, <4>1, <4>2 DEF NextCheck
      <3>3. CASE CheckDies(s)
        BY <2>0, <2>1, <3>3 DEF CheckDies, AtHand, NoCheck, TypeOK
      <3>4. CASE Probe(s) \/ Write(s)
        <4>1. script'[s].id = script[s].id /\ script'[s].todo = script[s].todo
          <5>1. CASE Probe(s)
            BY <5>1 DEF Probe, TypeOK, Check
          <5>2. CASE Write(s)
            BY <5>2 DEF Write, TypeOK, Check
          <5> QED
            BY <3>4, <5>1, <5>2
        <4> QED
          BY <2>0, <2>1, <4>1 DEF AtHand
      <3> QED
        BY <1>2, <3>1, <3>2, <3>3, <3>4 DEF ScriptStep, CloseCheck, CloseCheckFails
    <2>2. CASE p # s
      <3>1. \A r \in Scripts \ {s} : script'[r] = script[r]
        BY <1>2
        DEF ScriptStep, StartCheck, CheckDies, Probe, Write, CloseCheck, CloseCheckFails, NextCheck,
            CheckFirst, TypeOK
      <3> QED
        BY <2>0, <2>2, <3>1 DEF AtHand, Processes
    <2> QED
      BY <2>1, <2>2
  <1>3. CASE using' = using /\ script' = script
    BY <1>3 DEF AtHand
  <1> QED
    BY <1>1, <1>2, <1>3 DEF Next, Move, Import, Change, allVars, vars

LEMMA NextHandsKnow == TypeOK /\ HandsKnow /\ [Next]_allVars => HandsKnow'
  <1> SUFFICES ASSUME TypeOK, HandsKnow, [Next]_allVars,
                      NEW p \in Processes, NEW id \in AtHand(p)', account'[id].status = "RESTRICTED"
               PROVE  id \in overtaken'[p]
    BY DEF HandsKnow
  <1>1. id \in AtHand(p)
    BY PicksActive
  <1>2. account[id].status \in {"ACTIVE", "RESTRICTED"}
    BY <1>1 DEF AtHand, TypeOK, Account
  <1>3. CASE Next
    BY <1>1, <1>2, <1>3 DEF Next, Overtake, Service, HandsKnow
  <1>4. CASE UNCHANGED allVars
    BY <1>1, <1>4 DEF allVars, vars, HandsKnow
  <1> QED
    BY <1>3, <1>4

LEMMA UpdateStatus ==
  ASSUME TypeOK, NEW id \in Id, NEW status \in {"ACTIVE", "RESTRICTED"}, NEW failed \in BOOLEAN,
         Update(id, status, failed)
  PROVE  /\ account'[id].status = status
         /\ \A other \in Id \ {id} : account'[other] = account[other]
  BY DEF Update, TypeOK

\* Only who has an account at hand brings it back, but for an import.
LEMMA ReturnsFromHand ==
  ASSUME TypeOK, [Next]_allVars, NEW id \in Id, Service(id, "RESTRICTED", "ACTIVE")
  PROVE  \/ account'[id].failures = 0
         \/ \E p \in Processes : id \in AtHand(p) /\ Reports(p)
  <1>0. account' # account
    BY DEF Service
  <1>1. ASSUME NEW w \in Workers, WorkerStep(w) PROVE id \in AtHand(w) /\ Reports(w)
    <2>1. using[w].at # "idle" => using[w].id \in Id
      BY DEF TypeOK, Use
    <2>2. WorkFails(w) \/ CloseFails(w) \/ Unauthorized(w)
      BY <1>0, <1>1 DEF WorkerStep, Take, WorkEnds, Close
    <2>3. id = using[w].id
      BY <2>1, <2>2, UpdateStatus DEF WorkFails, CloseFails, Unauthorized, Service
    <2>4. using'[w].at # using[w].at
      <3>1. CASE WorkFails(w) \/ CloseFails(w)
        <4>1. using' = [using EXCEPT ![w] = NoUse] /\ using[w].at \in {"working", "closing"}
          BY <3>1 DEF WorkFails, CloseFails
        <4> QED
          BY <4>1 DEF NoUse, TypeOK
      <3>2. CASE Unauthorized(w)
        BY <3>2 DEF Unauthorized, TypeOK, Use
      <3> QED
        BY <2>2, <3>1, <3>2
    <2> QED
      BY <2>3, <2>4 DEF AtHand, Reports
  <1>2. ASSUME NEW s \in Scripts, ScriptStep(s) PROVE id \in AtHand(s) /\ Reports(s)
    <2>1. script[s].at # "idle" => script[s].id \in Id
      BY DEF TypeOK, Check
    <2>2. Write(s) \/ CloseCheckFails(s)
      BY <1>0, <1>2 DEF ScriptStep, StartCheck, CheckDies, Probe, CloseCheck
    <2>3. id = script[s].id
      BY <2>1, <2>2, UpdateStatus DEF Write, CloseCheckFails, Service
    <2>4. Write(s)
      BY <2>1, <2>2, <2>3, UpdateStatus DEF CloseCheckFails, Service
    <2>5. script'[s].at # script[s].at
      BY <2>4 DEF Write, TypeOK, Check
    <2> QED
      BY <2>3, <2>5, AccountsAssumption DEF AtHand, Reports
  <1>3. ASSUME NEW other \in Id, Import(other) PROVE account'[id].failures = 0
    BY <1>3 DEF Import, Service, TypeOK
  <1> QED
    BY <1>0, <1>1, <1>2, <1>3 DEF Next, Move, Change, allVars, vars, Processes

\* For any number of accounts, workers and health checks and under every fault:
\* an account that was taken out of service comes back by an import, or by the
\* report of a process that had it at hand when it was taken out.
THEOREM ReturnsForCause == Spec => ReturnHasCause
  <1>1. Init => HandsKnow
    BY AccountsAssumption DEF Init, HandsKnow, AtHand, NoUse, NoCheck, Processes, Id
  <1>2. TypeOK /\ HandsKnow /\ [Next]_allVars => HandsKnow'
    BY NextHandsKnow
  <1>3. TypeOK /\ HandsKnow /\ [Next]_allVars =>
          [\A id \in Id : Service(id, "RESTRICTED", "ACTIVE") =>
              \/ account'[id].failures = 0
              \/ \E p \in Processes : id \in overtaken[p] /\ Reports(p)]_allVars
    <2> SUFFICES ASSUME TypeOK, HandsKnow, [Next]_allVars,
                        NEW id \in Id, Service(id, "RESTRICTED", "ACTIVE"), account'[id].failures # 0
                 PROVE  \E p \in Processes : id \in overtaken[p] /\ Reports(p)
      OBVIOUS
    <2>1. PICK p \in Processes : id \in AtHand(p) /\ Reports(p)
      BY ReturnsFromHand
    <2>2. id \in overtaken[p]
      BY <2>1 DEF HandsKnow, Service
    <2> QED
      BY <2>1, <2>2
  <1> QED
    BY <1>1, <1>2, <1>3, TypeCorrect, PTL DEF Spec, ReturnHasCause

=============================================================================
