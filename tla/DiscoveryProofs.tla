-------------------------- MODULE DiscoveryProofs --------------------------
(* Proofs about Discovery, for every value of its constants. *)
EXTENDS Discovery, TLAPS

-----------------------------------------------------------------------------
(* The invariant *)

\* The ids the sequence has still to hand out have no row: an id names one
\* channel for good, and a run that holds it may meet no row, but no other's.
FreshRows == \A id \in RowId : id >= nextRow => rows[id] = NoRow

\* What a run has read of a row: its id is not handed out again, and as long
\* as the row is there it is the channel's.
Entries(v) == ToSet(run[v].batch)
HandsAgree ==
    \A v \in Validators : \A e \in Entries(v) :
        e[1] < nextRow /\ (rows[e[1]] # NoRow => rows[e[1]].handle = e[2])

\* A run at a target has one.
AtTarget == \A v \in Validators : run[v].at \in {"probe", "promote"} => run[v].batch # << >>

\* A settled channel is a VALIDATED row's that no run holds, and is not
\* configured.
SettledRests ==
    \A h \in settled :
        /\ h \notin channels /\ h \notin InHand
        /\ \E id \in RowId : HasStatus(id, "VALIDATED_HAS_DISCUSSION") /\ rows[id].handle = h

PoolInv == TypeOK /\ FreshRows /\ HandsAgree /\ AtTarget
SettledInv == PoolInv /\ SettledRests
PromotedInv == PoolInv /\ ValidatedWasPromoted

-----------------------------------------------------------------------------
(* Batches *)

LEMMA BatchParts ==
  ASSUME NEW S, NEW s \in Seq(S), s # << >>
  PROVE  /\ Head(s) \in ToSet(s) /\ Tail(s) \in Seq(S)
         /\ ToSet(s) = {Head(s)} \cup ToSet(Tail(s))
  <1>1. Len(s) \in Nat \ {0} /\ DOMAIN s = 1 .. Len(s)
    OBVIOUS
  <1>2. Head(s) = s[1] /\ 1 \in DOMAIN s
    BY <1>1
  <1>3. /\ Tail(s) \in Seq(S) /\ Len(Tail(s)) = Len(s) - 1
        /\ \A i \in 1 .. Len(s) - 1 : Tail(s)[i] = s[i + 1]
    BY <1>1
  <1>4. DOMAIN Tail(s) = 1 .. Len(s) - 1
    BY <1>1, <1>3
  <1>5. \A i \in DOMAIN s : i = 1 \/ (i - 1 \in DOMAIN Tail(s) /\ s[i] = Tail(s)[i - 1])
    BY <1>1, <1>3, <1>4
  <1>6. \A i \in DOMAIN Tail(s) : i + 1 \in DOMAIN s /\ Tail(s)[i] = s[i + 1]
    BY <1>1, <1>3, <1>4
  <1>7. ToSet(s) \subseteq {Head(s)} \cup ToSet(Tail(s))
    BY <1>2, <1>5 DEF ToSet
  <1>8. {Head(s)} \cup ToSet(Tail(s)) \subseteq ToSet(s)
    BY <1>2, <1>6 DEF ToSet
  <1> QED
    BY <1>3, <1>7, <1>8

LEMMA EmptyBatch == ToSet(<< >>) = {}
  BY DEF ToSet

-----------------------------------------------------------------------------
(* Rows *)

LEMMA RowStatus ==
  ASSUME NEW row \in Row \cup {NoRow}
  PROVE  row # NoRow <=> row \in Row
  BY DEF Row, NoRow, Verdict

\* What an UPDATE leaves of the table.
LEMMA MarkedRows ==
  ASSUME TypeOK, NEW id \in RowId, NEW status \in Verdict, rows' = Marked(id, status)
  PROVE  /\ rows' \in [RowId -> Row \cup {NoRow}]
         /\ \A i \in RowId \ {id} : rows'[i] = rows[i]
         /\ rows[id] = NoRow => rows'[id] = NoRow
         /\ rows[id] # NoRow => /\ rows'[id] # NoRow /\ rows'[id].status = status
                                /\ rows'[id].handle = rows[id].handle
  <1>1. CASE rows[id] = NoRow
    BY <1>1 DEF TypeOK, Marked
  <1>2. CASE rows[id] # NoRow
    <2>1. rows[id] \in Row
      BY <1>2, RowStatus DEF TypeOK
    <2>2. [rows[id] EXCEPT !.status = status] \in Row
      BY <2>1 DEF Row
    <2>3. rows' = [rows EXCEPT ![id] = [rows[id] EXCEPT !.status = status]]
      BY <1>2 DEF Marked
    <2>4. rows'[id] = [rows[id] EXCEPT !.status = status]
      BY <2>3 DEF TypeOK
    <2> QED
      BY <1>2, <2>1, <2>2, <2>3, <2>4, RowStatus DEF TypeOK, Row
  <1> QED
    BY <1>1, <1>2

LEMMA AttemptedRows ==
  ASSUME TypeOK, NEW id \in RowId, rows' = Attempted(id)
  PROVE  /\ rows' \in [RowId -> Row \cup {NoRow}]
         /\ \A i \in RowId : /\ rows[i] = NoRow <=> rows'[i] = NoRow
                             /\ rows'[i].status = rows[i].status
                             /\ rows[i] # NoRow => rows'[i].handle = rows[i].handle
  <1>1. CASE rows[id] = NoRow \/ rows[id].attempts = MaxAttempts
    BY <1>1 DEF TypeOK, Attempted
  <1>2. CASE rows[id] # NoRow /\ rows[id].attempts # MaxAttempts
    <2>1. rows[id] \in Row
      BY <1>2, RowStatus DEF TypeOK
    <2>2. [rows[id] EXCEPT !.attempts = @ + 1] \in Row
      <3>1. rows[id].attempts + 1 \in 0 .. MaxAttempts
        BY <1>2, <2>1, DiscoveryAssumption DEF Row
      <3> QED
        BY <2>1, <3>1 DEF Row
    <2>3. rows' = [rows EXCEPT ![id] = [rows[id] EXCEPT !.attempts = @ + 1]]
      BY <1>2 DEF Attempted
    <2>4. rows'[id] = [rows[id] EXCEPT !.attempts = @ + 1]
      BY <2>3 DEF TypeOK
    <2> QED
      BY <1>2, <2>1, <2>2, <2>3, <2>4, RowStatus DEF TypeOK, Row
  <1> QED
    BY <1>1, <1>2

-----------------------------------------------------------------------------
(* Runs *)

LEMMA Hand == \A h : h \in InHand <=> \E v \in Validators : \E e \in Entries(v) : e[2] = h
  BY DEF InHand, Entries

LEMMA EntryType ==
  ASSUME PoolInv, NEW v \in Validators
  PROVE  /\ run[v] \in Run /\ run[v].batch \in Seq(RowId \X Handles)
         /\ \A e \in Entries(v) : e \in RowId \X Handles
  BY DEF PoolInv, TypeOK, Run, Entries, ToSet

\* The target at the head of a batch.
LEMMA Target ==
  ASSUME PoolInv, NEW v \in Validators, run[v].batch # << >>
  PROVE  /\ Id(v) \in RowId /\ Handle(v) \in Handles /\ Handle(v) \in InHand
         /\ rows[Id(v)] # NoRow => rows[Id(v)].handle = Handle(v)
  <1>1. Head(run[v].batch) \in Entries(v)
    BY EntryType, BatchParts DEF Entries
  <1> QED
    BY <1>1, EntryType, Hand DEF Id, Handle, PoolInv, HandsAgree

\* What every step of a run but the fetch does to the runs: one of them goes
\* on, with no entry it did not have.
Shrinks ==
    /\ run' \in [Validators -> Run]
    /\ \A w \in Validators : Entries(w)' \subseteq Entries(w)
    /\ AtTarget'

LEMMA OneShrinks ==
  ASSUME PoolInv, NEW v \in Validators, NEW r \in Run, run' = [run EXCEPT ![v] = r],
         ToSet(r.batch) \subseteq Entries(v), r.at \in {"probe", "promote"} => r.batch # << >>
  PROVE  Shrinks
  BY DEF Shrinks, PoolInv, TypeOK, AtTarget, Entries

LEMMA MoveShrinks ==
  ASSUME PoolInv, NEW v \in Validators, NEW at \in {"connect", "attempt", "probe", "promote", "ending"},
         Move(v, at), at \in {"probe", "promote"} => run[v].batch # << >>
  PROVE  Shrinks
  <1> DEFINE r == [run[v] EXCEPT !.at = at]
  <1>1. run' = [run EXCEPT ![v] = r]
    BY DEF Move
  <1>2. r \in Run /\ r.at = at /\ r.batch = run[v].batch
    BY EntryType DEF Run
  <1> HIDE DEF r
  <1> QED
    BY <1>1, <1>2, OneShrinks DEF Entries

LEMMA NextShrinks ==
  ASSUME PoolInv, NEW v \in Validators, NextTarget(v), run[v].batch # << >>
  PROVE  Shrinks
  <1> DEFINE r == [run[v] EXCEPT !.at = "attempt", !.batch = Tail(@)]
  <1>1. run' = [run EXCEPT ![v] = r]
    BY DEF NextTarget
  <1>2. /\ Tail(run[v].batch) \in Seq(RowId \X Handles)
        /\ ToSet(Tail(run[v].batch)) \subseteq Entries(v)
    BY EntryType, BatchParts DEF Entries
  <1>3. r \in Run /\ r.at = "attempt" /\ r.batch = Tail(run[v].batch)
    BY <1>2, EntryType DEF Run
  <1> HIDE DEF r
  <1> QED
    BY <1>1, <1>2, <1>3, OneShrinks

LEMMA ResetShrinks ==
  ASSUME PoolInv, NEW v \in Validators, NEW at \in {"idle", "spawned"},
         NEW single \in RowId \cup {0},
         run' = [run EXCEPT ![v] = [at |-> at, single |-> single, batch |-> << >>]]
  PROVE  Shrinks
  <1> DEFINE r == [at |-> at, single |-> single, batch |-> << >>]
  <1>1. r \in Run
    BY DEF Run
  <1>2. r.at = at /\ ToSet(r.batch) = {}
    BY EmptyBatch
  <1> HIDE DEF r
  <1>3. run' = [run EXCEPT ![v] = r]
    BY DEF r
  <1> QED
    BY <1>1, <1>2, <1>3, OneShrinks

LEMMA RunShrinks ==
  ASSUME PoolInv, NEW v \in Validators,
         ValidatorStep(v) \/ \E single \in RowId \cup {0} : Trigger(v, single)
  PROVE  Shrinks \/ Fetch(v)
  <1>1. CASE \E single \in RowId \cup {0} : Trigger(v, single)
    <2>1. PICK single \in RowId \cup {0} : Trigger(v, single)
      BY <1>1
    <2>3. run' = [run EXCEPT ![v] = [at |-> "spawned", single |-> single, batch |-> << >>]]
      BY <2>1 DEF Trigger
    <2> QED
      BY <2>3, ResetShrinks
  <1>2. CASE Check(v)
    <2>1. CASE running
      BY <1>2, <2>1, ResetShrinks DEF Check, NoRun
    <2>2. CASE ~running
      <3> DEFINE r == [run[v] EXCEPT !.at = "checked"]
      <3>1. run' = [run EXCEPT ![v] = r]
        BY <1>2, <2>2 DEF Check
      <3>2. r \in Run /\ r.at = "checked" /\ r.batch = run[v].batch
        BY EntryType DEF Run
      <3> HIDE DEF r
      <3> QED
        BY <3>1, <3>2, OneShrinks DEF Entries
    <2> QED
      BY <2>1, <2>2
  <1>3. CASE NothingToDo(v) \/ Finish(v)
    BY <1>3, ResetShrinks DEF NothingToDo, Finish, NoRun
  <1>4. CASE StartRun(v)
    BY <1>4, ResetShrinks, MoveShrinks DEF StartRun, NoRun
  <1>5. CASE Connect(v) \/ ConnectFails(v) \/ Interrupted(v)
    BY <1>5, MoveShrinks DEF Connect, ConnectFails, Interrupted
  <1>6. CASE Attempt(v) \/ Validate(v)
    BY <1>6, MoveShrinks DEF Attempt, Validate, PoolInv, AtTarget
  <1>7. CASE Promote(v) \/ Disqualify(v)
    BY <1>7, MoveShrinks, NextShrinks DEF Promote, Disqualify, PoolInv, AtTarget
  <1> QED
    BY <1>1, <1>2, <1>3, <1>4, <1>5, <1>6, <1>7 DEF ValidatorStep

\* What the fetch does: the run gets entries of wanted rows.
LEMMA FetchReads ==
  ASSUME PoolInv, NEW v \in Validators, Fetch(v)
  PROVE  /\ run' \in [Validators -> Run] /\ AtTarget'
         /\ \A w \in Validators \ {v} : run'[w] = run[w]
         /\ run'[v].at = "fetched"
         /\ \A e \in Entries(v)' : /\ e[1] \in Pending /\ rows[e[1]] # NoRow
                                   /\ e[2] = rows[e[1]].handle
  <1>1. PICK n \in 1 .. Batch : \E ids \in [1 .. n -> Wanted(v)] :
           run' = [run EXCEPT ![v] = [at |-> "fetched", single |-> 0,
                         batch |-> [k \in 1 .. n |-> <<ids[k], rows[ids[k]].handle>>]]]
    BY DEF Fetch
  <1>2. PICK ids \in [1 .. n -> Wanted(v)] :
           run' = [run EXCEPT ![v] = [at |-> "fetched", single |-> 0,
                         batch |-> [k \in 1 .. n |-> <<ids[k], rows[ids[k]].handle>>]]]
    BY <1>1
  <1> DEFINE b == [k \in 1 .. n |-> <<ids[k], rows[ids[k]].handle>>]
             r == [at |-> "fetched", single |-> 0, batch |-> b]
  <1>3. \A k \in 1 .. n : /\ ids[k] \in RowId /\ ids[k] \in Pending /\ rows[ids[k]] # NoRow
                          /\ rows[ids[k]].handle \in Handles
    <2> TAKE k \in 1 .. n
    <2>1. ids[k] \in Pending
      BY DEF Wanted
    <2>2. ids[k] \in RowId /\ rows[ids[k]].status = "PENDING_VALIDATION"
      BY <2>1 DEF Pending, HasStatus
    <2>3. rows[ids[k]] # NoRow
      BY <2>2 DEF NoRow
    <2>4. rows[ids[k]] \in Row
      BY <2>2, <2>3, RowStatus DEF PoolInv, TypeOK
    <2> QED
      BY <2>1, <2>2, <2>3, <2>4 DEF Row
  <1>4. b \in Seq(RowId \X Handles)
    <2>1. n \in Nat
      BY DiscoveryAssumption
    <2>2. b \in [1 .. n -> RowId \X Handles]
      BY <1>3
    <2> QED
      BY <2>1, <2>2
  <1>5. r \in Run /\ r.at = "fetched" /\ r.batch = b
    BY <1>4 DEF Run
  <1>6. \A e \in ToSet(b) : \E k \in 1 .. n : e = <<ids[k], rows[ids[k]].handle>>
    BY DEF ToSet
  <1>7. run' = [run EXCEPT ![v] = r]
    BY <1>2
  <1> HIDE DEF r, b
  <1>8. /\ run' \in [Validators -> Run] /\ run'[v] = r
        /\ \A w \in Validators \ {v} : run'[w] = run[w]
    BY <1>5, <1>7 DEF PoolInv, TypeOK
  <1>9. Entries(v)' = ToSet(b)
    BY <1>5, <1>8 DEF Entries
  <1>10. AtTarget'
    BY <1>5, <1>8 DEF AtTarget, PoolInv
  <1> QED
    BY <1>3, <1>5, <1>6, <1>8, <1>9, <1>10

-----------------------------------------------------------------------------
(* Types, and what runs know of rows *)

LEMMA SameRuns == ASSUME PoolInv, run' = run PROVE Shrinks
  BY DEF PoolInv, TypeOK, Shrinks, AtTarget, Entries

\* Rows may go or change their status, but none appears: what a run has read
\* stays true.
LEMMA PoolKept ==
  ASSUME PoolInv, Shrinks, nextRow' = nextRow, rows' \in [RowId -> Row \cup {NoRow}],
         \A id \in RowId : \/ rows'[id] = NoRow
                           \/ rows[id] # NoRow /\ rows'[id].handle = rows[id].handle,
         channels' \subseteq Handles, running' \in BOOLEAN,
         crawling' \in BOOLEAN, crawl' \in [Crawlers -> CrawlRun],
         removed' \subseteq Handles, settled' \subseteq removed', cut' \subseteq RowId
  PROVE  PoolInv'
  <1>1. TypeOK'
    BY DEF PoolInv, TypeOK, Shrinks
  <1>2. FreshRows'
    BY DEF PoolInv, FreshRows
  <1>3. HandsAgree'
    <2> SUFFICES ASSUME NEW v \in Validators, NEW e \in Entries(v)'
                 PROVE  e[1] < nextRow' /\ (rows'[e[1]] # NoRow => rows'[e[1]].handle = e[2])
      BY DEF HandsAgree
    <2>1. e \in Entries(v)
      BY DEF Shrinks
    <2>2. e[1] \in RowId
      BY <2>1, EntryType
    <2> QED
      BY <2>1, <2>2 DEF PoolInv, HandsAgree
  <1> QED
    BY <1>1, <1>2, <1>3 DEF PoolInv, Shrinks

LEMMA FetchPool ==
  ASSUME PoolInv, NEW v \in Validators, Fetch(v)
  PROVE  PoolInv'
  <1>1. UNCHANGED <<rows, nextRow, channels, running, crawling, crawl, removed, settled, cut>>
    BY DEF Fetch, pool, crawls, history
  <1>2. HandsAgree'
    <2> SUFFICES ASSUME NEW w \in Validators, NEW e \in Entries(w)'
                 PROVE  e[1] < nextRow' /\ (rows'[e[1]] # NoRow => rows'[e[1]].handle = e[2])
      BY DEF HandsAgree
    <2>1. CASE w # v
      <3>1. e \in Entries(w)
        BY <2>1, FetchReads DEF Entries
      <3> QED
        BY <1>1, <3>1 DEF PoolInv, HandsAgree
    <2>2. CASE w = v
      <3>1. e[1] \in RowId /\ rows[e[1]] # NoRow /\ e[2] = rows[e[1]].handle
        BY <2>2, FetchReads DEF Pending
      <3>2. e[1] < nextRow
        BY <3>1 DEF PoolInv, TypeOK, FreshRows, RowId
      <3> QED
        BY <1>1, <3>1, <3>2
    <2> QED
      BY <2>1, <2>2
  <1>3. TypeOK' /\ FreshRows'
    BY <1>1, FetchReads DEF PoolInv, TypeOK, FreshRows
  <1> QED
    BY <1>2, <1>3, FetchReads DEF PoolInv

\* The one step that adds a row takes an id no run has seen.
LEMMA UpsertPool ==
  ASSUME PoolInv, NEW c \in Crawlers, NEW handle \in Handles, Upsert(c, handle)
  PROVE  PoolInv'
  <1> DEFINE row == [handle |-> handle, status |-> "PENDING_VALIDATION", attempts |-> 0]
  <1>1. nextRow \in RowId /\ nextRow' = nextRow + 1
    BY DiscoveryAssumption DEF Upsert, PoolInv, TypeOK, RowId
  <1>2. row \in Row
    BY DiscoveryAssumption DEF Row, Verdict
  <1>3. /\ rows' \in [RowId -> Row \cup {NoRow}] /\ rows'[nextRow] = row
        /\ \A id \in RowId \ {nextRow} : rows'[id] = rows[id]
    BY <1>1, <1>2 DEF Upsert, Discovered, PoolInv, TypeOK
  <1>4. UNCHANGED <<channels, running, run, crawling, removed, settled, cut>>
    BY DEF Upsert, validation, history
  <1>5. crawl' \in [Crawlers -> CrawlRun]
    <2>1. [crawl[c] EXCEPT !.known = @ \cup {handle}] \in CrawlRun
      BY DEF PoolInv, TypeOK, CrawlRun
    <2>2. crawl' = [crawl EXCEPT ![c] = [crawl[c] EXCEPT !.known = @ \cup {handle}]]
      BY DEF Upsert
    <2> QED
      BY <2>1, <2>2 DEF PoolInv, TypeOK
  <1>6. \A id \in RowId : rows[id] # NoRow => rows[id].handle # handle
    BY DEF Upsert, PoolHandles
  <1>7. \A i, j \in RowId : rows'[i] # NoRow /\ rows'[j] # NoRow
                              /\ rows'[i].handle = rows'[j].handle => i = j
    BY <1>1, <1>3, <1>6 DEF PoolInv, TypeOK
  <1>8. TypeOK'
    <2>1. nextRow + 1 \in 1 .. MaxRows + 1
      BY <1>1, DiscoveryAssumption DEF RowId
    <2> QED
      BY <1>1, <1>3, <1>4, <1>5, <1>7, <2>1 DEF PoolInv, TypeOK
  <1>9. FreshRows'
    BY <1>1, <1>3 DEF PoolInv, TypeOK, FreshRows, RowId
  <1>10. HandsAgree'
    <2> SUFFICES ASSUME NEW v \in Validators, NEW e \in Entries(v)
                 PROVE  e[1] < nextRow' /\ (rows'[e[1]] # NoRow => rows'[e[1]].handle = e[2])
      BY <1>4 DEF HandsAgree, Entries
    <2>1. e[1] \in RowId /\ e[1] < nextRow /\ (rows[e[1]] # NoRow => rows[e[1]].handle = e[2])
      BY EntryType DEF PoolInv, HandsAgree
    <2> QED
      BY <1>1, <1>3, <2>1 DEF RowId
  <1> QED
    BY <1>4, <1>8, <1>9, <1>10 DEF PoolInv, AtTarget

LEMMA ValidatorPool ==
  ASSUME PoolInv, NEW v \in Validators,
         ValidatorStep(v) \/ \E single \in RowId \cup {0} : Trigger(v, single)
  PROVE  PoolInv'
  <1>0. TypeOK
    BY DEF PoolInv
  <1>1. CASE Fetch(v)
    BY <1>1, FetchPool
  <1>2. CASE ~Fetch(v)
    <2>0. Shrinks
      BY <1>2, RunShrinks
    <2>1. /\ UNCHANGED <<nextRow, crawling, crawl, removed, settled>>
          /\ running' \in BOOLEAN
      BY <1>0, <1>2 DEF ValidatorStep, Trigger, Check, NothingToDo, StartRun, Connect, ConnectFails,
             Attempt, Validate, Promote, Disqualify, Interrupted, Finish, pool, validation, crawls,
             history, TypeOK
    <2>2. CASE Attempt(v) \/ Validate(v) \/ Disqualify(v)
      <3>1. Id(v) \in RowId
        BY <2>2, Target DEF Attempt, Validate, Disqualify, PoolInv, AtTarget
      <3>2. UNCHANGED <<channels, cut>>
        BY <2>2 DEF Attempt, Validate, Disqualify, history
      <3>3. \/ rows' = Attempted(Id(v)) \/ UNCHANGED rows
            \/ \E status \in Verdict : rows' = Marked(Id(v), status)
        BY <2>2 DEF Attempt, Validate, Disqualify, Verdict
      <3>4. /\ rows' \in [RowId -> Row \cup {NoRow}]
            /\ \A id \in RowId : \/ rows'[id] = NoRow
                                 \/ rows[id] # NoRow /\ rows'[id].handle = rows[id].handle
        BY <1>0, <3>1, <3>3, AttemptedRows, MarkedRows DEF TypeOK
      <3> QED
        BY <1>0, <2>0, <2>1, <3>2, <3>4, PoolKept DEF TypeOK
    <2>3. CASE Promote(v)
      <3>1. Id(v) \in RowId /\ Handle(v) \in Handles
        BY <2>3, Target DEF Promote, PoolInv, AtTarget
      <3>2. UNCHANGED rows /\ channels' \subseteq Handles /\ cut' \subseteq RowId
        BY <1>0, <2>3, <3>1 DEF Promote, pool, TypeOK
      <3> QED
        BY <1>0, <2>0, <2>1, <3>2, PoolKept DEF TypeOK
    <2>4. CASE UNCHANGED <<rows, channels, cut>>
      BY <1>0, <2>0, <2>1, <2>4, PoolKept DEF TypeOK
    <2> QED
      BY <1>2, <2>2, <2>3, <2>4
      DEF ValidatorStep, Trigger, Check, NothingToDo, StartRun, Connect, ConnectFails,
          Interrupted, Finish, pool, history
  <1> QED
    BY <1>1, <1>2

LEMMA CrawlerPool ==
  ASSUME PoolInv, NEW c \in Crawlers,
         CrawlerRun(c) \/ TriggerCrawl(c) \/ \E handle \in Handles : Upsert(c, handle)
  PROVE  PoolInv'
  <1>0. TypeOK /\ crawl[c] \in CrawlRun
    BY DEF PoolInv, TypeOK
  <1>1. CASE \E handle \in Handles : Upsert(c, handle)
    BY <1>1, UpsertPool
  <1>2. CASE CrawlerRun(c) \/ TriggerCrawl(c)
    <2>1. UNCHANGED <<rows, nextRow, channels, running, run, removed, settled, cut>>
      BY <1>2 DEF CrawlerRun, TriggerCrawl, CheckCrawl, NoSeeds, StartCrawl, EndCrawl, pool,
                  validation, history
    <2>2. crawling' \in BOOLEAN
      BY <1>0, <1>2 DEF CrawlerRun, TriggerCrawl, CheckCrawl, NoSeeds, StartCrawl, EndCrawl, TypeOK
    <2>3. NoCrawl \in CrawlRun
      BY DEF NoCrawl, CrawlRun
    <2>4. CASE CheckCrawl(c) \/ TriggerCrawl(c)
      <3>1. PICK at \in {"idle", "spawned", "checked"} : crawl' = [crawl EXCEPT ![c].at = at]
        BY <2>4 DEF CheckCrawl, TriggerCrawl
      <3>2. [crawl[c] EXCEPT !.at = at] \in CrawlRun
        BY <1>0 DEF CrawlRun
      <3>3. crawl' = [crawl EXCEPT ![c] = [crawl[c] EXCEPT !.at = at]]
        BY <3>1
      <3>4. crawl' \in [Crawlers -> CrawlRun]
        BY <1>0, <3>2, <3>3 DEF TypeOK
      <3> QED
        BY <1>0, <2>1, <2>2, <3>4, SameRuns, PoolKept DEF TypeOK
    <2>5. CASE NoSeeds(c) \/ EndCrawl(c)
      <3>1. crawl' \in [Crawlers -> CrawlRun]
        BY <1>0, <2>3, <2>5 DEF NoSeeds, EndCrawl, TypeOK
      <3> QED
        BY <1>0, <2>1, <2>2, <3>1, SameRuns, PoolKept DEF TypeOK
    <2>6. CASE StartCrawl(c)
      <3>1. channels \cup PoolHandles \subseteq Handles
        <4>1. \A id \in RowId : rows[id] # NoRow => rows[id].handle \in Handles
          BY <1>0, RowStatus DEF TypeOK, Row
        <4> QED
          BY <1>0, <4>1 DEF TypeOK, PoolHandles
      <3>2. \A known \in {channels \cup PoolHandles, {}, channels} :
               [at |-> "sweep", known |-> known] \in CrawlRun
        BY <1>0, <3>1 DEF CrawlRun, TypeOK
      <3>3. crawl' \in [Crawlers -> CrawlRun]
        BY <1>0, <2>3, <2>6, <3>2 DEF StartCrawl, TypeOK
      <3> QED
        BY <1>0, <2>1, <2>2, <3>3, SameRuns, PoolKept DEF TypeOK
    <2> QED
      BY <1>2, <2>4, <2>5, <2>6 DEF CrawlerRun
  <1> QED
    BY <1>1, <1>2

LEMMA OperatorPool ==
  ASSUME PoolInv, Operate \/ Crash \/ UNCHANGED vars
  PROVE  PoolInv'
  <1>0. /\ TypeOK
        /\ \A id \in RowId : rows[id] # NoRow => rows[id] \in Row
    BY RowStatus DEF PoolInv, TypeOK
  <1>1. ASSUME NEW id \in RowId, Reprobe(id) PROVE PoolInv'
    <2>1. UNCHANGED <<nextRow, channels, running, run, crawling, crawl, removed>>
      BY <1>1 DEF Reprobe, validation, crawls
    <2>2. settled' \subseteq removed' /\ cut' \subseteq RowId
      BY <1>0, <1>1, <2>1 DEF Reprobe, TypeOK
    <2>3. /\ rows' \in [RowId -> Row \cup {NoRow}]
          /\ \A i \in RowId : \/ rows'[i] = NoRow
                              \/ rows[i] # NoRow /\ rows'[i].handle = rows[i].handle
      BY <1>0, <1>1, MarkedRows DEF Reprobe, Verdict
    <2> QED
      BY <1>0, <2>1, <2>2, <2>3, SameRuns, PoolKept DEF TypeOK
  <1>2. ASSUME NEW handle \in Handles, Configure(handle) PROVE PoolInv'
    <2>1. UNCHANGED <<rows, nextRow, running, run, crawling, crawl>>
      BY <1>2 DEF Configure, pool, validation, crawls
    <2>2. /\ channels' \subseteq Handles /\ removed' \subseteq Handles
          /\ settled' \subseteq removed' /\ cut' \subseteq RowId
      BY <1>0, <1>2 DEF Configure, TypeOK
    <2> QED
      BY <1>0, <2>1, <2>2, SameRuns, PoolKept DEF TypeOK
  <1>3. ASSUME NEW ids \in SUBSET RowId, Drop(ids) PROVE PoolInv'
    <2>1. UNCHANGED <<nextRow, channels, running, run, crawling, crawl, removed>>
      BY <1>3 DEF Drop, validation, crawls
    <2>2. settled' \subseteq removed' /\ cut' \subseteq RowId
      BY <1>0, <1>3, <2>1 DEF Drop, TypeOK
    <2>3. /\ rows' \in [RowId -> Row \cup {NoRow}]
          /\ \A i \in RowId : rows'[i] = NoRow \/ rows'[i] = rows[i]
      BY <1>0, <1>3 DEF Drop, TypeOK
    <2> QED
      BY <1>0, <2>1, <2>2, <2>3, SameRuns, PoolKept DEF TypeOK
  <1>4. ASSUME NEW handle \in Handles, RemoveChannel(handle) PROVE PoolInv'
    <2>1. UNCHANGED <<rows, nextRow, running, run, crawling, crawl, cut>>
      BY <1>4 DEF RemoveChannel, pool, validation, crawls
    <2>2. /\ channels' \subseteq Handles /\ removed' \subseteq Handles
          /\ settled' \subseteq removed'
      BY <1>0, <1>4 DEF RemoveChannel, TypeOK
    <2> QED
      BY <1>0, <2>1, <2>2, SameRuns, PoolKept DEF TypeOK
  <1>5. CASE Operate
    <2>1. ASSUME NEW handle \in Handles, ForcePromote(handle) PROVE PoolInv'
      BY <1>2, <2>1 DEF ForcePromote
    <2>2. ASSUME NEW id \in RowId, DeleteRow(id) PROVE PoolInv'
      BY <1>3, <2>2 DEF DeleteRow
    <2>3. ASSUME NEW handle \in Handles, Import(handle) PROVE PoolInv'
      BY <1>2, <2>3 DEF Import
    <2>4. CASE PurgeDisqualified
      BY <1>3, <2>4 DEF PurgeDisqualified
    <2> QED
      BY <1>1, <1>4, <1>5, <2>1, <2>2, <2>3, <2>4 DEF Operate
  <1>6. CASE Crash
    <2>1. UNCHANGED <<rows, nextRow, channels, removed, settled>>
      BY <1>6 DEF Crash, pool
    <2>2. Shrinks
      <3>1. NoRun \in Run /\ NoRun.at = "idle" /\ ToSet(NoRun.batch) = {}
        BY EmptyBatch DEF NoRun, Run
      <3>2. \A v \in Validators : run'[v] = NoRun
        BY <1>6 DEF Crash
      <3>3. run' \in [Validators -> Run]
        BY <1>6, <3>1 DEF Crash
      <3> QED
        BY <3>1, <3>2, <3>3 DEF Shrinks, Entries, AtTarget
    <2>3. crawl' \in [Crawlers -> CrawlRun] /\ running' \in BOOLEAN /\ crawling' \in BOOLEAN
      BY <1>6 DEF Crash, NoCrawl, CrawlRun
    <2>4. cut' \subseteq RowId
      <3>1. Promoting \subseteq RowId
        BY Target DEF Promoting, PoolInv, AtTarget
      <3> QED
        BY <1>0, <1>6, <3>1 DEF Crash, TypeOK
    <2> QED
      BY <1>0, <2>1, <2>2, <2>3, <2>4, PoolKept DEF TypeOK
  <1>7. CASE UNCHANGED vars
    BY <1>0, <1>7, SameRuns, PoolKept DEF vars, pool, validation, crawls, history, TypeOK
  <1> QED
    BY <1>5, <1>6, <1>7

LEMMA NextPool == PoolInv /\ [Next]_vars => PoolInv'
  <1> SUFFICES ASSUME PoolInv, [Next]_vars PROVE PoolInv'
    OBVIOUS
  <1>1. ASSUME NEW v \in Validators, ValidatorStep(v) \/ \E single \in RowId \cup {0} : Trigger(v, single)
        PROVE  PoolInv'
    BY <1>1, ValidatorPool
  <1> QED
    BY <1>1, CrawlerPool, OperatorPool DEF Next

LEMMA InitPool == Init => PoolInv
  <1> SUFFICES ASSUME Init PROVE PoolInv
    OBVIOUS
  <1>1. NoRun \in Run /\ NoRun.at = "idle" /\ ToSet(NoRun.batch) = {}
    BY EmptyBatch DEF NoRun, Run
  <1>2. NoCrawl \in CrawlRun
    BY DEF NoCrawl, CrawlRun
  <1>3. TypeOK
    <2>1. nextRow \in 1 .. MaxRows + 1
      BY DiscoveryAssumption DEF Init
    <2>2. run \in [Validators -> Run] /\ crawl \in [Crawlers -> CrawlRun]
      BY <1>1, <1>2 DEF Init
    <2> QED
      BY <2>1, <2>2 DEF Init, TypeOK
  <1> QED
    BY <1>1, <1>3 DEF Init, PoolInv, FreshRows, HandsAgree, AtTarget, Entries

\* The state has its types under every fault; among them that the pool holds a
\* channel once, for any number of crawls and operators that insert at a time.
THEOREM TypeCorrect == Spec => []TypeOK
  <1>1. PoolInv => TypeOK
    BY DEF PoolInv
  <1> QED
    BY <1>1, InitPool, NextPool, PTL DEF Spec

-----------------------------------------------------------------------------
(* A settled channel stays out *)

LEMMA ShrinksHand == ASSUME Shrinks PROVE InHand' \subseteq InHand
  BY Hand DEF Shrinks, InHand, Entries

\* A fetch takes rows that are pending, and a settled channel's is not.
LEMMA FetchHand ==
  ASSUME SettledInv, NEW v \in Validators, Fetch(v), NEW h \in settled
  PROVE  h \notin InHand'
  <1> SUFFICES ASSUME NEW w \in Validators, NEW e \in Entries(w)', e[2] = h PROVE FALSE
    BY DEF InHand, Entries
  <1>1. CASE w # v
    <2>1. e \in Entries(w)
      BY <1>1, FetchReads DEF SettledInv, Entries
    <2> QED
      BY <2>1, Hand DEF SettledInv, SettledRests
  <1>2. CASE w = v
    <2>1. e[1] \in Pending /\ rows[e[1]] # NoRow /\ rows[e[1]].handle = h
      BY <1>2, FetchReads DEF SettledInv
    <2>2. PICK id \in RowId : HasStatus(id, "VALIDATED_HAS_DISCUSSION") /\ rows[id].handle = h
      BY DEF SettledInv, SettledRests
    <2>3. rows[id] # NoRow
      BY <2>2 DEF HasStatus, NoRow
    <2>4. id = e[1]
      BY <2>1, <2>2, <2>3 DEF SettledInv, PoolInv, TypeOK, Pending
    <2> QED
      BY <2>1, <2>2, <2>4 DEF Pending, HasStatus
  <1> QED
    BY <1>1, <1>2

\* Enough to keep the rest of a settled channel: nobody takes it in hand or
\* configures it, and its row is left alone.
LEMMA RestKept ==
  ASSUME SettledRests, settled' \subseteq settled,
         \A h \in settled' : h \notin channels' /\ h \notin InHand',
         \A id \in RowId : rows[id].status = "VALIDATED_HAS_DISCUSSION" /\ rows[id].handle \in settled'
                              => rows'[id].status = rows[id].status /\ rows'[id].handle = rows[id].handle
  PROVE  SettledRests'
  BY DEF SettledRests, HasStatus

LEMMA ValidatorRest ==
  ASSUME SettledInv, NEW v \in Validators,
         ValidatorStep(v) \/ \E single \in RowId \cup {0} : Trigger(v, single)
  PROVE  SettledRests'
  <1>0. PoolInv /\ TypeOK /\ SettledRests
    BY DEF SettledInv, PoolInv
  <1>1. settled' = settled
    BY DEF ValidatorStep, Trigger, Check, NothingToDo, Fetch, StartRun, Connect, ConnectFails,
           Attempt, Validate, Promote, Disqualify, Interrupted, Finish, history
  <1>2. \A h \in settled : h \notin InHand'
    BY <1>0, FetchHand, RunShrinks, ShrinksHand DEF SettledRests
  <1>3. CASE Attempt(v) \/ Validate(v) \/ Disqualify(v)
    <2>1. /\ Id(v) \in RowId /\ Handle(v) \in InHand
          /\ rows[Id(v)] # NoRow => rows[Id(v)].handle = Handle(v)
      BY <1>0, <1>3, Target DEF Attempt, Validate, Disqualify, PoolInv, AtTarget
    <2>2. \/ rows' = Attempted(Id(v)) \/ UNCHANGED rows
          \/ \E status \in Verdict : rows' = Marked(Id(v), status)
      BY <1>3 DEF Attempt, Validate, Disqualify, Verdict
    <2>3. \A id \in RowId : rows[id].status = "VALIDATED_HAS_DISCUSSION" /\ rows[id].handle \in settled
             => id # Id(v) /\ rows[id] # NoRow
      BY <1>0, <2>1 DEF SettledRests, NoRow
    <2>4. \A id \in RowId : rows[id].status = "VALIDATED_HAS_DISCUSSION" /\ rows[id].handle \in settled
             => rows'[id].status = rows[id].status /\ rows'[id].handle = rows[id].handle
      BY <1>0, <2>1, <2>2, <2>3, AttemptedRows, MarkedRows
    <2>5. UNCHANGED channels
      BY <1>3 DEF Attempt, Validate, Disqualify
    <2> QED
      BY <1>0, <1>1, <1>2, <2>4, <2>5, RestKept DEF SettledRests
  <1>4. CASE Promote(v)
    <2>1. Handle(v) \in InHand
      BY <1>0, <1>4, Target DEF Promote, PoolInv, AtTarget
    <2>2. UNCHANGED rows /\ channels' \subseteq channels \cup {Handle(v)}
      BY <1>4 DEF Promote, pool
    <2> QED
      BY <1>0, <1>1, <1>2, <2>1, <2>2, RestKept DEF SettledRests
  <1>5. CASE UNCHANGED <<rows, channels>>
    BY <1>0, <1>1, <1>2, <1>5, RestKept DEF SettledRests
  <1> QED
    BY <1>3, <1>4, <1>5
    DEF ValidatorStep, Trigger, Check, NothingToDo, Fetch, StartRun, Connect, ConnectFails,
        Interrupted, Finish, pool

LEMMA CrawlerRest ==
  ASSUME SettledInv, NEW c \in Crawlers,
         CrawlerRun(c) \/ TriggerCrawl(c) \/ \E handle \in Handles : Upsert(c, handle)
  PROVE  SettledRests'
  <1>0. PoolInv /\ TypeOK /\ FreshRows /\ SettledRests
    BY DEF SettledInv, PoolInv
  <1>1. UNCHANGED <<channels, run, settled>>
    BY DEF CrawlerRun, TriggerCrawl, CheckCrawl, NoSeeds, StartCrawl, EndCrawl, Upsert,
           validation, history
  <1>2. InHand' = InHand
    BY <1>1 DEF InHand
  <1>3. \A id \in RowId : rows[id] # NoRow => rows'[id] = rows[id]
    <2>1. CASE \E handle \in Handles : Upsert(c, handle)
      <3>1. nextRow \in RowId /\ rows[nextRow] = NoRow
        BY <1>0, <2>1, DiscoveryAssumption DEF Upsert, TypeOK, FreshRows, RowId
      <3> QED
        BY <1>0, <2>1, <3>1 DEF Upsert, Discovered, TypeOK
    <2>2. CASE CrawlerRun(c) \/ TriggerCrawl(c)
      BY <2>2 DEF CrawlerRun, TriggerCrawl, CheckCrawl, NoSeeds, StartCrawl, EndCrawl, pool
    <2> QED
      BY <2>1, <2>2
  <1> QED
    BY <1>0, <1>1, <1>2, <1>3, RestKept DEF SettledRests, NoRow

LEMMA OperatorRest ==
  ASSUME SettledInv, Operate \/ Crash \/ UNCHANGED vars
  PROVE  SettledRests'
  <1>0. PoolInv /\ TypeOK /\ SettledRests
    BY DEF SettledInv, PoolInv
  <1>1. ASSUME UNCHANGED <<rows, run>>, settled' \subseteq settled,
               \A h \in settled' : h \notin channels'
        PROVE  SettledRests'
    BY <1>0, <1>1, RestKept DEF SettledRests, InHand
  <1>2. ASSUME NEW id \in RowId, Reprobe(id) PROVE SettledRests'
    <2>1. UNCHANGED <<channels, run>> /\ settled' = settled \ {rows[id].handle}
      BY <1>2 DEF Reprobe, validation
    <2>2. \A i \in RowId \ {id} : rows'[i] = rows[i]
      BY <1>0, <1>2, MarkedRows DEF Reprobe, Verdict
    <2> QED
      BY <1>0, <2>1, <2>2, RestKept DEF SettledRests, InHand
  <1>3. ASSUME NEW handle \in Handles, Configure(handle) PROVE SettledRests'
    BY <1>0, <1>1, <1>3 DEF Configure, pool, validation, SettledRests
  <1>4. ASSUME NEW ids \in SUBSET RowId, Drop(ids) PROVE SettledRests'
    <2>1. UNCHANGED <<channels, run>> /\ settled' = settled \ {rows[i].handle : i \in ids}
      BY <1>4 DEF Drop, validation
    <2>2. \A i \in RowId \ ids : rows'[i] = rows[i]
      BY <1>4 DEF Drop
    <2> QED
      BY <1>0, <2>1, <2>2, RestKept DEF SettledRests, InHand
  <1>5. ASSUME NEW handle \in Handles, RemoveChannel(handle) PROVE SettledRests'
    <2>1. UNCHANGED <<rows, run>> /\ channels' = channels \ {handle}
      BY <1>5 DEF RemoveChannel, pool, validation
    <2>2. \A h \in settled' : h \in settled \/ (h = handle /\ h \notin InHand /\ \E id \in RowId :
             rows[id].handle = h /\ HasStatus(id, "VALIDATED_HAS_DISCUSSION"))
      BY <1>5 DEF RemoveChannel
    <2> QED
      BY <1>0, <2>1, <2>2 DEF SettledRests, InHand, HasStatus
  <1>6. CASE Operate
    <2>1. ASSUME NEW handle \in Handles, ForcePromote(handle) PROVE SettledRests'
      BY <1>3, <2>1 DEF ForcePromote
    <2>2. ASSUME NEW id \in RowId, DeleteRow(id) PROVE SettledRests'
      BY <1>4, <2>2 DEF DeleteRow
    <2>3. ASSUME NEW handle \in Handles, Import(handle) PROVE SettledRests'
      BY <1>3, <2>3 DEF Import
    <2>4. CASE PurgeDisqualified
      BY <1>4, <2>4 DEF PurgeDisqualified
    <2> QED
      BY <1>2, <1>5, <1>6, <2>1, <2>2, <2>3, <2>4 DEF Operate
  <1>7. CASE Crash
    <2>1. InHand' = {}
      BY <1>7, EmptyBatch DEF Crash, InHand, NoRun
    <2> QED
      BY <1>0, <1>7, <2>1, RestKept DEF Crash, pool, SettledRests
  <1>8. CASE UNCHANGED vars
    BY <1>0, <1>1, <1>8 DEF vars, pool, validation, history, SettledRests
  <1> QED
    BY <1>6, <1>7, <1>8

LEMMA NextSettled == SettledInv /\ [Next]_vars => SettledInv'
  <1> SUFFICES ASSUME SettledInv, [Next]_vars PROVE SettledRests'
    BY NextPool DEF SettledInv
  <1>1. ASSUME NEW v \in Validators, ValidatorStep(v) \/ \E single \in RowId \cup {0} : Trigger(v, single)
        PROVE  SettledRests'
    BY <1>1, ValidatorRest
  <1> QED
    BY <1>1, CrawlerRest, OperatorRest DEF Next

\* A validated channel that was pruned or deleted does not come back by
\* itself, for any number of runs that overlap, crawls, crashes and faults: no
\* run holds it, no crawl inserts it, and nothing resets its row.
THEOREM SettledStays == Spec => SettledStaysOut
  <1>1. Init => SettledInv
    BY InitPool DEF Init, SettledInv, SettledRests
  <1>2. SettledInv /\ [Next]_vars => [\A h \in settled : h \in channels' => h \notin settled']_vars
    BY NextSettled DEF SettledInv, SettledRests
  <1> QED
    BY <1>1, <1>2, NextSettled, PTL DEF Spec, SettledStaysOut

-----------------------------------------------------------------------------
(* A validated row has its channel *)

\* Enough to keep it: what is VALIDATED was so before, and what its channel
\* or a fault owed to it is still there.
LEMMA PromotedKept ==
  ASSUME ValidatedWasPromoted,
         \A id \in RowId : rows'[id].status = "VALIDATED_HAS_DISCUSSION" =>
            /\ rows[id].status = "VALIDATED_HAS_DISCUSSION" /\ rows'[id].handle = rows[id].handle
            /\ rows[id].handle \in channels \cup removed => rows[id].handle \in channels' \cup removed'
            /\ id \in cut \cup Promoting =>
                  \/ id \in cut' \cup Promoting'
                  \/ rows[id].handle \in channels' \cup removed'
  PROVE  ValidatedWasPromoted'
  BY DEF ValidatedWasPromoted, HasStatus

\* A run at any other step does not touch what is between two transactions.
LEMMA OthersPromote ==
  ASSUME NEW v \in Validators, \A w \in Validators \ {v} : run'[w] = run[w]
  PROVE  /\ run[v].at # "promote" => Promoting \subseteq Promoting'
         /\ Promoting \subseteq Promoting' \cup {Id(v)}
         /\ run'[v].at = "promote" => Id(v)' \in Promoting'
  BY DEF Promoting, Id

LEMMA OneRunMoves ==
  ASSUME TypeOK, NEW v \in Validators,
         ValidatorStep(v) \/ \E single \in RowId \cup {0} : Trigger(v, single)
  PROVE  \A w \in Validators \ {v} : run'[w] = run[w]
  BY DEF ValidatorStep, Trigger, Check, NothingToDo, Fetch, StartRun, Connect, ConnectFails,
         Attempt, Validate, Promote, Disqualify, Interrupted, Finish, Move, NextTarget, TypeOK

LEMMA ValidatorPromotes ==
  ASSUME PromotedInv, NEW v \in Validators,
         ValidatorStep(v) \/ \E single \in RowId \cup {0} : Trigger(v, single)
  PROVE  ValidatedWasPromoted'
  <1>0. PoolInv /\ TypeOK /\ ValidatedWasPromoted
    BY DEF PromotedInv, PoolInv
  <1>1. \A w \in Validators \ {v} : run'[w] = run[w]
    BY <1>0, OneRunMoves
  <1>2. CASE Attempt(v)
    <2>1. Id(v) \in RowId
      BY <1>0, <1>2, Target DEF Attempt
    <2>2. \A id \in RowId : rows'[id].status = rows[id].status
                            /\ (rows[id] # NoRow => rows'[id].handle = rows[id].handle)
      BY <1>0, <1>2, <2>1, AttemptedRows DEF Attempt
    <2>3. Promoting \subseteq Promoting' /\ UNCHANGED <<channels, removed, cut>>
      BY <1>1, <1>2, OthersPromote DEF Attempt, history
    <2> QED
      BY <1>0, <2>2, <2>3, PromotedKept DEF NoRow
  <1>3. CASE Validate(v)
    <2>1. Id(v) \in RowId
      BY <1>0, <1>3, Target DEF Validate, PoolInv, AtTarget
    <2>2. Promoting \subseteq Promoting' /\ UNCHANGED <<channels, removed, cut>>
      BY <1>1, <1>3, OthersPromote DEF Validate, history
    <2>3. CASE UNCHANGED rows
      BY <1>0, <2>2, <2>3, PromotedKept
    <2>4. CASE rows' = Marked(Id(v), "VALIDATED_HAS_DISCUSSION") /\ Move(v, "promote")
      <3>1. Id(v) \in Promoting'
        <4>1. run'[v].at = "promote" /\ run'[v].batch = run[v].batch
          BY <1>0, <2>4, EntryType DEF Move, TypeOK, Run
        <4> QED
          BY <4>1 DEF Promoting, Id
      <3>2. \A id \in RowId \ {Id(v)} : rows'[id] = rows[id]
        BY <1>0, <2>1, <2>4, MarkedRows DEF Verdict
      <3> QED
        BY <1>0, <2>2, <3>1, <3>2 DEF ValidatedWasPromoted, HasStatus
    <2> QED
      BY <1>3, <2>3, <2>4 DEF Validate
  <1>4. CASE Promote(v)
    <2>1. rows[Id(v)] # NoRow => rows[Id(v)].handle = Handle(v)
      BY <1>0, <1>4, Target DEF Promote, PoolInv, AtTarget
    <2>2. Promoting \subseteq Promoting' \cup {Id(v)} /\ UNCHANGED <<rows, removed>>
      BY <1>1, <1>4, OthersPromote DEF Promote, pool
    <2>3. \/ channels' = channels \cup {Handle(v)} /\ cut' = cut
          \/ channels' = channels /\ cut' = cut \cup {Id(v)}
      BY <1>4 DEF Promote
    <2> QED
      BY <1>0, <2>1, <2>2, <2>3, PromotedKept DEF NoRow
  <1>5. CASE Disqualify(v)
    <2>1. Id(v) \in RowId
      BY <1>0, <1>5, Target DEF Disqualify, PoolInv, AtTarget
    <2>2. Promoting \subseteq Promoting' /\ UNCHANGED <<channels, removed, cut>>
      BY <1>1, <1>5, OthersPromote DEF Disqualify, history
    <2>3. rows' = Marked(Id(v), "DISQUALIFIED_NO_DISCUSSION") \/ UNCHANGED rows
      BY <1>5 DEF Disqualify
    <2>4. \A id \in RowId : rows'[id].status = "VALIDATED_HAS_DISCUSSION" => rows'[id] = rows[id]
      BY <1>0, <2>1, <2>3, MarkedRows DEF Verdict, NoRow
    <2> QED
      BY <1>0, <2>2, <2>4, PromotedKept
  <1>6. CASE UNCHANGED <<rows, channels, removed, cut>> /\ run[v].at # "promote"
    BY <1>0, <1>1, <1>6, OthersPromote, PromotedKept
  <1> QED
    BY <1>2, <1>3, <1>4, <1>5, <1>6
    DEF ValidatorStep, Trigger, Check, NothingToDo, Fetch, StartRun, Connect, ConnectFails,
        Interrupted, Finish, pool, history

LEMMA CrawlerPromotes ==
  ASSUME PromotedInv, NEW c \in Crawlers,
         CrawlerRun(c) \/ TriggerCrawl(c) \/ \E handle \in Handles : Upsert(c, handle)
  PROVE  ValidatedWasPromoted'
  <1>0. PoolInv /\ TypeOK /\ ValidatedWasPromoted
    BY DEF PromotedInv, PoolInv
  <1>1. UNCHANGED <<channels, run, removed, cut>>
    BY DEF CrawlerRun, TriggerCrawl, CheckCrawl, NoSeeds, StartCrawl, EndCrawl, Upsert,
           validation, history
  <1>2. Promoting' = Promoting
    BY <1>1 DEF Promoting, Id
  <1>3. \A id \in RowId : rows'[id].status = "VALIDATED_HAS_DISCUSSION" => rows'[id] = rows[id]
    BY <1>0 DEF CrawlerRun, TriggerCrawl, CheckCrawl, NoSeeds, StartCrawl, EndCrawl, pool,
                Upsert, Discovered, TypeOK
  <1> QED
    BY <1>0, <1>1, <1>2, <1>3, PromotedKept

LEMMA OperatorPromotes ==
  ASSUME PromotedInv, Operate \/ Crash \/ UNCHANGED vars
  PROVE  ValidatedWasPromoted'
  <1>0. PoolInv /\ TypeOK /\ ValidatedWasPromoted
    BY DEF PromotedInv, PoolInv
  <1>1. ASSUME run' = run PROVE Promoting' = Promoting
    BY <1>1 DEF Promoting, Id
  <1>2. ASSUME NEW id \in RowId, Reprobe(id) PROVE ValidatedWasPromoted'
    <2>1. UNCHANGED <<channels, removed, run>> /\ cut' = cut \ {id}
      BY <1>2 DEF Reprobe, validation
    <2>2. /\ \A i \in RowId \ {id} : rows'[i] = rows[i]
          /\ rows'[id].status # "VALIDATED_HAS_DISCUSSION"
      BY <1>0, <1>2, MarkedRows DEF Reprobe, Verdict
    <2> QED
      BY <1>0, <1>1, <2>1, <2>2, PromotedKept
  <1>3. ASSUME NEW handle \in Handles, Configure(handle) PROVE ValidatedWasPromoted'
    <2>1. UNCHANGED <<rows, run>>
      BY <1>3 DEF Configure, pool, validation
    <2> QED
      BY <1>0, <1>1, <1>3, <2>1, PromotedKept DEF Configure, NoRow
  <1>4. ASSUME NEW ids \in SUBSET RowId, Drop(ids) PROVE ValidatedWasPromoted'
    <2>1. UNCHANGED <<channels, removed, run>> /\ cut' = cut \ ids
      BY <1>4 DEF Drop, validation
    <2>2. \A i \in RowId : rows'[i].status = "VALIDATED_HAS_DISCUSSION" => i \notin ids /\ rows'[i] = rows[i]
      BY <1>4 DEF Drop, NoRow
    <2> QED
      BY <1>0, <1>1, <2>1, <2>2, PromotedKept
  <1>5. ASSUME NEW handle \in Handles, RemoveChannel(handle) PROVE ValidatedWasPromoted'
    BY <1>0, <1>1, <1>5, PromotedKept DEF RemoveChannel, pool, validation
  <1>6. CASE Operate
    <2>1. ASSUME NEW handle \in Handles, ForcePromote(handle) PROVE ValidatedWasPromoted'
      BY <1>3, <2>1 DEF ForcePromote
    <2>2. ASSUME NEW id \in RowId, DeleteRow(id) PROVE ValidatedWasPromoted'
      BY <1>4, <2>2 DEF DeleteRow
    <2>3. ASSUME NEW handle \in Handles, Import(handle) PROVE ValidatedWasPromoted'
      BY <1>3, <2>3 DEF Import
    <2>4. CASE PurgeDisqualified
      BY <1>4, <2>4 DEF PurgeDisqualified
    <2> QED
      BY <1>2, <1>5, <1>6, <2>1, <2>2, <2>3, <2>4 DEF Operate
  <1>7. CASE Crash
    BY <1>0, <1>7, PromotedKept DEF Crash, pool
  <1>8. CASE UNCHANGED vars
    BY <1>0, <1>1, <1>8, PromotedKept DEF vars, pool, validation, history
  <1> QED
    BY <1>6, <1>7, <1>8

LEMMA NextPromoted == PromotedInv /\ [Next]_vars => PromotedInv'
  <1> SUFFICES ASSUME PromotedInv, [Next]_vars PROVE ValidatedWasPromoted'
    BY NextPool DEF PromotedInv
  <1>1. ASSUME NEW v \in Validators, ValidatorStep(v) \/ \E single \in RowId \cup {0} : Trigger(v, single)
        PROVE  ValidatedWasPromoted'
    BY <1>1, ValidatorPromotes
  <1> QED
    BY <1>1, CrawlerPromotes, OperatorPromotes DEF Next

\* Every channel the validator accepts gets to target_channels, for any number
\* of runs and rows and under every fault; only a crash or a database error
\* between the two transactions leaves a row without its channel.
THEOREM ValidatedPromoted == Spec => []ValidatedWasPromoted
  <1>1. Init => PromotedInv
    BY InitPool DEF Init, PromotedInv, ValidatedWasPromoted, HasStatus, NoRow
  <1>2. PromotedInv => ValidatedWasPromoted
    BY DEF PromotedInv
  <1> QED
    BY <1>1, <1>2, NextPromoted, PTL DEF Spec

-----------------------------------------------------------------------------
(* "already running" *)

LEMMA NextFlag ==
  ASSUME TypeOK, FlagIsTrue, [Next]_vars, "session" \notin Faults
  PROVE  FlagIsTrue'
  <1> SUFFICES ASSUME running' PROVE \E w \in Validators : Started(w)'
    BY DEF FlagIsTrue
  <1>1. ASSUME NEW v \in Validators, StartRun(v)
        PROVE  \E w \in Validators : Started(w)'
    <2>1. run'[v].at = "connect"
      BY <1>1 DEF StartRun, Move, TypeOK, Run
    <2> QED
      BY <2>1 DEF Started
  <1>2. ASSUME NEW v \in Validators, ~Started(v), running' = running,
               \A w \in Validators \ {v} : run'[w] = run[w]
        PROVE  \E w \in Validators : Started(w)'
    BY <1>2 DEF FlagIsTrue, Started
  <1>3. ASSUME NEW v \in Validators, running' = running,
               \A w \in Validators \ {v} : run'[w] = run[w],
               run'[v].at \in {"attempt", "probe", "promote", "ending"}
        PROVE  \E w \in Validators : Started(w)'
    BY <1>3 DEF Started
  <1>4. ASSUME running' = running, run' = run
        PROVE  \E w \in Validators : Started(w)'
    BY <1>4 DEF FlagIsTrue, Started
  <1>5. ASSUME NEW v \in Validators, ValidatorStep(v)
        PROVE  \E w \in Validators : Started(w)'
    <2>1. CASE Check(v) \/ Fetch(v)
      BY <1>2, <2>1 DEF Check, Fetch, Started, TypeOK
    <2>2. CASE NothingToDo(v)
      BY <1>2, <2>2 DEF NothingToDo, Started, TypeOK
    <2>3. CASE Connect(v) \/ ConnectFails(v) \/ Attempt(v) \/ Validate(v) \/ Interrupted(v)
      BY <1>3, <2>3 DEF Connect, ConnectFails, Attempt, Validate, Interrupted, Move, crawls,
                        TypeOK, Run
    <2>4. CASE Promote(v) \/ Disqualify(v)
      BY <1>3, <2>4 DEF Promote, Disqualify, Move, NextTarget, TypeOK, Run
    <2>5. ~Finish(v)
      BY DEF Finish
    <2> QED
      BY <1>1, <1>5, <2>1, <2>2, <2>3, <2>4, <2>5 DEF ValidatorStep
  <1>6. ASSUME NEW v \in Validators, NEW single \in RowId \cup {0}, Trigger(v, single)
        PROVE  FALSE
    BY <1>6 DEF Trigger
  <1>7. ASSUME NEW c \in Crawlers,
               CrawlerRun(c) \/ TriggerCrawl(c) \/ \E handle \in Handles : Upsert(c, handle)
        PROVE  \E w \in Validators : Started(w)'
    BY <1>4, <1>7 DEF CrawlerRun, TriggerCrawl, CheckCrawl, NoSeeds, StartCrawl, EndCrawl, Upsert,
                      validation
  <1>8. CASE Operate
    BY <1>4, <1>8 DEF Operate, Reprobe, ForcePromote, DeleteRow, Import, RemoveChannel,
                      PurgeDisqualified, Configure, Drop, validation
  <1>9. CASE Crash
    BY <1>9 DEF Crash
  <1>10. CASE UNCHANGED vars
    BY <1>4, <1>10 DEF vars, validation
  <1> QED
    BY <1>5, <1>6, <1>7, <1>8, <1>9, <1>10 DEF Next

\* Where create_client does not raise, "already running" is said of a run that
\* is there: for any number of threads, crashes and database errors, and
\* though runs overlap. A session string that cannot be used is the one cause
\* of a flag that stays up for nothing.
THEOREM FlagTells == "session" \notin Faults => (Spec => []FlagIsTrue)
  <1> SUFFICES ASSUME "session" \notin Faults PROVE Spec => []FlagIsTrue
    OBVIOUS
  <1>1. Init => FlagIsTrue
    BY DEF Init, FlagIsTrue
  <1>2. TypeOK /\ FlagIsTrue /\ [Next]_vars => FlagIsTrue'
    BY NextFlag
  <1> QED
    BY <1>1, <1>2, TypeCorrect, PTL DEF Spec

=============================================================================
