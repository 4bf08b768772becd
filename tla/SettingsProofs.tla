--------------------------- MODULE SettingsProofs ---------------------------
(* Proofs about Settings, for every value of its constants. *)
EXTENDS Settings, FiniteSetTheorems, SequenceTheorems, TLAPS

-----------------------------------------------------------------------------
(* Type correctness *)

LEMMA Defaults == Empty \in Table /\ NoCache \notin Table
  BY SettingsAssumption DEF Empty, Table

\* What a reader is before, at the start of and after a form.
Thread == [at : {"idle", "check", "select", "assign", "return", "raised"},
           todo : SUBSET Form, loaded : Table, got : Table]
Started == [NoRead EXCEPT !.at = "check", !.todo = Form]
Failed == [NoRead EXCEPT !.at = "raised"]

LEMMA Resting ==
  /\ NoRead \in Thread /\ NoRead.at = "idle"
  /\ Started \in Thread /\ Started.at = "check" /\ Started.todo = Form
  /\ Failed \in Thread /\ Failed.at = "raised"
  BY Defaults DEF NoRead, Started, Failed, Thread

\* The form of a request is a sequence that holds something.
LEMMA FormOrder ==
  ASSUME NEW keys \in (SUBSET Form) \ {{}}, NEW value \in [keys -> Values],
         NEW order \in SetToSeqs(keys)
  PROVE  LET todo == [i \in DOMAIN order |-> <<order[i], value[order[i]]>>]
         IN todo \in Seq(Form \X Values) /\ todo # << >>
  <1>1. IsFiniteSet(keys)
    BY SettingsAssumption, FS_Subset DEF Form
  <1>2. Cardinality(keys) \in Nat /\ Cardinality(keys) # 0
    BY <1>1, FS_CardinalityType, FS_EmptySet
  <1>3. order \in [1 .. Cardinality(keys) -> keys]
    BY DEF SetToSeqs
  <1> DEFINE todo == [i \in DOMAIN order |-> <<order[i], value[order[i]]>>]
  <1>4. \A i \in 1 .. Cardinality(keys) : todo[i] \in Form \X Values
    BY <1>3
  <1>5. todo \in [1 .. Cardinality(keys) -> Form \X Values]
    BY <1>3, <1>4
  <1>6. todo \in Seq(Form \X Values) /\ Len(todo) = Cardinality(keys)
    BY <1>2, <1>5
  <1> QED
    BY <1>2, <1>6

\* Where a reader is when one more setting has been returned, or none.
LEMMA ReturnStep ==
  ASSUME TypeOK, NEW r \in Readers, Return(r)
  PROVE  \E after \in Thread :
            /\ read' = [read EXCEPT ![r] = after]
            /\ after.at \in {"idle", "check", "raised"} /\ (after.at = "check" => after.todo # {})
  <1>1. CASE cache = NoCache
    BY <1>1, Resting DEF Return, Failed
  <1>2. CASE cache # NoCache
    <2>1. PICK key \in read[r].todo :
            LET left == read[r].todo \ {key}
            IN read' = [read EXCEPT ![r].got[key] = cache[key], ![r].todo = left,
                                    ![r].loaded = Empty,
                                    ![r].at = IF left = {} THEN "idle" ELSE "check"]
      BY <1>2 DEF Return
    <2> DEFINE left == read[r].todo \ {key}
               after == [at |-> IF left = {} THEN "idle" ELSE "check", todo |-> left,
                         loaded |-> Empty, got |-> [read[r].got EXCEPT ![key] = cache[key]]]
    <2>2. [read[r].got EXCEPT ![key] = cache[key]] \in Table
      BY <1>2, <2>1 DEF TypeOK, Table, Form
    <2>3. after \in Thread
      BY <2>2, Defaults DEF TypeOK, Thread
    <2>4. read' = [read EXCEPT ![r] = after]
      BY <2>1 DEF TypeOK
    <2>5. after.at \in {"idle", "check"} /\ (after.at = "check" => after.todo # {})
      OBVIOUS
    <2> QED
      BY <2>3, <2>4, <2>5
  <1> QED
    BY <1>1, <1>2

LEMMA ReadType ==
  ASSUME TypeOK, NEW r \in Readers, Get(r) \/ Reading(r)
  PROVE  TypeOK'
  <1>1. CASE Get(r)
    <2>1. read' = [read EXCEPT ![r] = Started]
      BY <1>1 DEF Get, Started
    <2> QED
      BY <1>1, <2>1, Resting DEF Get, TypeOK, Thread
  <1>2. CASE Check(r)
    BY <1>2 DEF Check, TypeOK
  <1>3. CASE Select(r)
    BY <1>3 DEF Select, TypeOK
  <1>4. CASE SelectFails(r)
    BY <1>4, Defaults DEF SelectFails, TypeOK
  <1>5. CASE Assign(r)
    BY <1>5 DEF Assign, TypeOK
  <1>6. CASE Return(r)
    <2>1. PICK after \in Thread :
            /\ read' = [read EXCEPT ![r] = after]
            /\ after.at \in {"idle", "check", "raised"} /\ (after.at = "check" => after.todo # {})
      BY <1>6, ReturnStep
    <2> QED
      BY <1>6, <2>1 DEF Return, TypeOK, Thread
  <1>7. CASE Answer500(r)
    BY <1>7, Resting DEF Answer500, TypeOK, Thread
  <1> QED
    BY <1>1, <1>2, <1>3, <1>4, <1>5, <1>6, <1>7 DEF Reading

LEMMA SaveType ==
  ASSUME TypeOK, Save \/ Upsert \/ UpsertFails \/ SaveInvalidates \/ SaveEnds
  PROVE  TypeOK'
  <1>1. CASE Save
    <2>1. PICK keys \in (SUBSET Form) \ {{}} :
            \E value \in [keys -> Values] : \E order \in SetToSeqs(keys) :
               save' = [at |-> "upsert", before |-> stored,
                        todo |-> [i \in DOMAIN order |-> <<order[i], value[order[i]]>>]]
      BY <1>1 DEF Save
    <2>4. PICK value \in [keys -> Values], order \in SetToSeqs(keys) :
            save' = [at |-> "upsert", before |-> stored,
                     todo |-> [i \in DOMAIN order |-> <<order[i], value[order[i]]>>]]
      BY <2>1
    <2> DEFINE todo == [i \in DOMAIN order |-> <<order[i], value[order[i]]>>]
    <2>2. todo \in Seq(Form \X Values) /\ todo # << >>
      BY FormOrder
    <2> HIDE DEF todo
    <2>3. save' = [at |-> "upsert", before |-> stored, todo |-> todo]
      BY <2>4 DEF todo
    <2> QED
      BY <1>1, <2>2, <2>3 DEF Save, TypeOK
  <1>2. CASE Upsert
    <2>1. Head(save.todo) \in Form \X Values
      BY <1>2 DEF Upsert, TypeOK
    <2> QED
      BY <1>2, <2>1 DEF Upsert, TypeOK, Table, Form
  <1>3. CASE UpsertFails
    BY <1>3 DEF UpsertFails, TypeOK
  <1>4. CASE SaveInvalidates
    <2>1. save.todo \in Seq(Form \X Values) /\ save.todo # << >>
      BY <1>4 DEF SaveInvalidates, TypeOK
    <2>2. Len(save.todo) # 1 => Tail(save.todo) \in Seq(Form \X Values) /\ Tail(save.todo) # << >>
      <3>1. Tail(save.todo) \in Seq(Form \X Values) /\ Len(Tail(save.todo)) = Len(save.todo) - 1
        BY <2>1, HeadTailProperties
      <3>2. Len(save.todo) \in Nat /\ Len(<< >>) = 0
        BY <2>1
      <3>3. Len(save.todo) # 1 => Len(Tail(save.todo)) # 0
        BY <3>1, <3>2
      <3> QED
        BY <3>1, <3>2, <3>3
    <2>3. NoSave \in [at : {"idle", "upsert", "invalidate", "failed"},
                      todo : Seq(Form \X Values), before : Table]
      BY Defaults DEF NoSave
    <2>4. save' \in [at : {"idle", "upsert", "invalidate", "failed"},
                     todo : Seq(Form \X Values), before : Table]
      BY <1>4, <2>2, <2>3 DEF SaveInvalidates, TypeOK
    <2>5. save'.at \in {"upsert", "invalidate"} => save'.todo # << >>
      BY <1>4, <2>2 DEF SaveInvalidates, NoSave, TypeOK
    <2> QED
      BY <1>4, <2>4, <2>5 DEF SaveInvalidates, Invalidate, TypeOK
  <1>5. CASE SaveEnds
    BY <1>5, Defaults DEF SaveEnds, NoSave, TypeOK
  <1> QED
    BY <1>1, <1>2, <1>3, <1>4, <1>5

LEMMA ReloadType ==
  ASSUME TypeOK, NEW u \in Reloads,
         (\E value \in Values : SetFlag(u, value)) \/ SetFlagFails(u) \/ FlagInvalidates(u)
  PROVE  TypeOK'
  <1>1. CASE \E value \in Values : SetFlag(u, value)
    BY <1>1, SettingsAssumption DEF SetFlag, TypeOK, Table
  <1>2. CASE SetFlagFails(u)
    BY <1>2 DEF SetFlagFails, TypeOK
  <1>3. CASE FlagInvalidates(u)
    BY <1>3 DEF FlagInvalidates, Invalidate, TypeOK
  <1> QED
    BY <1>1, <1>2, <1>3

\* Table, cache and requests have their types, whatever fails and however
\* many threads there are.
THEOREM TypeCorrect == Spec => []TypeOK
  <1>1. Init => TypeOK
    <2> SUFFICES ASSUME Init
                 PROVE  TypeOK
      OBVIOUS
    <2>1. save.at = "idle" /\ save \in [at : {"idle", "upsert", "invalidate", "failed"},
                                       todo : Seq(Form \X Values), before : Table]
      BY Defaults DEF Init, NoSave
    <2> QED
      BY <2>1, Defaults, Resting DEF Init, TypeOK, Thread
  <1>2. TypeOK /\ [Next]_vars => TypeOK'
    <2>1. CASE UNCHANGED vars
      BY <2>1 DEF vars, TypeOK
    <2> QED
      BY <2>1, ReadType, SaveType, ReloadType DEF Next
  <1> QED
    BY <1>1, <1>2, PTL DEF Spec

-----------------------------------------------------------------------------
(* The cache *)

\* No request is between its write and its invalidation.
Quiet == save.at # "invalidate" /\ \A u \in Reloads : reload[u] = "idle"

\* StaleHasCause is not inductive: a reader may hold what it is about to put
\* into the cache. Nor can it have loaded anything else than the table: it
\* would have loaded before a write whose invalidation came, and overlapped
\* it.
CacheInv ==
    raced \/ (Quiet => /\ cache \in {NoCache, stored}
                       /\ \A r \in Readers : read[r].at = "assign" => read[r].loaded = stored)

\* After an invalidation nothing is cached and, unless the two overlapped, no
\* reader holds what it loaded before.
LEMMA InvalidateCache ==
  ASSUME Invalidate, read' = read
  PROVE  CacheInv'
  BY DEF Invalidate, CacheInv

LEMMA ReadCache ==
  ASSUME TypeOK, CacheInv, NEW r \in Readers, Get(r) \/ Reading(r)
  PROVE  CacheInv'
  <1>1. Quiet' <=> Quiet
    BY DEF Get, Reading, Check, Select, SelectFails, Assign, Return, Answer500, Quiet
  <1>2. raced => raced'
    BY DEF Get, Reading, Check, Select, SelectFails, Assign, Return, Answer500
  <1>3. CASE Select(r)
    BY <1>1, <1>3 DEF Select, CacheInv, TypeOK
  <1>4. CASE SelectFails(r)
    BY <1>4 DEF SelectFails, CacheInv
  <1>5. CASE Assign(r)
    BY <1>1, <1>5 DEF Assign, CacheInv, TypeOK
  <1>6. CASE Get(r) \/ Check(r) \/ Return(r) \/ Answer500(r)
    <2>1. read'[r].at # "assign" /\ \A q \in Readers \ {r} : read'[q] = read[q]
      <3>1. CASE Get(r) \/ Answer500(r)
        <4>1. read' = [read EXCEPT ![r] = Started] \/ read' = [read EXCEPT ![r] = NoRead]
          BY <3>1 DEF Get, Answer500, Started
        <4> QED
          BY <4>1, Resting DEF TypeOK
      <3>2. CASE Check(r)
        BY <3>2 DEF Check, TypeOK
      <3>3. CASE Return(r)
        BY <3>3, ReturnStep DEF TypeOK
      <3> QED
        BY <1>6, <3>1, <3>2, <3>3
    <2> QED
      BY <1>1, <1>6, <2>1 DEF Get, Check, Return, Answer500, CacheInv
  <1> QED
    BY <1>3, <1>4, <1>5, <1>6 DEF Reading

LEMMA SaveCache ==
  ASSUME TypeOK, CacheInv, Save \/ Upsert \/ UpsertFails \/ SaveInvalidates \/ SaveEnds
  PROVE  CacheInv'
  <1>1. CASE Upsert
    BY <1>1 DEF Upsert, CacheInv, Quiet, TypeOK
  <1>2. CASE SaveInvalidates
    BY <1>2, InvalidateCache DEF SaveInvalidates
  <1>3. CASE Save \/ UpsertFails \/ SaveEnds
    <2>1. Quiet' => Quiet
      BY <1>3 DEF Save, UpsertFails, SaveEnds, Quiet
    <2> QED
      BY <1>3, <2>1 DEF Save, UpsertFails, SaveEnds, CacheInv
  <1> QED
    BY <1>1, <1>2, <1>3

LEMMA ReloadCache ==
  ASSUME TypeOK, CacheInv, NEW u \in Reloads,
         (\E value \in Values : SetFlag(u, value)) \/ SetFlagFails(u) \/ FlagInvalidates(u)
  PROVE  CacheInv'
  <1>1. CASE (\E value \in Values : SetFlag(u, value)) \/ SetFlagFails(u)
    <2>1. reload'[u] = "invalidate" /\ raced' = raced
      BY <1>1 DEF SetFlag, SetFlagFails, TypeOK
    <2> QED
      BY <2>1 DEF CacheInv, Quiet
  <1>2. CASE FlagInvalidates(u)
    BY <1>2, InvalidateCache DEF FlagInvalidates
  <1> QED
    BY <1>1, <1>2

\* Whatever the number of threads, keys and values: a cache that is not the
\* table, with no save or reload under way, has met the one race there is
\* or a failed load.
THEOREM StaleCause == Spec => []StaleHasCause
  <1>1. Init => CacheInv
    BY DEF Init, CacheInv, NoRead
  <1>2. TypeOK /\ CacheInv /\ [Next]_vars => CacheInv'
    <2>1. CASE UNCHANGED vars
      BY <2>1 DEF vars, CacheInv, Quiet
    <2> QED
      BY <2>1, ReadCache, SaveCache, ReloadCache DEF Next
  <1>3. CacheInv => StaleHasCause
    BY DEF CacheInv, Quiet, StaleHasCause
  <1> QED
    BY <1>1, <1>2, <1>3, TypeCorrect, PTL DEF Spec

=============================================================================
