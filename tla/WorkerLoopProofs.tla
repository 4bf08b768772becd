-------------------------- MODULE WorkerLoopProofs --------------------------
(***************************************************************************)
(* Theorems about WorkerLoop: its types, with the failure counter below    *)
(* the threshold wherever the loop goes on, and the heartbeat.             *)
(***************************************************************************)
EXTENDS WorkerLoop, TLAPS

-----------------------------------------------------------------------------
(* Types and the breaker's counter *)

\* Places the loop reaches only with the breaker's threshold unmet.
Going == Place \ {"down", "failed", "trip", "stopping"}

\* LoopTypeOK alone is not inductive: that the counter stays below the
\* threshold is decided in Judge, two steps before "process", and the counter
\* of the history is bounded by the code's.
CounterInv ==
    /\ LoopTypeOK
    /\ pc \in Going => failures < Threshold
    /\ streak <= failures

LEMMA SettingType ==
  ASSUME NEW copy \in Settings
  PROVE  Setting(copy) \in Values
  BY LoopAssumption DEF Setting, Settings

LEMMA CounterInit == Init => CounterInv
  <1>1. NoFlag \in Settings
    BY DEF NoFlag, Settings
  <1>2. 0 \in 0 .. Threshold /\ Default \in Values
    BY LoopAssumption
  <1>3. Init => LoopTypeOK
    BY <1>1, <1>2 DEF Init, LoopTypeOK, Place
  <1> QED
    BY <1>3 DEF Init, CounterInv, Going

\* The boot, and the ways out.
LEMMA CounterBoot ==
  ASSUME CounterInv, Start \/ Announce \/ BootSweep \/ BootSeed \/ LeaveLoop \/ Exit \/ Trip
  PROVE  CounterInv'
  <1>1. CASE Start
    <2>1. cache' \in Settings
      BY <1>1 DEF Start, CounterInv, LoopTypeOK, Settings, NoFlag, NotSet
    <2>2. using' \in Values
      BY <1>1, <2>1, SettingType DEF Start
    <2>3. streak' = 0 /\ failures' = 0 /\ 0 < Threshold
      BY <1>1, LoopAssumption DEF Start
    <2> QED
      BY <1>1, <2>1, <2>2, <2>3, LoopAssumption DEF Start, CounterInv, LoopTypeOK, Place, Going, shared
  <1>2. CASE Announce
    BY <1>2 DEF Announce, Record, CounterInv, LoopTypeOK, Place, Going, local
  <1>3. CASE BootSweep \/ BootSeed
    BY <1>3 DEF BootSweep, BootSeed, Swept, Seeded, CounterInv, LoopTypeOK, Place, Going, shared, breaker
  <1>4. CASE LeaveLoop
    BY <1>4 DEF LeaveLoop, CounterInv, LoopTypeOK, Place, Going, shared, local
  <1>5. CASE Exit
    BY <1>5 DEF Exit, Record, CounterInv, LoopTypeOK, Place, Going, local
  <1>6. CASE Trip
    BY <1>6 DEF Trip, Record, CounterInv, LoopTypeOK, Place, Going, breaker
  <1> QED
    BY <1>1, <1>2, <1>3, <1>4, <1>5, <1>6

\* The loop: only Raised counts, and Judge lets it go on below the threshold.
LEMMA CounterLoop ==
  ASSUME CounterInv,
         \/ Enter \/ Processed \/ Idle \/ Raised \/ Judge \/ Resume
         \/ Refresh \/ Reload \/ SweepPass \/ SeedPass
  PROVE  CounterInv'
  <1>1. CASE Enter \/ Resume
    BY <1>1 DEF Enter, Resume, CounterInv, LoopTypeOK, Place, Going, shared, local
  <1>2. CASE Processed
    BY <1>2, LoopAssumption DEF Processed, CounterInv, LoopTypeOK, Place, Going, shared
  <1>3. CASE Raised
    <2>1. failures < Threshold
      BY <1>3 DEF Raised, CounterInv, Going, Place
    <2> QED
      BY <1>3, <2>1, LoopAssumption DEF Raised, CounterInv, LoopTypeOK, Place, Going, shared
  <1>4. CASE Judge
    BY <1>4, LoopAssumption DEF Judge, CounterInv, LoopTypeOK, Place, Going, shared, local
  <1>5. CASE Refresh
    <2>1. using' \in Values
      BY <1>5, SettingType DEF Refresh, CounterInv, LoopTypeOK
    <2> QED
      BY <1>5, <2>1 DEF Refresh, CounterInv, LoopTypeOK, Place, Going, shared, breaker
  <1>6. CASE Reload
    BY <1>6 DEF Reload, CounterInv, LoopTypeOK, Place, Going, shared, breaker
  <1>7. CASE SweepPass \/ SeedPass
    BY <1>7 DEF SweepPass, SeedPass, Swept, Seeded, CounterInv, LoopTypeOK, Place, Going, shared, breaker
  <1>8. CASE Idle
    <2>1. 0 <= failures /\ failures < Threshold
      BY <1>8 DEF Idle, CounterInv, LoopTypeOK, Going, Place
    <2> QED
      BY <1>8, <2>1, LoopAssumption DEF Idle, CounterInv, LoopTypeOK, Place, Going, shared
  <1> QED
    BY <1>1, <1>2, <1>3, <1>4, <1>5, <1>6, <1>7, <1>8

LEMMA CounterEnvironment ==
  ASSUME CounterInv,
         \/ Signal \/ Kill \/ RequestReload \/ SwitchDb \/ UNCHANGED vars
         \/ \E name \in Passes : Elapse(name)
         \/ \E value \in Values : Save(value)
  PROVE  CounterInv'
  <1>1. CASE Signal \/ Kill
    BY <1>1 DEF Signal, Kill, CounterInv, LoopTypeOK, Place, Going, shared, breaker, local
  <1>2. CASE RequestReload \/ \E value \in Values : Save(value)
    BY <1>2 DEF RequestReload, Save, CounterInv, LoopTypeOK, Settings, breaker, local
  <1>3. CASE SwitchDb
    BY <1>3 DEF SwitchDb, CounterInv, LoopTypeOK, local
  <1>4. ASSUME NEW name \in Passes, Elapse(name)
        PROVE  CounterInv'
    BY <1>4 DEF Elapse, CounterInv, LoopTypeOK, shared, breaker
  <1>5. CASE UNCHANGED vars
    BY <1>5 DEF vars, CounterInv, LoopTypeOK
  <1> QED
    BY <1>1, <1>2, <1>3, <1>4, <1>5

\* The types, for every threshold and every fault: among them that no iteration
\* starts once as many as the threshold have failed in a row.
THEOREM TypeCorrect == Spec => []LoopTypeOK
  <1>1. CounterInv /\ [Next]_vars => CounterInv'
    BY CounterBoot, CounterLoop, CounterEnvironment DEF Next, Daemon
  <1>2. CounterInv => LoopTypeOK
    BY DEF CounterInv
  <1> QED
    BY CounterInit, <1>1, <1>2, PTL DEF Spec

-----------------------------------------------------------------------------
(* The heartbeat *)

LEMMA HeartbeatDaemon ==
  ASSUME LoopTypeOK, HeartbeatTrue, Daemon
  PROVE  HeartbeatTrue'
  <1>1. CASE Announce \/ Trip \/ Exit
    BY <1>1 DEF Announce, Trip, Exit, Record, HeartbeatTrue, Place
  <1>2. CASE BootSweep \/ BootSeed
    BY <1>2 DEF BootSweep, BootSeed, HeartbeatTrue, Place, shared
  <1>3. CASE Enter \/ Processed \/ Idle \/ Raised
    BY <1>3 DEF Enter, Processed, Idle, Raised, HeartbeatTrue, Place, shared
  <1>4. CASE Judge \/ Resume \/ LeaveLoop
    BY <1>4 DEF Judge, Resume, LeaveLoop, HeartbeatTrue, Place, shared
  <1>5. CASE Refresh \/ Reload \/ SweepPass \/ SeedPass
    BY <1>5 DEF Refresh, Reload, SweepPass, SeedPass, HeartbeatTrue, Place, shared
  <1> QED
    BY <1>1, <1>2, <1>3, <1>4, <1>5 DEF Daemon

\* What get_worker_heartbeat reads is true of the process, through boots,
\* trips, reloads and signals, but for a kill or a database that was down when
\* the row was due. Inductive with the types alone: each lifecycle row is
\* written in the step after which the old one would be wrong.
THEOREM HeartbeatKept == Spec => []HeartbeatTrue
  <1>1. Init => HeartbeatTrue
    BY DEF Init, HeartbeatTrue, Place
  <1>2. LoopTypeOK /\ HeartbeatTrue /\ [Next]_vars => HeartbeatTrue'
    <2> SUFFICES ASSUME LoopTypeOK, HeartbeatTrue, [Next]_vars
                 PROVE  HeartbeatTrue'
      OBVIOUS
    <2>1. CASE Daemon
      BY <2>1, HeartbeatDaemon
    <2>2. CASE Start \/ Signal
      BY <2>2 DEF Start, Signal, HeartbeatTrue, Place, shared
    <2>3. CASE Kill
      BY <2>3 DEF Kill, HeartbeatTrue
    <2>4. CASE RequestReload \/ SwitchDb \/ UNCHANGED vars
      BY <2>4 DEF RequestReload, SwitchDb, HeartbeatTrue, vars
    <2>5. CASE (\E name \in Passes : Elapse(name)) \/ (\E value \in Values : Save(value))
      BY <2>5 DEF Elapse, Save, HeartbeatTrue, shared
    <2> QED
      BY <2>1, <2>2, <2>3, <2>4, <2>5 DEF Next
  <1> QED
    BY <1>1, <1>2, TypeCorrect, PTL DEF Spec

=============================================================================
