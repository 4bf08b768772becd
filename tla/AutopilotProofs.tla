-------------------------- MODULE AutopilotProofs --------------------------
(* Proofs about Autopilot, for every value of its constants. *)
EXTENDS Autopilot, TLAPS

-----------------------------------------------------------------------------
(* Type correctness *)

LEMMA PlusType == \A n \in 0 .. Cap, m \in Nat : Plus(n, m) \in 0 .. Cap
  BY AutopilotAssumption DEF Plus, Cap

\* What a thread is.
Place == {"idle", "spawned", "top", "crawl", "cool crawl", "before validation", "validate",
          "judge", "cool"}
Thread == [at : Place, empty : 0 .. EmptyLimit, seen : 0 .. MaxPending]

LEMMA Threads ==
  /\ NoLoop \in Thread
  /\ \A t \in Thread, at \in Place : [t EXCEPT !.at = at] \in Thread
  /\ \A t \in Thread, at \in Place, empty \in 0 .. EmptyLimit :
        [t EXCEPT !.at = at, !.empty = empty] \in Thread
  /\ \A t \in Thread, at \in Place, seen \in 0 .. MaxPending :
        [t EXCEPT !.at = at, !.seen = seen] \in Thread
  <1>1. 0 \in 0 .. EmptyLimit /\ 0 \in 0 .. MaxPending
    BY AutopilotAssumption
  <1>2. NoLoop \in Thread
    BY <1>1 DEF NoLoop, Thread, Place
  <1>3. \A t \in Thread, at \in Place : [t EXCEPT !.at = at] \in Thread
    BY DEF Thread
  <1>4. \A t \in Thread, at \in Place, empty \in 0 .. EmptyLimit :
           [t EXCEPT !.at = at, !.empty = empty] \in Thread
    BY DEF Thread
  <1>5. \A t \in Thread, at \in Place, seen \in 0 .. MaxPending :
           [t EXCEPT !.at = at, !.seen = seen] \in Thread
    BY DEF Thread
  <1> QED
    BY <1>2, <1>3, <1>4, <1>5

\* TypeOK in two parts: the threads, and everything else.
LoopTyped == loop \in [Loops -> Thread]
StateTyped ==
    /\ running \in BOOLEAN /\ stop \in BOOLEAN /\ asking \in BOOLEAN /\ overlap \in BOOLEAN
    /\ phase \in Phase
    /\ promoted \in 0 .. Cap /\ inserted \in 0 .. Cap
    /\ pending \in 0 .. MaxPending

LEMMA Typed == TypeOK <=> LoopTyped /\ StateTyped
  BY DEF TypeOK, LoopTyped, StateTyped, Thread, Place

LEMMA TypedNext == LoopTyped' /\ StateTyped' => TypeOK'
  BY DEF TypeOK, LoopTyped, StateTyped, Thread, Place

LEMMA InitType == Init => TypeOK
  <1>1. 0 \in 0 .. Cap
    BY AutopilotAssumption DEF Cap
  <1>2. Init => StateTyped
    BY <1>1 DEF Init, StateTyped, Phase
  <1>3. Init => LoopTyped
    BY Threads DEF Init, LoopTyped
  <1> QED
    BY <1>2, <1>3, Typed

\* finish() and the return keep the types.
LEMMA EndType ==
  ASSUME TypeOK, NEW l \in Loops, NEW final \in Phase, End(l, final),
         asking' = asking, inserted' = inserted, pending' \in 0 .. MaxPending
  PROVE  TypeOK'
  <1>1. LoopTyped'
    BY Typed, Threads DEF LoopTyped, End, Return
  <1>2. StateTyped'
    BY Typed DEF StateTyped, End, Return
  <1> QED
    BY <1>1, <1>2, TypedNext

\* So does a step that leaves the loop in another place.
LEMMA EnterType ==
  ASSUME TypeOK, NEW l \in Loops, NEW name \in Phase, NEW at \in Place, Enter(l, at, name),
         UNCHANGED <<asking, pending, inserted>>
  PROVE  TypeOK'
  <1>1. loop[l] \in Thread
    BY Typed DEF LoopTyped
  <1>2. [loop[l] EXCEPT !.at = at] \in Thread
    BY <1>1, Threads, AutopilotAssumption
  <1>3. LoopTyped'
    BY <1>2, Typed DEF LoopTyped, Enter
  <1>4. StateTyped'
    BY Typed DEF StateTyped, Enter
  <1> QED
    BY <1>3, <1>4, TypedNext

LEMMA StepType ==
  ASSUME TypeOK, NEW l \in Loops, Step(l)
  PROVE  TypeOK'
  <1> USE Typed, TypedNext
  <1>t. loop[l] \in Thread /\ 0 \in 0 .. EmptyLimit /\ 0 \in 0 .. MaxPending /\ 0 \in 0 .. Cap
    BY AutopilotAssumption DEF LoopTyped, Cap
  <1>1. CASE Start(l)
    <2>1. LoopTyped'
      BY <1>1, <1>t, Threads DEF Start, LoopTyped, Place
    <2>2. StateTyped'
      BY <1>1, <1>t DEF Start, StateTyped, Phase
    <2> QED
      BY <2>1, <2>2
  <1>2. CASE Leave(l)
    <2>1. LoopTyped'
      BY <1>2, Threads DEF Leave, Return, LoopTyped
    <2>2. StateTyped'
      BY <1>2 DEF Leave, Return, state, StateTyped
    <2> QED
      BY <2>1, <2>2
  <1>3. CASE Top(l)
    <2>1. CASE StopSeen \/ promoted >= Quota
      BY <1>3, <2>1, EndType DEF Top, StateTyped, Phase
    <2>2. CASE ~StopSeen /\ ~(promoted >= Quota)
      <3>1. \A count \in Counted :
               [loop[l] EXCEPT !.at = IF count < Floor THEN "crawl" ELSE "before validation",
                               !.seen = count] \in Thread
        <4>1. Counted \subseteq 0 .. MaxPending
          BY AutopilotAssumption DEF StateTyped, Counted
        <4> QED
          BY <1>t, <4>1, Threads DEF StateTyped, Place
      <3>2. LoopTyped'
        BY <1>3, <2>2, <3>1 DEF Top, LoopTyped
      <3>3. StateTyped'
        BY <1>3, <2>2 DEF Top, StateTyped, Phase
      <3> QED
        BY <3>2, <3>3
    <2> QED
      BY <2>1, <2>2
  <1>4. CASE Crawl(l)
    <2>1. PICK added \in 0 .. MaxPending - pending :
            LET sweeps == IF added > 0 THEN 0
                          ELSE IF loop[l].empty < EmptyLimit THEN loop[l].empty + 1 ELSE EmptyLimit
            IN /\ pending' = pending + added
               /\ IF sweeps >= EmptyLimit /\ loop[l].seen = 0
                    THEN End(l, "completed")
                    ELSE /\ loop' = [loop EXCEPT ![l].at = "cool crawl", ![l].empty = sweeps]
                         /\ phase' = "cooling_down"
                         /\ UNCHANGED <<running, stop, promoted, overlap>>
      BY <1>4 DEF Crawl
    <2> DEFINE sweeps == IF added > 0 THEN 0
                         ELSE IF loop[l].empty < EmptyLimit THEN loop[l].empty + 1 ELSE EmptyLimit
    <2>2. pending' \in 0 .. MaxPending
      <3>1. pending \in 0 .. MaxPending /\ pending' = pending + added
        BY <2>1 DEF StateTyped
      <3> QED
        BY <3>1, AutopilotAssumption
    <2>3. sweeps \in 0 .. EmptyLimit
      <3>1. loop[l].empty \in 0 .. EmptyLimit
        BY <1>t DEF Thread
      <3> QED
        BY <3>1, AutopilotAssumption
    <2>4. CASE End(l, "completed")
      BY <1>4, <2>2, <2>4, EndType DEF Crawl, Phase
    <2>5. CASE /\ loop' = [loop EXCEPT ![l].at = "cool crawl", ![l].empty = sweeps]
               /\ phase' = "cooling_down"
               /\ UNCHANGED <<running, stop, promoted, overlap>>
      <3> HIDE DEF sweeps
      <3>1. [loop[l] EXCEPT !.at = "cool crawl", !.empty = sweeps] \in Thread
        BY <1>t, <2>3, Threads DEF Place
      <3>2. LoopTyped'
        BY <2>5, <3>1 DEF LoopTyped
      <3>3. StateTyped'
        BY <1>4, <2>2, <2>5 DEF Crawl, StateTyped, Phase
      <3> QED
        BY <3>2, <3>3
    <2> QED
      BY <2>1, <2>4, <2>5
  <1>5. CASE CoolAfterCrawl(l)
    BY <1>5, EndType, EnterType DEF CoolAfterCrawl, StateTyped, Phase, Place
  <1>6. CASE BeforeValidation(l)
    BY <1>6, EndType, EnterType DEF BeforeValidation, StateTyped, Phase, Place
  <1>7. CASE Validate(l)
    <2>1. PICK done \in 0 .. Available :
            \E good \in 0 .. done : \E new \in 0 .. good :
               /\ pending' = pending - done
               /\ inserted' = Plus(inserted, new)
               /\ promoted' = Plus(promoted, IF good < Shown THEN good ELSE Shown)
      BY <1>7 DEF Validate
    <2>2. Available \in 0 .. pending /\ pending \in 0 .. MaxPending
      BY AutopilotAssumption DEF Available, StateTyped
    <2>3. PICK good \in 0 .. done : \E new \in 0 .. good :
               /\ pending' = pending - done
               /\ inserted' = Plus(inserted, new)
               /\ promoted' = Plus(promoted, IF good < Shown THEN good ELSE Shown)
      BY <2>1
    <2>4. pending' \in 0 .. MaxPending /\ good \in Nat /\ (IF good < Shown THEN good ELSE Shown) \in Nat
      BY <2>1, <2>2, <2>3, AutopilotAssumption
    <2>5. promoted' \in 0 .. Cap /\ inserted' \in 0 .. Cap
      <3>1. PICK new \in 0 .. good : inserted' = Plus(inserted, new)
        BY <2>3
      <3>2. new \in Nat /\ promoted \in 0 .. Cap /\ inserted \in 0 .. Cap
        BY <2>4 DEF StateTyped
      <3> QED
        BY <2>3, <2>4, <3>1, <3>2, PlusType
    <2>6. LoopTyped'
      BY <1>7, <1>t, Threads DEF Validate, LoopTyped, Place
    <2>7. StateTyped'
      BY <1>7, <2>4, <2>5 DEF Validate, StateTyped, Phase
    <2> QED
      BY <2>6, <2>7
  <1>8. CASE Refused(l)
    BY <1>8, EnterType DEF Refused, Phase, Place
  <1>9. CASE Judge(l)
    BY <1>9, EndType, EnterType DEF Judge, StateTyped, Phase, Place
  <1>10. CASE Cool(l)
    BY <1>10, EndType, EnterType DEF Cool, StateTyped, Phase, Place
  <1>11. CASE Raised(l)
    BY <1>11, EndType DEF Raised, StateTyped, Phase
  <1> QED
    BY <1>1, <1>2, <1>3, <1>4, <1>5, <1>6, <1>7, <1>8, <1>9, <1>10, <1>11 DEF Step

LEMMA NextType == TypeOK /\ [Next]_vars => TypeOK'
  <1> SUFFICES ASSUME TypeOK, [Next]_vars
               PROVE  TypeOK'
    OBVIOUS
  <1>1. CASE UNCHANGED vars
    BY <1>1 DEF vars, state, TypeOK
  <1>2. CASE \E l \in Loops : Spawn(l)
    BY <1>2 DEF Spawn, state, TypeOK
  <1>3. CASE \E l \in Loops : Step(l)
    BY <1>3, StepType
  <1>4. CASE AskStop \/ RequestStop
    BY <1>4 DEF AskStop, RequestStop, state, Phase, TypeOK
  <1>5. CASE Others
    BY <1>5 DEF Others, state, TypeOK
  <1> QED
    BY <1>1, <1>2, <1>3, <1>4, <1>5 DEF Next

\* The state object and the threads have their types, whatever the engines
\* raise and however many loops are let in.
THEOREM TypeCorrect == Spec => []TypeOK
  <1>1. Init => TypeOK
    BY InitType
  <1>2. TypeOK /\ [Next]_vars => TypeOK'
    BY NextType
  <1> QED
    BY <1>1, <1>2, PTL DEF Spec

-----------------------------------------------------------------------------
(* The flag *)

\* Unless loops were let in side by side there is one loop at most, and the
\* flag is up for it. FlagIsLoop is not inductive without the first part: a
\* loop that ends lowers the flag, and another might still run.
FlagInv == FlagIsLoop /\ (~overlap => OneLoop)

\* A step that moves a loop from place to place inside the run.
LEMMA MoveFlag ==
  ASSUME TypeOK, FlagInv, NEW l \in Loops, In(l), In(l)',
         \A k \in Loops \ {l} : loop'[k] = loop[k],
         UNCHANGED <<running, overlap>>
  PROVE  FlagInv'
  BY DEF FlagInv, FlagIsLoop, OneLoop, In

\* The end of a loop, with the flag down.
LEMMA EndFlag ==
  ASSUME TypeOK, FlagInv, NEW l \in Loops, In(l), Return(l), running' = FALSE
  PROVE  FlagInv'
  <1>1. ~In(l)' /\ \A k \in Loops \ {l} : In(k)' <=> In(k)
    BY DEF Return, In, NoLoop, TypeOK
  <1>2. CASE overlap'
    BY <1>2 DEF FlagInv, FlagIsLoop
  <1>3. CASE ~overlap'
    <2>1. \A k \in Loops \ {l} : ~In(k)
      BY <1>3 DEF Return, Beside, FlagInv, OneLoop
    <2> QED
      BY <1>1, <2>1 DEF FlagInv, FlagIsLoop, OneLoop
  <1> QED
    BY <1>2, <1>3

LEMMA StartFlag ==
  ASSUME TypeOK, FlagInv, NEW l \in Loops, Start(l)
  PROVE  FlagInv'
  <1>1. In(l)' /\ \A k \in Loops \ {l} : In(k)' <=> In(k)
    BY DEF Start, In, TypeOK
  <1>2. running' /\ (~overlap' => \A k \in Loops \ {l} : ~In(k))
    BY DEF Start, Beside
  <1> QED
    BY <1>1, <1>2 DEF FlagInv, FlagIsLoop, OneLoop

\* What a step of a loop that runs comes to.
Ended(l) == \E final \in Phase : End(l, final)
Moved(l) ==
    /\ In(l)'
    /\ \A k \in Loops \ {l} : loop'[k] = loop[k]
    /\ UNCHANGED <<running, overlap>>

LEMMA StepEndsOrMoves ==
  ASSUME TypeOK, NEW l \in Loops, Step(l), ~Start(l), ~Leave(l)
  PROVE  Ended(l) \/ Moved(l)
  <1>t. loop \in [Loops -> Thread]
    BY DEF TypeOK, Thread, Place
  <1>1. CASE Top(l)
    <2>1. CASE StopSeen
      BY <1>1, <2>1 DEF Top, Ended, Phase
    <2>2. CASE ~StopSeen /\ promoted >= Quota
      BY <1>1, <2>2 DEF Top, Ended, Phase
    <2>3. CASE ~StopSeen /\ ~(promoted >= Quota)
      <3>1. PICK count \in Counted :
              /\ loop' = [loop EXCEPT ![l].at = IF count < Floor THEN "crawl" ELSE "before validation",
                                      ![l].seen = count]
              /\ UNCHANGED <<running, overlap>>
        BY <1>1, <2>3 DEF Top
      <3>2. loop'[l].at \in {"crawl", "before validation"} /\ \A k \in Loops \ {l} : loop'[k] = loop[k]
        BY <1>t, <3>1 DEF Thread
      <3> QED
        BY <3>1, <3>2 DEF Moved, In
    <2> QED
      BY <2>1, <2>2, <2>3
  <1>2. CASE Crawl(l)
    <2>1. CASE End(l, "completed")
      BY <2>1 DEF Ended, Phase
    <2>2. CASE /\ \E n : loop' = [loop EXCEPT ![l].at = "cool crawl", ![l].empty = n]
               /\ UNCHANGED <<running, overlap>>
      <3>1. loop'[l].at = "cool crawl" /\ \A k \in Loops \ {l} : loop'[k] = loop[k]
        BY <1>t, <2>2 DEF Thread
      <3> QED
        BY <2>2, <3>1 DEF Moved, In
    <2> QED
      BY <1>2, <2>1, <2>2 DEF Crawl
  <1>e. ASSUME NEW at \in {"before validation", "validate", "judge", "cool", "top"}, NEW name,
               Enter(l, at, name)
        PROVE  Moved(l)
    <2>1. loop'[l].at = at /\ \A k \in Loops \ {l} : loop'[k] = loop[k]
      BY <1>t, <1>e DEF Enter, Thread
    <2> QED
      BY <1>e, <2>1 DEF Enter, Moved, In
  <1>3. CASE CoolAfterCrawl(l)
    BY <1>3, <1>e DEF CoolAfterCrawl, Ended, Phase
  <1>4. CASE BeforeValidation(l)
    BY <1>4, <1>e DEF BeforeValidation, Ended, Phase
  <1>5. CASE Validate(l)
    <2>1. loop'[l].at = "judge" /\ \A k \in Loops \ {l} : loop'[k] = loop[k]
      BY <1>t, <1>5 DEF Validate, Thread
    <2> QED
      BY <1>5, <2>1 DEF Validate, Moved, In
  <1>6. CASE Refused(l)
    BY <1>6, <1>e DEF Refused
  <1>7. CASE Judge(l)
    BY <1>7, <1>e DEF Judge, Ended, Phase
  <1>8. CASE Cool(l)
    BY <1>8, <1>e DEF Cool, Ended, Phase
  <1>9. CASE Raised(l)
    BY <1>9 DEF Raised, Ended, Phase
  <1> QED
    BY <1>1, <1>2, <1>3, <1>4, <1>5, <1>6, <1>7, <1>8, <1>9 DEF Step

LEMMA StepFlag ==
  ASSUME TypeOK, FlagInv, NEW l \in Loops, Step(l)
  PROVE  FlagInv'
  <1>1. CASE Start(l)
    BY <1>1, StartFlag
  <1>2. CASE Leave(l)
    BY <1>2, EndFlag DEF Leave, state, In, TypeOK
  <1>3. CASE ~Start(l) /\ ~Leave(l)
    <2>1. In(l)
      BY <1>3 DEF Step, Top, Crawl, CoolAfterCrawl, BeforeValidation, Validate, Refused, Judge,
                  Cool, Raised, In
    <2>2. Ended(l) \/ Moved(l)
      BY <1>3, StepEndsOrMoves
    <2>3. CASE Ended(l)
      BY <2>1, <2>3, EndFlag DEF Ended, End
    <2>4. CASE Moved(l)
      BY <2>1, <2>4, MoveFlag DEF Moved
    <2> QED
      BY <2>2, <2>3, <2>4
  <1> QED
    BY <1>1, <1>2, <1>3

LEMMA NextFlag == TypeOK /\ FlagInv /\ [Next]_vars => FlagInv'
  <1> SUFFICES ASSUME TypeOK, FlagInv, [Next]_vars
               PROVE  FlagInv'
    OBVIOUS
  <1>1. CASE UNCHANGED <<running, overlap, loop>>
    BY <1>1 DEF FlagInv, FlagIsLoop, OneLoop, In
  <1>2. CASE \E l \in Loops : Spawn(l)
    <2>1. \A k \in Loops : In(k)' <=> In(k)
      BY <1>2 DEF Spawn, In, TypeOK
    <2> QED
      BY <1>2, <2>1 DEF Spawn, state, FlagInv, FlagIsLoop, OneLoop
  <1>3. CASE \E l \in Loops : Step(l)
    BY <1>3, StepFlag
  <1> QED
    BY <1>1, <1>2, <1>3 DEF Next, AskStop, RequestStop, Others, vars, state

\* The flag that refuses a second start is up exactly while a loop runs, for
\* any number of threads and every way out of the loop, until loops were let
\* in side by side.
THEOREM FlagIsTheLoop == Spec => []FlagIsLoop
  <1>1. Init => FlagInv
    BY DEF Init, FlagInv, FlagIsLoop, OneLoop, In, NoLoop
  <1>2. TypeOK /\ FlagInv /\ [Next]_vars => FlagInv'
    BY NextFlag
  <1>3. FlagInv => FlagIsLoop
    BY DEF FlagInv
  <1> QED
    BY <1>1, <1>2, <1>3, TypeCorrect, PTL DEF Spec

=============================================================================
