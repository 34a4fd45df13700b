------------------------------- MODULE PaperProofs ------------------------------
(***************************************************************************)
(* Theorems about the risk engine, the loop of main.py that owns it, and   *)
(* the deadlines of orders: for any pairs, sectors, losses, limits, orders *)
(* and bounds.                                                             *)
(***************************************************************************)
EXTENDS PaperLoop, OrderLifecycle, TLAPS

--------------------------------------------------------------------------------
EngineInv ==
    /\ EngineTypeOK /\ MismatchIsRaised /\ OldLossesAreForgotten
    /\ dated = "tomorrow" => localReset

(***************************************************************************)
(* Every call of the engine keeps it: what memory and trail disagree about *)
(* was raised, and a day that was noticed has no old losses.               *)
(***************************************************************************)
LEMMA EngineStep ==
    ASSUME EngineInv, [EngineNext]_engineVars
    PROVE  EngineInv'
<1> USE EngineAssumption DEF EngineInv, EngineTypeOK, MismatchIsRaised, OldLossesAreForgotten
<1>1. ASSUME NEW p \in Pairs, NEW fits \in BOOLEAN, CanEnterTrade(p, fits)
      PROVE  EngineInv'
  <2>1. answer' \in {"approved", "refused"}
    BY <1>1 DEF CanEnterTrade
  <2>2. UNCHANGED <<positions, trail, oldFile, lossStreak, history>>
    BY <1>1 DEF CanEnterTrade
  <2>3. CASE ReachesDayCheck(fits)
    <3>1. dated' = "today"
      BY <1>1, <2>3 DEF CanEnterTrade
    <3>2. engineLoss' = IF dated # "today" THEN 0 ELSE engineLoss
      BY <1>1, <2>3 DEF CanEnterTrade
    <3> QED
      BY <2>1, <2>2, <3>1, <3>2 DEF Answers, history
  <2>4. CASE ~ReachesDayCheck(fits)
    <3>1. dated' = dated /\ engineLoss' = engineLoss
      BY <1>1, <2>4 DEF CanEnterTrade
    <3> QED
      BY <2>1, <2>2, <3>1 DEF Answers, history
  <2> QED
    BY <2>3, <2>4
<1>2. ASSUME NEW p \in Pairs, RegisterEntry(p)
      PROVE  EngineInv'
  BY <1>2 DEF RegisterEntry, Write, Answers
<1>3. ASSUME NEW p \in Pairs, NEW loss \in EngineLosses \cup {0}, RegisterExit(p, loss)
      PROVE  EngineInv'
  <2>1. loss \in Nat
    OBVIOUS
  <2>2. engineLoss' = engineLoss + loss /\ todays' = todays + loss
    BY <1>3 DEF RegisterExit
  <2>3. engineLoss' \in 0 .. DayBound /\ todays' \in 0 .. DayBound
    BY <1>3, <2>1, <2>2 DEF RegisterExit, WithinBound
  <2>4. lossStreak' \in 0 .. StreakLimit
    BY <1>3 DEF RegisterExit
  <2> QED
    BY <1>3, <2>1, <2>2, <2>3, <2>4 DEF RegisterExit, Write, Answers
<1>4. CASE ResetDailyStats
  <2>1. localReset' /\ localReset' \in BOOLEAN
    BY <1>4, Zenon DEF ResetDailyStats
  <2> QED
    BY <1>4, <2>1 DEF ResetDailyStats, Answers
<1>5. CASE UTCMidnight
  <2>1. oldFile' /\ oldFile' \in BOOLEAN
    BY <1>5, Zenon DEF UTCMidnight
  <2>2. localReset' = localReset
    BY <1>5 DEF UTCMidnight
  <2> QED
    BY <1>5, <2>1, <2>2 DEF UTCMidnight
<1>6. CASE RestartEngine
  <2>1. ~oldFile' /\ oldFile' \in BOOLEAN /\ localReset' \in BOOLEAN
    BY <1>6, Zenon DEF RestartEngine
  <2> QED
    BY <1>6, <2>1 DEF RestartEngine, Answers
<1>7. CASE InvalidInput
  BY <1>7 DEF InvalidInput, Answers, history
<1>8. CASE UNCHANGED engineVars
  BY <1>8 DEF engineVars, history
<1> QED
  BY <1>1, <1>2, <1>3, <1>4, <1>5, <1>6, <1>7, <1>8 DEF EngineNext

(***************************************************************************)
(* Used under any order of calls, the fields of the engine stay in their   *)
(* types.                                                                  *)
(***************************************************************************)
THEOREM EngineCorrect == EngineSpec => []EngineInv
<1>1. EngineInit => EngineInv
  <2> SUFFICES ASSUME EngineInit
               PROVE  EngineInv
    OBVIOUS
  <2>1. oldFile \in BOOLEAN /\ localReset \in BOOLEAN /\ ~localReset
    BY Zenon DEF EngineInit
  <2> QED
    BY <2>1, EngineAssumption
       DEF EngineInit, EngineInv, EngineTypeOK, MismatchIsRaised, OldLossesAreForgotten, Answers
<1>2. EngineInv /\ [EngineNext]_engineVars => EngineInv'
  BY EngineStep
<1> QED
  BY <1>1, <1>2, PTL DEF EngineSpec

(***************************************************************************)
(* No entry and no exit is missing in the trail without its caller having  *)
(* got an exception: register_entry(), register_exit().                    *)
(***************************************************************************)
THEOREM NoRowIsLostSilently == EngineSpec => []MismatchIsRaised
<1>1. EngineInv => MismatchIsRaised
  BY DEF EngineInv
<1> QED
  BY <1>1, EngineCorrect, PTL

(***************************************************************************)
(* After _maybe_reset_daily() losses older than yesterday's never block,   *)
(* and yesterday's only in a process that calls reset_daily_stats().       *)
(***************************************************************************)
THEOREM LossesOfOtherDaysAreForgotten == EngineSpec => []OldLossesAreForgotten
<1>1. EngineInv => OldLossesAreForgotten
  BY DEF EngineInv
<1> QED
  BY <1>1, EngineCorrect, PTL

--------------------------------------------------------------------------------
(***************************************************************************)
(* The loop: both counters of failures agree and stay below the limit      *)
(* while it runs, and while it closes what is left in memory is either     *)
(* still to be closed or was refused.                                      *)
(***************************************************************************)
LoopInv ==
    /\ PaperTypeOK
    /\ errors = failedRow
    /\ pc = "loop" => errors < MaxErrors
    /\ pc # "done" => ending = "none"
    /\ pc = "closing" => positions \subseteq todo \cup refusedClose
    /\ ErrorsAreInARow
    /\ ShutdownClosesAll

PaperInv == EngineInv /\ LoopInv

(***************************************************************************)
(* A step of the loop is a call of its engine, or leaves the engine alone. *)
(***************************************************************************)
LEMMA LoopStepsAreCalls == PaperNext => [EngineNext]_engineVars
<1> SUFFICES ASSUME PaperNext
             PROVE  [EngineNext]_engineVars
  OBVIOUS
<1>1. ASSUME NEW p \in Pairs, ClosePosition(p)
      PROVE  [EngineNext]_engineVars
  BY <1>1 DEF ClosePosition, EngineNext
<1>2. CASE StartSession
  BY <1>2 DEF StartSession, EngineNext
<1>3. CASE LoopMidnight
  BY <1>3 DEF LoopMidnight, EngineNext
<1>4. CASE RequestShutdown \/ SeesShutdown \/ ClosedAll \/ Trades \/ Exhausted \/ Crash
  BY <1>4 DEF RequestShutdown, SeesShutdown, ClosedAll, Trades, Exhausted, Crash
<1>5. CASE EnvironmentFails \/ RecoveredRecordFails
  BY <1>5 DEF EnvironmentFails, RecoveredRecordFails, Fails
<1> QED
  BY <1>1, <1>2, <1>3, <1>4, <1>5 DEF PaperNext

(***************************************************************************)
(* The invariant of the loop with its engine is inductive.                 *)
(***************************************************************************)
LEMMA PaperInductive == PaperSpec => []PaperInv
<1>1. PaperInit => PaperInv
  <2> SUFFICES ASSUME PaperInit
               PROVE  PaperInv
    OBVIOUS
  <2>1. /\ ~localReset /\ ~request /\ ~faults
        /\ localReset \in BOOLEAN /\ oldFile \in BOOLEAN
        /\ request \in BOOLEAN /\ faults \in BOOLEAN
    BY Zenon DEF PaperInit, NoSession
  <2>2. EngineInv
    BY <2>1, EngineAssumption
       DEF PaperInit, EngineInv, EngineTypeOK, MismatchIsRaised, OldLossesAreForgotten, Answers
  <2>3. LoopInv
    BY <2>1, <2>2, PaperAssumption
       DEF PaperInit, NoSession, EngineInv, LoopInv, PaperTypeOK, ErrorsAreInARow,
           ShutdownClosesAll, Endings
  <2> QED
    BY <2>2, <2>3 DEF PaperInv
<1>2. PaperInv /\ [PaperNext]_paperVars => PaperInv'
  <2> SUFFICES ASSUME PaperInv, [PaperNext]_paperVars
               PROVE  PaperInv'
    OBVIOUS
  <2>e. EngineInv'
    BY LoopStepsAreCalls, EngineStep DEF PaperInv, paperVars
  <2>t. EngineTypeOK'
    BY <2>e DEF EngineInv
  <2> USE PaperAssumption, <2>t
      DEF PaperInv, LoopInv, PaperTypeOK, ErrorsAreInARow, ShutdownClosesAll, Endings
  <2>1. CASE StartSession
    <3>1. ~request' /\ ~faults' /\ request' \in BOOLEAN /\ faults' \in BOOLEAN
      BY <2>1, Zenon DEF StartSession
    <3> QED
      BY <2>e, <2>1, <3>1 DEF StartSession
  <2>2. CASE RequestShutdown
    <3>1. request' /\ request' \in BOOLEAN
      BY <2>2, Zenon DEF RequestShutdown
    <3> QED
      BY <2>e, <2>2, <3>1 DEF RequestShutdown, engineVars
  <2>3. CASE SeesShutdown
    BY <2>e, <2>3 DEF SeesShutdown, Iteration, engineVars, EngineTypeOK
  <2>4. ASSUME NEW p \in Pairs, ClosePosition(p)
        PROVE  PaperInv'
    <3>1. positions' \subseteq todo' \cup refusedClose'
      BY <2>4 DEF ClosePosition, RegisterExit, engineVars
    <3> QED
      BY <2>e, <2>4, <3>1 DEF ClosePosition
  <2>5. CASE ClosedAll
    BY <2>e, <2>5 DEF ClosedAll, engineVars
  <2>6. CASE Trades
    BY <2>e, <2>6 DEF Trades, Iteration, engineVars
  <2>7. CASE EnvironmentFails \/ RecoveredRecordFails
    <3>1. faults' \in BOOLEAN
      BY <2>7, Zenon DEF EnvironmentFails, RecoveredRecordFails, PaperInv, LoopInv, PaperTypeOK
    <3>2. Fails
      BY <2>7 DEF EnvironmentFails, RecoveredRecordFails
    <3>3. /\ pc = "loop" /\ attempt' \in 0 .. MaxIterations
          /\ errors' = errors + 1 /\ failedRow' = failedRow + 1
          /\ UNCHANGED <<positions, request, todo, refusedClose>>
      BY <3>2 DEF Fails, Iteration, engineVars
    <3>4. CASE errors' >= MaxErrors
      BY <2>e, <3>1, <3>2, <3>3, <3>4 DEF Fails
    <3>5. CASE ~(errors' >= MaxErrors)
      BY <2>e, <3>1, <3>2, <3>3, <3>5 DEF Fails
    <3> QED
      BY <3>4, <3>5
  <2>8. CASE Exhausted
    BY <2>e, <2>8 DEF Exhausted, engineVars
  <2>9. CASE Crash
    BY <2>e, <2>9 DEF Crash, engineVars
  <2>10. CASE LoopMidnight
    BY <2>e, <2>10 DEF LoopMidnight, UTCMidnight, loopVars
  <2>11. CASE UNCHANGED paperVars
    BY <2>e, <2>11 DEF paperVars, loopVars, engineVars
  <2> QED
    BY <2>1, <2>2, <2>3, <2>4, <2>5, <2>6, <2>7, <2>8, <2>9, <2>10, <2>11 DEF PaperNext
<1> QED
  BY <1>1, <1>2, PTL DEF PaperSpec

(***************************************************************************)
(* The fields of loop and engine stay in their types through sessions,     *)
(* crashes and days.                                                       *)
(***************************************************************************)
THEOREM PaperTypeCorrect == PaperSpec => []PaperTypeOK
<1>1. PaperInv => PaperTypeOK
  BY DEF PaperInv, LoopInv
<1> QED
  BY <1>1, PaperInductive, PTL

(***************************************************************************)
(* A shutdown that was seen leaves open only what could not be closed:     *)
(* _close_all_positions() goes on after a failure.                         *)
(***************************************************************************)
THEOREM ShutdownsCloseAll == PaperSpec => []ShutdownClosesAll
<1>1. PaperInv => ShutdownClosesAll
  BY DEF PaperInv, LoopInv
<1> QED
  BY <1>1, PaperInductive, PTL

(***************************************************************************)
(* The loop gives up only after max_consecutive_errors failures in a row.  *)
(***************************************************************************)
THEOREM GivesUpAfterErrorsInARow == PaperSpec => []ErrorsAreInARow
<1>1. PaperInv => ErrorsAreInARow
  BY DEF PaperInv, LoopInv
<1> QED
  BY <1>1, PaperInductive, PTL

--------------------------------------------------------------------------------
(***************************************************************************)
(* The records of the orders stay in their types: a forced close counts at *)
(* most as often as it is tried.                                           *)
(***************************************************************************)
THEOREM LifecycleTypeCorrect == LifecycleSpec => []LifecycleTypeOK
<1> USE LifecycleAssumption DEF LifecycleTypeOK, Statuses, Resolved
<1>1. LifecycleInit => LifecycleTypeOK
  <2> SUFFICES ASSUME LifecycleInit
               PROVE  LifecycleTypeOK
    OBVIOUS
  <2>1. ~due /\ due \in BOOLEAN
    BY Zenon DEF LifecycleInit
  <2> QED
    BY <2>1 DEF LifecycleInit
<1>2. LifecycleTypeOK /\ [LifecycleNext]_lifecycleVars => LifecycleTypeOK'
  <2> SUFFICES ASSUME LifecycleTypeOK, [LifecycleNext]_lifecycleVars
               PROVE  LifecycleTypeOK'
    OBVIOUS
  <2>1. ASSUME NEW o \in Tracked, TrackOrder(o)
        PROVE  LifecycleTypeOK'
    BY <2>1 DEF TrackOrder
  <2>2. ASSUME NEW o \in Tracked, NEW s \in Statuses, NEW q \in 0 .. Quantity, UpdateOrder(o, s, q)
        PROVE  LifecycleTypeOK'
    BY <2>2 DEF UpdateOrder
  <2>3. ASSUME NEW o \in Tracked, NEW q \in 1 .. Quantity, ForceClose(o, q)
        PROVE  LifecycleTypeOK'
    BY <2>3 DEF ForceClose
  <2>4. ASSUME NEW o \in Tracked, DeadlinePasses(o)
        PROVE  LifecycleTypeOK'
    BY <2>4 DEF DeadlinePasses, Keys
  <2>5. ASSUME NEW fails \in SUBSET Expired, ProcessTimeouts(fails)
        PROVE  LifecycleTypeOK'
    <3>1. ~due' /\ due' \in BOOLEAN
      BY <2>5, Zenon DEF ProcessTimeouts
    <3>2. lifecycle' \in [Tracked -> Statuses \cup {"untracked"}]
      BY <2>5 DEF ProcessTimeouts
    <3> QED
      BY <2>5, <3>1, <3>2 DEF ProcessTimeouts, Expired, Keys
  <2>6. CASE IntervalPasses
    <3>1. due' /\ due' \in BOOLEAN
      BY <2>6, Zenon DEF IntervalPasses
    <3> QED
      BY <2>6, <3>1 DEF IntervalPasses
  <2>7. CASE UNCHANGED lifecycleVars
    BY <2>7 DEF lifecycleVars
  <2>8. ASSUME NEW S \in SUBSET Tracked, CleanupResolved(S)
        PROVE  LifecycleTypeOK'
    BY <2>8 DEF CleanupResolved, Keys
  <2> QED
    BY <2>1, <2>2, <2>3, <2>4, <2>5, <2>6, <2>7, <2>8 DEF LifecycleNext, Check
<1> QED
  BY <1>1, <1>2, PTL DEF LifecycleSpec
================================================================================
