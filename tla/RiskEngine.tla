------------------------------- MODULE RiskEngine -------------------------------
(***************************************************************************)
(* RiskEngine of risk/engine.py: the positions it holds in memory, the     *)
(* audit trail it writes them to, the streak of losses, the losses of the  *)
(* day. A trade is a unit of exposure; whether its own size and volatility *)
(* are within the limits is left open.                                     *)
(***************************************************************************)
EXTENDS Integers, FiniteSets

CONSTANTS Pairs,
          SectorOf,       \* sector_map, for pairs
          NoSector,
          EngineLosses,   \* the losses a trade can end with
          StreakLimit,    \* max_consecutive_losses
          PositionLimit,  \* max_concurrent_positions
          DayLimit,       \* max_daily_loss_pct of the equity
          SectorLimit,    \* max_sector_weight, in percent
          DayBound        \* bound of the losses on record, and of those of one day

ASSUME EngineAssumption ==
    /\ EngineLosses \subseteq Nat \ {0}
    /\ StreakLimit \in Nat \ {0} /\ PositionLimit \in Nat \ {0}
    /\ DayLimit \in Nat /\ SectorLimit \in 1 .. 100 /\ DayBound \in Nat

VARIABLES
    positions,     \* keys of positions
    trail,         \* pairs with an ENTRY and no EXIT in the engine's file of the audit trail
    oldFile,       \* that file is not today's: an engine keeps the file of its first day
    lossStreak,    \* loss_streak
    engineLoss,    \* daily_loss
    dated,         \* what _daily_date is, by the UTC date: "today", "tomorrow", "other"
    answer,        \* how the last call ended
    raised,        \* history: pairs whose caller was told that their row was not written
    todays,        \* history: losses since midnight (UTC)
    yesterdays,    \* history: losses of the day before
    localReset     \* history: reset_daily_stats() was called in this process

history == <<raised, todays, yesterdays, localReset>>
engineVars == <<positions, trail, oldFile, lossStreak, engineLoss, dated, answer, history>>

Answers == {"none", "approved", "refused", "done", "raised"}

EngineInit ==
    /\ positions = {} /\ trail = {} /\ oldFile = FALSE
    /\ lossStreak = 0 /\ engineLoss = 0 /\ dated = "today"
    /\ answer = "none" /\ raised = {} /\ todays = 0 /\ yesterdays = 0 /\ localReset = FALSE

--------------------------------------------------------------------------------
(***************************************************************************)
(* The share of p's sector, p included. A sector that is not known is not  *)
(* limited.                                                                *)
(***************************************************************************)
SectorFits(p) ==
    SectorOf[p] # NoSector =>
        LET same == Cardinality({q \in positions : SectorOf[q] = SectorOf[p]})
        IN  (same + 1) * 100 <= SectorLimit * (Cardinality(positions) + 1)

\* can_enter_trade() looks at the losses of the day only when the checks before pass.
ReachesDayCheck(fits) ==
    fits /\ Cardinality(positions) < PositionLimit /\ lossStreak < StreakLimit

\* Mutant: the day is set without clearing its losses.
CanEnterTradeStale(p, fits) ==
    LET loss == engineLoss
    IN  /\ answer' = IF ReachesDayCheck(fits) /\ loss <= DayLimit /\ SectorFits(p)
                     THEN "approved" ELSE "refused"
        /\ engineLoss' = loss
        /\ dated' = IF ReachesDayCheck(fits) THEN "today" ELSE dated
        /\ UNCHANGED <<positions, trail, oldFile, lossStreak, history>>

(***************************************************************************)
(* can_enter_trade(), with _maybe_reset_daily() in the middle. `fits`:     *)
(* the checks of risk per trade and leverage pass. A date that is not      *)
(* today's, be it tomorrow's, clears the losses.                           *)
(***************************************************************************)
CanEnterTrade(p, fits) ==
    LET loss == IF ReachesDayCheck(fits) /\ dated # "today" THEN 0 ELSE engineLoss
    IN  /\ answer' = IF ReachesDayCheck(fits) /\ loss <= DayLimit /\ SectorFits(p)
                     THEN "approved" ELSE "refused"
        /\ engineLoss' = loss
        /\ dated' = IF ReachesDayCheck(fits) THEN "today" ELSE dated
        /\ UNCHANGED <<positions, trail, oldFile, lossStreak, history>>

(***************************************************************************)
(* can_enter_trade() of an equity, a size or a volatility that is not      *)
(* valid raises before it looks at anything.                               *)
(***************************************************************************)
InvalidInput ==
    /\ answer' = "raised"
    /\ UNCHANGED <<positions, trail, oldFile, lossStreak, engineLoss, dated, history>>

(***************************************************************************)
(* A row is written, or log_trade_event() raises and the caller with it.   *)
(***************************************************************************)
Write(p, rows) ==
    \/ trail' = rows /\ answer' = "done" /\ raised' = raised \ {p}
    \/ trail' = trail /\ answer' = "raised" /\ raised' = raised \cup {p}

(***************************************************************************)
(* register_entry(): memory first, then the row.                           *)
(***************************************************************************)
RegisterEntry(p) ==
    /\ positions' = positions \cup {p}
    /\ Write(p, trail \cup {p})
    /\ UNCHANGED <<oldFile, lossStreak, engineLoss, dated, todays, yesterdays, localReset>>

WithinBound(loss) == engineLoss + loss <= DayBound /\ todays + loss <= DayBound

\* Mutant: the failure to write is only logged.
RegisterExitQuietly(p, loss) ==
    /\ p \in positions /\ WithinBound(loss)
    /\ positions' = positions \ {p}
    /\ lossStreak' = IF loss = 0 THEN 0
                     ELSE IF lossStreak < StreakLimit THEN lossStreak + 1 ELSE StreakLimit
    /\ engineLoss' = engineLoss + loss
    /\ todays' = todays + loss
    /\ trail' \in {trail, trail \ {p}} /\ answer' = "done" /\ raised' = raised \ {p}
    /\ UNCHANGED <<oldFile, dated, yesterdays, localReset>>

(***************************************************************************)
(* register_exit() with a loss, or 0 for a profit: the position leaves     *)
(* memory, streak and losses are counted, then the row is written. An exit *)
(* of a pair without position changes nothing. Losses beyond the limit of  *)
(* the streak count as the limit.                                          *)
(***************************************************************************)
RegisterExit(p, loss) ==
    /\ p \in positions /\ WithinBound(loss)
    /\ positions' = positions \ {p}
    /\ lossStreak' = IF loss = 0 THEN 0
                     ELSE IF lossStreak < StreakLimit THEN lossStreak + 1 ELSE StreakLimit
    /\ engineLoss' = engineLoss + loss
    /\ todays' = todays + loss
    /\ Write(p, trail \ {p})
    /\ UNCHANGED <<oldFile, dated, yesterdays, localReset>>

(***************************************************************************)
(* reset_daily_stats() stores the local date: east of Greenwich it can be  *)
(* UTC's tomorrow already, west of it still yesterday.                     *)
(***************************************************************************)
ResetDailyStats ==
    /\ engineLoss' = 0
    /\ dated' \in {"today", "tomorrow", "other"}
    /\ answer' = "done" /\ localReset' = TRUE
    /\ UNCHANGED <<positions, trail, oldFile, lossStreak, raised, todays, yesterdays>>

(***************************************************************************)
(* The UTC date changes: the date that was tomorrow's is today's, and the  *)
(* day is not noticed.                                                     *)
(***************************************************************************)
UTCMidnight ==
    /\ dated' = IF dated = "tomorrow" THEN "today" ELSE "other"
    /\ oldFile' = TRUE /\ todays' = 0 /\ yesterdays' = todays
    /\ UNCHANGED <<positions, trail, lossStreak, engineLoss, answer, raised, localReset>>

(***************************************************************************)
(* A new process. load_from_audit_trail() recovers what the rows of today  *)
(* say, or raises and leaves the new engine empty; on a later day the file *)
(* is a new one. Streak and losses are those of a new engine.              *)
(***************************************************************************)
RestartEngine ==
    /\ trail' = IF oldFile THEN {} ELSE trail
    /\ \/ positions' = trail' /\ answer' = "done" /\ raised' = {}
       \/ positions' = {} /\ answer' = "raised" /\ raised' = trail'
    /\ lossStreak' = 0 /\ engineLoss' = 0 /\ dated' = "today" /\ oldFile' = FALSE
    /\ localReset' = FALSE
    /\ UNCHANGED <<todays, yesterdays>>

EngineNext ==
    \/ \E p \in Pairs :
          \/ \E fits \in BOOLEAN : CanEnterTrade(p, fits)
          \/ RegisterEntry(p)
          \/ \E loss \in EngineLosses \cup {0} : RegisterExit(p, loss)
    \/ InvalidInput
    \/ ResetDailyStats
    \/ UTCMidnight
    \/ RestartEngine

EngineSpec == EngineInit /\ [][EngineNext]_engineVars

--------------------------------------------------------------------------------
EngineTypeOK ==
    /\ positions \subseteq Pairs /\ trail \subseteq Pairs
    /\ oldFile \in BOOLEAN
    /\ lossStreak \in 0 .. StreakLimit
    /\ engineLoss \in 0 .. DayBound
    /\ todays \in 0 .. DayBound /\ yesterdays \in 0 .. DayBound
    /\ dated \in {"today", "tomorrow", "other"} /\ localReset \in BOOLEAN
    /\ answer \in Answers
    /\ raised \subseteq Pairs

(***************************************************************************)
(* Memory and trail disagree about a pair only when the caller got the     *)
(* exception: no entry or exit is lost silently, whatever follows it.      *)
(***************************************************************************)
MismatchIsRaised ==
    \A p \in Pairs : (p \in positions) # (p \in trail) => p \in raised

(***************************************************************************)
(* Once the day is noticed the losses the engine counts were made today,   *)
(* or, in a process that calls reset_daily_stats() and its local date,     *)
(* yesterday: never do older ones block an entry.                          *)
(***************************************************************************)
OldLossesAreForgotten ==
    /\ dated = "today" => engineLoss <= todays + (IF localReset THEN yesterdays ELSE 0)
    /\ dated = "tomorrow" => engineLoss <= todays
================================================================================
