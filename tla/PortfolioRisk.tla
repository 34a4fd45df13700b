----------------------------- MODULE PortfolioRisk -----------------------------
(***************************************************************************)
(* The portfolio gate of risk_engine/portfolio_risk.py, as RiskFacade      *)
(* builds it: the equity of every tick, the results of closed trades, the  *)
(* halt they set and the operator's reset. One thread calls it. Amounts    *)
(* are whole numbers and limits are percentages; the floating-point        *)
(* divisions of the code are the products they stand for.                  *)
(***************************************************************************)
EXTENDS Integers

CONSTANTS Equities,        \* the equities update_equity() is given
          Initial,         \* initial_equity, which is validated to be positive
          Losses,          \* the sizes of losing trades
          RiskShares,      \* position_risk_pct of a proposed position, in percent
          MaxDrawdown,     \* max_drawdown_pct
          MaxDailyLoss,    \* max_daily_loss_pct
          MaxStreak,       \* max_consecutive_losses
          MaxPositions,    \* max_concurrent_positions
          MaxHeat,         \* max_portfolio_heat
          CooldownBars,    \* circuit_breaker_cooldown_bars
          LossBound        \* bound: losses of a day beyond it are not explored

ASSUME PortfolioAssumption ==
    /\ Equities \subseteq Nat
    /\ Initial \in Nat \ {0}
    /\ Losses \subseteq Nat \ {0}
    /\ RiskShares \subseteq Nat
    /\ MaxDrawdown \in Nat /\ MaxDailyLoss \in Nat /\ MaxHeat \in Nat
    /\ MaxStreak \in Nat \ {0}
    /\ MaxPositions \in Nat
    /\ CooldownBars \in Nat
    /\ LossBound \in Nat

VARIABLES
    equity,        \* _current_equity
    peak,          \* _peak_equity
    dailyLoss,     \* _daily_loss
    staleDate,     \* _daily_date is not the UTC date of today
    streak,        \* _consecutive_losses, counted up to the limit
    open,          \* _open_positions
    halted,        \* _is_halted
    cooldown,      \* _cooldown_remaining
    lossToday,     \* history: losses since midnight UTC or the operator's reset
    breached       \* history: a limit was passed since the operator's reset

portfolioVars ==
    <<equity, peak, dailyLoss, staleDate, streak, open, halted, cooldown, lossToday, breached>>

PortfolioInit ==
    /\ equity = Initial /\ peak = Initial
    /\ dailyLoss = 0 /\ staleDate = FALSE
    /\ streak = 0 /\ open = 0
    /\ halted = FALSE /\ cooldown = 0
    /\ lossToday = 0 /\ breached = FALSE

--------------------------------------------------------------------------------
(***************************************************************************)
(* drawdown_pct >= max_drawdown_pct, of equity e under peak p > 0.         *)
(***************************************************************************)
DrawdownBreach(p, e) == (p - e) * 100 >= MaxDrawdown * p

(***************************************************************************)
(* Losses l are too much for a day at equity e.                            *)
(***************************************************************************)
DailyBreach(l, e) == e > 0 /\ l * 100 >= MaxDailyLoss * e

(***************************************************************************)
(* update_equity(): also what RiskFacade.update_equity() does here.        *)
(***************************************************************************)
UpdateEquity(e) ==
    LET p == IF e > peak THEN e ELSE peak
        hit == DrawdownBreach(p, e)
    IN  /\ equity' = e
        /\ peak' = p
        /\ halted' = (halted \/ hit)
        /\ cooldown' = IF ~halted /\ hit THEN CooldownBars ELSE cooldown
        /\ breached' = (breached \/ hit)
        /\ UNCHANGED <<dailyLoss, staleDate, streak, open, lossToday>>

SetOpenPositions(n) ==
    /\ open' = n
    /\ UNCHANGED <<equity, peak, dailyLoss, staleDate, streak, halted, cooldown, lossToday, breached>>

(***************************************************************************)
(* The losses on record once _maybe_reset_daily() has run.                 *)
(***************************************************************************)
OnRecord == IF staleDate THEN 0 ELSE dailyLoss

\* Mutant: a result is added before the day is looked at.
RecordLossUnreset(l) ==
    LET day == dailyLoss + l
        run == IF streak < MaxStreak THEN streak + 1 ELSE MaxStreak
        hit == DailyBreach(day, equity) \/ run >= MaxStreak
    IN  /\ lossToday + l <= LossBound /\ day <= LossBound
        /\ dailyLoss' = day
        /\ streak' = run
        /\ halted' = (halted \/ hit)
        /\ cooldown' = IF hit THEN CooldownBars ELSE cooldown
        /\ lossToday' = lossToday + l
        /\ breached' = (breached \/ DailyBreach(lossToday + l, equity) \/ run >= MaxStreak)
        /\ UNCHANGED <<equity, peak, staleDate, open>>

(***************************************************************************)
(* record_trade_result() of a losing trade.                                *)
(***************************************************************************)
RecordLoss(l) ==
    LET day == OnRecord + l
        run == IF streak < MaxStreak THEN streak + 1 ELSE MaxStreak
        hit == DailyBreach(day, equity) \/ run >= MaxStreak
    IN  /\ lossToday + l <= LossBound
        /\ dailyLoss' = day
        /\ staleDate' = FALSE
        /\ streak' = run
        /\ halted' = (halted \/ hit)
        /\ cooldown' = IF hit THEN CooldownBars ELSE cooldown
        /\ lossToday' = lossToday + l
        /\ breached' = (breached \/ DailyBreach(lossToday + l, equity) \/ run >= MaxStreak)
        /\ UNCHANGED <<equity, peak, open>>

(***************************************************************************)
(* record_trade_result() of any other trade: the daily loss is looked at   *)
(* again, against the equity of now.                                       *)
(***************************************************************************)
RecordGain ==
    LET hit == DailyBreach(OnRecord, equity)
    IN  /\ dailyLoss' = OnRecord
        /\ staleDate' = FALSE
        /\ streak' = 0
        /\ halted' = (halted \/ hit)
        /\ cooldown' = IF hit THEN CooldownBars ELSE cooldown
        /\ breached' = (breached \/ DailyBreach(lossToday, equity))
        /\ UNCHANGED <<equity, peak, open, lossToday>>

(***************************************************************************)
(* The checks of can_open_position() before the correlation guard, which   *)
(* can only refuse.                                                        *)
(***************************************************************************)
Within(risk) ==
    /\ open < MaxPositions
    /\ ~DrawdownBreach(peak, equity)
    /\ ~DailyBreach(OnRecord, equity)
    /\ streak < MaxStreak
    /\ open * risk < MaxHeat

(***************************************************************************)
(* can_open_position() answers yes.                                        *)
(***************************************************************************)
Approves(risk) == ~halted /\ Within(risk)

(***************************************************************************)
(* What a call of can_open_position() changes: the cooldown, which nothing *)
(* else reads, and the losses of another day if it comes that far.         *)
(***************************************************************************)
CanOpenPosition ==
    LET reaches == ~halted /\ open < MaxPositions /\ ~DrawdownBreach(peak, equity)
    IN  /\ cooldown' = IF cooldown > 0 THEN cooldown - 1 ELSE 0
        /\ dailyLoss' = IF reaches THEN OnRecord ELSE dailyLoss
        /\ staleDate' = (staleDate /\ ~reaches)
        /\ UNCHANGED <<equity, peak, streak, open, halted, lossToday, breached>>

(***************************************************************************)
(* get_state() resets the day as well.                                     *)
(***************************************************************************)
GetState ==
    /\ dailyLoss' = OnRecord
    /\ staleDate' = FALSE
    /\ UNCHANGED <<equity, peak, streak, open, halted, cooldown, lossToday, breached>>

(***************************************************************************)
(* manual_reset(): the peak stays, so that a drawdown that is still there  *)
(* refuses entries, and the next update of the equity halts again.         *)
(***************************************************************************)
ManualReset ==
    /\ halted' = FALSE
    /\ streak' = 0
    /\ dailyLoss' = 0
    /\ lossToday' = 0 /\ breached' = FALSE
    /\ UNCHANGED <<equity, peak, staleDate, open, cooldown>>

Midnight ==
    /\ staleDate' = TRUE
    /\ lossToday' = 0
    /\ UNCHANGED <<equity, peak, dailyLoss, streak, open, halted, cooldown, breached>>

PortfolioNext ==
    \/ \E e \in Equities : UpdateEquity(e)
    \/ \E n \in 0 .. MaxPositions : SetOpenPositions(n)
    \/ \E l \in Losses : RecordLoss(l)
    \/ RecordGain \/ CanOpenPosition \/ GetState \/ ManualReset \/ Midnight

PortfolioSpec == PortfolioInit /\ [][PortfolioNext]_portfolioVars

--------------------------------------------------------------------------------
PortfolioTypeOK ==
    /\ equity \in Nat /\ peak \in Nat \ {0}
    /\ dailyLoss \in 0 .. LossBound /\ lossToday \in 0 .. LossBound
    /\ streak \in 0 .. MaxStreak
    /\ open \in 0 .. MaxPositions
    /\ cooldown \in 0 .. CooldownBars
    /\ staleDate \in BOOLEAN /\ halted \in BOOLEAN /\ breached \in BOOLEAN

(***************************************************************************)
(* The gate of can_open_position() against what really happened: it lets a *)
(* position through only if no limit was passed since the operator's last  *)
(* reset, and today's losses, counted from midnight UTC and not from the   *)
(* last call that noticed the date, are within the limit.                  *)
(***************************************************************************)
ApprovalIsDeserved ==
    \A risk \in RiskShares :
        Approves(risk) => ~breached /\ ~DailyBreach(lossToday, equity)

(***************************************************************************)
(* A drawdown ends when the equity recovers and not otherwise: the reset   *)
(* by the operator, a new day and the calls in between leave it standing,  *)
(* as manual_reset() keeps the peak.                                       *)
(***************************************************************************)
DrawdownStands ==
    [][DrawdownBreach(peak, equity) /\ ~DrawdownBreach(peak', equity')
         => equity' > equity]_portfolioVars
================================================================================
