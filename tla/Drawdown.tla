-------------------------------- MODULE Drawdown --------------------------------
(***************************************************************************)
(* The tiers of risk/drawdown_manager.py, and the high-water mark that its *)
(* only caller, the bar loop of backtests/strategy_simulator.py, keeps for *)
(* it. Every step evaluates one bar. Thresholds are percentages of the     *)
(* high-water mark.                                                        *)
(***************************************************************************)
EXTENDS Integers

CONSTANTS Navs,           \* the values a portfolio can have at the end of a bar
          StartNav,       \* initial_capital
          Tiers,          \* thresholds of the tiers 1 to 4, in percent
          TierCooldown    \* tier_3_cooldown_bars

ASSUME DrawdownAssumption ==
    /\ Navs \subseteq Nat \ {0}
    /\ StartNav \in Navs
    /\ Tiers \in [1 .. 4 -> 1 .. 100]
    /\ Tiers[1] < Tiers[2] /\ Tiers[2] < Tiers[3] /\ Tiers[3] < Tiers[4]
    /\ TierCooldown \in Nat \ {0}

\* Bound of the history variable stopped: a full stop lasts for ever.
StopBound == TierCooldown + 1

VARIABLES
    nav,           \* portfolio_values[-1]
    mark,          \* the high-water mark of the caller
    tier,          \* _current_tier
    wait,          \* _cooldown_remaining
    latched,       \* _tier_4_triggered
    halfDone,      \* _positions_closed_in_tier2
    verdict,       \* what the last evaluation told: "go", "reduce", "half", "stop", "resume"
    halves,        \* history: closures of half the positions since the last normal bar
    stopped        \* history: bars in a row that were stopped, up to StopBound

drawdownVars == <<nav, mark, tier, wait, latched, halfDone, verdict, halves, stopped>>

DrawdownInit ==
    /\ nav = StartNav /\ mark = StartNav
    /\ tier = 0 /\ wait = 0 /\ latched = FALSE /\ halfDone = FALSE
    /\ verdict = "go" /\ halves = 0 /\ stopped = 0

(***************************************************************************)
(* The drawdown of n under the mark m is at least that of tier k.          *)
(***************************************************************************)
Below(k, m, n) == (m - n) * 100 >= Tiers[k] * m

--------------------------------------------------------------------------------
(***************************************************************************)
(* The caller's part of a bar: the last value of the portfolio, and the    *)
(* mark it has raised.                                                     *)
(***************************************************************************)
Bar(n, m) == nav' = n /\ m = (IF n > mark THEN n ELSE mark)

Stopped == stopped' = IF stopped < StopBound THEN stopped + 1 ELSE StopBound

(***************************************************************************)
(* The cooldown of tier 3 counts down: positions are closed, the tiers are *)
(* not looked at.                                                          *)
(***************************************************************************)
CoolDown(n, m) ==
    /\ wait > 1
    /\ wait' = wait - 1
    /\ mark' = m
    /\ verdict' = "stop" /\ Stopped
    /\ UNCHANGED <<tier, latched, halfDone, halves>>

\* Mutant: the caller keeps its mark when the cooldown is over.
ResumeUnderOldMark(n, m) ==
    /\ wait = 1
    /\ wait' = 0 /\ tier' = 0 /\ halfDone' = FALSE
    /\ mark' = m
    /\ verdict' = "resume" /\ halves' = 0 /\ stopped' = 0
    /\ UNCHANGED latched

(***************************************************************************)
(* The last bar of the cooldown: back to normal, and the caller's mark is  *)
(* the value of now.                                                       *)
(***************************************************************************)
Resume(n, m) ==
    /\ wait = 1
    /\ wait' = 0 /\ tier' = 0 /\ halfDone' = FALSE
    /\ mark' = n
    /\ verdict' = "resume" /\ halves' = 0 /\ stopped' = 0
    /\ UNCHANGED latched

(***************************************************************************)
(* Tier 4, now or before.                                                  *)
(***************************************************************************)
FullStop(n, m) ==
    /\ wait = 0
    /\ latched \/ Below(4, m, n)
    /\ latched' = TRUE
    /\ tier' = IF latched THEN tier ELSE 4
    /\ mark' = m
    /\ verdict' = "stop" /\ Stopped
    /\ UNCHANGED <<wait, halfDone, halves>>

Unlatched(n, m) == wait = 0 /\ ~latched /\ ~Below(4, m, n)

\* Mutant: the bar that reaches tier 3 counts twice.
CloseAllShort(n, m) ==
    /\ Unlatched(n, m) /\ Below(3, m, n)
    /\ wait' = IF tier < 3 THEN TierCooldown - 1 ELSE wait
    /\ tier' = IF tier < 3 THEN 3 ELSE tier
    /\ mark' = m
    /\ verdict' = "stop" /\ Stopped
    /\ UNCHANGED <<latched, halfDone, halves>>

(***************************************************************************)
(* Tier 3: close everything and wait.                                      *)
(***************************************************************************)
CloseAll(n, m) ==
    /\ Unlatched(n, m) /\ Below(3, m, n)
    /\ wait' = IF tier < 3 THEN TierCooldown ELSE wait
    /\ tier' = IF tier < 3 THEN 3 ELSE tier
    /\ mark' = m
    /\ verdict' = "stop" /\ Stopped
    /\ UNCHANGED <<latched, halfDone, halves>>

(***************************************************************************)
(* Tier 2: the weakest half of the positions is closed, once.              *)
(***************************************************************************)
CloseHalf(n, m) ==
    /\ Unlatched(n, m) /\ ~Below(3, m, n) /\ Below(2, m, n)
    /\ LET already == tier >= 2 /\ halfDone
       IN  /\ verdict' = IF already THEN "reduce" ELSE "half"
           /\ halves' = IF already THEN halves ELSE IF halves < 2 THEN halves + 1 ELSE 2
    /\ tier' = IF tier < 2 THEN 2 ELSE tier
    /\ halfDone' = TRUE
    /\ mark' = m /\ stopped' = 0
    /\ UNCHANGED <<wait, latched>>

(***************************************************************************)
(* Tier 1: half the size. A tier that was higher is remembered.            *)
(***************************************************************************)
Reduce(n, m) ==
    /\ Unlatched(n, m) /\ ~Below(2, m, n) /\ Below(1, m, n)
    /\ tier' = IF tier < 1 THEN 1 ELSE tier
    /\ mark' = m
    /\ verdict' = "reduce" /\ stopped' = 0
    /\ UNCHANGED <<wait, latched, halfDone, halves>>

Normal(n, m) ==
    /\ Unlatched(n, m) /\ ~Below(1, m, n)
    /\ tier' = 0
    /\ halfDone' = (tier = 0 /\ halfDone)
    /\ mark' = m
    /\ verdict' = "go" /\ halves' = 0 /\ stopped' = 0
    /\ UNCHANGED <<wait, latched>>

(***************************************************************************)
(* The first bar of the out-of-sample period: reset() and a new mark come  *)
(* before the evaluation, which finds a normal bar.                        *)
(***************************************************************************)
ResetAll(n) ==
    /\ nav' = n /\ mark' = n
    /\ tier' = 0 /\ wait' = 0 /\ latched' = FALSE /\ halfDone' = FALSE
    /\ verdict' = "go" /\ halves' = 0 /\ stopped' = 0

(***************************************************************************)
(* A bar that starts with the value n.                                     *)
(***************************************************************************)
Judge(n) ==
    \E m \in {n, mark} :
        /\ Bar(n, m)
        /\ \/ CoolDown(n, m) \/ Resume(n, m) \/ FullStop(n, m) \/ CloseAll(n, m)
           \/ CloseHalf(n, m) \/ Reduce(n, m) \/ Normal(n, m)

Evaluate == \E n \in Navs : Judge(n)

DrawdownNext == Evaluate \/ \E n \in Navs : ResetAll(n)

DrawdownSpec == DrawdownInit /\ [][DrawdownNext]_drawdownVars

--------------------------------------------------------------------------------
DrawdownTypeOK ==
    /\ nav \in Navs /\ mark \in Navs
    /\ tier \in 0 .. 4
    /\ wait \in 0 .. TierCooldown
    /\ latched \in BOOLEAN /\ halfDone \in BOOLEAN
    /\ verdict \in {"go", "reduce", "half", "stop", "resume"}
    /\ halves \in 0 .. 2
    /\ stopped \in 0 .. StopBound

(***************************************************************************)
(* The positions are halved once on the way down: going up to tier 1 and   *)
(* down again is not a second tier 2, only a return to normal or a         *)
(* cooldown starts anew.                                                   *)
(***************************************************************************)
HalvedOnce == halves <= 1

(***************************************************************************)
(* After a full stop no bar trades, however the value recovers, until the  *)
(* manager is reset: the cooldown of tier 3 does not end it.               *)
(***************************************************************************)
FullStopIsFinal ==
    [][latched => \/ verdict' = "stop" /\ latched'
                  \/ \E n \in Navs : ResetAll(n)]_drawdownVars

(***************************************************************************)
(* When the cooldown is over trading resumes: the drawdown that led to it  *)
(* is not held against the next bars, only what they lose themselves.      *)
(***************************************************************************)
CooldownIsPaidOnce ==
    [][verdict = "resume" /\ nav' >= nav => verdict' = "go"]_drawdownVars

(***************************************************************************)
(* Trading resumes by itself only after tier_3_cooldown_bars stopped bars, *)
(* the one that reached tier 3 among them.                                 *)
(***************************************************************************)
CooldownIsServed ==
    [][verdict' = "resume" => stopped = TierCooldown]_drawdownVars
================================================================================
