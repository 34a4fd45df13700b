-------------------------------- MODULE Backtest --------------------------------
(***************************************************************************)
(* The bar loop of backtests/strategy_simulator.py (run()), the book of    *)
(* positions of backtests/order_book.py, the out-of-sample window of       *)
(* backtests/simulation_loop.py, and what generate_signals() of            *)
(* strategies/pair_trading.py does to the trades it believes to be active. *)
(* Two books are kept, the simulator's positions and the strategy's        *)
(* active_trades, and two accounts, the value of the portfolio and the     *)
(* unrealised P&L already contained in it. The drawdown manager judges     *)
(* the value at the head of every bar.                                     *)
(* Prices appear as what they do: which pairs are listed, entered and      *)
(* left, what a closing earns, what the open positions are worth.          *)
(***************************************************************************)
EXTENDS Drawdown, FiniteSets

CONSTANTS Pairs,
          LastBar,         \* the last bar of the prices; bar 0 is lookback_min
          OosBar,          \* first bar of the out-of-sample window
          HoldLimit,       \* max_holding_bars() of a pair
          Slots,           \* internal_max_positions of the strategy
          StrategyLimit,   \* internal_max_drawdown_pct of the strategy, in percent
          EntryCost,       \* cost of one entry
          Gains            \* what closings earn and open positions are worth

ASSUME BacktestAssumption ==
    /\ IsFiniteSet(Pairs)
    /\ LastBar \in Nat /\ OosBar \in Nat
    /\ HoldLimit \in [Pairs -> Nat \ {0}]
    /\ Slots \in Nat /\ StrategyLimit \in Nat /\ EntryCost \in Nat
    /\ Gains \subseteq Int /\ Gains # {}

VARIABLES
    bar,           \* bar_idx
    pc,            \* the next step of the bar, or of what follows the last one
    open,          \* the pairs in positions
    entryBar,      \* entry_bar of a position
    active,        \* active_trades of the strategy
    value,         \* portfolio_values[-1]
    realized,      \* realized_pnl of the bar
    booked,        \* prev_unrealised_total
    peak,          \* peak_equity of the strategy
    high,          \* history: the highest value a bar of the window began with
    returns,       \* length of the tracker's daily_returns
    todo,          \* pairs that the loop after the last bar has yet to visit
    earned,        \* history: P&L of all closings, less the costs of entries
    misbooked      \* history: what the value contains twice

bookVars == <<open, entryBar, active>>
accountVars == <<value, realized, booked, earned, misbooked>>
peaks == <<peak, high>>
backtestVars == <<drawdownVars, bookVars, accountVars, peaks, bar, pc, returns, todo>>

BacktestInit ==
    /\ DrawdownInit
    /\ bar = 0 /\ pc = "head"
    /\ open = {} /\ active = {} /\ todo = {}
    /\ entryBar = [p \in Pairs |-> 0]
    /\ value = StartNav /\ peak = StartNav /\ high = StartNav
    /\ realized = 0 /\ booked = 0 /\ earned = 0 /\ misbooked = 0
    /\ returns = 0

--------------------------------------------------------------------------------
(***************************************************************************)
(* What closing the positions S may earn: close_position() fills them at   *)
(* the next bar, the last one at itself.                                   *)
(***************************************************************************)
Result(S) == IF S = {} THEN {0} ELSE Gains

(***************************************************************************)
(* What the open positions O may be worth at the bar.                      *)
(***************************************************************************)
Worth(O) == IF O = {} THEN {0} ELSE Gains

Earn(r) == realized' = realized + r /\ earned' = earned + r

(***************************************************************************)
(* The runs of the model are those whose portfolio keeps a value of Navs.  *)
(* A step out of Navs is not taken: Navs is any set of positive numbers,   *)
(* and an instance has to choose it so wide that no step is lost.          *)
(***************************************************************************)
Solvent == value' \in Navs

Record == returns' = IF bar >= OosBar THEN returns + 1 ELSE returns

(***************************************************************************)
(* The next value of bar_idx, or what follows the last one, which starts   *)
(* with the list of the positions of then.                                 *)
(***************************************************************************)
NextBar ==
    IF bar < LastBar
    THEN bar' = bar + 1 /\ pc' = "head" /\ todo' = {}
    ELSE bar' = bar /\ pc' = "end" /\ todo' = open'

--------------------------------------------------------------------------------
\* Mutant: the peak of the strategy is not lowered at the window.
ReviewKeepingPeak ==
    /\ IF bar = OosBar THEN ResetAll(value) ELSE Judge(value)
    /\ peak' = IF value > peak THEN value ELSE peak

(***************************************************************************)
(* The head of a bar: at the first out-of-sample bar both peaks and the    *)
(* drawdown manager start anew; otherwise the manager judges the value.    *)
(***************************************************************************)
Review ==
    IF bar = OosBar
    THEN ResetAll(value) /\ peak' = value
    ELSE Judge(value) /\ peak' = IF value > peak THEN value ELSE peak

High ==
    high' = IF bar < OosBar THEN high
            ELSE IF bar = OosBar \/ value > high THEN value ELSE high

\* Mutant: the positions stay open through a halted bar.
HaltHolding ==
    /\ verdict' = "stop"
    /\ UNCHANGED <<bookVars, value, earned, misbooked, booked>>
    /\ realized' = 0
    /\ NextBar /\ Record

(***************************************************************************)
(* Tier 3 or 4: everything is closed and the bar is over. The P&L of the   *)
(* closings is added to a value that contains the booked marks already,    *)
(* and the strategy's trades stay active.                                  *)
(***************************************************************************)
HaltedBar ==
    /\ verdict' = "stop"
    /\ \E r \in Result(open) :
          value' = value + r /\ Solvent /\ earned' = earned + r
    /\ misbooked' = misbooked + booked /\ booked' = 0 /\ realized' = 0
    /\ open' = {}
    /\ NextBar /\ Record
    /\ UNCHANGED <<entryBar, active>>

(***************************************************************************)
(* Tier 2: the weakest half is closed, and at least one position.          *)
(***************************************************************************)
Half(n) == IF n < 2 THEN n ELSE n \div 2

HalvedBar ==
    /\ verdict' = "half"
    /\ \E S \in SUBSET open :
          /\ Cardinality(S) = Half(Cardinality(open))
          /\ \E r \in Result(S) : realized' = r /\ earned' = earned + r
          /\ open' = open \ S /\ active' = active \ S
    /\ pc' = "stops"
    /\ UNCHANGED <<entryBar, value, booked, misbooked, bar, returns, todo>>

TradedBar ==
    /\ verdict' \notin {"stop", "half"}
    /\ realized' = 0
    /\ pc' = "stops"
    /\ UNCHANGED <<bookVars, value, booked, earned, misbooked, bar, returns, todo>>

BarHead == pc = "head" /\ Review /\ High /\ (HaltedBar \/ HalvedBar \/ TradedBar)

--------------------------------------------------------------------------------
\* Mutant: the stop runs again after the signals.
StopLossesTwice ==
    /\ pc \in {"stops", "sweep"}
    /\ \E S \in SUBSET open :
          /\ \E r \in Result(S) : Earn(r)
          /\ open' = open \ S /\ active' = active \ S
    /\ pc' = IF pc = "stops" THEN "signals" ELSE "sweep"
    /\ UNCHANGED <<drawdownVars, entryBar, value, booked, misbooked, bar, peaks, returns, todo>>

(***************************************************************************)
(* The stop before the signals cuts the positions that lost too much.      *)
(***************************************************************************)
StopLosses ==
    /\ pc = "stops"
    /\ \E S \in SUBSET open :
          /\ \E r \in Result(S) : Earn(r)
          /\ open' = open \ S /\ active' = active \ S
    /\ pc' = "signals"
    /\ UNCHANGED <<drawdownVars, entryBar, value, booked, misbooked, bar, peaks, returns, todo>>

(***************************************************************************)
(* The pairs for which generate_signals() says "exit": it looks at listed  *)
(* pairs only, and takes those back at their mean and those whose          *)
(* correlation, hedge ratio, stationarity or trailing stop is lost.        *)
(***************************************************************************)
ExitSignals(listed) == SUBSET (active \cap listed)

(***************************************************************************)
(* The strategy's own limit on its drawdown, at the value n.               *)
(***************************************************************************)
Blocked(m, n) == (m - n) * 100 > StrategyLimit * m

(***************************************************************************)
(* The pairs for which it says "long" or "short": listed, not active, and  *)
(* within the limits of the strategy itself.                               *)
(***************************************************************************)
EntrySignals(listed, X) ==
    {N \in SUBSET (listed \ active) :
        N # {} => /\ Cardinality((active \ X) \cup N) <= Slots
                  /\ ~Blocked(peak, value)}

(***************************************************************************)
(* The entries that pass the gates of the simulator: any of those without  *)
(* a position, none at the last bar, which has no next bar to fill them.   *)
(***************************************************************************)
Accepted(N) == IF bar < LastBar THEN SUBSET (N \ open) ELSE {{}}

(***************************************************************************)
(* The signals of a bar and what the simulator makes of them. The list of  *)
(* pairs may change at every bar (discovery and validation intervals of    *)
(* one bar).                                                               *)
(***************************************************************************)
Signals ==
    /\ pc = "signals"
    /\ \E listed \in SUBSET Pairs :
       \E X \in ExitSignals(listed) :
       \E N \in EntrySignals(listed, X) :
       \E A \in Accepted(N) :
          /\ open' = (open \ X) \cup A
          /\ active' = (active \ X) \cup N
          /\ entryBar' = [p \in Pairs |-> IF p \in A THEN bar + 1 ELSE entryBar[p]]
          /\ \E r \in Result(X \cap open) : Earn(r - EntryCost * Cardinality(A))
    /\ pc' = "sweep"
    /\ UNCHANGED <<drawdownVars, value, booked, misbooked, bar, peaks, returns, todo>>

(***************************************************************************)
(* The positions whose time limit is reached.                              *)
(***************************************************************************)
Overdue == {p \in open : bar - entryBar[p] >= HoldLimit[p]}

\* Mutant: trades without a position stay active.
SweepWithGhosts ==
    /\ pc = "sweep"
    /\ \E r \in Result(Overdue) : Earn(r)
    /\ open' = open \ Overdue
    /\ active' = active \ Overdue
    /\ pc' = "mark"
    /\ UNCHANGED <<drawdownVars, entryBar, value, booked, misbooked, bar, peaks, returns, todo>>

(***************************************************************************)
(* Trades of the strategy without a position are forgotten, positions held *)
(* too long are closed.                                                    *)
(***************************************************************************)
Sweep ==
    /\ pc = "sweep"
    /\ \E r \in Result(Overdue) : Earn(r)
    /\ open' = open \ Overdue
    /\ active' = (active \cap open) \ Overdue
    /\ pc' = "mark"
    /\ UNCHANGED <<drawdownVars, entryBar, value, booked, misbooked, bar, peaks, returns, todo>>

\* Mutant: the marks of the last bar are not taken out.
MarkAgain ==
    /\ pc = "mark"
    /\ \E u \in Worth(open) :
          value' = value + realized + u /\ booked' = u
    /\ Solvent
    /\ open' = open
    /\ NextBar /\ Record
    /\ UNCHANGED <<drawdownVars, entryBar, active, realized, earned, misbooked, peaks>>

(***************************************************************************)
(* The value takes in what was realised and how the marks have moved.      *)
(***************************************************************************)
MarkToMarket ==
    /\ pc = "mark"
    /\ \E u \in Worth(open) :
          value' = value + realized + (u - booked) /\ booked' = u
    /\ Solvent
    /\ open' = open
    /\ NextBar /\ Record
    /\ UNCHANGED <<drawdownVars, entryBar, active, realized, earned, misbooked, peaks>>

--------------------------------------------------------------------------------
(***************************************************************************)
(* After the last bar a loop over the positions of then, each visit of an  *)
(* open one running every exit over the whole book (mean, z-score stop,    *)
(* partial profit, time stop, P&L stop, trailing stop), then marking the   *)
(* book and adding to the value what the bar has realised so far.          *)
(***************************************************************************)
VisitOpen(p) ==
    /\ p \in open
    /\ \E S \in SUBSET open :
          /\ open' = open \ S /\ active' = active \ S
          /\ \E r \in Result(S) \cup Gains \cup {0} : \E u \in Worth(open \ S) :
                /\ S # {} => r \in Gains
                /\ Earn(r)
                /\ value' = value + (realized + r) + (u - booked)
                /\ booked' = u
    /\ Solvent
    /\ misbooked' = misbooked + realized
    /\ Record
    /\ UNCHANGED <<entryBar>>

VisitClosed(p) == p \notin open /\ UNCHANGED <<bookVars, accountVars, returns>>

AfterLoop ==
    /\ pc = "end"
    /\ \E p \in todo : (VisitOpen(p) \/ VisitClosed(p)) /\ todo' = todo \ {p}
    /\ UNCHANGED <<drawdownVars, bar, pc, peaks>>

(***************************************************************************)
(* What is still open is closed at the last bar: its P&L is added to the   *)
(* value, which contains its marks.                                        *)
(***************************************************************************)
ForceClose ==
    /\ pc = "end" /\ todo = {}
    /\ \E r \in Result(open) :
          /\ value' = value + r /\ Solvent
          /\ earned' = earned + r
          /\ returns' = IF r # 0 /\ bar >= OosBar THEN returns + 1 ELSE returns
    /\ misbooked' = misbooked + booked /\ booked' = 0
    /\ open' = {}
    /\ pc' = "done"
    /\ UNCHANGED <<drawdownVars, entryBar, active, realized, bar, peaks, todo>>

BacktestNext ==
    \/ BarHead \/ StopLosses \/ Signals \/ Sweep \/ MarkToMarket
    \/ AfterLoop \/ ForceClose

BacktestSpec == BacktestInit /\ [][BacktestNext]_backtestVars

--------------------------------------------------------------------------------
BacktestTypeOK ==
    /\ DrawdownTypeOK
    /\ bar \in 0 .. LastBar
    /\ pc \in {"head", "stops", "signals", "sweep", "mark", "end", "done"}
    /\ open \subseteq Pairs /\ active \subseteq Pairs
    /\ todo \subseteq Pairs
    /\ entryBar \in [Pairs -> 0 .. LastBar]
    /\ value \in Navs /\ peak \in Navs /\ high \in Navs
    /\ realized \in Int /\ booked \in Int /\ earned \in Int /\ misbooked \in Int
    /\ returns \in Nat

InsideBar == pc \in {"stops", "signals", "sweep", "mark"}

(***************************************************************************)
(* The final figure can be explained: at every step of a run, the value of *)
(* the portfolio is the initial capital, what closings and entries brought *)
(* and the marks of the open positions, and whatever else it contains is   *)
(* the marks of positions closed by a halt or at the end, or what the loop *)
(* after the last bar adds again. With neither, nothing is counted twice,  *)
(* however stops, tiers, signals and marks follow each other.              *)
(***************************************************************************)
AccountsAgree ==
    value + (IF InsideBar THEN realized ELSE 0)
        = StartNav + earned + booked + misbooked

(***************************************************************************)
(* The strategy knows every position, or it would never close it and would *)
(* enter it again. Trades it believes in without a position, left by a     *)
(* rejected entry or a halted bar, are gone when the next traded bar marks *)
(* its book.                                                               *)
(***************************************************************************)
StrategyKnowsTheBook ==
    /\ pc # "done" => open \subseteq active
    /\ pc = "mark" => active = open

(***************************************************************************)
(* The strategy's limit on positions, checked against its own trades, also *)
(* bounds what the simulator holds.                                        *)
(***************************************************************************)
PositionsWithinSlots == Cardinality(open) <= Slots

(***************************************************************************)
(* No position is ever held past its time limit, at whatever step of a run *)
(* it is looked at: neither a pair that leaves the list of the strategy,   *)
(* nor a halved or a halted bar, which skips the time stops, nor the end   *)
(* of the prices lets it grow older.                                       *)
(***************************************************************************)
HoldingIsBounded == \A p \in open : bar - entryBar[p] <= HoldLimit[p]

(***************************************************************************)
(* No position is closed before the bar that fills it: signals of bar T    *)
(* are filled at T + 1, and nothing that runs in bar T takes them out.     *)
(***************************************************************************)
FilledBeforeClosed ==
    [][\A p \in open \ open' : entryBar[p] <= bar]_backtestVars

(***************************************************************************)
(* A stop of the drawdown manager leaves nothing open until it is over.    *)
(***************************************************************************)
FlatWhileStopped == verdict = "stop" => open = {}

(***************************************************************************)
(* The length of the out-of-sample window up to the bar b.                 *)
(***************************************************************************)
WindowTo(b) == IF b >= OosBar THEN b - OosBar + 1 ELSE 0

(***************************************************************************)
(* The out-of-sample statistics have one return for each bar of the window *)
(* so far, halted ones included, and none of the training window. What     *)
(* follows the last bar appends to them, once for a position that is still *)
(* open then and once for the forced close: when they are read they may    *)
(* have up to Slots + 1 returns more than the window has bars.             *)
(***************************************************************************)
ReturnsCoverTheWindow ==
    /\ pc = "head" \/ InsideBar => returns = WindowTo(bar - 1)
    /\ pc = "end" => returns \in WindowTo(LastBar) .. WindowTo(LastBar) + Slots
    /\ pc = "done" => returns \in WindowTo(LastBar) .. WindowTo(LastBar) + Slots + 1

(***************************************************************************)
(* The mark of the drawdown manager is never above the peak of the         *)
(* strategy: the strategy's own limit sees at least the drawdown the       *)
(* manager sees, whatever cooldowns have lowered the mark.                 *)
(***************************************************************************)
MarkUnderPeak == mark <= peak

(***************************************************************************)
(* Only what the out-of-sample window itself has lost stops it: no bar of  *)
(* the window is halted unless tier 3 is reached below the highest value a *)
(* bar of the window began with, or the bar before it was, and the limit   *)
(* of the strategy does not refuse entries that this value would allow.    *)
(* Losses of the training window stay in none of the three memories, the   *)
(* manager's, the loop's and the strategy's.                               *)
(***************************************************************************)
OnlyLossesOfTheWindowStop ==
    [][BarHead /\ bar >= OosBar =>
          /\ verdict' = "stop" => \/ Below(3, high', value)
                                  \/ verdict = "stop" /\ bar > OosBar
          /\ Blocked(peak', value) => Blocked(high', value)]_backtestVars
================================================================================
