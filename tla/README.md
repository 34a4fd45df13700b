# EDGECORE: a verification project

EDGECORE is a pairs-trading system in Python that trades through Interactive
Brokers. This directory holds TLA+ models of its live core, of the guards and
risk components around it and of the bar loop of its backtests, the TLC
instances that check them, and TLAPS proofs. Paths below are relative to the
repository.

Contents

1. The system: components, state, interactions, hard behaviours
2. The modules and how they correspond to the code
3. What the runs check, their bounds, the fairness they assume
4. What is proved, and along which argument
5. What the code does differently from what it says
6. What is not modelled, and the plan

## 1. The system

### Components of the live path

| component | source | state | operations |
|---|---|---|---|
| main loop | `live_trading/runner.py`, `execution/shutdown_manager.py` | `_state`, `_data_load_at`, `_last_market_data`, the shutdown flag and the file `data/trading_enabled` | `start`, `stop`, `_initialize_with_retry`, `_tick`, `_fetch_market_data`, `_shutdown`; `request_shutdown`, `is_shutdown_requested`, `cleanup` |
| positions of the loop | `live_trading/runner.py` | `_positions`: per pair a record with, once a stop has fired, `status` and `close_order_id` | `_process_fill_confirmations`, `_step_process_stops`, `_step_generate_signals`, `_step_execute_signals`, recovery, `_shutdown` |
| audit trail | `persistence/audit_trail.py` | one CSV file a day, its HMAC column, equity snapshots | `log_trade_event`, `recover_state`, rotation |
| router | `execution_engine/router.py` | `_pending_orders` (final statuses), the lazily built engine | `submit_order`, `get_order_status`, `get_positions`, `get_account_balance` |
| IBKR engine | `execution/ibkr_engine.py`, `common/retry.py` | connection, `_order_map`, `_persisted_order_ids` with its file, `_pending_confirm_orders`, breaker counters | `submit_order`, `cancel_order`, `cancel_all_pending`, `get_order_status`, `reconcile_pending_confirm`, `_on_disconnect` |
| kill switch | `risk_engine/kill_switch.py` | `_is_active`, `_activated_at`, the state file and its `.tmp` | `check`, `activate`, `reset`, `_save_state`, `_load_state` |
| portfolio gate | `risk_engine/portfolio_risk.py` behind `risk/facade.py` | equity, peak, daily loss and its date, streak, open positions, halt and cooldown | `update_equity`, `record_trade_result`, `set_open_positions`, `can_open_position`, `manual_reset` |
| risk engine | `risk/engine.py` | positions, loss streak, daily loss and its date, its audit trail | `can_enter_trade`, `register_entry`, `register_exit`, `load_from_audit_trail` |
| gateway | `execution/gw_manager.py`, `execution/ibkr_sync_gateway.py` | the process and port of IB Gateway | `ensure_gateway_ready`, `check_gateway_health` |
| reconciliation | `execution/reconciler.py` | internal against broker equity, positions and orders | `reconcile_equity`, `reconcile_positions`, `full_reconciliation` |
| order lifecycle | `execution/order_lifecycle.py`, `execution/order_lifecycle_integration.py` | orders with a deadline, cancel attempts, the time of the last check | `create_order`, `update_order`, `check_for_timeouts`, `force_close_order`, `cleanup_resolved_orders` |
| circuit breaker | `common/circuit_breaker.py` | state, failures and successes in a row, time of the last failure | `call`, `reset` |
| rate limit | `execution/rate_limiter.py`, `common/ibkr_rate_limiter.py` | tokens and the time of the last refill | `acquire`, `try_acquire` |
| alerts | `live_trading/runner.py`, `monitoring/slack_alerter.py`, `monitoring/email_alerter.py` | the queue and threads of the executor, `last_alert_time` | `_send_alert`, `_do_send_alert`, `stop`, `send_alert`, `reset_throttle` |

### Beside the live path

| component | source | state | operations |
|---|---|---|---|
| loop of `main.py` | `main.py` with `risk/engine.py` | attempt, `consecutive_errors`, the shutdown request | `run_paper_trading`, `_close_all_positions` |
| drawdown manager | `risk/drawdown_manager.py` | tier, cooldown, latch, peak | `evaluate`, `reset` |
| pair blacklist | `pair_selection/blacklist.py`, called by the simulator; `scripts/run_v56_wf3.py` | losses in a row and the end of the cooldown per pair, a file | `record_outcome`, `is_blocked`, `reset`, `_save`, `_load` |
| bar loop of a backtest | `backtests/strategy_simulator.py`, `order_book.py`, `simulation_loop.py`, `position_tracker.py`, `strategies/pair_trading.py` | positions, the strategy's trades, value, booked marks, three peaks, the out-of-sample window | `run`, `generate_signals`, `unrealized_pnl`, `record` |

Around them: stops of single positions, sizing and allocation, statistical
models, pair discovery, caches, market data, older execution paths,
dashboards, configuration. `PROJECT.json` lists every component with what is
modelled of it.

### How they interact

One thread runs `start()`. It initialises (gateway, kill switch, shutdown
manager, router, recovery of positions from the trail), and then ticks once per
bar. A tick, in this order: probe the gateway, and if it is down initialise
again and return; confirm fills of close orders; look at the kill switch;
rediscover pairs, which fetches data; fetch data unless that did; run the
stops, whose close orders go through the router and are logged as EXIT; run the
signals, whose orders go through the risk facade and the router and are logged
as ENTRY. The router sends an order through the engine, polls it and gives up
after a timeout with an attempt to cancel. The engine talks to ib_insync, whose
events come in where its event loop runs: in the blocking requests of the thread
that owns it, and not in the `time.sleep()` of a poll. A trip of the kill switch
calls back into the runner, which cancels every open order at the broker and
alerts the operator. Beside this thread: alert workers, the thread of a fetch,
signal handlers, an operator with `rm data/trading_enabled`, and
`scripts/reset_kill_switch.py`, a process of its own with a switch of its own.

`main.py` runs another loop, with the risk engine and the same router and
shutdown manager, one iteration after the other. A backtest runs the strategy
bar by bar; its loop asks the drawdown manager at the head of every bar, and
obeys: hold, reduce, close half, close all, resume.

State is shared through memory (`_positions`, the switch that runner and facade
share) and through files that outlive the process: the trail, the order map,
the state of the switch, the marker.

### What is hard, and what must hold

* **Kill switch.** The flag is set under a lock, the file is written after it.
  A halt the operator was told of must survive crashes and failed writes; a
  reset must not leave a record that halts the next start; and a reset, be it by
  another process, must lift the halt its operator was shown, after the cooldown
  of that process, and no later one.
* **Order submission.** Retries after lost acknowledgements, a map that is saved
  after the broker has the order, disconnects that forget trades, reports that
  are cached. An id must reach the broker once, and a working order must be
  known to somebody.
* **Positions and trail.** A close order is submitted, logged, marked, and
  confirmed one tick later; a crash, a weekend re-initialisation or a midnight
  may come between any two. What is open must be on file, what is closing must
  not be opened again, what is filled must leave memory and not be closed twice.
* **Main loop.** Requests to stop, halts, weekends, outages and failing fetches
  meet initialisations that rebuild the objects which record them. A halt must
  be final, a request that was heard must be honoured, and nothing else must end
  the loop. Two of these the code does not keep everywhere: a request in the
  windows of `StateIsOverwritten` and `ManagerIsReplaced` is lost, and a gateway
  that comes back ends the loop (section 5).
* **Guards of the gateway.** Failures, cycles, pauses and an operator's reset
  decide together whether an engine may connect; engines share a client id that
  any of them may release, also while it is being finalised. Calls that were
  let through a closed breaker come back when it is open or half open. A dead
  gateway must be earned, an open breaker must be served and must end, and no
  window of time may see more messages than the broker allows.
* **Risk.** The day is reset by whichever call notices it; a halt, its cooldown
  and its peak outlive each other; memory changes before the row that records
  it. An approval must be deserved today, a mismatch of memory and trail must
  have reached the caller, a cooldown must be served once and paid for once.
* **Alerts.** Two threads share the times of the throttle without a lock, and
  the executor is shut down while jobs wait. An alert may only be dropped for one
  that was acknowledged, repeats must be bounded, and what was queued must be
  handled.
* **Blacklist.** Losses are counted in memory and in a file that is emptied before
  it is filled; runs begin at any date, and a script writes the same file. No
  pair may be traded in its cooldown.
* **Order lifecycle.** Late updates, failed cancellations and periodic checks: no
  order may stay open for ever past its deadline.
* **Backtest.** Two books and two accounts are updated in five places of a bar,
  some of which leave it early. The value must be the capital plus what was
  earned and what the book is worth; simulator and strategy must agree on what
  is open; entries of bar T are filled at T + 1 and must not be closed before.

`PROJECT.json` lists the hazards at their lines.

## 2. The modules

| module | models | read it with |
|---|---|---|
| `KillSwitch` | the switch in any number of processes and threads, its file, crash and restart | `risk_engine/kill_switch.py` |
| `OrderSubmission` | router, engine and broker for one order at a time | `execution_engine/router.py`, `execution/ibkr_engine.py`, `common/retry.py` |
| `OrderContract` | what router and engine promise the runner: an id is sent once and ends once, and `get_order_status()` answers what the broker gives a reason for | `execution/ibkr_engine.py:287-302`, `execution_engine/router.py:467-485` |
| `PositionBook` | `_positions`, the trade rows, recovery, what a tick does to them | `live_trading/runner.py`, `persistence/audit_trail.py` |
| `TradingLoop` | the control flow of the main thread | `live_trading/runner.py`, `execution/shutdown_manager.py` |
| `GatewayConnection` | the engines of a process: client ids and the breaker of `_ensure_connected()` | `execution/ibkr_engine.py` |
| `CircuitBreaker` | the general breaker with concurrent callers | `common/circuit_breaker.py` |
| `TokenBucket` | the rate limit with waiting and impatient callers | `execution/rate_limiter.py` |
| `PortfolioRisk` | the portfolio gate | `risk_engine/portfolio_risk.py` |
| `Drawdown` | the tiers of the drawdown manager with the mark of its caller | `risk/drawdown_manager.py` |
| `RiskEngine`, `PaperLoop` | the risk engine, and the loop of `main.py` that owns one | `risk/engine.py`, `main.py` |
| `AlertDelivery` | the executor of alerts and the throttle of its two threads | `live_trading/runner.py:180-232`, `monitoring/slack_alerter.py` |
| `Blacklist` | the cooldown of losing pairs, its file, runs and windows | `pair_selection/blacklist.py` |
| `OrderLifecycle` | tracked orders, their deadlines and cancellations | `execution/order_lifecycle.py`, `execution/order_lifecycle_integration.py` |
| `Backtest` | the bar loop, which composes `Drawdown` with the books and accounts | `backtests/strategy_simulator.py` |
| `MC...` | constants of the runs; `MCGuards` and `MCRisk` put one instance of each of several components side by side | |
| `...Proofs` | theorems | |

**KillSwitch.** `active`, `activatedAt` are the fields of a process, `disk` and
`tmp` the two files, `pc` and `snap` the position of a thread in `_save_state()`
and the record it has built. What is done under the lock is one step (`Activate`,
`Reset`); the save is `ReadFlag`, `TestStamp`, `ReadStamp`, `WriteTmp`,
`Replace`, each a place where another thread or a crash may come between;
`SaveFails` is its exception, `Callback` the call of `on_activate`. The five
thresholds of `check()` are one nondeterministic trip. A process is the runner
or the script that resets, each with its own cooldown; the script's is 0.
`notice` and `shown` are history: what became of the callback of a halt, and the
activation time of the halt a process made or loaded.

**OrderSubmission.** `pc`, `cur`, `tries`, `waited` are the locals of
`_live_fill()`; `cache` is the router's `_pending_orders`; `trade`, `persisted`,
`saved`, `pendingConfirm` the engine's maps and file; `sent`, `book`, `asked`
the broker. A call goes `Begin`, `Admit` or `AlreadySubmitted` or `Refuse`,
`Place` or `PlaceRetried` or `Raises`, `Record`, `PermAssigned` or
`PermTimeout`, `PollAgain`, `PollFilled` or `GiveUp`, `Cancel`. `Faults` selects
which failures a run allows, `Listening` the steps at which the event loop of
ib_insync runs, and with it fills, permIds and disconnects come in (never
between `placeOrder` and the save of the id, where the code neither waits nor
returns): it depends on the thread the loop belongs to. `Contract` maps the
state to `OrderContract`: the fate of an id is the state of its copy at the
broker, its answer `Status`, that of `get_order_status()`. Many answers may
change at once, when a connection or a process is lost. A router that has no
engine yet answers FILLED to everything; that is no state of this module but the
weekend of `PositionBook`.

**PositionBook.** `status` and `closeId` are `_positions`; `rows` holds, for
every day's file, the last row of each pair, which is all that recovery depends
on; `fileDay` is the file the process has open. `report` and `engine` are what
`get_order_status()` answers from. The steps of a tick are `Confirm`,
`StartStops`, `SubmitClose`, `LogExit`, `MarkPending`, `StartSignals`,
`SubmitSignal`, `LogEntry`, `EndTick`; between them the process may die. How a
report comes about is `OrderSubmission`; here `Returns` and `Raises` list the
combinations of report and fate at the broker which that module allows; that a
FILLED order has ended and one given up on was sent is its `AnswersStayDeserved`.

**TradingLoop.** `pc` is the place of the main thread, `why` and `attempt` those
of `_initialize_with_retry()`. `LoopHead`, `Probe`, `Gate`, `NoDiscovery`, `Fetch`,
`FetchFails`, `FetchHangs`, `Stops`, `Traded`, `Sleep` are a round of the loop;
`Initialize` builds a new switch from its file and a new shutdown manager.
`Stop`, `Signal`, `RemoveMarker` are requests, at any place; `SignalKills` is a
signal before a handler is installed. `asked` and `revived` are history: a
request outside the windows in which it is overwritten (`StateIsOverwritten`,
`ManagerIsReplaced`), and a re-initialisation that succeeded. Time
is the age of the data, in bars. The saves of the switch succeed here: when they
do not is the subject of `KillSwitch`. The module stands beside `PositionBook`,
which has the same tick with its guards as early returns (`EndTick`) and with
the initialisations as `Restart` and `Weekend`.

**GatewayConnection.** `life` is what becomes of an engine object (built,
refused by the registry, disconnected, collected), `claimed` the client id in
`_active_client_ids`. `EnsureConnected` is one call of `_ensure_connected()`
with its four ends: still connected (`StillConnected`), a connection
(`Connects`), all attempts fail (`CallFails`), the pause of the last cycle is
over once too often (`DeclareDead`, by `LastCycle`); a call that is refused
(`Refuse`) changes nothing. `failures`, `cycles`, `pause`, `dead` are the fields
with those meanings, `lost` counts the calls that failed since the last
construction or operator reset.

**CircuitBreaker.** `call()` reads and changes the state in `Enter`,
`EnterHalfOpen` or `ProbeFails`, runs the guarded function outside of them
(`inside`), and comes back in `OnSuccess` or `OnFailure`, whatever the state is
by then. `healthy` is the guarded service, which comes and goes.

**TokenBucket.** `Refilled` is what the bucket holds now, `CallAcquire`,
`Acquired`, `TimedOut` and `SleepALittle` the turns of the loop of `acquire()`,
`TryAcquire` the call that does not wait. A tick is the longest sleep. `taken`
is history: for each w up to the window, the tokens taken in the last w ticks.

**PortfolioRisk.** Equity, peak, loss, date, streak and halt are the fields;
`RecordLoss`, `RecordGain`, `UpdateEquity`, `SetOpenPositions`,
`CanOpenPosition`, `GetState` and `ManualReset` the methods, each with the
reset of the day at its place in the method.

**Drawdown.** One action for each return of `evaluate()`, in the order of the
code: `CoolDown`, `Resume`, `FullStop`, `CloseAll`, `CloseHalf`, `Reduce`,
`Normal`. `mark` is `_drawdown_peak` of the caller, which both manager and
caller lower at `Resume`. Values are compared in integers: 100 times the loss
against the percentage of the mark.

**RiskEngine, PaperLoop.** The engine has an action per method; writing a row
succeeds or raises (`Write`), after memory has changed. `dated` is `_daily_date`
by the UTC calendar: today, tomorrow or another day, as `reset_daily_stats()`
stores the local date. `todays`, `yesterdays` and `localReset` are history.
`InvalidInput` is a call that raises before it looks at anything. `PaperLoop`
extends it with the iterations, errors, shutdown and crashes of
`run_paper_trading()`, and with new sessions that recover the trail.

**OrderLifecycle.** Per order its status, filled quantity and cancel attempts;
`expired` says that the deadline is over and `due` that the check interval is.
`ProcessTimeouts` is a check and the cancellations that follow it. The check of
the symbol in `create_order()` is left out: the key of a pair (`A_B`) fails it,
so that only single symbols are ever tracked.

**AlertDelivery.** `jobs` is the queue, `doing` where each thread is in
`_do_send_alert()` (`mail`, then `slack`, then `post`), `silence` the time since
`last_alert_time` of a key. `CheckThrottle` reads it, `PostSucceeds` writes the
time of the check after the answer. `sent` is history: per thread and key, the
posts acknowledged at most so many ticks ago, as far back as the throttle.

**Blacklist.** `losses` and `until` are the fields in memory, `kept` those in the
file, which is absent, kept or damaged. `ClosePair` is a trade that ends with
`record_outcome()`, `EnterFree` and `EnterRehabilitated` the two answers of
`is_blocked()` that let a pair in; each save succeeds, fails or is cut by the
end of the process. `BeginRun` loads the file at any date, `Seed` is the script
between two windows. `inARow` and `owed` are history: what the trades demand.

**Backtest.** `Drawdown` is extended: its variables are those of the manager in
the loop. A bar is `BarHead` (the review of the value, then a halted, halved or
traded bar with its stop losses), `Signals` (exits, then accepted entries, which
fill one bar later), `Sweep` (time stops), `MarkToMarket`; after the last bar
`AfterLoop` visits every open position once and `ForceClose` closes the rest.
P&L is a choice from `Gains`. `earned` and `misbooked` are history: what
closings and entries really earned, and what the code counts twice; `high` is
the highest value that a bar of the out-of-sample window began with.
`Solvent` says that the value is one the model may take (`Navs`): a step that
would leave them is not taken.

Definitions whose comment begins with "Mutant" are deliberately wrong variants
of the definition that follows them. No specification uses them; each shows
that a property of a run notices the mistake.

## 3. The runs

| run | shows |
|---|---|
| `order_submission` | `AtMostOnce`, `NoOrphan`, `FilledReportIsFinal`, and `ContractHolds`: the refinement of `OrderContract` |
| `order_faults` | with lost acknowledgements, crashes in the recording window and unusable files: `RecordedIsNotResent`, `TrackedTimeoutIsCancelled` |
| `book_trail` | two pairs: `OpenSurvivesCrash`, `PendingIsNotReopened` |
| `book_live` | one pair, every event of a running process: `FilledIsNotClosedAgain`, `FilledIsRemoved` |
| `trading_loop` | every event: `HaltIsFinal`, `EndsForAReason`, `HaltEndsTheLoop`, `RequestIsHonoured`; beside it the delivery of alerts: `SilenceIsEarned`, `RepeatsAreBounded`, `QueuedAlertsAreHandled` |
| `guards` | `AlertedHaltIsDurable`, `NoStaleHalt`, `ReviewedHaltIsLifted`, `HaltIsAnnouncedEventually` of the kill switch; `DeadIsEarned`, `ClaimIsNotLeaked`, `OpenIsNotForEver` of the gateway; `OpenIsServed`, `ClosesAfterRecovery` of the breaker; `WindowIsBounded` of the bucket |
| `risk` | `ApprovalIsDeserved` of the portfolio gate; `CooldownIsPaidOnce`, `CooldownIsServed` of the drawdown manager; `MismatchIsRaised`, `OldLossesAreForgotten` of the risk engine; `ShutdownClosesAll` of the loop of `main.py`; `NoTradeInCooldown` of the blacklist; `NoOrderStaysOpen` of the order lifecycle |
| `backtest` | `AccountsAgree`, `StrategyKnowsTheBook`, `HoldingIsBounded`, `FilledBeforeClosed`, `OnlyLossesOfTheWindowStop` |
| `order_cancelled_as_filled`, `book_short`, `paper_recovery`, `loop_reinit` | counterexamples: section 5 |

### Bounds

* Deadlock is not checked in any run: a program may stop, and a process that is
  down at the end of the clock may stay down.
* `order_submission`, `order_faults`: events come in at any step but that between
  `placeOrder` and the save, the most that any placement of the event loop
  allows. `order_cancelled_as_filled`: between calls and while the shortable
  shares are asked for only, which is what a loop on the calling thread allows.
  Two interchangeable ids; a third would be treated like the
  second, as the call works on one id and the others only rest in the maps.
  `MaxSends = 2` is the least number of copies that lets a second one be seen.
  `MaxPolls = 1`, two attempts each for placing and cancelling: first, last and
  in between are all distinguished by comparisons with the limit.
* `book_trail`: two interchangeable pairs, three orders, two days: an entry, its
  close and one more order, or two pairs interleaved, on both sides of midnight.
  It has entry signals only and rows that are written, because
  `PendingIsNotReopened` is false otherwise (section 5).
* `book_live`: one pair, three orders, two days, and every event but those of
  the trail's files.
* `trading_loop`: data go stale after two bars (five in the code), two attempts
  at initialising (five in the code): below, at and above each limit occur. The
  alerts: two threads as in the code, an alert that is mailed and one that is
  not, one job that waits, a throttle of two ticks and posts of one tick (30 s,
  and twice 5 s to connect and to read): the least that lets two posts fit into
  the throttle, so that a key is posted by both threads, throttled, and posted
  again within a behaviour. `loop_reinit` has outages of the gateway and no
  other event.
* `guards`: the components share nothing, and a behaviour moves one of them. The
  switch comes twice: one process whose thread activates and resets with a
  cooldown of 2, its file damaged at any time; and the runner, which activates,
  beside the script, which resets with a cooldown of 0, the file damaged while
  neither runs. The clock goes to 4, so that an activation, an early reset, a
  crash and a late reset fit. Two engines: one has the id, the other wants it.
  Thresholds of 2, three cycles and pauses of 1, 2 and 4 ticks: each limit is
  met from below, and the pause at its maximum. Three callers of the breaker:
  two that were let in before it opened, and the one that opens it. Two users of
  a bucket of two tokens of two parts each, and a window of four ticks: bursts
  after a pause, and both of several users.
* `risk`: the same way of putting components side by side. Equities and values
  lie on both sides of every limit and tier (3, 5, 8 and 12 % as in the code),
  the cooldown lasts three bars; two pairs, one with a known sector; the engine
  stops after two losses, the loop of `main.py` after two errors or four
  iterations; two orders with one cancellation attempt repeated. The blacklist:
  two pairs, as a save writes all of them, four dates and cooldowns of two
  days, so that a cooldown begins, is restarted into at earlier and later dates,
  ends, and begins again.
* `backtest`: three interchangeable pairs, two slots, so that a third entry is
  refused; six bars with the out-of-sample boundary at the third; time limits
  of two bars; P&L of -9 or +4 out of 100, so that one loss reaches
  tier 3 and two the full stop, and a cooldown of one bar, so that trading
  resumes inside the run. TLC does not report a value that leaves `Values` (1 to
  400): `Solvent` would silently disable the step. None is cut: with -150 to 400
  the run reaches exactly the same states.

### Fairness

* `KillSwitch`: a call that has begun goes on. Nothing is assumed of activations,
  resets, the disk or the clock.
* `GatewayConnection`: time passes and engines go on being called; the gateway
  does nothing in particular. `CircuitBreaker`: time passes, calls come and end.
  That the service stays healthy is the premise of `ClosesAfterRecovery`, not an
  assumption.
* `AlertDelivery`: a thread goes on with its job. Slack's request and every
  exchange with the mail server have timeouts, and Python's executor works off
  what was queued before `shutdown(wait=False)`.
* `OrderLifecycle`: deadlines and check intervals pass, and the loop goes on to
  check. `Backtest` and the other risk modules state safety only.
* `PositionBook`: the loop goes on to tick. `start()` calls `_tick()` for as long
  as it runs; the broker is not assumed to fill anything.
* `TradingLoop`: the main thread goes on, a weekend ends, and the thread of a
  fetch ends some day. The last is an assumption about the data source and not a
  consequence of the timeout: leaving the executor waits for the thread
  (`live_trading/runner.py:1434`). Days pass in the model only where the main
  thread sleeps or waits; without this a Monday morning could be shorter than a
  tick, for ever. `HaltEndsTheLoop` allows for a gateway that is down: a tick
  does not then come to the check of the switch.

## 4. The proofs

Each holds for every value of the constants, under the named assumptions of the
module; extra hypotheses are in the statement of the theorem.

* **KillSwitch.** `TypeCorrect`, for any threads and processes.
  `AnnouncedHaltSurvives` (one thread): an announced halt is on file since
  `Callback` comes after `Replace`. That is not inductive: `DurableInv` adds that
  the `.tmp` file a thread is about to rename is the record it has built, that
  this record is one of a halt while an activation is being saved, and that a
  process with a call in progress is running. `LiftedAfterItsReview` (one
  thread, any cooldown): `ReviewInv` relates the times in memory, in the record
  under construction and on disk to the halt the process was shown. `NoHaltIsStale` (one
  thread that drives every process): a call in progress saves what memory says
  (`SaveAgrees`), so that when it has returned and the switch lets trade, the
  file records no halt (`NoHaltForgotten`). `ScriptLiftsWhatItShows` (one thread
  of the runner that activates, one of the script that resets, `RolesApart`; any
  two cooldowns, so that of the real script, 0; the file damaged while no process
  runs): `RunnerKnows` says that a runner that may trade, or that still saves its
  halt, leaves the script nothing to reset, `ScriptKnows` that a script that may
  reset has the halt that is on file. Damaged under a runner that trades, a file
  would let it reset a halt the runner saves meanwhile.
* **OrderSubmission.** `TypeCorrect`. `SubmittedAtMostOnce`, `NoOrderIsOrphaned`
  and `ImplementsContract` (no fault in the recording window): `SendInv` says
  that map and file agree, that every id the broker has received is in the map
  or about to be recorded, and that an order being placed is unknown to the
  broker. The refinement uses it to map `Place` to `Send` and `BrokerEnds` to
  `End`; every other step changes at most answers, and `AnswersStayDeserved`
  says that these are deserved: `ReportInv` adds the facts of the next two
  theorems and that what is in map or file was sent (`KnownIsSent`).
  `RecordedNeverResent` needs no assumption on faults: `PlacingIsUnknown` is
  inductive by itself, and neither does `TimeoutsAreCancelled`
  (`GivenUpIsKnown`: an id given up on is in the map, so that it is not placed
  again). `FilledReportsAreFinal` (no fault): an end the engine has seen is one
  the broker knows (`SeenIsTrue`), and an id cached as filled was sent once and
  has ended there (`FilledHasEnded`). None depends on where messages come in
  (`Listening`). `EveryCallEnds` (any faults): `StepsLeft` is a natural number
  that every step of a call lowers and nothing else raises (`CountersInRange`
  bounds the counters of the call).
* **PositionBook.** `TypeCorrect`. `NoCloseAfterFill`: `ConfirmedFirst` says
  that, from the confirmations to the end of the tick, no position of memory
  still waits for a close order that is reported FILLED, except the one being
  marked. `OpenPositionsAreOnFile` (without the weekend re-initialisation) is
  inductive with `TypeOK`. `ClosingIsDurable` (entries only, rows written):
  `ClosingIsOnFile` adds the position between its EXIT row and its mark.
* **TradingLoop.** `TypeCorrect`, which includes the bound on attempts.
  `HaltStays`: `HaltLeftTheTick`, a halted loop sleeps, is at the head or shuts
  down, whatever else writes the state. `EndsWithACause`: `CausesKnown` gives
  for each thing the head looks at (the flag, the marker, the state) what can
  have set it, save where the next initialisation overwrites it: a request, a
  halt, or a re-initialisation after an outage (`revived`). `RequestIsServed` and
  `HaltIsServed` prove of `RequestIsHonoured` and `HaltEndsTheLoop` all but the
  fairness: `RequestLeft` and `HaltLeft` are natural numbers which every step of
  the main thread lowers and nothing else raises. Requests come at every place;
  the measure is that of those which are not in a window that overwrites them.
  `RequestKnown` says that such a request is still in the state, the flag or the
  missing marker: the re-initialisation of a tick overwrites all three, but
  leaves INITIALIZING. `SwitchKept` says that the file an initialisation
  reads says what the switch said.

* **GatewayConnection.** `DeathIsEarned`, `PauseIsThatOfTheCycles`,
  `DeadStaysDown`, `NoClaimLeaks`, `GatewayTypeCorrect`, for any engines and
  thresholds, from one invariant: `Numbers` ties failures, cycles, pause, flag
  and lost calls of an engine together, and `CyclesCost` is the arithmetic of
  one more cycle. `OpenBreakersRunOut` proves of `OpenIsNotForEver` all but the
  fairness: an open breaker whose pause is over can be called (`OpenIsCallable`,
  a gateway is never dead with an open breaker), and `OpenLeft`, the rest of its
  pause and of its cycles, falls with every tick and every call that goes
  through and never rises while it stays open, a threshold of one included.
  **CircuitBreaker.** `LateResultsDoNotClose`, `CountersAlwaysFit`, for any
  number of callers.
* **PortfolioRisk.** `ApprovalsAreDeserved`, `DrawdownsStand`,
  `PortfolioTypeCorrect`. `PortfolioInv` adds that a limit that was
  passed halts, and that the recorded loss, unless its date is old, is that of
  today.
* **Drawdown.** `CooldownsArePaidOnce`, `CooldownsAreServed`,
  `HalvingHappensOnce`, `FullStopsAreFinal`, `DrawdownTypeCorrect`, for any
  ascending tiers and any cooldown: `DrawdownInv` says how many bars a running
  cooldown has stopped, that the half was closed only in tier 2, and that a
  cooldown that ended left the mark at the value.
* **RiskEngine, PaperLoop.** `NoRowIsLostSilently`,
  `LossesOfOtherDaysAreForgotten` for the engine; `ShutdownsCloseAll`,
  `GivesUpAfterErrorsInARow`, `PaperTypeCorrect` for the loop, which inherits
  the invariant of the engine because each of its steps is a call of it or
  leaves it alone. `LossesOfOtherDaysAreForgotten` holds whatever date
  `reset_daily_stats()` stores: a date that is UTC's tomorrow comes from a call
  of it (`localReset`), and hides the losses of one day at most.
  **OrderLifecycle.** `LifecycleTypeCorrect`.
* **TokenBucket.** `WindowsAreBounded`, for any rate, burst, window and threads:
  `TakenAndHeld` says of every length of time that the tokens taken in it and
  those the bucket holds now are together no more than a full bucket and what
  the ticks brought. A look moves tokens from one side to the other, a tick
  brings its rate and makes every window one tick longer; so the sum over a
  window needs no induction. `DeadlinesAreKept`: who sleeps has time left.
* **AlertDelivery.** `RepeatsWereSent`: `SilenceIsEarned` is inductive with the
  types, as an answer records the time of its own check, which is never older
  than the throttle. `RepeatsAreFew`: the last time of a key is never more than
  one timeout older than its last answer, whatever order the answers come in, so
  that a thread that posts had no answer for that key for a throttle but for one
  timeout (`PostsArePaced`); three would not fit. **Blacklist.**
  `CooldownsOfPairsAreServed`: `MemoryCovers` and `FileCovers` say that counters
  and ends, in memory during a run and in the file while the last save
  succeeded, are no smaller than what history demands, and that a pair at the
  limit has a cooldown (`Whole`), also in an old file.
* **Backtest.** For any pairs, bars, limits and P&L. `BarsAreJudged`, a lemma:
  the bar loop is also a behaviour of the specification of the drawdown manager,
  so that the theorems about `Drawdown` hold of a backtest; it needs that the
  value is a number the manager is specified for. `WindowsStartAfresh`, of all
  three memories of a peak, the strategy's included: in the out-of-sample window
  a bar is halted, and entries are refused, only for what the window itself has
  lost. `OwnPeaks` says that from the first bar of the window on the strategy's
  peak is the highest value a bar of it began with and the loop's mark is not
  above it, `HigherMarksLoseMore` is the arithmetic of two marks.
  `AccountsBalance` is inductive with the types (`Fields`). `BooksAgree` and
  `SlotsSuffice` come from `Books`, which says for each place of a bar which
  trades the strategy may believe in without a position. `StopsAreFlat` from
  `StoppedFlat`. `HoldingsAreBounded`, of every state and not only of a marked
  bar, and `FillsComeFirst` from `Clocks`: an entry is at most one bar ahead, no
  position enters a bar past its limit, and a bar that leaves early holds none.
  `ReturnsAreComplete` from `Tail`: the visits after the last bar and the
  forced close add at most `Slots + 1` returns to one for each bar of the window.
  `MarksStayUnderThePeak`: the mark of the loop never passes the peak of the
  strategy.

Some of these are not among the properties of a run, as what they say follows
from the proof for every instance: the types of every module with a theorem,
`PauseFollowsCycles`, `DeadIsDown`, `CountersFitState`, `DrawdownStands`,
`HalvedOnce`, `FullStopIsFinal`, `ErrorsAreInARow`, `PositionsWithinSlots`,
`FlatWhileStopped`, `ReturnsCoverTheWindow`, `MarkUnderPeak`,
`SleepersHaveTime`, `CallsEnd`, `AnswersAreDeserved`, `RequestIsNear`,
`HaltIsNear`, `OpenIsCallable`, `OpenRunsOut`.

Only model-checked: liveness (`HaltIsAnnouncedEventually`, `FilledIsRemoved`,
`HaltEndsTheLoop`, `RequestIsHonoured`, `OpenIsNotForEver`,
`ClosesAfterRecovery`, `NoOrderStaysOpen`, `QueuedAlertsAreHandled`), which is
beyond this prover; of the two about the end of the loop and of the one about
the breaker, the measure that comes down is proved.

## 5. What the code does differently from what it says

With a run that shows it:

* An order that the broker cancels is reported FILLED: `isDone()` is true of
  both (`execution/ibkr_engine.py:442`, run `order_cancelled_as_filled`).
* The close order of a recovered short position is a SELL
  (`live_trading/runner.py:1061`, run `book_short`).
* A session of `main.py` that recovers a position raises on every iteration: the
  loop calls a method of the engine's `Position` on the record of the trail
  (`main.py:506`, `risk/engine.py:282`, run `paper_recovery`).
* A gateway that comes back through `_attempt_gateway_reinit()` leaves the state
  INITIALIZING (`live_trading/runner.py:513`), and the head of the loop, which
  asks for RUNNING, ends the process without a request or a halt (`:353`,
  `:259`, run `loop_reinit`).

Seen while modelling, in the models where these contain the step, without a run:

* `activate()` and `reset()` leave the lock before they save: with a second
  thread that resets, `AlertedHaltIsDurable` and `NoStaleHalt` fail. The live
  runner has one such thread.
* A failed save leaves `activate()` before its callback: halted, but no order is
  cancelled and no alert sent. The review period that is configured
  (`config/settings.py:131`, `live_trading/runner.py:465`) is enforced nowhere:
  what resets the switch is `scripts/reset_kill_switch.py`, whose own switch has
  cooldown 0 (`:29`, `risk_engine/kill_switch.py:65`). A second script at its
  prompt is outside the runs: it could lift a halt made since, which it has not
  shown.
* A crash between `placeOrder` and the save of the id lets the next process send
  the order again (`order_faults` excludes `AtMostOnce` for this reason). After
  a disconnect the cancellation of a timed-out order is not sent. An order whose
  acknowledgement is lost is not recorded, so that nothing keeps a later call
  from sending it again (`:294`). An answer TIMEOUT is cached and stays, also
  when the order fills later. No order carries an `orderRef`, so that
  `reconcile_pending_confirm()` matches none.
* `_live_fill()` and the wait for a permId poll with `time.sleep()`: where the
  calling thread owns ib_insync's event loop, no fill and no permId comes in
  during a call, so that every first call times out and asks for a cancellation
  (`execution_engine/router.py:391`, `execution/ibkr_engine.py:325`).
* A stop fires again while its last close order works at the broker; a crash
  between the submission of a close and its EXIT row leads to a second close; a
  restart on the next day opens another file and restores nothing; an exit
  signal is logged as an entry, after which a restart opens the position again;
  the Monday re-initialisation gives a router that reports every old order
  FILLED; `_shutdown()` closes nothing, as it compares a record with 0.
* A failed discovery of pairs can trip the switch and the tick goes on to send
  the close orders of stops. A failed fetch refreshes the time of the last load.
* Some requests to stop are overwritten: those of the start and of the first and
  the Monday initialisation by `start()`, which sets RUNNING; a signal or a
  removed marker of these and of a weekend pause by the new shutdown manager,
  which creates the marker and knows no flag. Before the first manager has
  installed its handlers a signal kills the process. A signal that arrives while
  `is_shutdown_requested()` holds its lock deadlocks the main thread. A fetch
  whose thread never ends blocks the loop.
* A pair entered since the start is in no book the stops look at
  (`live_trading/runner.py:1269`). Every weekend ends with a kill switch that
  trips on Monday, as the time of the last load is Friday's (`:947`).
* The live runner asks `can_enter_trade()` with a position size of 0
  (`live_trading/runner.py:1175-1181`), which its validation refuses: every
  signal is dropped while there is a risk facade. It calls none of
  `record_trade_result`, `set_open_positions`, `register_entry`, `manual_reset`.
* Startup reconciliation is always skipped: the new router has no engine and
  reports a balance of 0; the periodic one then has no reconciler.
* Gateway: the finaliser of a refused engine releases the id of the engine that
  holds it (`execution/ibkr_engine.py:498-510`), so that uniqueness is enforced
  once. A success resets neither cycles nor pause, and the last expiry declares
  the gateway dead without trying it. In `gw_manager.py` the loser of the launch
  mutex returns False where it says it falls through, and an `OSError` goes on
  without the mutex.
* Circuit breaker: a late success of a call admitted before the breaker opened
  counts while it is half open. `universe/rate_limiter.py` calls its limit
  "concurrent" and limits a rate.
* Portfolio gate: `manual_reset()` keeps the peak, so that the next update halts
  again; the cooldown has no effect. Drawdown manager: a fall through tier 4
  during a cooldown never becomes a full stop.
* Risk engine: a streak at its limit with an empty book blocks for ever; a crash
  forgets streak and daily loss; a loss booked after midnight and before the
  next check is wiped with yesterday's; `reset_daily_stats()` stores the local
  date (`risk/engine.py:455`), so that east of Greenwich the losses of a day may
  count on the next one too (nothing in the repository calls it); positions
  without a mark do not count for leverage; the sector limit refuses every first
  position of a known sector.
* `main.py`: prices of a pair are never found, so that no signal becomes an
  order; `register_entry()` is never called; the stop-loss path is unreachable;
  the errors that `common/errors.py:60-64` wants to halt trading are swallowed
  per symbol; a request to shut down in the last iteration leaves positions
  open.
* In the live runner the trailing stop and the partial-profit manager never get a
  position (`live_trading/runner.py:496-498`, `980-1013`), so that only the time
  and correlation stops can fire.
* Alerts: "Minimum seconds between duplicate alerts" (`monitoring/slack_alerter.py:30`)
  is not kept by two threads, which check before they post and record after it,
  an older time over a later one; a key may be acknowledged up to four times in
  that period. A failed post is dropped. After `stop()` the executor refuses
  jobs: `_send_alert()` raises in the tick that is still running
  (`live_trading/runner.py:188`, `292`), and the alert of a halt in it is lost.
* Blacklist: a save cut by the end of the process leaves a file that loads as an
  empty blacklist, with a warning. `is_blocked()` does not look at
  `blacklisted_on`: a window that starts at earlier dates is blocked by losses it
  has yet to make. A save that fails is ignored after a trade and ends the run
  at an entry.
* Order lifecycle: a cancellation that fails leaves TIMEOUT, which later checks
  pass over; False from `cancel_order()` is ignored; `force_close_order()` may
  exceed the quantity; an order in ERROR expires again and becomes CANCELLED.
  `create_order()` raises for the key of a pair
  (`execution/order_lifecycle.py:161-168`).
* Backtest: a halted bar adds the full P&L of its closings to a value that
  already contains their marks, and resets the marks
  (`backtests/strategy_simulator.py:501-506`; `misbooked` in the model). The
  block of 1199 to 1480, which "independently monitors ALL open positions", is
  indented so that it runs once, after the last bar; it adds the P&L of that bar
  once more per position, and a position whose pair has left the list is closed
  by its time limit only. Trades closed in the first out-of-sample bar are in no
  metric, the return of that bar is. The visits after the last bar and the
  forced close append returns of their own, up to one for each slot and one
  (`:1473-1477`, `1504-1507`). The strategy's own peak is not lowered when
  trading resumes, so that its limit, once passed with a flat book, stops
  entries until the out-of-sample boundary; `config.yaml` gives that limit as
  20.0 where a fraction is compared.

## 6. What is not modelled, and the plan

Prices, quantities, sizing, signals and statistics are nondeterministic choices
or left out: a finite model has nothing to say about them. Dashboards,
configuration and scripts are input and output around the core, metrics and
walk-forward splits sequential arithmetic around the bar loop. `PROJECT.json`
gives the reason for each component.

Done, in the order of the plan: `KillSwitch`; `OrderSubmission` with
`OrderContract`; `PositionBook`; `TradingLoop`; `GatewayConnection`,
`CircuitBreaker`, `TokenBucket`; `PortfolioRisk`, `Drawdown`, `RiskEngine`,
`PaperLoop`; `OrderLifecycle`; `Backtest`; `Blacklist`, `AlertDelivery`. What is
left, most important first:

1. A composition of `TradingLoop` and `PositionBook`, in which the close orders
   of a tick depend on the switch, and the age of the bars themselves.
2. The reconciliation, once the live runner gets beyond its construction: today
   no behaviour of the program reaches it.
3. The pair cache and the retraining task: small, sequential.
