---------------------------- MODULE TradingLoop -----------------------------
(***************************************************************************)
(* The main thread of the live runner: start(), _initialize_with_retry(),  *)
(* the order of the guards in _tick(), _fetch_market_data() and            *)
(* _shutdown() in live_trading/runner.py, with the ShutdownManager of      *)
(* execution/shutdown_manager.py and the kill switch it consults.          *)
(*                                                                         *)
(* Others act between its steps: a thread that calls stop(), a signal, an  *)
(* operator who deletes the marker file or resets the switch on disk, the  *)
(* gateway, the calendar.  Time passes in units of one bar interval.       *)
(***************************************************************************)
EXTENDS Integers

CONSTANTS
    MaxStale,     \* intervals in max_data_stale_seconds
    MaxAttempts,  \* _INIT_MAX_ATTEMPTS
    Events        \* what may happen besides the loop's own steps, a subset of EventKinds

EventKinds ==
    {"weekend",     \* Saturday comes
     "gateway",     \* the gateway goes down and comes back
     "fetchFails",  \* a fetch raises, or returns nothing
     "fetchHangs",  \* a fetch outlives its timeout
     "tickRaises",  \* an exception leaves _tick()
     "risk",        \* a threshold of the kill switch is passed while trading
     "request",     \* a request to stop, at any time
     "restart"}     \* the operator resets the switch on disk and starts the program again

ASSUME TradingLoopAssumption ==
    /\ MaxStale \in Nat
    /\ MaxAttempts \in Nat \ {0}
    /\ Events \subseteq EventKinds

VARIABLES
    pc, why, attempt,  \* where the main thread is; why it initialises, and its attempt
    state,             \* _state
    switch, file,      \* the kill switch: is_active in memory, and in its state file
    flag, marker,      \* ShutdownManager: _shutdown_flag, and the trading_enabled file
    loadAge, loaded,   \* intervals since _data_load_at, and whether it is set
    haveData,          \* _last_market_data is set
    gateway, weekend,  \* the gateway is reachable; Saturday or Sunday in Paris
    asked,             \* history: this process was asked to stop when it could hear it
    revived            \* history: a re-initialisation after an outage succeeded

control == <<pc, why, attempt>>
kill == <<switch, file>>
manager == <<flag, marker>>
data == <<loadAge, loaded, haveData>>
world == <<gateway, weekend>>
history == <<asked, revived>>
vars == <<control, state, kill, manager, data, world, history>>

Hung == {"discoverHung", "fetchHung"}
InLoop == {"head", "tick", "gate", "discover", "fetch", "stops", "trade", "sleep"} \union Hung
Gone == {"ended", "raised"}
Oldest == MaxStale + 1   \* bound of loadAge: older than the limit

TypeOK ==
    /\ pc \in InLoop \union Gone \union {"start", "init", "ready", "pause", "shutdown"}
    /\ why \in {"first", "monday", "gateway"}
    /\ attempt \in 0 .. MaxAttempts
    /\ state \in {"INITIALIZING", "RUNNING", "HALTED", "SHUTTING_DOWN", "STOPPED"}
    /\ switch \in BOOLEAN /\ file \in BOOLEAN
    /\ flag \in BOOLEAN /\ marker \in BOOLEAN
    /\ loadAge \in 0 .. Oldest
    /\ loaded \in BOOLEAN /\ haveData \in BOOLEAN
    /\ gateway \in BOOLEAN /\ weekend \in BOOLEAN
    /\ asked \in BOOLEAN /\ revived \in BOOLEAN
    /\ pc = "init" => attempt > 0

\* A new process.  The state file and the marker are what the last one left.
NewProcess ==
    /\ pc' = "start" /\ why' = "first" /\ attempt' = 0
    /\ state' = "INITIALIZING"
    /\ switch' = FALSE
    /\ flag' = FALSE
    /\ loadAge' = 0 /\ loaded' = FALSE /\ haveData' = FALSE
    /\ asked' = FALSE /\ revived' = FALSE

Init ==
    /\ pc = "start" /\ why = "first" /\ attempt = 0
    /\ state = "INITIALIZING"
    /\ switch = FALSE /\ file = FALSE
    /\ flag = FALSE /\ marker = FALSE
    /\ loadAge = 0 /\ loaded = FALSE /\ haveData = FALSE
    /\ gateway \in (IF "gateway" \in Events THEN BOOLEAN ELSE {TRUE})
    /\ weekend \in (IF "weekend" \in Events THEN BOOLEAN ELSE {FALSE})
    /\ asked = FALSE /\ revived = FALSE

-----------------------------------------------------------------------------
Goto(label) == pc' = label /\ UNCHANGED <<why, attempt>>
InitFor(reason) == pc' = "init" /\ why' = reason /\ attempt' = 1

\* An interval goes by.
Age == loadAge' = IF loadAge < Oldest THEN loadAge + 1 ELSE loadAge

\* ensure_gateway_ready() and the probe: no on weekends, whatever the gateway does.
Reachable == gateway /\ ~weekend

Stale == loaded /\ loadAge > MaxStale

Activate == switch' = TRUE /\ file' = TRUE

-----------------------------------------------------------------------------
(* start() and the initialisations *)

\* The first weekend guard.
FirstWeekday ==
    /\ pc = "start" /\ ~weekend
    /\ InitFor("first")
    /\ UNCHANGED <<state, kill, manager, data, world, history>>

\* Mutant: the marker is not created.
InitializeUnmarked ==
    /\ pc = "init" /\ Reachable
    /\ switch' = file /\ UNCHANGED file
    /\ flag' = FALSE /\ UNCHANGED marker
    /\ state' = "INITIALIZING"
    /\ Goto("ready")
    /\ revived' = (why = "gateway")
    /\ UNCHANGED <<data, world, asked>>
\* _initialize(), the gateway being ready: a new kill switch from its file, a
\* new shutdown manager that creates the marker, and the state at its end.  The
\* reconciliation it ends with has no effect: the new router has no engine yet
\* and reports no balance.
Initialize ==
    /\ pc = "init" /\ Reachable
    /\ switch' = file /\ UNCHANGED file
    /\ flag' = FALSE /\ marker' = TRUE
    /\ state' = "INITIALIZING"
    /\ Goto("ready")
    /\ revived' = (why = "gateway")
    /\ UNCHANGED <<data, world, asked>>

\* An attempt fails before it has changed anything.
Retry ==
    /\ pc = "init" /\ ~Reachable
    /\ attempt < MaxAttempts
    /\ attempt' = attempt + 1
    /\ Age
    /\ UNCHANGED <<pc, why, state, kill, manager, loaded, haveData, world, history>>

\* The last one: start() raises, the Monday initialisation ends in _shutdown(),
\* _attempt_gateway_reinit() gives up until the next tick.
Exhausted ==
    /\ pc = "init" /\ ~Reachable
    /\ attempt = MaxAttempts
    /\ pc' = CASE why = "first" -> "raised" [] why = "monday" -> "shutdown" [] OTHER -> "sleep"
    /\ UNCHANGED <<why, attempt, state, kill, manager, data, world, history>>

\* start() sets RUNNING, whatever the state is; _attempt_gateway_reinit() returns to the tick.
Ready ==
    /\ pc = "ready"
    /\ IF why = "gateway"
       THEN Goto("sleep") /\ UNCHANGED state
       ELSE Goto("head") /\ state' = "RUNNING"
    /\ UNCHANGED <<kill, manager, data, world, history>>

\* Mutant: the shutdown manager is not asked.
NeverRequested == FALSE
\* is_shutdown_requested()
ShutdownRequested == flag \/ ~marker

\* Mutant: the loop ends for a request to stop only.
HeadOfHalted ==
    /\ pc = "head"
    /\ Goto(IF state \notin {"RUNNING", "HALTED"} \/ ShutdownRequested THEN "shutdown"
            ELSE IF weekend THEN "pause" ELSE "tick")
    /\ flag' = (flag \/ ~marker) /\ UNCHANGED marker
    /\ UNCHANGED <<state, kill, data, world, history>>
\* The head of the loop.
LoopHead ==
    /\ pc = "head"
    /\ Goto(IF state # "RUNNING" \/ ShutdownRequested THEN "shutdown"
            ELSE IF weekend THEN "pause" ELSE "tick")
    /\ flag' = (flag \/ (state = "RUNNING" /\ ~marker)) /\ UNCHANGED marker
    /\ UNCHANGED <<state, kill, data, world, history>>

\* The end of the pause: Monday, or a state that stop() has changed.
Resume ==
    /\ pc = "pause"
    /\ ~weekend \/ state # "RUNNING"
    /\ IF state = "RUNNING" THEN InitFor("monday") ELSE Goto("shutdown")
    /\ loadAge' = Oldest
    /\ UNCHANGED <<state, kill, manager, loaded, haveData, world, history>>

-----------------------------------------------------------------------------
(* _tick() *)

Probe ==
    /\ pc = "tick"
    /\ IF Reachable THEN Goto("gate") ELSE InitFor("gateway")
    /\ UNCHANGED <<state, kill, manager, data, world, history>>

\* Mutant: a tick that finds the switch active returns and nothing else.
ReturnRunning == UNCHANGED state
Halt == state' = "HALTED"

\* _step_check_kill_switch(): stale data trip the switch.
Gate ==
    /\ pc = "gate"
    /\ IF Stale THEN Activate ELSE UNCHANGED kill
    /\ IF switch' THEN Halt /\ Goto("sleep") ELSE UNCHANGED state /\ Goto("discover")
    /\ UNCHANGED <<manager, data, world, history>>

\* _maybe_rediscover_pairs(), when the pairs are recent.
NoDiscovery ==
    /\ pc = "discover"
    /\ Goto("fetch")
    /\ UNCHANGED <<state, kill, manager, data, world, history>>

\* Where the tick goes with data: on with them, or, when the discovery of pairs
\* fails on them, to a fetch of its own.
WithData == Goto("stops") \/ (pc \in {"discover", "discoverHung"} /\ Goto("fetch"))
\* Where it goes without: a discovery leaves the fetch to the tick, the tick returns.
WithoutData == Goto(IF pc \in {"discover", "discoverHung"} THEN "fetch" ELSE "sleep")

\* _fetch_market_data() with an answer in time, for the discovery of pairs or the tick.
Fetch ==
    /\ pc \in {"discover", "fetch"}
    /\ WithData
    /\ loadAge' = 0 /\ loaded' = TRUE /\ haveData' = TRUE
    /\ UNCHANGED <<state, kill, manager, world, history>>

\* No data: the switch is checked, on DataUnavailableError only, and the time
\* of the load is refreshed all the same.
FetchFails ==
    /\ "fetchFails" \in Events
    /\ pc \in {"discover", "fetch"}
    /\ \/ UNCHANGED kill
       \/ IF Stale \/ ~loaded THEN Activate ELSE UNCHANGED kill
    /\ loadAge' = 0 /\ loaded' = TRUE /\ UNCHANGED haveData
    /\ WithoutData
    /\ UNCHANGED <<state, manager, world, history>>

\* The timeout of the fetch: leaving the executor waits for its thread.
FetchHangs ==
    /\ "fetchHangs" \in Events
    /\ pc \in {"discover", "fetch"}
    /\ Goto(IF pc = "discover" THEN "discoverHung" ELSE "fetchHung")
    /\ UNCHANGED <<state, kill, manager, data, world, history>>

\* The thread ends, at last; the caller gets the last data, if there are any.
FetchThreadEnds ==
    /\ pc \in Hung
    /\ IF haveData THEN WithData ELSE WithoutData
    /\ loadAge' \in loadAge .. Oldest
    /\ UNCHANGED <<state, kill, manager, loaded, haveData, world, history>>

\* _step_process_stops(), then the guard on the age of the bars.
Stops ==
    /\ pc = "stops"
    /\ Goto("trade") \/ Goto("sleep")
    /\ UNCHANGED <<state, kill, manager, data, world, history>>

\* can_enter_trade() trips the switch; the signals that follow are refused.
RiskTrips ==
    /\ "risk" \in Events
    /\ pc = "trade"
    /\ Activate
    /\ UNCHANGED <<control, state, manager, data, world, history>>

Traded ==
    /\ pc = "trade"
    /\ Goto("sleep")
    /\ UNCHANGED <<state, kill, manager, data, world, history>>

\* An exception leaves _tick() and start() runs its finally clause.
TickRaises ==
    /\ "tickRaises" \in Events
    /\ pc \in {"tick", "gate", "stops", "trade"}
    /\ Goto("shutdown")
    /\ UNCHANGED <<state, kill, manager, data, world, history>>

\* time.sleep(bar_interval_seconds)
Sleep ==
    /\ pc = "sleep"
    /\ Goto("head")
    /\ Age
    /\ UNCHANGED <<state, kill, manager, loaded, haveData, world, history>>

\* _shutdown(): cleanup() removes the marker.  Positions: module PositionBook.
Shutdown ==
    /\ pc = "shutdown"
    /\ state' = "STOPPED"
    /\ marker' = FALSE /\ UNCHANGED flag
    /\ Goto("ended")
    /\ UNCHANGED <<kill, data, world, history>>

-----------------------------------------------------------------------------
(* The others *)

\* What start() and _initialize() overwrite.  A request here is not heard: the
\* state becomes RUNNING, by start(), after the first initialisation and Monday's,
StateIsOverwritten == pc = "start" \/ (pc \in {"init", "ready"} /\ why # "gateway")
\* and a new manager clears the flag and touches the marker.
ManagerIsReplaced == pc \in {"start", "pause"} \/ (pc = "init" /\ why # "gateway")
\* The re-initialisation of a tick overwrites all three as well, but what it
\* leaves, INITIALIZING, ends the loop.

Request(lost) ==
    /\ "request" \in Events
    /\ pc \notin Gone
    /\ IF lost THEN UNCHANGED asked ELSE asked' = TRUE
    /\ UNCHANGED revived

\* Before the first manager there is no handler of signals.
NoHandler == pc = "start" \/ (pc = "init" /\ why = "first")

\* stop() from another thread.
Stop ==
    /\ Request(StateIsOverwritten)
    /\ state' = "SHUTTING_DOWN"
    /\ UNCHANGED <<control, kill, manager, data, world>>

\* request_shutdown(), from the handler of a signal.
Signal ==
    /\ ~NoHandler
    /\ Request(ManagerIsReplaced)
    /\ flag' = TRUE
    /\ UNCHANGED <<control, state, kill, marker, data, world>>

\* A signal without handler ends the process there.
SignalKills ==
    /\ NoHandler
    /\ Request(TRUE)
    /\ Goto("raised")
    /\ UNCHANGED <<state, kill, manager, data, world>>

\* rm data/trading_enabled
RemoveMarker ==
    /\ Request(ManagerIsReplaced)
    /\ marker /\ marker' = FALSE
    /\ UNCHANGED <<control, state, kill, flag, data, world>>

GatewayChanges ==
    /\ "gateway" \in Events
    /\ gateway' = ~gateway
    /\ UNCHANGED <<control, state, kill, manager, data, weekend, history>>

\* Days pass while the main thread sleeps or waits, not between two of its other steps.
SaturdayComes ==
    /\ "weekend" \in Events
    /\ pc \in {"sleep", "init"} \union Hung \union Gone
    /\ ~weekend /\ weekend' = TRUE
    /\ UNCHANGED <<control, state, kill, manager, data, gateway, history>>
MondayComes ==
    /\ pc \in {"start", "pause"} \union Hung \union Gone
    /\ weekend /\ weekend' = FALSE
    /\ UNCHANGED <<control, state, kill, manager, data, gateway, history>>

\* The program is started again, after a reset of the switch or without one.
Restart ==
    /\ "restart" \in Events
    /\ pc \in Gone
    /\ NewProcess
    /\ file' \in {file, FALSE}
    /\ UNCHANGED <<marker, world>>

-----------------------------------------------------------------------------
MainThread ==
    \/ FirstWeekday \/ Initialize \/ Retry \/ Exhausted \/ Ready
    \/ LoopHead \/ Resume \/ Probe \/ Gate
    \/ NoDiscovery \/ Fetch \/ FetchFails \/ FetchHangs
    \/ Stops \/ Traded \/ TickRaises \/ Sleep \/ Shutdown

Next ==
    \/ MainThread \/ FetchThreadEnds \/ RiskTrips
    \/ Stop \/ Signal \/ SignalKills \/ RemoveMarker
    \/ GatewayChanges \/ SaturdayComes \/ MondayComes \/ Restart

Spec == Init /\ [][Next]_vars

\* The main thread runs on; a fetch ends some day; so does a weekend.
FairSpec == Spec /\ WF_vars(MainThread) /\ WF_vars(FetchThreadEnds) /\ WF_vars(MondayComes)

-----------------------------------------------------------------------------
(* Properties *)

\* The loop ends at its head for one of three reasons: a request that it could
\* hear, a halt, or a re-initialisation after an outage that succeeded.  A flag,
\* a marker or a state left by an earlier initialisation is none.
EndsForAReason ==
    [][LoopHead /\ pc' = "shutdown" => asked \/ switch \/ revived]_vars

\* What start() promises, "Runs 24/7", and what the re-initialisation after an
\* outage is for: only a request or a halt ends the loop at its head.
OnlyRequestsOrHaltsEndTheLoop ==
    [][LoopHead /\ pc' = "shutdown" => asked \/ switch]_vars

\* A halt is the last state of its process: neither an initialisation nor a
\* request to stop lets the loop go on.
HaltIsFinal ==
    [][state = "HALTED" /\ ~(pc \in Gone /\ pc' = "start")
        => state' \in {"HALTED", "SHUTTING_DOWN", "STOPPED"} /\ pc' # "tick"]_vars

\* Once the switch is active, and unless the gateway goes down, the process
\* ends, although the switch is looked at in one place of the tick only and
\* every initialisation builds another one from the file.
HaltEndsTheLoop == switch ~> pc \in Gone \/ ~gateway

\* A request to stop that is not lost at once ends the process, although
\* initialisations replace the shutdown manager, create its marker and write the
\* state.
RequestIsHonoured == asked ~> pc \in Gone

-----------------------------------------------------------------------------
(* How far the end is: why the last two properties hold. *)

\* The head of the loop would end it now.
Ending == state # "RUNNING" \/ ShutdownRequested

\* The steps of the main thread to the end of a process that was asked to stop:
\* at most the rest of its tick, with all attempts to initialise again.
RequestLeft ==
    CASE pc = "tick"         -> 11 + MaxAttempts
      [] pc = "gate"         -> 10
      [] pc = "discover"     -> 9
      [] pc = "discoverHung" -> 8
      [] pc = "fetch"        -> 7
      [] pc = "fetchHung"    -> 6
      [] pc = "stops"        -> 5
      [] pc = "trade"        -> 4
      [] pc = "init"         -> 5 + (MaxAttempts - attempt)
      [] pc = "ready"        -> 4
      [] pc = "sleep"        -> 3
      [] pc \in {"head", "pause"} -> 2
      [] pc = "shutdown"     -> 1
      [] OTHER               -> 0

\* Those of a process with an active switch, whose gateway is up: the rest of
\* the tick, a weekend with its initialisation, and a tick as far as its gate.
HaltLeft ==
    CASE pc = "discover"     -> 16 + MaxAttempts
      [] pc = "discoverHung" -> 15 + MaxAttempts
      [] pc = "fetch"        -> 14 + MaxAttempts
      [] pc = "fetchHung"    -> 13 + MaxAttempts
      [] pc = "stops"        -> 12 + MaxAttempts
      [] pc = "trade"        -> 11 + MaxAttempts
      [] pc = "init"         ->
            (IF why = "gateway" THEN 12 + MaxAttempts ELSE 8) + (MaxAttempts - attempt)
      [] pc = "ready"        -> IF why = "gateway" THEN 11 + MaxAttempts ELSE 7
      [] pc = "sleep"        -> IF Ending THEN 3 ELSE 10 + MaxAttempts
      [] pc = "head"         -> IF Ending THEN 2 ELSE IF weekend THEN 9 + MaxAttempts ELSE 6
      [] pc = "pause"        -> 8 + MaxAttempts
      [] pc = "tick"         -> 5
      [] pc = "gate"         -> 4
      [] pc = "shutdown"     -> 1
      [] OTHER               -> 0

\* Each step of the main thread, or of the fetch it waits for, comes nearer.
Nears(left, next) == IF MainThread \/ FetchThreadEnds THEN next < left ELSE next <= left

\* From a request on, nothing but the rest of the tick comes before the end: no
\* initialisation makes the loop forget the request.
RequestIsNear == [][asked /\ pc \notin Gone => asked' /\ Nears(RequestLeft, RequestLeft')]_vars

\* From the activation of the switch on, and while the gateway is up, the loop
\* comes nearer to its end: no weekend and no initialisation makes it forget the
\* halt, and the next gate sees it.
HaltIsNear ==
    [][switch /\ gateway /\ gateway' /\ pc \notin Gone
        => switch' /\ Nears(HaltLeft, HaltLeft')]_vars
=============================================================================
