---------------------------- MODULE PositionBook ----------------------------
(***************************************************************************)
(* The life of positions in the live loop: LiveTradingRunner._positions    *)
(* and the steps of _tick() that use it (live_trading/runner.py), the      *)
(* audit trail it is restored from (persistence/audit_trail.py), and the   *)
(* order statuses the router remembers (execution_engine/router.py).       *)
(*                                                                         *)
(* One thread runs the ticks.  Between its steps the broker fills or ends  *)
(* orders, midnight passes, and the process may die.  An order moves one   *)
(* unit; how the router obtains a report is the module OrderSubmission.    *)
(***************************************************************************)
EXTENDS Integers, FiniteSets

CONSTANTS
    Pairs,      \* pair keys
    MaxOrders,  \* bound: orders submitted in a behaviour
    MaxDays,    \* bound: days of a behaviour
    Sides,      \* the signals the generator gives, a subset of SignalSides
    Events,     \* what else may happen, a subset of EventKinds
    NoPair

SignalSides == {"long", "short", "exit"}
EventKinds ==
    {"crash",      \* the process dies
     "shutdown",   \* the loop ends and _shutdown() runs
     "midnight",   \* the date changes under a running process
     "weekend",    \* the loop pauses and initialises again in the same process
     "timeout",    \* an order outlives the fill timeout
     "ends",       \* the broker ends an order without filling it
     "refused",    \* the router refuses an order
     "raises",     \* submit_order() raises, nothing was sent
     "lostAck",    \* submit_order() raises, the broker has the order
     "auditFails", \* a row is not written
     "corrupt",    \* the trail does not parse
     "rotate"}     \* the file of the day is too large and is archived

ASSUME PositionBookAssumption ==
    /\ MaxOrders \in Nat
    /\ MaxDays \in Nat \ {0}
    /\ Sides \subseteq SignalSides
    /\ Events \subseteq EventKinds
    /\ NoPair \notin Pairs

VARIABLES
    pc, todo, cur,        \* the step of _tick(), the pairs it still has to handle, the one it is at
    status, closeId,      \* _positions: the status of a pair, its close_order_id (0: none)
    report, engine,       \* the router: _pending_orders, and whether its IBKR engine exists
    rows, fileDay,        \* the trail: last row of each pair in each day's file; the file of this process
    day,                  \* the date
    n, pairOf, sign, fate \* the broker: orders received, what each one does, what became of it

runner == <<pc, todo, cur, status, closeId>>
router == <<report, engine>>
trail == <<rows, fileDay>>
broker == <<n, pairOf, sign, fate>>
vars == <<runner, router, trail, day, broker>>

Ids == 1 .. MaxOrders
Days == 1 .. MaxDays
Statuses == {"absent", "open", "pending_close", "close_failed"}
Reports == {"none", "FILLED", "TIMEOUT", "REJECTED"}
Up == pc \notin {"down", "stopped"}
Busy == {"log", "mark", "entered"}   \* between a returned submit_order() and the end of its pair

TypeOK ==
    /\ pc \in {"idle", "tick", "stops", "signals", "down", "stopped"} \union Busy
    /\ todo \in SUBSET Pairs
    /\ cur \in Pairs \union {NoPair}
    /\ status \in [Pairs -> Statuses]
    /\ closeId \in [Pairs -> 0 .. MaxOrders]
    /\ report \in [Ids -> Reports]
    /\ engine \in BOOLEAN
    /\ rows \in [Days -> [Pairs -> {"none", "ENTRY", "EXIT"}]]
    /\ fileDay \in Days
    /\ day \in Days
    /\ n \in 0 .. MaxOrders
    /\ pairOf \in [Ids -> Pairs \union {NoPair}]
    /\ sign \in [Ids -> {-1, 0, 1}]
    /\ fate \in [Ids -> {"none", "working", "filled", "dead"}]
    \* what the control states say of the loop's local variables
    /\ cur = NoPair <=> pc \notin Busy
    /\ cur \in todo \union {NoPair}
    /\ pc \in Busy => n > 0

Init ==
    /\ pc = "idle" /\ todo = {} /\ cur = NoPair
    /\ status = [p \in Pairs |-> "absent"]
    /\ closeId = [p \in Pairs |-> 0]
    /\ report = [i \in Ids |-> "none"]
    /\ engine = FALSE
    /\ rows = [d \in Days |-> [p \in Pairs |-> "none"]]
    /\ fileDay = 1 /\ day = 1
    /\ n = 0
    /\ pairOf = [i \in Ids |-> NoPair]
    /\ sign = [i \in Ids |-> 0]
    /\ fate = [i \in Ids |-> "none"]

-----------------------------------------------------------------------------
(* The router *)

\* get_order_status(): the cached final status; for an id it does not have, the
\* engine's UNKNOWN, and FILLED as long as no order has created the engine.
Status(i) ==
    IF report[i] # "none" THEN report[i]
    ELSE IF engine THEN "UNKNOWN" ELSE "FILLED"

Received(i, p, s, f) ==
    /\ n' = i
    /\ pairOf' = [pairOf EXCEPT ![i] = p]
    /\ sign' = [sign EXCEPT ![i] = s]
    /\ fate' = [fate EXCEPT ![i] = f]

\* submit_order() returns, with report r cached and the order in state f.
Returns(p, s) ==
    \E r \in Reports \ {"none"}, f \in {"none", "working", "filled", "dead"} :
        /\ \/ r = "FILLED" /\ f = "filled"
           \/ r = "FILLED" /\ f = "dead" /\ "ends" \in Events
           \/ r = "TIMEOUT" /\ f = "working" /\ "timeout" \in Events
           \/ r = "REJECTED" /\ f = "none" /\ "refused" \in Events
        /\ Received(n + 1, p, s, f)
        /\ report' = [report EXCEPT ![n + 1] = r]

\* submit_order() raises.
Raises(p, s) ==
    /\ \/ "raises" \in Events /\ Received(n + 1, p, s, "none")
       \/ "lostAck" \in Events /\ Received(n + 1, p, s, "working")
    /\ UNCHANGED report

-----------------------------------------------------------------------------
(* The audit trail *)

\* log_trade_event() of the process's file; the runner survives its failure.
Append(p, kind) ==
    /\ \/ rows' = [rows EXCEPT ![fileDay] = [rows[fileDay] EXCEPT ![p] = kind]]
       \/ "auditFails" \in Events /\ UNCHANGED rows
    /\ UNCHANGED fileDay

\* AuditTrail(): the file of day d, archived first when it is too large.
OpenTrail(d) ==
    /\ fileDay' = d
    /\ \/ UNCHANGED rows
       \/ "rotate" \in Events /\ rows' = [rows EXCEPT ![d] = [p \in Pairs |-> "none"]]

\* recover_state() of the file just opened, folded over its rows: the pairs
\* whose last row is an entry; none when it raises.
Recovered(S) ==
    \/ S = {p \in Pairs : rows'[fileDay'][p] = "ENTRY"}
    \/ "corrupt" \in Events /\ S = {}

\* The runner takes the recovered positions, all of them without a status, if there are any.
Restore(S) ==
    /\ status' = IF S = {} THEN status
                 ELSE [p \in Pairs |-> IF p \in S THEN "open" ELSE "absent"]
    /\ closeId' = IF S = {} THEN closeId ELSE [p \in Pairs |-> 0]

NewRouter == report' = [i \in Ids |-> "none"] /\ engine' = FALSE

-----------------------------------------------------------------------------
(* One tick *)

Confirmed(p) == status[p] = "pending_close" /\ Status(closeId[p]) = "FILLED"
Failed(p) == status[p] = "pending_close" /\ Status(closeId[p]) = "REJECTED"

\* Mutant: the confirmations look at nothing.
ConfirmNothing == pc = "idle" /\ pc' = "tick" /\ UNCHANGED <<todo, cur, status, closeId, router, trail, day, broker>>
\* _process_fill_confirmations().
Confirm ==
    /\ pc = "idle"
    /\ pc' = "tick"
    /\ status' = [p \in Pairs |-> IF Confirmed(p) THEN "absent"
                                  ELSE IF Failed(p) THEN "close_failed" ELSE status[p]]
    /\ closeId' = [p \in Pairs |-> IF Confirmed(p) THEN 0 ELSE closeId[p]]
    /\ UNCHANGED <<todo, cur, router, trail, day, broker>>

InMemory == {p \in Pairs : status[p] # "absent"}

\* The stops that trigger, whatever the status of the position.
StartStops ==
    /\ pc = "tick"
    /\ pc' = "stops"
    /\ todo' \in SUBSET InMemory
    /\ n + Cardinality(todo') <= MaxOrders
    /\ UNCHANGED <<cur, status, closeId, router, trail, day, broker>>

\* A recovered quantity is filled_qty or the requested notional: positive for a
\* short position too.
RecordedQuantity == 1
CloseSign == IF RecordedQuantity > 0 THEN -1 ELSE 1

\* The close order of a stop, up to the return of submit_order().
SubmitClose(p) ==
    /\ pc = "stops" /\ p \in todo
    /\ n < MaxOrders
    /\ engine' = TRUE
    /\ \/ Returns(p, CloseSign) /\ pc' = "log" /\ cur' = p /\ UNCHANGED todo
       \/ Raises(p, CloseSign) /\ UNCHANGED <<pc, cur>> /\ todo' = todo \ {p}
    /\ UNCHANGED <<status, closeId, trail, day>>

\* The EXIT row, before any confirmation.
LogExit ==
    /\ pc = "log"
    /\ Append(cur, "EXIT")
    /\ pc' = "mark"
    /\ UNCHANGED <<todo, cur, status, closeId, router, day, broker>>

\* Mutant: the position stays open beside its close order.
MarkKeepingStatus ==
    /\ pc = "mark" /\ pc' = "stops" /\ todo' = todo \ {cur} /\ cur' = NoPair
    /\ status' = [status EXCEPT ![cur] = "open"]
    /\ closeId' = [closeId EXCEPT ![cur] = n]
    /\ UNCHANGED <<router, trail, day, broker>>
MarkPending ==
    /\ pc = "mark"
    /\ status' = [status EXCEPT ![cur] = "pending_close"]
    /\ closeId' = [closeId EXCEPT ![cur] = n]
    /\ pc' = "stops"
    /\ todo' = todo \ {cur}
    /\ cur' = NoPair
    /\ UNCHANGED <<router, trail, day, broker>>

\* Mutant: entries are signalled for pairs in memory too.
SidesForAnyPair(p) == Sides
\* The pairs with a signal: an entry for a pair that is not in memory, an exit
\* for one that is.
SidesFor(p) == Sides \intersect (IF p \in InMemory THEN {"exit"} ELSE {"long", "short"})
StartSignals ==
    /\ pc = "stops" /\ todo = {}
    /\ pc' = "signals"
    /\ todo' \in SUBSET {p \in Pairs : SidesFor(p) # {}}
    /\ n + Cardinality(todo') <= MaxOrders
    /\ UNCHANGED <<cur, status, closeId, router, trail, day, broker>>

SignalSign(side) == IF side = "long" THEN 1 ELSE -1

\* An order for a signal of any side; _positions is not touched.
SubmitSignal(p, side) ==
    /\ pc = "signals" /\ p \in todo
    /\ n < MaxOrders
    /\ side \in SidesFor(p)
    /\ engine' = TRUE
    /\ \/ Returns(p, SignalSign(side)) /\ pc' = "entered" /\ cur' = p /\ UNCHANGED todo
       \/ Raises(p, SignalSign(side)) /\ UNCHANGED <<pc, cur>> /\ todo' = todo \ {p}
    /\ UNCHANGED <<status, closeId, trail, day>>

\* The ENTRY row, whatever the side and the report of the order.
LogEntry ==
    /\ pc = "entered"
    /\ Append(cur, "ENTRY")
    /\ pc' = "signals"
    /\ todo' = todo \ {cur}
    /\ cur' = NoPair
    /\ UNCHANGED <<status, closeId, router, day, broker>>

\* The end of the tick, or an early return: kill switch, no data, stale data.
EndTick ==
    /\ \/ pc = "tick"
       \/ pc \in {"stops", "signals"} /\ todo = {}
    /\ pc' = "idle"
    /\ UNCHANGED <<todo, cur, status, closeId, router, trail, day, broker>>

-----------------------------------------------------------------------------
(* Around the ticks *)

\* _run_startup_reconciliation() up to the restored positions, in a new process.
Restart ==
    /\ ~Up
    /\ OpenTrail(day)
    /\ \E S \in SUBSET Pairs :
        /\ Recovered(S)
        /\ status' = [p \in Pairs |-> IF p \in S THEN "open" ELSE "absent"]
    /\ closeId' = [p \in Pairs |-> 0]
    /\ pc' = "idle" /\ todo' = {} /\ cur' = NoPair
    /\ NewRouter
    /\ UNCHANGED <<day, broker>>

\* The weekend pause of start(): _initialize() again, in the same process.
Weekend ==
    /\ "weekend" \in Events
    /\ pc = "idle"
    /\ day < MaxDays
    /\ day' = day + 1
    /\ OpenTrail(day + 1)
    /\ \E S \in SUBSET Pairs : Recovered(S) /\ Restore(S)
    /\ NewRouter
    /\ UNCHANGED <<pc, todo, cur, broker>>

Crash ==
    /\ "crash" \in Events
    /\ Up
    /\ pc' = "down" /\ todo' = {} /\ cur' = NoPair
    /\ status' = [p \in Pairs |-> "absent"]
    /\ closeId' = [p \in Pairs |-> 0]
    /\ UNCHANGED <<router, trail, day, broker>>

\* _shutdown(): it compares each position's record with 0, which raises before
\* any close order is built; every exception is caught and logged.
Shutdown ==
    /\ "shutdown" \in Events
    /\ pc = "idle"
    /\ pc' = "stopped"
    /\ UNCHANGED <<todo, cur, status, closeId, router, trail, day, broker>>

Midnight ==
    /\ "midnight" \in Events
    /\ day < MaxDays
    /\ day' = day + 1
    /\ UNCHANGED <<runner, router, trail, broker>>

\* The broker, on an order that timed out or whose acknowledgement was lost.
BrokerFills(i) ==
    /\ fate[i] = "working"
    /\ fate' = [fate EXCEPT ![i] = "filled"]
    /\ UNCHANGED <<runner, router, trail, day, n, pairOf, sign>>
BrokerEnds(i) ==
    /\ "ends" \in Events
    /\ fate[i] = "working"
    /\ fate' = [fate EXCEPT ![i] = "dead"]
    /\ UNCHANGED <<runner, router, trail, day, n, pairOf, sign>>

-----------------------------------------------------------------------------
TickStep ==
    \/ Confirm \/ StartStops \/ LogExit \/ MarkPending
    \/ StartSignals \/ LogEntry \/ EndTick
    \/ \E p \in Pairs : SubmitClose(p) \/ \E side \in Sides : SubmitSignal(p, side)

Next ==
    \/ TickStep
    \/ Restart \/ Weekend \/ Crash \/ Shutdown \/ Midnight
    \/ \E i \in Ids : BrokerFills(i) \/ BrokerEnds(i)

Spec == Init /\ [][Next]_vars

\* start() calls _tick() for as long as it runs, and a tick always ends.
FairSpec == Spec /\ WF_vars(TickStep)

-----------------------------------------------------------------------------
(* Properties *)

\* A stop does not send another close order for a position whose last one is
\* reported FILLED: confirmations run before the stops of the same tick.
FilledIsNotClosedAgain ==
    [][\A p \in Pairs :
        SubmitClose(p) /\ status[p] = "pending_close" => Status(closeId[p]) # "FILLED"]_vars

\* A crash does not lose an open position: as long as the process did not start
\* a second file, the last row of every open position in its file is an entry,
\* except between the EXIT row and the mark of the position being closed.
OpenSurvivesCrash ==
    Up => \A p \in Pairs :
        status[p] = "open" /\ ~(pc = "mark" /\ cur = p) => rows[fileDay][p] = "ENTRY"

\* The test TestNoPendingCloseReopen: a restart does not open again a position
\* that is being closed.
PendingIsNotReopened ==
    Up => \A p \in Pairs :
        status[p] \in {"pending_close", "close_failed"} => rows[fileDay][p] # "ENTRY"

\* A close order reported FILLED ends in the removal of its position, unless the process ends.
FilledIsRemoved ==
    \A p \in Pairs, i \in Ids :
        Up /\ status[p] = "pending_close" /\ closeId[p] = i /\ report[i] = "FILLED"
            ~> closeId[p] # i \/ ~Up

Orders(p, s) == {i \in Ids : fate[i] = "filled" /\ pairOf[i] = p /\ sign[i] = s}
Held(p) == Cardinality(Orders(p, 1)) - Cardinality(Orders(p, -1))

\* _step_process_stops() submits orders that close: what they trade is the
\* opposite of what is held.
StopsReduce ==
    [][\A p \in Pairs : SubmitClose(p) /\ Held(p) # 0 => Held(p) * CloseSign < 0]_vars
=============================================================================
