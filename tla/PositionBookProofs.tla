------------------------- MODULE PositionBookProofs -------------------------
(* Theorems about the positions of the live loop, for any number of pairs, *)
(* orders and days.                                                        *)
EXTENDS PositionBook, TLAPS

-----------------------------------------------------------------------------
(* Type correctness *)

(***************************************************************************)
(* The first state is well typed.                                          *)
(***************************************************************************)
LEMMA InitType == Init => TypeOK
  <1> SUFFICES ASSUME Init PROVE TypeOK
    OBVIOUS
  <1>1. [p \in Pairs |-> "none"] \in [Pairs -> {"none", "ENTRY", "EXIT"}]
    OBVIOUS
  <1>2. rows \in [Days -> [Pairs -> {"none", "ENTRY", "EXIT"}]]
    BY <1>1 DEF Init
  <1>3. report \in [Ids -> Reports] /\ sign \in [Ids -> {-1, 0, 1}]
        /\ fate \in [Ids -> {"none", "working", "filled", "dead"}]
        /\ pairOf \in [Ids -> Pairs \union {NoPair}]
    BY DEF Init, Reports
  <1>4. status \in [Pairs -> Statuses] /\ closeId \in [Pairs -> 0 .. MaxOrders]
        /\ n \in 0 .. MaxOrders /\ day \in Days /\ fileDay \in Days
    BY PositionBookAssumption DEF Init, Statuses, Days
  <1>5. cur = NoPair /\ pc = "idle" /\ todo = {} /\ engine = FALSE
    BY DEF Init
  <1> QED BY <1>2, <1>3, <1>4, <1>5 DEF TypeOK, Busy

\* One append keeps the files well typed.
LEMMA AppendType ==
  ASSUME TypeOK, NEW p \in Pairs, NEW kind \in {"ENTRY", "EXIT"}, Append(p, kind)
  PROVE  /\ rows' \in [Days -> [Pairs -> {"none", "ENTRY", "EXIT"}]]
         /\ fileDay' \in Days
  BY DEF Append, TypeOK

\* Opening a file keeps the files well typed.
LEMMA OpenType ==
  ASSUME TypeOK, NEW d \in Days, OpenTrail(d)
  PROVE  /\ rows' \in [Days -> [Pairs -> {"none", "ENTRY", "EXIT"}]]
         /\ fileDay' \in Days
  BY DEF OpenTrail, TypeOK

\* A submission, whatever comes back, keeps router and broker well typed.
LEMMA SubmitType ==
  ASSUME TypeOK, NEW p \in Pairs, NEW s \in {-1, 1}, n < MaxOrders,
         Returns(p, s) \/ Raises(p, s)
  PROVE  /\ report' \in [Ids -> Reports]
         /\ n' \in 0 .. MaxOrders /\ n' > 0
         /\ pairOf' \in [Ids -> Pairs \union {NoPair}]
         /\ sign' \in [Ids -> {-1, 0, 1}]
         /\ fate' \in [Ids -> {"none", "working", "filled", "dead"}]
  <1>1. n + 1 \in Ids /\ n + 1 \in 0 .. MaxOrders /\ n + 1 > 0
    BY PositionBookAssumption DEF TypeOK, Ids
  <1>2. CASE Returns(p, s)
    BY <1>1, <1>2 DEF Returns, Received, TypeOK, Reports
  <1>3. CASE Raises(p, s)
    BY <1>1, <1>3 DEF Raises, Received, TypeOK
  <1> QED BY <1>2, <1>3

\* The steps of a tick.
LEMMA TickType == TypeOK /\ TickStep => TypeOK'
  <1> SUFFICES ASSUME TypeOK, TickStep PROVE TypeOK'
    OBVIOUS
  <1>1. CASE Confirm
    <2>1. status' \in [Pairs -> Statuses]
      BY <1>1 DEF Confirm, TypeOK, Statuses
    <2>2. closeId' \in [Pairs -> 0 .. MaxOrders]
      BY <1>1, PositionBookAssumption DEF Confirm, TypeOK
    <2> QED BY <1>1, <2>1, <2>2 DEF Confirm, TypeOK, Busy, Statuses, vars, runner, router, trail, broker
  <1>2. CASE StartStops
    BY <1>2 DEF StartStops, InMemory, TypeOK, Busy, Statuses, vars, runner, router, trail, broker
  <1>3. CASE LogExit
    <2>1. cur \in Pairs
      BY <1>3 DEF LogExit, TypeOK, Busy
    <2>2. /\ rows' \in [Days -> [Pairs -> {"none", "ENTRY", "EXIT"}]]
          /\ fileDay' \in Days
      BY <1>3, <2>1, AppendType DEF LogExit
    <2> QED BY <1>3, <2>2 DEF LogExit, TypeOK, Busy, Statuses, vars, runner, router, trail, broker
  <1>4. CASE MarkPending
    <2>1. cur \in Pairs /\ n \in 0 .. MaxOrders
      BY <1>4 DEF MarkPending, TypeOK, Busy
    <2> QED BY <1>4, <2>1 DEF MarkPending, TypeOK, Busy, Statuses, vars, runner, router, trail, broker
  <1>5. CASE StartSignals
    BY <1>5 DEF StartSignals, TypeOK, Busy, Statuses, vars, runner, router, trail, broker
  <1>6. CASE LogEntry
    <2>1. cur \in Pairs
      BY <1>6 DEF LogEntry, TypeOK, Busy
    <2>2. /\ rows' \in [Days -> [Pairs -> {"none", "ENTRY", "EXIT"}]]
          /\ fileDay' \in Days
      BY <1>6, <2>1, AppendType DEF LogEntry
    <2> QED BY <1>6, <2>2 DEF LogEntry, TypeOK, Busy, Statuses, vars, runner, router, trail, broker
  <1>7. CASE EndTick
    BY <1>7 DEF EndTick, TypeOK, Busy, Statuses, vars, runner, router, trail, broker
  <1>8. ASSUME NEW p \in Pairs, SubmitClose(p) PROVE TypeOK'
    <2>1. CloseSign \in {-1, 1}
      BY DEF CloseSign
    <2>2. /\ report' \in [Ids -> Reports]
          /\ n' \in 0 .. MaxOrders /\ n' > 0
          /\ pairOf' \in [Ids -> Pairs \union {NoPair}]
          /\ sign' \in [Ids -> {-1, 0, 1}]
          /\ fate' \in [Ids -> {"none", "working", "filled", "dead"}]
      BY <1>8, <2>1, SubmitType DEF SubmitClose
    <2>3. CASE pc' = "log" /\ cur' = p /\ UNCHANGED todo
      BY <1>8, <2>2, <2>3, PositionBookAssumption DEF SubmitClose, TypeOK, Busy, Statuses, vars, runner, router, trail, broker
    <2>4. CASE UNCHANGED <<pc, cur>> /\ todo' = todo \ {p}
      BY <1>8, <2>2, <2>4 DEF SubmitClose, TypeOK, Busy, Statuses, vars, runner, router, trail, broker
    <2> QED BY <1>8, <2>3, <2>4 DEF SubmitClose
  <1>9. ASSUME NEW p \in Pairs, NEW side \in Sides, SubmitSignal(p, side) PROVE TypeOK'
    <2>1. SignalSign(side) \in {-1, 1}
      BY DEF SignalSign
    <2>2. /\ report' \in [Ids -> Reports]
          /\ n' \in 0 .. MaxOrders /\ n' > 0
          /\ pairOf' \in [Ids -> Pairs \union {NoPair}]
          /\ sign' \in [Ids -> {-1, 0, 1}]
          /\ fate' \in [Ids -> {"none", "working", "filled", "dead"}]
      BY <1>9, <2>1, SubmitType DEF SubmitSignal
    <2>3. CASE pc' = "entered" /\ cur' = p /\ UNCHANGED todo
      BY <1>9, <2>2, <2>3, PositionBookAssumption DEF SubmitSignal, TypeOK, Busy, Statuses, vars, runner, router, trail, broker
    <2>4. CASE UNCHANGED <<pc, cur>> /\ todo' = todo \ {p}
      BY <1>9, <2>2, <2>4 DEF SubmitSignal, TypeOK, Busy, Statuses, vars, runner, router, trail, broker
    <2> QED BY <1>9, <2>3, <2>4 DEF SubmitSignal
  <1> QED BY <1>1, <1>2, <1>3, <1>4, <1>5, <1>6, <1>7, <1>8, <1>9 DEF TickStep

\* The steps around the ticks, and the broker's.
LEMMA StepType == TypeOK /\ [Next]_vars => TypeOK'
  <1> SUFFICES ASSUME TypeOK, [Next]_vars PROVE TypeOK'
    OBVIOUS
  <1>1. CASE TickStep
    BY <1>1, TickType
  <1>2. CASE Restart
    <2>1. /\ rows' \in [Days -> [Pairs -> {"none", "ENTRY", "EXIT"}]]
          /\ fileDay' \in Days
      BY <1>2, OpenType DEF Restart, TypeOK
    <2>2. report' \in [Ids -> Reports] /\ engine' \in BOOLEAN
      BY <1>2 DEF Restart, NewRouter, Reports
    <2>3. status' \in [Pairs -> Statuses] /\ closeId' \in [Pairs -> 0 .. MaxOrders]
      BY <1>2, PositionBookAssumption DEF Restart, Statuses
    <2> QED BY <1>2, <2>1, <2>2, <2>3 DEF Restart, TypeOK, Busy, Statuses, vars, runner, router, trail, broker
  <1>3. CASE Weekend
    <2>1. day + 1 \in Days
      BY <1>3, PositionBookAssumption DEF Weekend, TypeOK, Days
    <2>2. /\ rows' \in [Days -> [Pairs -> {"none", "ENTRY", "EXIT"}]]
          /\ fileDay' \in Days
      BY <1>3, <2>1, OpenType DEF Weekend
    <2>3. status' \in [Pairs -> Statuses] /\ closeId' \in [Pairs -> 0 .. MaxOrders]
      BY <1>3, PositionBookAssumption DEF Weekend, Restore, TypeOK, Statuses
    <2> QED BY <1>3, <2>1, <2>2, <2>3 DEF Weekend, NewRouter, Reports, TypeOK, Busy, Statuses, vars, runner, router, trail, broker
  <1>4. CASE Crash
    BY <1>4, PositionBookAssumption DEF Crash, TypeOK, Busy, Statuses, vars, runner, router, trail, broker
  <1>5. CASE Shutdown
    BY <1>5 DEF Shutdown, TypeOK, Busy, Statuses, vars, runner, router, trail, broker
  <1>6. CASE Midnight
    <2>1. day + 1 \in Days
      BY <1>6, PositionBookAssumption DEF Midnight, TypeOK, Days
    <2> QED BY <1>6, <2>1 DEF Midnight, TypeOK, Busy, Statuses, vars, runner, router, trail, broker
  <1>7. ASSUME NEW i \in Ids, BrokerFills(i) \/ BrokerEnds(i) PROVE TypeOK'
    BY <1>7 DEF BrokerFills, BrokerEnds, TypeOK, Busy, Statuses, vars, runner, router, trail, broker
  <1>8. CASE UNCHANGED vars
    BY <1>8 DEF TypeOK, Busy, Statuses, vars, runner, router, trail, broker
  <1> QED BY <1>1, <1>2, <1>3, <1>4, <1>5, <1>6, <1>7, <1>8 DEF Next

\* Loop, router, trail and broker stay well typed (runner.py, router.py, audit_trail.py).
THEOREM TypeCorrect == Spec => []TypeOK
  <1>1. Init => TypeOK
    BY InitType
  <1>2. TypeOK /\ [Next]_vars => TypeOK'
    BY StepType
  <1> QED BY <1>1, <1>2, PTL DEF Spec

-----------------------------------------------------------------------------
(* No close after a fill *)

\* Confirmations come first: from the end of _process_fill_confirmations() to
\* the stop of a pair, its close order is not reported FILLED.  Close orders
\* are orders that were submitted, so that a new one is never theirs.
ConfirmedFirst ==
    /\ \A p \in Pairs : closeId[p] <= n
    /\ \A p \in Pairs : status[p] = "pending_close" => closeId[p] > 0
    /\ pc = "tick" => \A p \in Pairs : ~Confirmed(p)
    /\ pc \in {"stops", "log", "mark"} => \A p \in todo : p # cur => ~Confirmed(p)

\* A submission changes no report but the one of its own, new order.
LEMMA OtherReportsKept ==
  ASSUME TypeOK, ConfirmedFirst, NEW p \in Pairs, NEW s \in {-1, 1}, n < MaxOrders,
         Returns(p, s) \/ Raises(p, s), engine' = TRUE, UNCHANGED <<status, closeId>>
  PROVE  /\ n' = n + 1
         /\ \A q \in Pairs : ~Confirmed(q) => ~Confirmed(q)'
  <1>1. n + 1 \in Ids /\ n \in Nat
    BY PositionBookAssumption DEF TypeOK, Ids
  <1>2. n' = n + 1 /\ \A i \in 1 .. n : report'[i] = report[i]
    <2>1. CASE Returns(p, s)
      <3>1. n' = n + 1 /\ \E r \in Reports : report' = [report EXCEPT ![n + 1] = r]
        BY <2>1 DEF Returns, Received
      <3>2. \A i \in 1 .. n : i # n + 1 /\ i \in Ids
        BY <1>1, PositionBookAssumption DEF Ids
      <3> QED BY <3>1, <3>2 DEF TypeOK
    <2>2. CASE Raises(p, s)
      BY <2>2 DEF Raises, Received
    <2> QED BY <2>1, <2>2
  <1>3. ASSUME NEW q \in Pairs, status[q] = "pending_close"
        PROVE  report'[closeId[q]] = report[closeId[q]]
    BY <1>1, <1>2, <1>3 DEF ConfirmedFirst, TypeOK
  <1> QED BY <1>2, <1>3 DEF Confirmed, Status

(***************************************************************************)
(* Every step keeps the confirmations first.                               *)
(***************************************************************************)
LEMMA ConfirmedFirstStep ==
  ASSUME TypeOK, TypeOK', ConfirmedFirst, [Next]_vars
  PROVE  ConfirmedFirst'
  <1>0. n \in Nat /\ closeId \in [Pairs -> Nat]
    BY PositionBookAssumption DEF TypeOK
  <1>1. CASE Confirm
    BY <1>0, <1>1 DEF Confirm, Confirmed, Status, ConfirmedFirst, vars, runner, router, trail, broker
  <1>2. CASE StartStops
    BY <1>2 DEF StartStops, InMemory, Confirmed, Status, ConfirmedFirst, TypeOK, vars, runner, router, trail, broker
  <1>3. CASE LogExit
    BY <1>3 DEF LogExit, Confirmed, Status, ConfirmedFirst, vars, runner, router, trail, broker
  <1>4. CASE MarkPending
    <2>1. cur \in Pairs /\ n > 0
      BY <1>4 DEF MarkPending, TypeOK, Busy
    <2>2. \A q \in Pairs : q # cur => status'[q] = status[q] /\ closeId'[q] = closeId[q]
      BY <1>4, <2>1 DEF MarkPending, TypeOK
    <2>3. status'[cur] = "pending_close" /\ closeId'[cur] = n /\ n' = n /\ pc' = "stops"
      BY <1>4, <2>1 DEF MarkPending, TypeOK, broker
    <2>4. \A q \in todo' : q # cur /\ q \in Pairs
      BY <1>4 DEF MarkPending, TypeOK
    <2>5. \A q \in todo' : ~Confirmed(q)'
      BY <1>4, <2>2, <2>4 DEF MarkPending, ConfirmedFirst, Confirmed, Status, router
    <2> QED BY <1>0, <2>1, <2>2, <2>3, <2>5 DEF ConfirmedFirst
  <1>5. CASE StartSignals
    BY <1>5 DEF StartSignals, ConfirmedFirst, vars, runner, router, trail, broker
  <1>6. CASE LogEntry
    BY <1>6 DEF LogEntry, ConfirmedFirst, vars, runner, router, trail, broker
  <1>7. CASE EndTick
    BY <1>7 DEF EndTick, ConfirmedFirst, vars, runner, router, trail, broker
  <1>8. ASSUME NEW p \in Pairs, SubmitClose(p) PROVE ConfirmedFirst'
    <2>1. CloseSign \in {-1, 1}
      BY DEF CloseSign
    <2>2. n' = n + 1 /\ \A q \in Pairs : ~Confirmed(q) => ~Confirmed(q)'
      BY <1>8, <2>1, OtherReportsKept DEF SubmitClose
    <2>3. cur = NoPair /\ todo \subseteq Pairs /\ NoPair \notin Pairs
      BY <1>8, PositionBookAssumption DEF SubmitClose, TypeOK, Busy
    <2>4. todo' \subseteq todo /\ pc' \in {"stops", "log"}
      BY <1>8 DEF SubmitClose
    <2>5. \A q \in todo' : ~Confirmed(q)'
      BY <1>8, <2>2, <2>3, <2>4 DEF ConfirmedFirst, SubmitClose
    <2> QED BY <1>0, <1>8, <2>2, <2>4, <2>5 DEF SubmitClose, ConfirmedFirst
  <1>9. ASSUME NEW p \in Pairs, NEW side \in Sides, SubmitSignal(p, side) PROVE ConfirmedFirst'
    <2>1. SignalSign(side) \in {-1, 1}
      BY DEF SignalSign
    <2>2. n' = n + 1
      BY <1>9, <2>1, OtherReportsKept DEF SubmitSignal
    <2> QED BY <1>0, <1>9, <2>2 DEF SubmitSignal, ConfirmedFirst
  <1>10. CASE Restart
    BY <1>0, <1>10 DEF Restart, ConfirmedFirst, vars, runner, router, trail, broker
  <1>11. CASE Weekend
    BY <1>0, <1>11 DEF Weekend, Restore, ConfirmedFirst, vars, runner, router, trail, broker
  <1>12. CASE Crash
    BY <1>0, <1>12 DEF Crash, ConfirmedFirst, vars, runner, router, trail, broker
  <1>13. CASE Shutdown
    BY <1>13 DEF Shutdown, ConfirmedFirst, vars, runner, router, trail, broker
  <1>14. CASE Midnight
    BY <1>14 DEF Midnight, Confirmed, Status, ConfirmedFirst, vars, runner, router, trail, broker
  <1>15. ASSUME NEW i \in Ids, BrokerFills(i) \/ BrokerEnds(i) PROVE ConfirmedFirst'
    BY <1>15 DEF BrokerFills, BrokerEnds, Confirmed, Status, ConfirmedFirst, vars, runner, router, trail, broker
  <1>16. CASE UNCHANGED vars
    BY <1>16 DEF Confirmed, Status, ConfirmedFirst, vars, runner, router, trail, broker
  <1> QED BY <1>1, <1>2, <1>3, <1>4, <1>5, <1>6, <1>7, <1>8, <1>9, <1>10, <1>11, <1>12,
             <1>13, <1>14, <1>15, <1>16 DEF Next, TickStep

\* Under every event, a stop never sends another close order for a position
\* whose last one is reported FILLED (_tick(): confirmations before stops).
THEOREM NoCloseAfterFill == Spec => FilledIsNotClosedAgain
  <1>1. Init => ConfirmedFirst
    BY DEF Init, ConfirmedFirst
  <1>2. TypeOK /\ TypeOK' /\ ConfirmedFirst /\ [Next]_vars => ConfirmedFirst'
    BY ConfirmedFirstStep
  <1>3. TypeOK /\ ConfirmedFirst =>
          \A p \in Pairs : SubmitClose(p) /\ status[p] = "pending_close" => Status(closeId[p]) # "FILLED"
    <2> SUFFICES ASSUME TypeOK, ConfirmedFirst, NEW p \in Pairs, SubmitClose(p), status[p] = "pending_close"
                 PROVE  Status(closeId[p]) # "FILLED"
      OBVIOUS
    <2>1. cur = NoPair /\ pc = "stops" /\ p \in todo
      BY DEF SubmitClose, TypeOK, Busy
    <2> QED BY <2>1, PositionBookAssumption DEF ConfirmedFirst, Confirmed
  <1> QED BY <1>1, <1>2, <1>3, TypeCorrect, PTL DEF Spec, FilledIsNotClosedAgain

-----------------------------------------------------------------------------
(* Memory and file *)

\* The effect of one append on the last rows, in a file that takes it.
LEMMA AppendRows ==
  ASSUME TypeOK, NEW p \in Pairs, NEW kind \in {"ENTRY", "EXIT"}, Append(p, kind)
  PROVE  /\ fileDay' = fileDay
         /\ \A q \in Pairs : q # p => rows'[fileDay][q] = rows[fileDay][q]
         /\ rows'[fileDay][p] \in {rows[fileDay][p], kind}
         /\ "auditFails" \notin Events => rows'[fileDay][p] = kind
  BY DEF Append, TypeOK

(***************************************************************************)
(* Without a weekend, every step keeps what a crash must not lose.         *)
(***************************************************************************)
LEMMA OpenSurvivesCrashStep ==
  ASSUME "weekend" \notin Events, TypeOK, OpenSurvivesCrash, [Next]_vars
  PROVE  OpenSurvivesCrash'
  <1>1. CASE Confirm
    BY <1>1 DEF Confirm, OpenSurvivesCrash, Up, vars, runner, router, trail, broker
  <1>2. CASE StartStops
    BY <1>2 DEF StartStops, OpenSurvivesCrash, Up, vars, runner, router, trail, broker
  <1>3. CASE LogExit
    <2>1. cur \in Pairs
      BY <1>3 DEF LogExit, TypeOK, Busy
    <2>2. fileDay' = fileDay /\ \A q \in Pairs : q # cur => rows'[fileDay][q] = rows[fileDay][q]
      BY <1>3, <2>1, AppendRows DEF LogExit
    <2> QED BY <1>3, <2>2 DEF LogExit, OpenSurvivesCrash, Up
  <1>4. CASE MarkPending
    <2>1. cur \in Pairs
      BY <1>4 DEF MarkPending, TypeOK, Busy
    <2>2. status'[cur] = "pending_close" /\ \A q \in Pairs : q # cur => status'[q] = status[q]
      BY <1>4, <2>1 DEF MarkPending, TypeOK
    <2> QED BY <1>4, <2>2 DEF MarkPending, OpenSurvivesCrash, Up, vars, runner, router, trail, broker
  <1>5. CASE StartSignals
    BY <1>5 DEF StartSignals, OpenSurvivesCrash, Up, vars, runner, router, trail, broker
  <1>6. CASE LogEntry
    <2>1. cur \in Pairs
      BY <1>6 DEF LogEntry, TypeOK, Busy
    <2>2. /\ fileDay' = fileDay
          /\ \A q \in Pairs : q # cur => rows'[fileDay][q] = rows[fileDay][q]
          /\ rows'[fileDay][cur] \in {rows[fileDay][cur], "ENTRY"}
      BY <1>6, <2>1, AppendRows DEF LogEntry
    <2> QED BY <1>6, <2>1, <2>2 DEF LogEntry, OpenSurvivesCrash, Up
  <1>7. CASE EndTick
    BY <1>7 DEF EndTick, OpenSurvivesCrash, Up, vars, runner, router, trail, broker
  <1>8. ASSUME NEW p \in Pairs, SubmitClose(p) PROVE OpenSurvivesCrash'
    BY <1>8 DEF SubmitClose, OpenSurvivesCrash, Up, trail
  <1>9. ASSUME NEW p \in Pairs, NEW side \in Sides, SubmitSignal(p, side) PROVE OpenSurvivesCrash'
    BY <1>9 DEF SubmitSignal, OpenSurvivesCrash, Up, trail
  <1>10. CASE Restart
    <2>1. PICK S \in SUBSET Pairs :
            /\ Recovered(S)
            /\ status' = [p \in Pairs |-> IF p \in S THEN "open" ELSE "absent"]
      BY <1>10 DEF Restart
    <2>2. \A p \in S : rows'[fileDay'][p] = "ENTRY"
      BY <2>1 DEF Recovered
    <2> QED BY <2>1, <2>2 DEF OpenSurvivesCrash
  <1>11. CASE Weekend
    BY <1>11 DEF Weekend
  <1>12. CASE Crash
    BY <1>12 DEF Crash, OpenSurvivesCrash, Up
  <1>13. CASE Shutdown
    BY <1>13 DEF Shutdown, OpenSurvivesCrash, Up
  <1>14. CASE Midnight
    BY <1>14 DEF Midnight, OpenSurvivesCrash, Up, vars, runner, router, trail, broker
  <1>15. ASSUME NEW i \in Ids, BrokerFills(i) \/ BrokerEnds(i) PROVE OpenSurvivesCrash'
    BY <1>15 DEF BrokerFills, BrokerEnds, OpenSurvivesCrash, Up, vars, runner, router, trail, broker
  <1>16. CASE UNCHANGED vars
    BY <1>16 DEF OpenSurvivesCrash, Up, vars, runner, router, trail, broker
  <1> QED BY <1>1, <1>2, <1>3, <1>4, <1>5, <1>6, <1>7, <1>8, <1>9, <1>10, <1>11, <1>12,
             <1>13, <1>14, <1>15, <1>16 DEF Next, TickStep

\* In a process with one trail file every open position is an entry of it, so
\* that a crash on the same day loses none (log_trade_event(), recover_state()).
THEOREM OpenPositionsAreOnFile ==
  ASSUME "weekend" \notin Events
  PROVE  Spec => []OpenSurvivesCrash
  <1>1. Init => OpenSurvivesCrash
    BY DEF Init, OpenSurvivesCrash
  <1>2. TypeOK /\ OpenSurvivesCrash /\ [Next]_vars => OpenSurvivesCrash'
    BY OpenSurvivesCrashStep
  <1> QED BY <1>1, <1>2, TypeCorrect, PTL DEF Spec

-----------------------------------------------------------------------------
(* Closing positions stay closing *)

\* What keeps a closing position from being an entry on file: its EXIT row is
\* there before it is marked, and no signal is for a pair in memory.
ClosingIsOnFile ==
    /\ PendingIsNotReopened
    /\ pc = "mark" => rows[fileDay][cur] = "EXIT"
    /\ pc \in {"signals", "entered"} => \A p \in todo : status[p] = "absent"

(***************************************************************************)
(* Every step keeps closing positions on file as such.                     *)
(***************************************************************************)
LEMMA ClosingStep ==
  ASSUME "weekend" \notin Events, "auditFails" \notin Events, "exit" \notin Sides,
         TypeOK, TypeOK', ClosingIsOnFile, [Next]_vars
  PROVE  ClosingIsOnFile'
  <1>1. CASE Confirm
    BY <1>1 DEF Confirm, Failed, ClosingIsOnFile, PendingIsNotReopened, Up, vars, runner, router, trail, broker
  <1>2. CASE StartStops
    BY <1>2 DEF StartStops, ClosingIsOnFile, PendingIsNotReopened, Up, vars, runner, router, trail, broker
  <1>3. CASE LogExit
    <2>1. cur \in Pairs
      BY <1>3 DEF LogExit, TypeOK, Busy
    <2>2. /\ fileDay' = fileDay /\ rows'[fileDay][cur] = "EXIT"
          /\ \A q \in Pairs : q # cur => rows'[fileDay][q] = rows[fileDay][q]
      BY <1>3, <2>1, AppendRows DEF LogExit
    <2> QED BY <1>3, <2>2 DEF LogExit, ClosingIsOnFile, PendingIsNotReopened, Up
  <1>4. CASE MarkPending
    <2>1. cur \in Pairs
      BY <1>4 DEF MarkPending, TypeOK, Busy
    <2>2. \A q \in Pairs : q # cur => status'[q] = status[q]
      BY <1>4, <2>1 DEF MarkPending, TypeOK
    <2> QED BY <1>4, <2>2 DEF MarkPending, ClosingIsOnFile, PendingIsNotReopened, Up, vars, runner, router, trail, broker
  <1>5. CASE StartSignals
    <2>1. \A p \in Pairs : SidesFor(p) # {} => status[p] = "absent"
      BY DEF SidesFor, InMemory
    <2> QED BY <1>5, <2>1 DEF StartSignals, ClosingIsOnFile, PendingIsNotReopened, Up, vars, runner, router, trail, broker
  <1>6. CASE LogEntry
    <2>1. cur \in Pairs /\ cur \in todo
      BY <1>6 DEF LogEntry, TypeOK, Busy
    <2>2. /\ fileDay' = fileDay
          /\ \A q \in Pairs : q # cur => rows'[fileDay][q] = rows[fileDay][q]
      BY <1>6, <2>1, AppendRows DEF LogEntry
    <2>3. status[cur] = "absent"
      BY <1>6, <2>1 DEF LogEntry, ClosingIsOnFile
    <2> QED BY <1>6, <2>2, <2>3 DEF LogEntry, ClosingIsOnFile, PendingIsNotReopened, Up
  <1>7. CASE EndTick
    BY <1>7 DEF EndTick, ClosingIsOnFile, PendingIsNotReopened, Up, vars, runner, router, trail, broker
  <1>8. ASSUME NEW p \in Pairs, SubmitClose(p) PROVE ClosingIsOnFile'
    BY <1>8 DEF SubmitClose, trail, ClosingIsOnFile, PendingIsNotReopened, Up
  <1>9. ASSUME NEW p \in Pairs, NEW side \in Sides, SubmitSignal(p, side) PROVE ClosingIsOnFile'
    BY <1>9 DEF SubmitSignal, trail, ClosingIsOnFile, PendingIsNotReopened, Up
  <1>10. CASE Restart
    <2>1. pc' = "idle" /\ \A p \in Pairs : status'[p] \in {"open", "absent"}
      BY <1>10 DEF Restart
    <2> QED BY <2>1 DEF ClosingIsOnFile, PendingIsNotReopened, Up
  <1>11. CASE Weekend
    BY <1>11 DEF Weekend
  <1>12. CASE Crash
    BY <1>12 DEF Crash, ClosingIsOnFile, PendingIsNotReopened, Up
  <1>13. CASE Shutdown
    BY <1>13 DEF Shutdown, ClosingIsOnFile, PendingIsNotReopened, Up
  <1>14. CASE Midnight
    BY <1>14 DEF Midnight, ClosingIsOnFile, PendingIsNotReopened, Up, vars, runner, router, trail, broker
  <1>15. ASSUME NEW i \in Ids, BrokerFills(i) \/ BrokerEnds(i) PROVE ClosingIsOnFile'
    BY <1>15 DEF BrokerFills, BrokerEnds, ClosingIsOnFile, PendingIsNotReopened, Up, vars, runner, router, trail, broker
  <1>16. CASE UNCHANGED vars
    BY <1>16 DEF ClosingIsOnFile, PendingIsNotReopened, Up, vars, runner, router, trail, broker
  <1> QED BY <1>1, <1>2, <1>3, <1>4, <1>5, <1>6, <1>7, <1>8, <1>9, <1>10, <1>11, <1>12,
             <1>13, <1>14, <1>15, <1>16 DEF Next, TickStep

\* With entry signals only and rows that are written, the file of the process
\* never shows a closing position as open: no restart opens it again
\* (_step_process_stops(), recover_state()).
THEOREM ClosingIsDurable ==
  ASSUME "weekend" \notin Events, "auditFails" \notin Events, "exit" \notin Sides
  PROVE  Spec => []PendingIsNotReopened
  <1>1. Init => ClosingIsOnFile
    BY DEF Init, ClosingIsOnFile, PendingIsNotReopened
  <1>2. TypeOK /\ TypeOK' /\ ClosingIsOnFile /\ [Next]_vars => ClosingIsOnFile'
    BY ClosingStep
  <1>3. ClosingIsOnFile => PendingIsNotReopened
    BY DEF ClosingIsOnFile
  <1> QED BY <1>1, <1>2, <1>3, TypeCorrect, PTL DEF Spec
=============================================================================
