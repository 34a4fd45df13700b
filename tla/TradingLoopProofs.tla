-------------------------- MODULE TradingLoopProofs --------------------------
(***************************************************************************)
(* Theorems about TradingLoop, for every limit on the age of data, every   *)
(* number of attempts and every set of events.                             *)
(***************************************************************************)
EXTENDS TradingLoop, TLAPS

\* Every action that is not a step of the main thread.
Others ==
    \/ FetchThreadEnds \/ RiskTrips
    \/ Stop \/ Signal \/ SignalKills \/ RemoveMarker
    \/ GatewayChanges \/ SaturdayComes \/ MondayComes \/ Restart

-----------------------------------------------------------------------------
\* The two halves of TypeOK: the SMT backend proves the first, Zenon the
\* second, whose variables are formulas too.
ControlOK ==
    /\ pc \in InLoop \union Gone \union {"start", "init", "ready", "pause", "shutdown"}
    /\ why \in {"first", "monday", "gateway"}
    /\ attempt \in 0 .. MaxAttempts
    /\ state \in {"INITIALIZING", "RUNNING", "HALTED", "SHUTTING_DOWN", "STOPPED"}
    /\ loadAge \in 0 .. Oldest
    /\ pc = "init" => attempt > 0

FlagsOK ==
    /\ switch \in BOOLEAN /\ file \in BOOLEAN
    /\ flag \in BOOLEAN /\ marker \in BOOLEAN
    /\ loaded \in BOOLEAN /\ haveData \in BOOLEAN
    /\ gateway \in BOOLEAN /\ weekend \in BOOLEAN
    /\ asked \in BOOLEAN /\ revived \in BOOLEAN

(***************************************************************************)
(* The types of the control and of the flags are those of the loop.        *)
(***************************************************************************)
LEMMA TypeHalves == TypeOK <=> ControlOK /\ FlagsOK
BY DEF TypeOK, ControlOK, FlagsOK

\* The first state is well typed.
LEMMA InitTyped == Init => ControlOK /\ FlagsOK
<1>1. Init => ControlOK
  BY TradingLoopAssumption DEF Init, ControlOK, Oldest, InLoop, Hung, Gone
<1>2. Init => FlagsOK
  BY Zenon DEF Init, FlagsOK
<1> QED BY <1>1, <1>2

\* A step of the main thread keeps the types of the control state.
LEMMA MainThreadControl == ControlOK /\ MainThread => ControlOK'
<1> SUFFICES ASSUME ControlOK, MainThread PROVE ControlOK'
  OBVIOUS
<1> USE TradingLoopAssumption DEF ControlOK, Oldest, InLoop, Hung, Gone, Goto, InitFor, Age,
        kill, manager, data, world, control, history
<1>1. CASE FirstWeekday BY <1>1 DEF FirstWeekday
<1>2. CASE Initialize BY <1>2 DEF Initialize
<1>3. CASE Retry BY <1>3 DEF Retry
<1>4. CASE Exhausted BY <1>4 DEF Exhausted
<1>5. CASE Ready BY <1>5 DEF Ready
<1>6. CASE LoopHead BY <1>6 DEF LoopHead
<1>7. CASE Resume BY <1>7 DEF Resume
<1>8. CASE Probe BY <1>8 DEF Probe
<1>9. CASE Gate BY <1>9 DEF Gate, Activate, Halt
<1>10. CASE NoDiscovery BY <1>10 DEF NoDiscovery
<1>11. CASE Fetch BY <1>11 DEF Fetch, WithData
<1>12. CASE FetchFails BY <1>12 DEF FetchFails, WithoutData, Activate
<1>13. CASE FetchHangs BY <1>13 DEF FetchHangs
<1>14. CASE Stops BY <1>14 DEF Stops
<1>15. CASE Traded BY <1>15 DEF Traded
<1>16. CASE TickRaises BY <1>16 DEF TickRaises
<1>17. CASE Sleep BY <1>17 DEF Sleep
<1>18. CASE Shutdown BY <1>18 DEF Shutdown
<1> QED
  BY <1>1, <1>2, <1>3, <1>4, <1>5, <1>6, <1>7, <1>8, <1>9, <1>10, <1>11, <1>12, <1>13,
     <1>14, <1>15, <1>16, <1>17, <1>18 DEF MainThread

\* So does a step of anyone else.
LEMMA OthersControl == ControlOK /\ Others => ControlOK'
<1> SUFFICES ASSUME ControlOK, Others PROVE ControlOK'
  OBVIOUS
<1> USE TradingLoopAssumption DEF ControlOK, Oldest, InLoop, Hung, Gone, Goto, InitFor, Age,
        kill, manager, data, world, control, history
<1>0. CASE SignalKills BY <1>0 DEF SignalKills, Request
<1>1. CASE FetchThreadEnds BY <1>1 DEF FetchThreadEnds, WithData, WithoutData
<1>2. CASE RiskTrips BY <1>2 DEF RiskTrips, Activate
<1>3. CASE Stop BY <1>3 DEF Stop, Request
<1>4. CASE Signal BY <1>4 DEF Signal, Request
<1>5. CASE RemoveMarker BY <1>5 DEF RemoveMarker, Request
<1>6. CASE GatewayChanges BY <1>6 DEF GatewayChanges
<1>7. CASE SaturdayComes BY <1>7 DEF SaturdayComes
<1>8. CASE MondayComes BY <1>8 DEF MondayComes
<1>9. CASE Restart BY <1>9 DEF Restart, NewProcess
<1> QED
  BY <1>0, <1>1, <1>2, <1>3, <1>4, <1>5, <1>6, <1>7, <1>8, <1>9 DEF Others

\* The main thread keeps the types of the flags.
LEMMA MainThreadFlags == FlagsOK /\ MainThread => FlagsOK'
<1> SUFFICES ASSUME FlagsOK, MainThread PROVE FlagsOK'
  OBVIOUS
<1> USE DEF FlagsOK, kill, manager, data, world, control, history
<1>1. CASE FirstWeekday BY Zenon, <1>1 DEF FirstWeekday
<1>2. CASE Initialize BY Zenon, <1>2 DEF Initialize
<1>3. CASE Retry BY Zenon, <1>3 DEF Retry
<1>4. CASE Exhausted BY Zenon, <1>4 DEF Exhausted
<1>5. CASE Ready BY Zenon, <1>5 DEF Ready
<1>6. CASE LoopHead BY Zenon, <1>6 DEF LoopHead
<1>7. CASE Resume BY Zenon, <1>7 DEF Resume
<1>8. CASE Probe BY Zenon, <1>8 DEF Probe
<1>9. CASE Gate BY Zenon, <1>9 DEF Gate, Activate
<1>10. CASE NoDiscovery BY Zenon, <1>10 DEF NoDiscovery
<1>11. CASE Fetch BY Zenon, <1>11 DEF Fetch
<1>12. CASE FetchFails BY Zenon, <1>12 DEF FetchFails, Activate
<1>13. CASE FetchHangs BY Zenon, <1>13 DEF FetchHangs
<1>14. CASE Stops BY Zenon, <1>14 DEF Stops
<1>15. CASE Traded BY Zenon, <1>15 DEF Traded
<1>16. CASE TickRaises BY Zenon, <1>16 DEF TickRaises
<1>17. CASE Sleep BY Zenon, <1>17 DEF Sleep
<1>18. CASE Shutdown BY Zenon, <1>18 DEF Shutdown
<1> QED
  BY <1>1, <1>2, <1>3, <1>4, <1>5, <1>6, <1>7, <1>8, <1>9, <1>10, <1>11, <1>12, <1>13,
     <1>14, <1>15, <1>16, <1>17, <1>18 DEF MainThread

\* And so do the others.
LEMMA OthersFlags == FlagsOK /\ Others => FlagsOK'
<1> SUFFICES ASSUME FlagsOK, Others PROVE FlagsOK'
  OBVIOUS
<1> USE DEF FlagsOK, kill, manager, data, world, control, history
<1>0. CASE SignalKills BY Zenon, <1>0 DEF SignalKills, Request
<1>1. CASE FetchThreadEnds BY Zenon, <1>1 DEF FetchThreadEnds
<1>2. CASE RiskTrips BY Zenon, <1>2 DEF RiskTrips, Activate
<1>3. CASE Stop BY Zenon, <1>3 DEF Stop, Request
<1>4. CASE Signal BY Zenon, <1>4 DEF Signal, Request
<1>5. CASE RemoveMarker BY Zenon, <1>5 DEF RemoveMarker, Request
<1>6. CASE GatewayChanges BY Zenon, <1>6 DEF GatewayChanges
<1>7. CASE SaturdayComes BY Zenon, <1>7 DEF SaturdayComes
<1>8. CASE MondayComes BY Zenon, <1>8 DEF MondayComes
<1>9. CASE Restart BY Zenon, <1>9 DEF Restart, NewProcess
<1> QED
  BY <1>0, <1>1, <1>2, <1>3, <1>4, <1>5, <1>6, <1>7, <1>8, <1>9 DEF Others

\* Main thread, shutdown manager, switch and world stay well typed: the number
\* of attempts never passes _INIT_MAX_ATTEMPTS.
THEOREM TypeCorrect == Spec => []TypeOK
<1>1. Init => TypeOK
  BY InitTyped, TypeHalves
<1>2. TypeOK /\ [Next]_vars => TypeOK'
  <2> SUFFICES ASSUME ControlOK, FlagsOK, [Next]_vars PROVE ControlOK' /\ FlagsOK'
    BY TypeHalves DEF TypeOK, ControlOK, FlagsOK
  <2>1. CASE MainThread  BY <2>1, MainThreadControl, MainThreadFlags
  <2>2. CASE Others      BY <2>2, OthersControl, OthersFlags
  <2>3. CASE UNCHANGED vars
    BY <2>3 DEF ControlOK, FlagsOK, vars, control, kill, manager, data, world, history
  <2> QED BY <2>1, <2>2, <2>3 DEF Next, Others
<1> QED BY <1>1, <1>2, PTL DEF Spec

-----------------------------------------------------------------------------
\* A halted loop has left its tick: it sleeps, is at the head, or shuts down.
HaltLeftTheTick ==
    state = "HALTED" => pc \in {"sleep", "head", "shutdown"}

(***************************************************************************)
(* Every step keeps a halted loop out of the tick.                         *)
(***************************************************************************)
LEMMA HaltLeftTheTickInductive == HaltLeftTheTick /\ [Next]_vars => HaltLeftTheTick'
<1> SUFFICES ASSUME HaltLeftTheTick, [Next]_vars PROVE HaltLeftTheTick'
  OBVIOUS
<1> USE DEF HaltLeftTheTick, InLoop, Hung, Gone, Goto, InitFor,
        kill, manager, data, world, control, history
<1>1. CASE FirstWeekday \/ Initialize \/ Retry \/ Exhausted \/ Ready
  BY <1>1 DEF FirstWeekday, Initialize, Retry, Exhausted, Ready
<1>2. CASE LoopHead \/ Resume \/ Probe
  BY <1>2 DEF LoopHead, Resume, Probe
<1>3. CASE Gate
  BY <1>3 DEF Gate
<1>4. CASE NoDiscovery \/ Fetch \/ FetchFails \/ FetchHangs \/ FetchThreadEnds
  BY <1>4 DEF NoDiscovery, Fetch, FetchFails, FetchHangs, FetchThreadEnds
<1>5. CASE Stops \/ Traded \/ TickRaises \/ Sleep \/ Shutdown \/ RiskTrips
  BY <1>5 DEF Stops, Traded, TickRaises, Sleep, Shutdown, RiskTrips
<1>6. CASE Stop \/ Signal \/ SignalKills \/ RemoveMarker \/ Restart
  BY <1>6 DEF Stop, Signal, SignalKills, NoHandler, RemoveMarker, Request, Restart, NewProcess
<1>7. CASE GatewayChanges \/ SaturdayComes \/ MondayComes
  BY <1>7 DEF GatewayChanges, SaturdayComes, MondayComes
<1>8. CASE UNCHANGED vars
  BY <1>8 DEF vars
<1> QED
  BY <1>1, <1>2, <1>3, <1>4, <1>5, <1>6, <1>7, <1>8 DEF Next, MainThread

\* With the head of the loop, the only way on from there, a halt is final.
LEMMA HaltIsFinalStep ==
  ASSUME HaltLeftTheTick, [Next]_vars,
         state = "HALTED", ~(pc \in Gone /\ pc' = "start")
  PROVE  state' \in {"HALTED", "SHUTTING_DOWN", "STOPPED"} /\ pc' # "tick"
<1> USE DEF HaltLeftTheTick, InLoop, Hung, Gone, Goto, InitFor,
        kill, manager, data, world, control, history
<1>1. CASE FirstWeekday \/ Initialize \/ Retry \/ Exhausted \/ Ready
  BY <1>1 DEF FirstWeekday, Initialize, Retry, Exhausted, Ready
<1>2. CASE LoopHead \/ Resume \/ Probe
  BY <1>2 DEF LoopHead, Resume, Probe
<1>3. CASE Gate \/ NoDiscovery \/ Fetch \/ FetchFails \/ FetchHangs \/ FetchThreadEnds
  BY <1>3 DEF Gate, NoDiscovery, Fetch, FetchFails, FetchHangs, FetchThreadEnds
<1>4. CASE Stops \/ Traded \/ TickRaises \/ Sleep \/ Shutdown \/ RiskTrips
  BY <1>4 DEF Stops, Traded, TickRaises, Sleep, Shutdown, RiskTrips
<1>5. CASE Stop \/ Signal \/ SignalKills \/ RemoveMarker \/ Restart
  BY <1>5 DEF Stop, Signal, SignalKills, NoHandler, RemoveMarker, Request, Restart, NewProcess
<1>6. CASE GatewayChanges \/ SaturdayComes \/ MondayComes
  BY <1>6 DEF GatewayChanges, SaturdayComes, MondayComes
<1>7. CASE UNCHANGED vars
  BY <1>7 DEF vars
<1> QED
  BY <1>1, <1>2, <1>3, <1>4, <1>5, <1>6, <1>7 DEF Next, MainThread

\* No initialisation, weekend or request to stop lets a halted loop tick again.
THEOREM HaltStays == Spec => HaltIsFinal
<1>1. Init => HaltLeftTheTick
  BY DEF Init, HaltLeftTheTick
<1>2. HaltLeftTheTick /\ [Next]_vars => HaltLeftTheTick'
  BY HaltLeftTheTickInductive
<1>3. HaltLeftTheTick /\ [Next]_vars =>
        [state = "HALTED" /\ ~(pc \in Gone /\ pc' = "start")
          => state' \in {"HALTED", "SHUTTING_DOWN", "STOPPED"} /\ pc' # "tick"]_vars
  BY HaltIsFinalStep
<1> QED BY <1>1, <1>2, <1>3, PTL DEF Spec, HaltIsFinal

-----------------------------------------------------------------------------
\* Why the head of the loop may end it: each thing it looks at has one cause, save
\* where the next initialisation overwrites it.  A flag, a missing marker or a
\* state of shutting down is a request; HALTED is the switch; INITIALIZING is what
\* a re-initialisation left.
CausesKnown ==
    /\ state = "SHUTTING_DOWN"
          => asked = TRUE \/ StateIsOverwritten \/ pc \in Gone \union {"shutdown"}
    /\ state = "HALTED" => switch = TRUE
    /\ state = "STOPPED" => pc \in Gone
    /\ state = "INITIALIZING"
          => revived = TRUE \/ StateIsOverwritten \/ pc \in Gone \union {"shutdown"}
    /\ flag = TRUE => asked = TRUE \/ ManagerIsReplaced \/ pc \in Gone \union {"shutdown"}
    /\ marker = FALSE => asked = TRUE \/ ManagerIsReplaced \/ pc \in Gone \union {"shutdown"}

\* The causes stay known; HaltLeftTheTick says that the switch of a halted loop
\* is not replaced.
LEMMA CausesKnownInductive ==
  ControlOK /\ FlagsOK /\ HaltLeftTheTick /\ CausesKnown /\ [Next]_vars => CausesKnown'
<1> SUFFICES ASSUME ControlOK, FlagsOK, HaltLeftTheTick, CausesKnown, [Next]_vars PROVE CausesKnown'
  OBVIOUS
<1> USE DEF HaltLeftTheTick, CausesKnown, FlagsOK, StateIsOverwritten, ManagerIsReplaced,
        InLoop, Hung, Gone, Goto, InitFor,
        kill, manager, data, world, control, history
<1>1. CASE FirstWeekday    BY <1>1 DEF FirstWeekday
<1>2. CASE Initialize      BY <1>2 DEF Initialize
<1>3. CASE Retry           BY <1>3 DEF Retry
<1>4. CASE Exhausted       BY <1>4 DEF Exhausted, ControlOK
<1>5. CASE Ready           BY <1>5 DEF Ready
<1>6. CASE LoopHead            BY <1>6 DEF LoopHead
<1>7. CASE Resume          BY <1>7 DEF Resume
<1>8. CASE Probe           BY <1>8 DEF Probe
<1>9. CASE Gate            BY <1>9 DEF Gate, Activate, Halt
<1>10. CASE NoDiscovery    BY <1>10 DEF NoDiscovery
<1>11. CASE Fetch          BY <1>11 DEF Fetch, WithData
<1>12. CASE FetchFails     BY <1>12 DEF FetchFails, WithoutData, Activate
<1>13. CASE FetchHangs     BY <1>13 DEF FetchHangs
<1>14. CASE Stops          BY <1>14 DEF Stops
<1>15. CASE Traded         BY <1>15 DEF Traded
<1>16. CASE TickRaises     BY <1>16 DEF TickRaises
<1>17. CASE Sleep          BY <1>17 DEF Sleep
<1>18. CASE Shutdown       BY <1>18 DEF Shutdown
<1>19. CASE FetchThreadEnds BY <1>19 DEF FetchThreadEnds, WithData, WithoutData
<1>20. CASE RiskTrips      BY <1>20 DEF RiskTrips, Activate
<1>21. CASE Stop           BY <1>21 DEF Stop, Request
<1>22. CASE Signal         BY <1>22 DEF Signal, Request
<1>23. CASE RemoveMarker   BY <1>23 DEF RemoveMarker, Request
<1>24. CASE GatewayChanges BY <1>24 DEF GatewayChanges
<1>25. CASE SaturdayComes  BY <1>25 DEF SaturdayComes
<1>26. CASE MondayComes    BY <1>26 DEF MondayComes
<1>27. CASE Restart        BY <1>27 DEF Restart, NewProcess
<1>28. CASE SignalKills BY <1>28 DEF SignalKills, NoHandler, Request
<1>29. CASE UNCHANGED vars BY <1>29 DEF vars
<1> QED
  BY <1>1, <1>2, <1>3, <1>4, <1>5, <1>6, <1>7, <1>8, <1>9, <1>10, <1>11, <1>12,
     <1>13, <1>14, <1>15, <1>16, <1>17, <1>18, <1>19, <1>20, <1>21, <1>22, <1>23,
     <1>24, <1>25, <1>26, <1>27, <1>28, <1>29 DEF Next, MainThread

\* A head that ends the loop has one of the causes.
LEMMA HeadHasCause ==
  ASSUME ControlOK, FlagsOK, CausesKnown, LoopHead, pc' = "shutdown"
  PROVE  asked \/ switch \/ revived
<1>1. pc = "head"
  BY DEF LoopHead
<1>2. state # "RUNNING" \/ ShutdownRequested
  BY DEF LoopHead, Goto
<1>3. ~StateIsOverwritten /\ ~ManagerIsReplaced /\ pc \notin Gone \union {"shutdown"}
  BY <1>1 DEF StateIsOverwritten, ManagerIsReplaced, Gone
<1>4. CASE state # "RUNNING"
  BY <1>3, <1>4 DEF ControlOK, CausesKnown
<1>5. CASE ShutdownRequested
  <2>1. flag \/ ~marker
    BY <1>5 DEF ShutdownRequested
  <2>2. flag = TRUE \/ marker = FALSE
    BY <2>1, Zenon DEF FlagsOK
  <2>3. asked = TRUE
    BY <2>2, <1>3 DEF CausesKnown
  <2> QED BY <2>3, Zenon
<1> QED BY <1>2, <1>4, <1>5

\* The loop ends at its head only after a request that it could hear, a halt, or
\* a re-initialisation after an outage that succeeded.
THEOREM EndsWithACause == Spec => EndsForAReason
<1>1. Init => CausesKnown
  BY DEF Init, CausesKnown, StateIsOverwritten, ManagerIsReplaced
<1>2. Init => HaltLeftTheTick
  BY DEF Init, HaltLeftTheTick
<1>3. TypeOK /\ HaltLeftTheTick /\ CausesKnown /\ [Next]_vars => CausesKnown'
  BY CausesKnownInductive, TypeHalves
<1>4. TypeOK /\ CausesKnown /\ [Next]_vars =>
        [LoopHead /\ pc' = "shutdown" => asked \/ switch \/ revived]_vars
  BY HeadHasCause, TypeHalves
<1> QED
  BY <1>1, <1>2, <1>3, <1>4, TypeCorrect, HaltLeftTheTickInductive, PTL DEF Spec, EndsForAReason
-----------------------------------------------------------------------------
\* A request that was made is still to be seen: in the state, in the flag or by
\* the missing marker, and no initialisation follows that would overwrite it, save
\* the one after an outage.
RequestKnown ==
    asked = TRUE =>
        /\ state # "RUNNING" \/ flag = TRUE \/ marker = FALSE
        /\ pc # "start" /\ (pc = "init" => why = "gateway")
        /\ pc = "pause" => state # "RUNNING"
        /\ pc = "ready" /\ why # "gateway" => flag = TRUE \/ marker = FALSE

(***************************************************************************)
(* Every step keeps the request: an initialisation, which clears the flag  *)
(* and creates the marker, leaves INITIALIZING behind.                     *)
(***************************************************************************)
LEMMA RequestKnownInductive == FlagsOK /\ RequestKnown /\ [Next]_vars => RequestKnown'
<1> SUFFICES ASSUME FlagsOK, RequestKnown, [Next]_vars PROVE RequestKnown'
  OBVIOUS
<1> USE DEF FlagsOK, RequestKnown, ShutdownRequested, StateIsOverwritten, ManagerIsReplaced,
        InLoop, Hung, Gone, Goto, InitFor,
        kill, manager, data, world, control, history
<1>1. CASE FirstWeekday BY <1>1 DEF FirstWeekday
<1>2. CASE Initialize BY <1>2 DEF Initialize
<1>3. CASE Retry BY <1>3 DEF Retry
<1>4. CASE Exhausted BY <1>4 DEF Exhausted
<1>5. CASE Ready BY <1>5 DEF Ready
<1>6. CASE LoopHead BY <1>6 DEF LoopHead
<1>7. CASE Resume BY <1>7 DEF Resume
<1>8. CASE Probe BY <1>8 DEF Probe
<1>9. CASE Gate BY <1>9 DEF Gate, Activate, Halt
<1>10. CASE NoDiscovery BY <1>10 DEF NoDiscovery
<1>11. CASE Fetch BY <1>11 DEF Fetch, WithData
<1>12. CASE FetchFails BY <1>12 DEF FetchFails, WithoutData, Activate
<1>13. CASE FetchHangs BY <1>13 DEF FetchHangs
<1>14. CASE Stops BY <1>14 DEF Stops
<1>15. CASE Traded BY <1>15 DEF Traded
<1>16. CASE TickRaises BY <1>16 DEF TickRaises
<1>17. CASE Sleep BY <1>17 DEF Sleep
<1>18. CASE Shutdown BY <1>18 DEF Shutdown
<1>19. CASE FetchThreadEnds BY <1>19 DEF FetchThreadEnds, WithData, WithoutData
<1>20. CASE RiskTrips BY <1>20 DEF RiskTrips, Activate
<1>21. CASE Stop BY <1>21 DEF Stop, Request
<1>22. CASE Signal BY <1>22 DEF Signal, Request
<1>23. CASE RemoveMarker BY <1>23 DEF RemoveMarker, Request
<1>24. CASE GatewayChanges BY <1>24 DEF GatewayChanges
<1>25. CASE SaturdayComes BY <1>25 DEF SaturdayComes
<1>26. CASE MondayComes BY <1>26 DEF MondayComes
<1>27. CASE Restart BY <1>27 DEF Restart, NewProcess
<1>28. CASE SignalKills BY <1>28 DEF SignalKills, NoHandler, Request
<1>29. CASE UNCHANGED vars BY <1>29 DEF vars
<1> QED
  BY <1>1, <1>2, <1>3, <1>4, <1>5, <1>6, <1>7, <1>8, <1>9, <1>10, <1>11,
     <1>12, <1>13, <1>14, <1>15, <1>16, <1>17, <1>18, <1>19, <1>20, <1>21,
     <1>22, <1>23, <1>24, <1>25, <1>26, <1>27, <1>28, <1>29 DEF Next, MainThread

\* What a halt relies on: the file says what the switch says, so that a new switch
\* is active too, and neither a tick nor a new initialisation is one of a weekend.
SwitchKept ==
    /\ switch = TRUE => file = TRUE
    /\ pc = "start" => switch = FALSE
    /\ pc \in {"tick", "ready"} => weekend = FALSE

\* Every step keeps the switch and its file together.
LEMMA SwitchKeptInductive == FlagsOK /\ SwitchKept /\ [Next]_vars => SwitchKept'
<1> SUFFICES ASSUME FlagsOK, SwitchKept, [Next]_vars PROVE SwitchKept'
  OBVIOUS
<1> USE DEF FlagsOK, SwitchKept, InLoop, Hung, Gone, Goto, InitFor, Reachable,
        kill, manager, data, world, control, history
<1>1. CASE FirstWeekday BY <1>1 DEF FirstWeekday
<1>2. CASE Initialize BY <1>2 DEF Initialize
<1>3. CASE Retry BY <1>3 DEF Retry
<1>4. CASE Exhausted BY <1>4 DEF Exhausted
<1>5. CASE Ready BY <1>5 DEF Ready
<1>6. CASE LoopHead BY <1>6 DEF LoopHead
<1>7. CASE Resume BY <1>7 DEF Resume
<1>8. CASE Probe BY <1>8 DEF Probe
<1>9. CASE Gate BY <1>9 DEF Gate, Activate, Halt
<1>10. CASE NoDiscovery BY <1>10 DEF NoDiscovery
<1>11. CASE Fetch BY <1>11 DEF Fetch, WithData
<1>12. CASE FetchFails BY <1>12 DEF FetchFails, WithoutData, Activate
<1>13. CASE FetchHangs BY <1>13 DEF FetchHangs
<1>14. CASE Stops BY <1>14 DEF Stops
<1>15. CASE Traded BY <1>15 DEF Traded
<1>16. CASE TickRaises BY <1>16 DEF TickRaises
<1>17. CASE Sleep BY <1>17 DEF Sleep
<1>18. CASE Shutdown BY <1>18 DEF Shutdown
<1>19. CASE FetchThreadEnds BY <1>19 DEF FetchThreadEnds, WithData, WithoutData
<1>20. CASE RiskTrips BY <1>20 DEF RiskTrips, Activate
<1>21. CASE Stop BY <1>21 DEF Stop, Request
<1>22. CASE Signal BY <1>22 DEF Signal, Request
<1>23. CASE RemoveMarker BY <1>23 DEF RemoveMarker, Request
<1>24. CASE GatewayChanges BY <1>24 DEF GatewayChanges
<1>25. CASE SaturdayComes BY <1>25 DEF SaturdayComes
<1>26. CASE MondayComes BY <1>26 DEF MondayComes
<1>27. CASE Restart BY <1>27 DEF Restart, NewProcess
<1>28. CASE SignalKills BY <1>28 DEF SignalKills, NoHandler, Request
<1>29. CASE UNCHANGED vars BY <1>29 DEF vars
<1> QED
  BY <1>1, <1>2, <1>3, <1>4, <1>5, <1>6, <1>7, <1>8, <1>9, <1>10, <1>11,
     <1>12, <1>13, <1>14, <1>15, <1>16, <1>17, <1>18, <1>19, <1>20, <1>21,
     <1>22, <1>23, <1>24, <1>25, <1>26, <1>27, <1>28, <1>29 DEF Next, MainThread

\* Both measures count steps.
LEMMA MeasuresAreNat == ControlOK => RequestLeft \in Nat /\ HaltLeft \in Nat
BY TradingLoopAssumption DEF ControlOK, RequestLeft, HaltLeft, InLoop, Hung, Gone

\* After a request each step of the main thread, or of its fetch, comes nearer.
LEMMA RequestNearer ==
  ASSUME ControlOK, FlagsOK, RequestKnown, asked, pc \notin Gone,
         MainThread \/ FetchThreadEnds
  PROVE  asked' /\ RequestLeft' < RequestLeft
<1> USE TradingLoopAssumption
    DEF ControlOK, FlagsOK, RequestKnown, RequestLeft, ShutdownRequested,
        InLoop, Hung, Gone, Goto, InitFor, kill, manager, data, world, control, history
<1>1. CASE FirstWeekday BY <1>1 DEF FirstWeekday
<1>2. CASE Initialize BY <1>2 DEF Initialize
<1>3. CASE Retry BY <1>3 DEF Retry
<1>4. CASE Exhausted BY <1>4 DEF Exhausted
<1>5. CASE Ready BY <1>5 DEF Ready
<1>6. CASE LoopHead BY <1>6 DEF LoopHead
<1>7. CASE Resume BY <1>7 DEF Resume
<1>8. CASE Probe BY <1>8 DEF Probe
<1>9. CASE Gate BY <1>9 DEF Gate, Activate, Halt
<1>10. CASE NoDiscovery BY <1>10 DEF NoDiscovery
<1>11. CASE Fetch BY <1>11 DEF Fetch, WithData
<1>12. CASE FetchFails BY <1>12 DEF FetchFails, WithoutData, Activate
<1>13. CASE FetchHangs BY <1>13 DEF FetchHangs
<1>14. CASE Stops BY <1>14 DEF Stops
<1>15. CASE Traded BY <1>15 DEF Traded
<1>16. CASE TickRaises BY <1>16 DEF TickRaises
<1>17. CASE Sleep BY <1>17 DEF Sleep
<1>18. CASE Shutdown BY <1>18 DEF Shutdown
<1>19. CASE FetchThreadEnds BY <1>19 DEF FetchThreadEnds, WithData, WithoutData
<1> QED
  BY <1>1, <1>2, <1>3, <1>4, <1>5, <1>6, <1>7, <1>8, <1>9, <1>10, <1>11,
     <1>12, <1>13, <1>14, <1>15, <1>16, <1>17, <1>18, <1>19 DEF MainThread

\* No one else moves a main thread that was asked to stop, but the operator who
\* starts the program again.
LEMMA OthersStay ==
  ASSUME Others, ~FetchThreadEnds, pc \notin Gone, RequestKnown, asked
  PROVE  UNCHANGED control
<1>1. asked = TRUE => ~NoHandler
  BY DEF RequestKnown, NoHandler
<1>2. ~NoHandler
  BY <1>1
<1> QED
  BY <1>2 DEF Others, RiskTrips, Stop, Signal, SignalKills, RemoveMarker, GatewayChanges,
              SaturdayComes, MondayComes, Restart

\* Nor takes the request back.
LEMMA OthersKeepRequest ==
  ASSUME Others, ~FetchThreadEnds, pc \notin Gone, asked
  PROVE  asked'
BY DEF Others, RiskTrips, Stop, Signal, SignalKills, Request, RemoveMarker, GatewayChanges,
       SaturdayComes, MondayComes, Restart, history

\* Each step after a request comes nearer to the end, or leaves it as near.
LEMMA RequestNearStep ==
  ControlOK /\ FlagsOK /\ RequestKnown /\ [Next]_vars =>
    [asked /\ pc \notin Gone => asked' /\ Nears(RequestLeft, RequestLeft')]_vars
<1> SUFFICES ASSUME ControlOK, FlagsOK, RequestKnown, Next, asked, pc \notin Gone
             PROVE  asked' /\ Nears(RequestLeft, RequestLeft')
  OBVIOUS
<1>1. CASE MainThread \/ FetchThreadEnds
  BY <1>1, RequestNearer DEF Nears
<1>2. CASE ~(MainThread \/ FetchThreadEnds)
  <2>1. Others /\ ~FetchThreadEnds
    BY <1>2 DEF Next, Others
  <2>2. RequestLeft' = RequestLeft
    BY <2>1, OthersStay DEF RequestLeft, control
  <2>3. RequestLeft' <= RequestLeft
    BY <2>2, MeasuresAreNat
  <2> QED BY <1>2, <2>1, <2>3, OthersKeepRequest DEF Nears
<1> QED BY <1>1, <1>2

\* However many attempts an initialisation has, and whatever else happens, a loop
\* that was asked to stop outside the windows StateIsOverwritten and
\* ManagerIsReplaced has a bounded number of steps left, and no step of the main
\* thread adds to it, not even a re-initialisation that overwrites the request:
\* the safety content of RequestIsHonoured.
THEOREM RequestIsServed == Spec => [](RequestLeft \in Nat) /\ RequestIsNear
<1>1. Init => RequestKnown
  BY DEF Init, RequestKnown
<1>2. FlagsOK /\ RequestKnown /\ [Next]_vars => RequestKnown'
  BY RequestKnownInductive
<1>3. TypeOK => ControlOK /\ FlagsOK /\ RequestLeft \in Nat
  BY TypeHalves, MeasuresAreNat
<1> QED
  BY <1>1, <1>2, <1>3, TypeCorrect, RequestNearStep, PTL DEF Spec, RequestIsNear

-----------------------------------------------------------------------------
\* With an active switch and the gateway up, each step of the main thread, or of
\* its fetch, comes nearer to the end.
LEMMA HaltNearer ==
  ASSUME ControlOK, FlagsOK, SwitchKept, switch, gateway, gateway', pc \notin Gone,
         MainThread \/ FetchThreadEnds
  PROVE  switch' /\ HaltLeft' < HaltLeft
<1> USE TradingLoopAssumption
    DEF ControlOK, FlagsOK, SwitchKept, HaltLeft, Ending, ShutdownRequested, Reachable,
        InLoop, Hung, Gone, Goto, InitFor, kill, manager, data, world, control, history
<1>1. CASE FirstWeekday BY <1>1 DEF FirstWeekday
<1>2. CASE Initialize BY <1>2 DEF Initialize
<1>3. CASE Retry BY <1>3 DEF Retry
<1>4. CASE Exhausted BY <1>4 DEF Exhausted
<1>5. CASE Ready BY <1>5 DEF Ready
<1>6. CASE LoopHead BY <1>6 DEF LoopHead
<1>7. CASE Resume BY <1>7 DEF Resume
<1>8. CASE Probe BY <1>8 DEF Probe
<1>9. CASE Gate
  <2>1. switch'
    BY ONLY <1>9, switch, Zenon DEF Gate, Activate, kill
  <2> QED BY <1>9, <2>1 DEF Gate, Halt
<1>10. CASE NoDiscovery BY <1>10 DEF NoDiscovery
<1>11. CASE Fetch BY <1>11 DEF Fetch, WithData
<1>12. CASE FetchFails
  <2>1. switch'
    BY ONLY <1>12, switch, Zenon DEF FetchFails, Activate, kill
  <2>2. HaltLeft' < HaltLeft
    BY <1>12 DEF FetchFails, WithoutData
  <2> QED BY <2>1, <2>2
<1>13. CASE FetchHangs BY <1>13 DEF FetchHangs
<1>14. CASE Stops BY <1>14 DEF Stops
<1>15. CASE Traded BY <1>15 DEF Traded
<1>16. CASE TickRaises BY <1>16 DEF TickRaises
<1>17. CASE Sleep BY <1>17 DEF Sleep
<1>18. CASE Shutdown BY <1>18 DEF Shutdown
<1>19. CASE FetchThreadEnds BY <1>19 DEF FetchThreadEnds, WithData, WithoutData
<1> QED
  BY <1>1, <1>2, <1>3, <1>4, <1>5, <1>6, <1>7, <1>8, <1>9, <1>10, <1>11,
     <1>12, <1>13, <1>14, <1>15, <1>16, <1>17, <1>18, <1>19 DEF MainThread

\* The others add nothing to it: a request only makes the head end the loop, and
\* a weekend begins where one is counted.
LEMMA OthersKeepHalt ==
  ASSUME ControlOK, FlagsOK, SwitchKept, switch, pc \notin Gone,
         Others, ~FetchThreadEnds
  PROVE  switch' /\ HaltLeft' <= HaltLeft
<1> USE TradingLoopAssumption
    DEF ControlOK, FlagsOK, SwitchKept, HaltLeft, Ending, ShutdownRequested,
        InLoop, Hung, Gone, kill, manager, data, world, control, history
<1>0. CASE SignalKills
  <2>1. HaltLeft' = 0 /\ HaltLeft \in Nat
    BY <1>0, MeasuresAreNat DEF SignalKills, Goto
  <2>2. switch'
    BY ONLY <1>0, switch, Zenon DEF SignalKills, kill
  <2>3. HaltLeft' <= HaltLeft
    BY ONLY <2>1, SMT
  <2> QED BY <2>2, <2>3, Zenon
<1>1. CASE RiskTrips BY <1>1 DEF RiskTrips, Activate
<1>2. CASE Stop BY <1>2 DEF Stop, Request
<1>3. CASE Signal BY <1>3 DEF Signal, Request
<1>4. CASE RemoveMarker BY <1>4 DEF RemoveMarker, Request
<1>5. CASE GatewayChanges BY <1>5 DEF GatewayChanges
<1>6. CASE SaturdayComes BY <1>6 DEF SaturdayComes
<1>7. CASE MondayComes BY <1>7 DEF MondayComes
<1>8. CASE Restart BY <1>8 DEF Restart, NewProcess
<1> QED
  BY <1>0, <1>1, <1>2, <1>3, <1>4, <1>5, <1>6, <1>7, <1>8 DEF Others

\* Each step with an active switch and a gateway that is up comes nearer to the
\* end, or leaves it as near.
LEMMA HaltNearStep ==
  ControlOK /\ FlagsOK /\ SwitchKept /\ [Next]_vars =>
    [switch /\ gateway /\ gateway' /\ pc \notin Gone
       => switch' /\ Nears(HaltLeft, HaltLeft')]_vars
<1> SUFFICES ASSUME ControlOK, FlagsOK, SwitchKept, Next,
                    switch, gateway, gateway', pc \notin Gone
             PROVE  switch' /\ Nears(HaltLeft, HaltLeft')
  OBVIOUS
<1>1. CASE MainThread \/ FetchThreadEnds
  BY <1>1, HaltNearer DEF Nears
<1>2. CASE ~(MainThread \/ FetchThreadEnds)
  <2>1. Others /\ ~FetchThreadEnds
    BY <1>2 DEF Next, Others
  <2> QED BY <1>2, <2>1, OthersKeepHalt DEF Nears
<1> QED BY <1>1, <1>2

\* Once the switch is active, and as long as the gateway is up, the loop has a
\* bounded number of steps left and none adds to it, neither a weekend nor the
\* initialisation that reads the switch from its file: the safety content of
\* HaltEndsTheLoop.
THEOREM HaltIsServed == Spec => [](HaltLeft \in Nat) /\ HaltIsNear
<1>1. Init => SwitchKept
  BY DEF Init, SwitchKept
<1>2. FlagsOK /\ SwitchKept /\ [Next]_vars => SwitchKept'
  BY SwitchKeptInductive
<1>3. TypeOK => ControlOK /\ FlagsOK /\ HaltLeft \in Nat
  BY TypeHalves, MeasuresAreNat
<1> QED
  BY <1>1, <1>2, <1>3, TypeCorrect, HaltNearStep, PTL DEF Spec, HaltIsNear
=============================================================================
