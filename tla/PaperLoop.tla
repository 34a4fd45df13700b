------------------------------- MODULE PaperLoop -------------------------------
(***************************************************************************)
(* run_paper_trading() of main.py, the loop of the modes paper and live of *)
(* the older entry point, with the RiskEngine it owns. The loop never      *)
(* registers an entry: prices are columns of single symbols, the price of  *)
(* a pair is never found, and every signal ends before an order. Its       *)
(* positions are those recovered from the rows of an earlier process.      *)
(***************************************************************************)
EXTENDS RiskEngine

CONSTANTS MaxIterations,   \* max_loop_iterations
          MaxErrors        \* max_consecutive_errors

ASSUME PaperAssumption == MaxIterations \in Nat \ {0} /\ MaxErrors \in Nat \ {0}

VARIABLES
    pc,            \* "off", "loop", "closing", "done"
    attempt,       \* attempt
    errors,        \* consecutive_errors
    request,       \* a shutdown is requested, or the marker file is gone
    todo,          \* positions that _close_all_positions() has still to close
    ending,        \* why the loop ended
    failedRow,     \* history: iterations that failed since the last that did not
    refusedClose,  \* history: positions whose close order raised
    faults         \* history: an iteration of this session met a fault of its environment

loopVars == <<pc, attempt, errors, request, todo, ending, failedRow, refusedClose, faults>>
paperVars == <<engineVars, loopVars>>

Endings == {"none", "refused", "shutdown", "errors", "iterations"}

NoSession ==
    /\ pc = "off" /\ attempt = 0 /\ errors = 0 /\ request = FALSE /\ todo = {}
    /\ ending = "none" /\ failedRow = 0 /\ refusedClose = {} /\ faults = FALSE

PaperInit ==
    /\ positions = {} /\ trail \in SUBSET Pairs /\ oldFile = FALSE
    /\ lossStreak = 0 /\ engineLoss = 0 /\ dated = "today"
    /\ answer = "none" /\ raised = trail /\ todays = 0 /\ yesterdays = 0 /\ localReset = FALSE
    /\ NoSession

--------------------------------------------------------------------------------
(***************************************************************************)
(* Initialisation: a new engine recovers the trail, and goes on without    *)
(* positions when that fails; a new shutdown manager touches the marker.   *)
(* An operator who declines the recovered positions, or a difference with  *)
(* the equity of the broker, ends the session before the loop.             *)
(***************************************************************************)
StartSession ==
    /\ pc \in {"off", "done"}
    /\ RestartEngine
    /\ \/ pc' = "loop" /\ ending' = "none"
       \/ pc' = "done" /\ ending' = "refused"
    /\ attempt' = 0 /\ errors' = 0 /\ request' = FALSE /\ todo' = {}
    /\ failedRow' = 0 /\ refusedClose' = {} /\ faults' = FALSE

\* The head of an iteration.
Iteration == pc = "loop" /\ attempt < MaxIterations /\ attempt' = attempt + 1

(***************************************************************************)
(* A signal, or the marker file is removed.                                *)
(***************************************************************************)
RequestShutdown ==
    /\ pc \in {"loop", "closing"} /\ ~request
    /\ request' = TRUE
    /\ UNCHANGED <<engineVars, pc, attempt, errors, todo, ending, failedRow, refusedClose, faults>>

(***************************************************************************)
(* The shutdown is seen at the head of an iteration: pending orders are    *)
(* cancelled and every position is to be closed.                           *)
(***************************************************************************)
SeesShutdown ==
    /\ Iteration /\ request
    /\ pc' = "closing" /\ todo' = positions
    /\ UNCHANGED <<engineVars, errors, request, ending, failedRow, refusedClose, faults>>

(***************************************************************************)
(* One round of _close_all_positions(): the order is submitted, then the   *)
(* exit registered with a profit of 0; an exception of either is logged.   *)
(***************************************************************************)
ClosePosition(p) ==
    /\ pc = "closing" /\ p \in todo
    /\ todo' = todo \ {p}
    /\ \/ RegisterExit(p, 0) /\ UNCHANGED refusedClose
       \/ refusedClose' = refusedClose \cup {p} /\ UNCHANGED engineVars
    /\ UNCHANGED <<pc, attempt, errors, request, ending, failedRow, faults>>

\* Mutant: the first failure ends the closing.
ClosedUntilRefused ==
    /\ pc = "closing" /\ (todo = {} \/ refusedClose # {})
    /\ pc' = "done" /\ ending' = "shutdown"
    /\ UNCHANGED <<engineVars, attempt, errors, request, todo, failedRow, refusedClose, faults>>

ClosedAll ==
    /\ pc = "closing" /\ todo = {}
    /\ pc' = "done" /\ ending' = "shutdown"
    /\ UNCHANGED <<engineVars, attempt, errors, request, todo, failedRow, refusedClose, faults>>

(***************************************************************************)
(* An iteration without positions that gets prices: its signals end at the *)
(* price of their pair.                                                    *)
(***************************************************************************)
Trades ==
    /\ Iteration /\ ~request /\ positions = {}
    /\ errors' = 0 /\ failedRow' = 0
    /\ UNCHANGED <<engineVars, pc, request, todo, ending, refusedClose, faults>>

\* An exception, of the data or any other, counts; too many in a row end the loop.
Fails ==
    /\ Iteration /\ ~request
    /\ errors' = errors + 1
    /\ failedRow' = failedRow + 1
    /\ IF errors' >= MaxErrors THEN pc' = "done" /\ ending' = "errors"
                               ELSE UNCHANGED <<pc, ending>>
    /\ UNCHANGED <<engineVars, request, todo, refusedClose>>

(***************************************************************************)
(* No symbol has prices, whatever the reason: a transient DataError. Or    *)
(* something else of the iteration raises.                                 *)
(***************************************************************************)
EnvironmentFails == Fails /\ faults' = TRUE

(***************************************************************************)
(* An iteration with a recovered position: check_position_stops() calls    *)
(* should_stop_out(), which a recovered record does not have.              *)
(***************************************************************************)
RecoveredRecordFails == Fails /\ positions # {} /\ UNCHANGED faults

(***************************************************************************)
(* The last iteration is over; a request that came during it is not seen.  *)
(***************************************************************************)
Exhausted ==
    /\ pc = "loop" /\ attempt = MaxIterations
    /\ pc' = "done" /\ ending' = "iterations"
    /\ UNCHANGED <<engineVars, attempt, errors, request, todo, failedRow, refusedClose, faults>>

Crash ==
    /\ pc \in {"loop", "closing"}
    /\ pc' = "off"
    /\ UNCHANGED <<engineVars, attempt, errors, request, todo, ending, failedRow, refusedClose, faults>>

LoopMidnight == UTCMidnight /\ UNCHANGED loopVars

PaperNext ==
    \/ StartSession \/ RequestShutdown \/ SeesShutdown
    \/ \E p \in Pairs : ClosePosition(p)
    \/ ClosedAll
    \/ Trades \/ EnvironmentFails \/ RecoveredRecordFails \/ Exhausted
    \/ Crash \/ LoopMidnight

PaperSpec == PaperInit /\ [][PaperNext]_paperVars

--------------------------------------------------------------------------------
PaperTypeOK ==
    /\ EngineTypeOK
    /\ pc \in {"off", "loop", "closing", "done"}
    /\ attempt \in 0 .. MaxIterations
    /\ errors \in 0 .. MaxErrors /\ failedRow \in 0 .. MaxErrors
    /\ request \in BOOLEAN /\ faults \in BOOLEAN
    /\ todo \subseteq Pairs /\ refusedClose \subseteq Pairs
    /\ ending \in Endings

(***************************************************************************)
(* A shutdown that was seen leaves no position in memory except those      *)
(* whose close order raised: one failure does not keep the others open.    *)
(***************************************************************************)
ShutdownClosesAll ==
    pc = "done" /\ ending = "shutdown" => positions \subseteq refusedClose

(***************************************************************************)
(* The loop gives up only after max_consecutive_errors iterations in a row *)
(* have failed: failures with a success in between never add up.           *)
(***************************************************************************)
ErrorsAreInARow == ending = "errors" => failedRow = MaxErrors

(***************************************************************************)
(* The loop gives up only when something around it failed. A session that  *)
(* recovered a position should run: the record of the trail is said to     *)
(* match the engine's Position.                                            *)
(***************************************************************************)
ErrorsHaveACause == ending = "errors" => faults
================================================================================
