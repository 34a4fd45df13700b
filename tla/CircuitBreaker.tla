----------------------------- MODULE CircuitBreaker -----------------------------
(***************************************************************************)
(* common/circuit_breaker.py: one breaker, called by several threads. The  *)
(* lock is held while a call is admitted and while its result is recorded, *)
(* and not while the guarded function runs: results may come in any order, *)
(* and in a state other than the one the call was admitted in.             *)
(***************************************************************************)
EXTENDS Integers, FiniteSets

CONSTANTS Callers,            \* threads that use the breaker
          FailureThreshold,   \* config.failure_threshold, 5 by default
          SuccessThreshold,   \* config.success_threshold, 2 by default
          OpenTime            \* config.timeout_seconds, in ticks of the clock

ASSUME BreakerAssumption ==
    /\ FailureThreshold \in Nat \ {0}
    /\ SuccessThreshold \in Nat \ {0}
    /\ OpenTime \in Nat \ {0}

VARIABLES
    breaker,      \* metrics.state
    failuresRow,  \* metrics.consecutive_failures
    successRow,   \* metrics.consecutive_successes
    age,          \* time since metrics.state_change_time, up to OpenTime + 1
    inside,       \* the calls that run the guarded function
    healthy,      \* the guarded service works
    exposed       \* the calls in progress that have met a service out of order

breakerVars == <<breaker, failuresRow, successRow, age, inside, healthy, exposed>>

BreakerInit ==
    /\ breaker = "closed"
    /\ failuresRow = 0
    /\ successRow = 0
    /\ age = 0
    /\ inside = {}
    /\ healthy \in BOOLEAN
    /\ exposed = {}

--------------------------------------------------------------------------------
(***************************************************************************)
(* The transitions, each under the lock.                                   *)
(***************************************************************************)
TransitionToOpen ==
    /\ breaker' = "open"
    /\ age' = 0
    /\ successRow' = 0

TransitionToClosed ==
    /\ breaker' = "closed"
    /\ age' = 0
    /\ failuresRow' = 0
    /\ successRow' = 0

(***************************************************************************)
(* The open time is over.                                                  *)
(***************************************************************************)
Rested == breaker = "open" /\ age > OpenTime

(***************************************************************************)
(* The guarded function begins, and ends.                                  *)
(***************************************************************************)
Runs(t) ==
    /\ inside' = inside \cup {t}
    /\ exposed' = IF healthy THEN exposed ELSE exposed \cup {t}

Returns(t) ==
    /\ inside' = inside \ {t}
    /\ exposed' = exposed \ {t}

(***************************************************************************)
(* call(), admission: the breaker is not open.                             *)
(***************************************************************************)
Enter(t) ==
    /\ t \notin inside
    /\ breaker # "open"
    /\ Runs(t)
    /\ UNCHANGED <<breaker, failuresRow, successRow, age, healthy>>

(***************************************************************************)
(* call(), admission after the open time: half-open, and the probe agrees  *)
(* (or there is none).                                                     *)
(***************************************************************************)
EnterHalfOpen(t) ==
    /\ t \notin inside
    /\ Rested
    /\ breaker' = "half_open"
    /\ age' = 0
    /\ failuresRow' = 0
    /\ successRow' = 0
    /\ Runs(t)
    /\ UNCHANGED healthy

(***************************************************************************)
(* call(), admission after the open time: the probe finds the service ill, *)
(* the breaker is opened anew and the call refused.                        *)
(***************************************************************************)
ProbeFails(t) ==
    /\ t \notin inside
    /\ Rested
    /\ ~healthy
    /\ TransitionToOpen
    /\ failuresRow' = 0
    /\ UNCHANGED <<inside, healthy, exposed>>

\* Mutant: enough successes close the breaker in any state.
OnSuccessAnywhere(t) ==
    /\ t \in inside
    /\ Returns(t)
    /\ IF successRow + 1 >= SuccessThreshold
         THEN TransitionToClosed
         ELSE /\ successRow' = successRow + 1
              /\ failuresRow' = 0
              /\ UNCHANGED <<breaker, age>>
    /\ UNCHANGED healthy

\* Mutant: every success begins a new row.
OnSuccessNoRow(t) ==
    /\ t \in inside
    /\ Returns(t)
    /\ IF breaker = "half_open" /\ 1 >= SuccessThreshold
         THEN TransitionToClosed
         ELSE /\ successRow' = 1
              /\ failuresRow' = 0
              /\ UNCHANGED <<breaker, age>>
    /\ UNCHANGED healthy

(***************************************************************************)
(* _on_success(): the row of successes closes a half-open breaker. In the  *)
(* other states the row only counts up; no code reads it there. A call can *)
(* succeed although the service is out of order; it fails only if it has   *)
(* met that.                                                               *)
(***************************************************************************)
OnSuccess(t) ==
    /\ t \in inside
    /\ Returns(t)
    /\ IF breaker = "half_open" /\ successRow + 1 >= SuccessThreshold
         THEN TransitionToClosed
         ELSE /\ successRow' = IF successRow < SuccessThreshold THEN successRow + 1 ELSE successRow
              /\ failuresRow' = 0
              /\ UNCHANGED <<breaker, age>>
    /\ UNCHANGED healthy

(***************************************************************************)
(* _on_failure(): a half-open breaker opens at once, a closed one at the   *)
(* threshold; a failure that comes late finds it open already.             *)
(***************************************************************************)
OnFailure(t) ==
    /\ t \in exposed
    /\ Returns(t)
    /\ failuresRow' = IF failuresRow < FailureThreshold THEN failuresRow + 1 ELSE failuresRow
    /\ IF \/ breaker = "half_open"
          \/ breaker = "closed" /\ failuresRow + 1 >= FailureThreshold
         THEN TransitionToOpen
         ELSE /\ successRow' = 0
              /\ UNCHANGED <<breaker, age>>
    /\ UNCHANGED healthy

(***************************************************************************)
(* reset(): new metrics.                                                   *)
(***************************************************************************)
ResetBreaker ==
    /\ TransitionToClosed
    /\ UNCHANGED <<inside, healthy, exposed>>

ServiceChanges ==
    /\ healthy' = ~healthy
    /\ exposed' = IF healthy THEN inside ELSE exposed
    /\ UNCHANGED <<breaker, failuresRow, successRow, age, inside>>

ClockTicks ==
    /\ age' = IF age <= OpenTime THEN age + 1 ELSE age
    /\ UNCHANGED <<breaker, failuresRow, successRow, inside, healthy, exposed>>

Admit(t) == Enter(t) \/ EnterHalfOpen(t) \/ ProbeFails(t)
Leave(t) == OnSuccess(t) \/ OnFailure(t)

BreakerNext ==
    \/ \E t \in Callers : Admit(t) \/ Leave(t)
    \/ ResetBreaker \/ ServiceChanges \/ ClockTicks

(***************************************************************************)
(* Calls go on being made, a call ends, and time passes.                   *)
(***************************************************************************)
BreakerFairness ==
    /\ WF_breakerVars(ClockTicks)
    /\ \A t \in Callers : WF_breakerVars(Admit(t)) /\ WF_breakerVars(Leave(t))

BreakerSpec == BreakerInit /\ [][BreakerNext]_breakerVars /\ BreakerFairness

--------------------------------------------------------------------------------
BreakerTypeOK ==
    /\ breaker \in {"closed", "open", "half_open"}
    /\ failuresRow \in 0 .. FailureThreshold
    /\ successRow \in 0 .. SuccessThreshold
    /\ age \in 0 .. OpenTime + 1
    /\ inside \subseteq Callers
    /\ healthy \in BOOLEAN
    /\ exposed \subseteq inside

(***************************************************************************)
(* The counters fit the state whatever order the results come in: a closed *)
(* breaker has not missed its threshold of failures, a half-open one has   *)
(* seen no failure and not yet the successes that close it.                *)
(***************************************************************************)
CountersFitState ==
    /\ breaker = "closed" => failuresRow < FailureThreshold
    /\ breaker = "half_open" => failuresRow = 0 /\ successRow < SuccessThreshold

(***************************************************************************)
(* A late result never reopens the door: what leaves the open state by     *)
(* itself has waited for the open time, and goes through half-open. Only   *)
(* an operator's reset() closes an open breaker.                           *)
(***************************************************************************)
OpenIsServed ==
    [][breaker = "open" /\ breaker' # "open" /\ ~ResetBreaker
       => breaker' = "half_open" /\ age > OpenTime]_breakerVars

(***************************************************************************)
(* Once the service works for good, the breaker closes for good: the calls *)
(* that are under way cannot keep it open.                                 *)
(***************************************************************************)
ClosesAfterRecovery == <>[]healthy => <>[](breaker = "closed")
================================================================================
