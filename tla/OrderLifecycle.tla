----------------------------- MODULE OrderLifecycle -----------------------------
(***************************************************************************)
(* Deadlines of orders: OrderLifecycleManager of                           *)
(* execution/order_lifecycle.py and its use of the execution engine in     *)
(* execution/order_lifecycle_integration.py. One thread calls both; the    *)
(* broker fills orders between the calls.                                  *)
(***************************************************************************)
EXTENDS Integers

CONSTANTS Tracked,         \* the orders track_order() accepts, see there
          Quantity,        \* initial_quantity of each
          MaxRetries,      \* max_retries
          AttemptBound     \* bound of the attempts to force a close

ASSUME LifecycleAssumption ==
    /\ Quantity \in Nat \ {0}
    /\ MaxRetries \in Nat \ {0}
    /\ AttemptBound \in Nat /\ AttemptBound > MaxRetries

VARIABLES
    lifecycle,     \* orders[o].status, "untracked" when it is not a key
    filledQty,     \* orders[o].filled_quantity
    attempts,      \* force_close_attempts
    expired,       \* orders whose timeout_at has passed
    due            \* check_interval_seconds have passed since last_timeout_check

lifecycleVars == <<lifecycle, filledQty, attempts, expired, due>>

Resolved == {"FILLED", "CANCELLED", "TIMEOUT"}
Statuses == Resolved \cup {"PENDING", "PARTIALLY_FILLED", "ERROR"}
Keys == {o \in Tracked : lifecycle[o] # "untracked"}

LifecycleInit ==
    /\ lifecycle = [o \in Tracked |-> "untracked"]
    /\ filledQty = [o \in Tracked |-> 0]
    /\ attempts = [o \in Tracked |-> 0]
    /\ expired = {} /\ due = FALSE

--------------------------------------------------------------------------------
(***************************************************************************)
(* track_order(), create_order(): a second order of the same id raises,    *)
(* and so does a symbol that is neither a ticker nor has a slash: an order *)
(* of a pair key such as AAPL_MSFT is never tracked and has no deadline.   *)
(***************************************************************************)
TrackOrder(o) ==
    /\ o \notin Keys
    /\ lifecycle' = [lifecycle EXCEPT ![o] = "PENDING"]
    /\ UNCHANGED <<filledQty, attempts, expired, due>>

(***************************************************************************)
(* update_order(): any status, from any status, with a quantity that does  *)
(* not exceed the order's. mark_filled() is the update to FILLED.          *)
(***************************************************************************)
UpdateOrder(o, s, q) ==
    /\ o \in Keys
    /\ lifecycle' = [lifecycle EXCEPT ![o] = s]
    /\ filledQty' = [filledQty EXCEPT ![o] = q]
    /\ UNCHANGED <<attempts, expired, due>>

\* Mutant: partly filled orders are passed over.
PassedOver == {o \in Keys \cap expired : lifecycle[o] \in {"PENDING", "ERROR"}}

(***************************************************************************)
(* The orders check_for_timeouts() finds expired. An order in ERROR is     *)
(* not resolved.                                                           *)
(***************************************************************************)
Expired == {o \in Keys \cap expired : lifecycle[o] \notin Resolved}

(***************************************************************************)
(* process_timeouts(), once the interval has passed: every order found is  *)
(* marked TIMEOUT, then cancelled at the engine one by one. Those of       *)
(* `fails` raise and stay in TIMEOUT; an engine that returns FALSE is not  *)
(* noticed, the order counts as cancelled.                                 *)
(***************************************************************************)
ProcessTimeouts(fails) ==
    /\ due
    /\ due' = FALSE
    /\ fails \subseteq Expired
    /\ lifecycle' = [o \in Tracked |-> IF o \in fails THEN "TIMEOUT"
                                       ELSE IF o \in Expired THEN "CANCELLED" ELSE lifecycle[o]]
    /\ UNCHANGED <<filledQty, attempts, expired>>

(***************************************************************************)
(* force_close_order(): counted, and an error beyond max_retries. The      *)
(* quantity is added to what was filled, whatever the order's; here up to  *)
(* twice that.                                                             *)
(***************************************************************************)
ForceClose(o, q) ==
    /\ o \in Keys /\ attempts[o] < AttemptBound
    /\ attempts' = [attempts EXCEPT ![o] = @ + 1]
    /\ IF attempts'[o] > MaxRetries
       THEN /\ lifecycle' = [lifecycle EXCEPT ![o] = "ERROR"]
            /\ UNCHANGED filledQty
       ELSE /\ filledQty[o] + q <= 2 * Quantity
            /\ lifecycle' = [lifecycle EXCEPT ![o] = "CANCELLED"]
            /\ filledQty' = [filledQty EXCEPT ![o] = @ + q]
    /\ UNCHANGED <<expired, due>>

(***************************************************************************)
(* cleanup_resolved_orders() forgets those of S, resolved for long enough: *)
(* their ids can be tracked anew.                                          *)
(***************************************************************************)
CleanupResolved(S) ==
    /\ S # {} /\ S \subseteq {o \in Keys : lifecycle[o] \in Resolved}
    /\ lifecycle' = [o \in Tracked |-> IF o \in S THEN "untracked" ELSE lifecycle[o]]
    /\ filledQty' = [o \in Tracked |-> IF o \in S THEN 0 ELSE filledQty[o]]
    /\ attempts' = [o \in Tracked |-> IF o \in S THEN 0 ELSE attempts[o]]
    /\ expired' = expired \ S
    /\ UNCHANGED due

(***************************************************************************)
(* Time: the deadline of an order passes, and the interval of the checks.  *)
(***************************************************************************)
DeadlinePasses(o) ==
    /\ o \in Keys \ expired
    /\ expired' = expired \cup {o}
    /\ UNCHANGED <<lifecycle, filledQty, attempts, due>>

IntervalPasses ==
    /\ ~due
    /\ due' = TRUE
    /\ UNCHANGED <<lifecycle, filledQty, attempts, expired>>

Check == \E fails \in SUBSET Expired : ProcessTimeouts(fails)

LifecycleNext ==
    \/ \E o \in Tracked :
          \/ TrackOrder(o)
          \/ \E s \in Statuses, q \in 0 .. Quantity : UpdateOrder(o, s, q)
          \/ \E q \in 1 .. Quantity : ForceClose(o, q)
          \/ DeadlinePasses(o)
    \/ \E S \in SUBSET Tracked : CleanupResolved(S)
    \/ Check
    \/ IntervalPasses

\* The loop checks every iteration, and time passes.
LifecycleFairness ==
    /\ WF_lifecycleVars(Check) /\ WF_lifecycleVars(IntervalPasses)
    /\ \A o \in Tracked : WF_lifecycleVars(DeadlinePasses(o))

LifecycleSpec == LifecycleInit /\ [][LifecycleNext]_lifecycleVars /\ LifecycleFairness

--------------------------------------------------------------------------------
LifecycleTypeOK ==
    /\ lifecycle \in [Tracked -> Statuses \cup {"untracked"}]
    /\ filledQty \in [Tracked -> 0 .. 2 * Quantity]
    /\ attempts \in [Tracked -> 0 .. AttemptBound]
    /\ expired \subseteq Tracked /\ due \in BOOLEAN

(***************************************************************************)
(* An order that nobody updates does not stay open for ever: it is found   *)
(* after its deadline, partly filled or in error as it may be.             *)
(***************************************************************************)
NoOrderStaysOpen ==
    \A o \in Tracked :
        []<>(lifecycle[o] \in Resolved \cup {"untracked"})
        \/ []<><<\E s \in Statuses, q \in 0 .. Quantity : UpdateOrder(o, s, q)>>_lifecycleVars
================================================================================
