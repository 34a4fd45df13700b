-------------------------- MODULE OrderSubmission ---------------------------
(***************************************************************************)
(* The live path of one order: ExecutionRouter._live_fill() in             *)
(* execution_engine/router.py, IBKRExecutionEngine in                      *)
(* execution/ibkr_engine.py, and the broker behind it.  The runner calls   *)
(* it from one thread; broker events, lost connections and crashes         *)
(* interleave with its steps.  A caller may submit an id again, after an   *)
(* exception or after a restart: that is what the persisted map is for.    *)
(***************************************************************************)
EXTENDS Integers

CONSTANTS
    Orders,       \* order ids
    MaxSends,     \* bound: copies of one id the broker may receive
    MaxPolls,     \* status polls before the fill timeout
    SubmitTries,  \* attempts of _ORDER_RETRY_POLICY
    CancelTries,  \* attempts to confirm the cancellation
    Faults,       \* the failures that are allowed, a subset of FaultKinds
    Listening,    \* where ib_insync's event loop runs: the steps at which messages come in
    NoOrder, NoRef

FaultKinds ==
    {"crashBeforeRecord",  \* the process dies between placeOrder and the save
     "lostAck",            \* placeOrder raises after the broker got the order
     "saveFails",          \* the order map cannot be written
     "loadFails"}          \* the order map cannot be read

ASSUME BoundsAssumption ==
    /\ MaxSends \in Nat \ {0}
    /\ MaxPolls \in Nat
    /\ SubmitTries \in Nat \ {0}
    /\ CancelTries \in Nat \ {0}
    /\ Faults \subseteq FaultKinds
\* The loop never runs between placeOrder() and the save. On the thread of the
\* caller it runs inside blocking requests only, between two calls and while the
\* shortable shares are asked for, and not in the time.sleep() of the others.
ASSUME ListeningAssumption ==
    Listening \subseteq {"idle", "check", "place", "perm", "poll", "cancel"}
ASSUME OrdersAssumption == NoOrder \notin Orders /\ NoRef \notin Orders

VARIABLES
    pc, cur,         \* where _live_fill() is, and with which order
    tries, waited,   \* its retry and poll counters
    cache,           \* router._pending_orders: final statuses
    conn,            \* engine._ib is connected
    trade,           \* engine._order_map: the copy an id is bound to, 0 if none
    seen,            \* the status its ib_insync trade shows
    persisted,       \* engine._persisted_order_ids: "no", 0 or a permId
    saved,           \* the file behind it
    pendingConfirm,  \* engine._pending_confirm_orders
    sent,            \* broker: copies received of each id
    book,            \* broker: the state of each copy
    asked            \* broker: copies it was asked to cancel

router == <<cache>>
engine == <<conn, trade, seen, persisted, saved, pendingConfirm>>
broker == <<sent, book, asked>>
call == <<pc, cur, tries, waited>>
vars == <<call, router, engine, broker>>

Copies == 1 .. MaxSends
Perm == {"no", "zero", "perm"}
States == {"none", "working", "filled", "cancelled"}
Done == {"filled", "cancelled"}

TypeOK ==
    /\ pc \in {"down", "idle", "check", "place", "record", "perm", "poll", "cancel"}
    /\ cur \in Orders \union {NoOrder}
    /\ pc \in {"down", "idle"} <=> cur = NoOrder
    /\ tries \in Nat
    /\ waited \in Nat
    /\ cache \in [Orders -> {"none", "FILLED", "TIMEOUT", "REJECTED"}]
    /\ conn \in BOOLEAN
    /\ trade \in [Orders -> 0 .. MaxSends]
    /\ seen \in [Orders -> States]
    /\ persisted \in [Orders -> Perm]
    /\ saved \in [Orders -> Perm]
    /\ pendingConfirm \subseteq Orders
    /\ sent \in [Orders -> 0 .. MaxSends]
    /\ book \in [Orders -> [Copies -> States]]
    /\ asked \in [Orders -> SUBSET Copies]

Init ==
    /\ pc = "idle" /\ cur = NoOrder
    /\ tries = 0 /\ waited = 0
    /\ cache = [o \in Orders |-> "none"]
    /\ conn = FALSE
    /\ trade = [o \in Orders |-> 0]
    /\ seen = [o \in Orders |-> "none"]
    /\ persisted = [o \in Orders |-> "no"]
    /\ saved = [o \in Orders |-> "no"]
    /\ pendingConfirm = {}
    /\ sent = [o \in Orders |-> 0]
    /\ book = [o \in Orders |-> [i \in Copies |-> "none"]]
    /\ asked = [o \in Orders |-> {}]

-----------------------------------------------------------------------------
Goto(label) == pc' = label
Return == pc' = "idle" /\ cur' = NoOrder /\ tries' = 0 /\ waited' = 0

\* _ensure_connected() succeeds.  When it raises nothing here changes but the
\* caller's control; its circuit breaker is not modelled here.
Connected == conn' = TRUE

\* _save_order_map(): a failed write is logged and forgotten.
SaveMap ==
    \/ saved' = persisted'
    \/ "saveFails" \in Faults /\ UNCHANGED saved

\* _live_fill() up to the guards.
Begin(o) ==
    /\ pc = "idle"
    /\ Connected
    /\ cur' = o
    /\ Goto("check")
    /\ UNCHANGED <<tries, waited, router, trade, seen, persisted, saved, pendingConfirm, broker>>

\* Too few shortable shares, or the rate limiter timed out.
Refuse ==
    /\ pc = "check"
    /\ cache' = [cache EXCEPT ![cur] = "REJECTED"]
    /\ Return
    /\ UNCHANGED <<engine, broker>>

\* The idempotency guard of submit_order(): a known id is returned as it is.
AlreadySubmitted ==
    /\ pc = "check"
    /\ persisted[cur] # "no"
    /\ Goto("poll")
    /\ UNCHANGED <<cur, tries, waited, router, engine, broker>>

\* Mutant: no idempotency guard.
AlwaysUnknown(o) == TRUE

Unknown(o) == persisted[o] = "no"

Admit ==
    /\ pc = "check"
    /\ Unknown(cur)
    /\ Connected
    /\ Goto("place")
    /\ tries' = 1
    /\ UNCHANGED <<cur, waited, router, trade, seen, persisted, saved, pendingConfirm, broker>>

\* The broker receives one more copy of the order.
Arrives(o) ==
    /\ sent[o] < MaxSends
    /\ sent' = [sent EXCEPT ![o] = sent[o] + 1]
    /\ book' = [book EXCEPT ![o] = [book[o] EXCEPT ![sent[o] + 1] = "working"]]
    /\ UNCHANGED asked

\* placeOrder() returns a trade.
Place ==
    /\ pc = "place" /\ conn
    /\ Arrives(cur)
    /\ Goto("record")
    /\ UNCHANGED <<cur, tries, waited, router, engine>>

\* A retryable exception with attempts left: before or after the broker got
\* the order.
PlaceRetried ==
    /\ pc = "place"
    /\ tries < SubmitTries
    /\ tries' = tries + 1
    /\ \/ UNCHANGED broker
       \/ "lostAck" \in Faults /\ conn /\ Arrives(cur)
    /\ UNCHANGED <<pc, cur, waited, router, engine>>

\* An exception leaves the router: no connection in submit_order(), retries
\* exhausted, a limiter timeout, or no connection to cancel through.  The
\* final status of the order is not recorded.
Raises ==
    /\ \/ pc = "place"
       \/ pc \in {"check", "cancel"} /\ ~conn
    /\ Return
    /\ UNCHANGED <<router, engine, broker>>

\* Mutant: the id is only recorded once its permId is known.
NoPlaceholder(o) == UNCHANGED persisted

\* The id is recorded with permId 0 as soon as the order is placed.
Placeholder(o) == persisted' = [persisted EXCEPT ![o] = "zero"]

\* The order is bound to its trade and its id saved with permId 0.
Record ==
    /\ pc = "record"
    /\ trade' = [trade EXCEPT ![cur] = sent[cur]]
    /\ seen' = [seen EXCEPT ![cur] = "working"]
    /\ Placeholder(cur)
    /\ SaveMap
    /\ Goto("perm")
    /\ UNCHANGED <<cur, tries, waited, router, conn, pendingConfirm, broker>>

\* The broker has assigned a permId within five seconds, and its message came in.
PermAssigned ==
    /\ pc = "perm" /\ pc \in Listening
    /\ persisted' = [persisted EXCEPT ![cur] = "perm"]
    /\ SaveMap
    /\ pendingConfirm' = pendingConfirm \ {cur}
    /\ Goto("poll")
    /\ UNCHANGED <<cur, tries, waited, router, conn, trade, seen, broker>>

PermTimeout ==
    /\ pc = "perm"
    /\ pendingConfirm' = pendingConfirm \union {cur}
    /\ Goto("poll")
    /\ UNCHANGED <<cur, tries, waited, router, conn, trade, seen, persisted, saved, broker>>

-----------------------------------------------------------------------------
\* Mutant: an order without a trade is taken for filled.
UnknownIsFilled(o) ==
    IF trade[o] = 0 \/ seen[o] \in Done THEN "FILLED" ELSE "PENDING"

\* engine.get_order_status(): FILLED when the trade is done, however it ended;
\* UNKNOWN without a trade.  CANCELLED is never returned, so that the two
\* branches of _live_fill() that wait for it are dead.
EngineStatus(o) ==
    IF trade[o] = 0 THEN "UNKNOWN"
    ELSE IF seen[o] \in Done THEN "FILLED" ELSE "PENDING"

PollFilled ==
    /\ pc = "poll" /\ waited < MaxPolls
    /\ EngineStatus(cur) = "FILLED"
    /\ cache' = [cache EXCEPT ![cur] = "FILLED"]
    /\ Return
    /\ UNCHANGED <<engine, broker>>

PollAgain ==
    /\ pc = "poll" /\ waited < MaxPolls
    /\ EngineStatus(cur) # "FILLED"
    /\ waited' = waited + 1
    /\ UNCHANGED <<pc, cur, tries, router, engine, broker>>

GiveUp ==
    /\ pc = "poll" /\ waited = MaxPolls
    /\ Goto("cancel")
    /\ tries' = 1
    /\ UNCHANGED <<cur, waited, router, engine, broker>>

\* Mutant: the cancellation is not sent.
AskNothing(o) == UNCHANGED asked

\* engine.cancel_order(): nothing is sent for an id without a trade.
AskCancel(o) ==
    asked' = IF trade[o] = 0 THEN asked ELSE [asked EXCEPT ![o] = asked[o] \union {trade[o]}]

\* One round of the cancellation loop, never confirmed (see EngineStatus);
\* after the last one the order is recorded as TIMEOUT.
Cancel ==
    /\ pc = "cancel"
    /\ Connected
    /\ AskCancel(cur)
    /\ IF tries < CancelTries
       THEN /\ tries' = tries + 1
            /\ UNCHANGED <<pc, cur, waited, cache>>
       ELSE /\ cache' = [cache EXCEPT ![cur] = "TIMEOUT"]
            /\ Return
    /\ UNCHANGED <<trade, seen, persisted, saved, pendingConfirm, sent, book>>

-----------------------------------------------------------------------------
\* engine.cancel_all_pending(), called when the kill switch trips.
GlobalCancel ==
    /\ pc = "idle"
    /\ Connected
    /\ asked' = [o \in Orders |->
                    asked[o] \union {i \in Copies : book[o][i] = "working"}]
    /\ UNCHANGED <<call, router, trade, seen, persisted, saved, pendingConfirm, sent, book>>

\* The orderRef of an order placed by _place_order_with_retry(), which sets none.
OrderRef(o) == NoRef

\* engine.reconcile_pending_confirm()
ReconcilePendingConfirm ==
    LET resolved == {o \in pendingConfirm :
                        \E x \in Orders : OrderRef(x) = o
                            /\ \E i \in Copies : book[x][i] = "working"}
    IN  /\ pc = "idle"
        /\ pendingConfirm # {}
        /\ Connected
        /\ persisted' = [o \in Orders |-> IF o \in resolved THEN "perm" ELSE persisted[o]]
        /\ pendingConfirm' = pendingConfirm \ resolved
        /\ IF resolved = {} THEN UNCHANGED saved ELSE SaveMap
        /\ UNCHANGED <<call, router, trade, seen, broker>>

\* The connection drops: every known trade becomes an order to be confirmed.
OnDisconnect ==
    /\ conn
    /\ pc \in Listening
    /\ conn' = FALSE
    /\ pendingConfirm' = pendingConfirm \union {o \in Orders : trade[o] # 0}
    /\ trade' = [o \in Orders |-> 0]
    /\ seen' = [o \in Orders |-> "none"]
    /\ UNCHANGED persisted
    /\ IF \E o \in Orders : trade[o] # 0 THEN SaveMap ELSE UNCHANGED saved
    /\ UNCHANGED <<call, router, broker>>

\* ib_insync updates the trade from the broker's messages.
Deliver(o) ==
    /\ conn /\ trade[o] # 0
    /\ pc \in Listening
    /\ seen' = [seen EXCEPT ![o] = book[o][trade[o]]]
    /\ UNCHANGED <<call, router, conn, trade, persisted, saved, pendingConfirm, broker>>

\* The broker fills or cancels a working copy, asked or of its own accord.
BrokerEnds(o, i) ==
    /\ book[o][i] = "working"
    /\ \E s \in Done : book' = [book EXCEPT ![o] = [book[o] EXCEPT ![i] = s]]
    /\ UNCHANGED <<call, router, engine, sent, asked>>

\* The process dies; memory is gone, the file and the broker remain.
Crash ==
    /\ pc # "down"
    /\ pc = "record" => "crashBeforeRecord" \in Faults
    /\ pc' = "down" /\ cur' = NoOrder /\ tries' = 0 /\ waited' = 0
    /\ cache' = [o \in Orders |-> "none"]
    /\ conn' = FALSE
    /\ trade' = [o \in Orders |-> 0]
    /\ seen' = [o \in Orders |-> "none"]
    /\ persisted' = [o \in Orders |-> "no"]
    /\ pendingConfirm' = {}
    /\ UNCHANGED <<saved, broker>>

\* A new engine: __init__() and _load_order_map().
Restart ==
    /\ pc = "down"
    /\ Goto("idle")
    /\ \/ persisted' = saved
       \/ "loadFails" \in Faults /\ UNCHANGED persisted
    /\ UNCHANGED <<cur, tries, waited, router, conn, trade, seen, saved, pendingConfirm, broker>>

LiveFill ==
    \/ Refuse \/ AlreadySubmitted \/ Admit
    \/ Place \/ PlaceRetried \/ Raises
    \/ Record \/ PermAssigned \/ PermTimeout
    \/ PollFilled \/ PollAgain \/ GiveUp
    \/ Cancel

Next ==
    \/ \E o \in Orders : Begin(o)
    \/ LiveFill
    \/ GlobalCancel \/ ReconcilePendingConfirm
    \/ OnDisconnect
    \/ \E o \in Orders : Deliver(o)
    \/ \E o \in Orders : \E i \in Copies : BrokerEnds(o, i)
    \/ Crash \/ Restart

Spec == Init /\ [][Next]_vars

-----------------------------------------------------------------------------
\* "Prevent double-execution after crash/retry": the broker never holds two
\* copies of one order id.
AtMostOnce == \A o \in Orders : sent[o] <= 1

Recorded(o) == IF pc = "down" THEN saved[o] # "no" ELSE persisted[o] # "no"

\* No orphan: an order that works at the broker is in the order map of the
\* process, or on disk for the next one, unless it is being recorded.
NoOrphan ==
    \A o \in Orders :
        (\E i \in Copies : book[o][i] = "working") =>
            Recorded(o) \/ (pc = "record" /\ cur = o)

\* A FILLED report is final: the broker no longer works the order, so that a
\* position removed on that report cannot be traded behind the runner's back.
FilledReportIsFinal ==
    \A o \in Orders : cache[o] = "FILLED" => \A i \in Copies : book[o][i] # "working"

\* An order given up on TIMEOUT whose trade the engine still holds has been
\* asked to be cancelled.
TrackedTimeoutIsCancelled ==
    \A o \in Orders :
        cache[o] = "TIMEOUT" /\ trade[o] # 0 => trade[o] \in asked[o]

\* Even when saves, loads and acknowledgements fail: an id in the order map of
\* the running process is not sent again by it.
RecordedIsNotResent ==
    [][\A o \in Orders : persisted[o] # "no" => sent'[o] = sent[o]]_vars

\* The steps a call has before it at most: its attempts to place the order, its
\* polls, its rounds of cancellation, and what lies between.
StepsLeft ==
    CASE pc = "check"  -> 6 + SubmitTries + MaxPolls + CancelTries
      [] pc = "place"  -> 5 + (SubmitTries - tries) + MaxPolls + CancelTries
      [] pc = "record" -> 4 + MaxPolls + CancelTries
      [] pc = "perm"   -> 3 + MaxPolls + CancelTries
      [] pc = "poll"   -> 2 + (MaxPolls - waited) + CancelTries
      [] pc = "cancel" -> 1 + (CancelTries - tries)
      [] OTHER         -> 0

\* A call of _live_fill() comes to an end, whatever fails: each of its steps
\* leaves it fewer, and nothing that happens meanwhile, a lost connection or a
\* message of the broker, gives it more.
CallsEnd ==
    [][IF LiveFill THEN StepsLeft' < StepsLeft
                   ELSE pc # "idle" => StepsLeft' <= StepsLeft]_vars

\* get_order_status() of a router that has its engine: the cache first, then
\* the engine. (A router that has yet to build one takes every order for filled:
\* the weekend of PositionBook.)
Status(o) == IF cache[o] = "none" THEN EngineStatus(o) ELSE cache[o]

\* The refinement mapping to what the router promises, and the promise: every
\* behaviour of router, engine and broker is one of OrderContract.
Fate == [o \in Orders |-> IF sent[o] = 0 THEN "new"
                          ELSE IF sent[o] = 1 THEN book[o][1] ELSE "double"]
Contract ==
    INSTANCE OrderContract WITH fate <- Fate, answer <- [o \in Orders |-> Status(o)]
ContractHolds == Contract!Spec

-----------------------------------------------------------------------------
\* What the documentation says and the code does not do.

\* "Only removed once the broker confirms FILLED": a FILLED report means that
\* the broker has filled the order.
FilledReportIsTrue ==
    \A o \in Orders : cache[o] = "FILLED" => \E i \in Copies : book[o][i] = "filled"
=============================================================================
