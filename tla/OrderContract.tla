--------------------------- MODULE OrderContract ----------------------------
(***************************************************************************)
(* What the router and its engine promise the runner ("idempotency via     *)
(* persisted order mapping", execution/ibkr_engine.py; "fill-confirmation  *)
(* tracking", execution_engine/router.py): an order id reaches the broker  *)
(* at most once, however often it is submitted and whatever crashes in     *)
(* between; what has become of it there never changes back; and            *)
(* get_order_status(), of a router with its engine, only answers what the  *)
(* broker gives a reason for.                                              *)
(***************************************************************************)
CONSTANT Orders

VARIABLES
    fate,    \* what the broker has done with each order id
    answer   \* what get_order_status() answers about it

Answers == {"UNKNOWN", "PENDING", "FILLED", "TIMEOUT", "REJECTED"}
Ended == {"filled", "cancelled"}

Init ==
    /\ fate = [o \in Orders |-> "new"]
    /\ answer = [o \in Orders |-> "UNKNOWN"]

Send(o) ==
    /\ fate[o] = "new"
    /\ fate' = [fate EXCEPT ![o] = "working"]
    /\ UNCHANGED answer

End(o) ==
    /\ fate[o] = "working"
    /\ \E f \in Ended : fate' = [fate EXCEPT ![o] = f]
    /\ UNCHANGED answer

\* UNKNOWN and REJECTED commit to nothing: a process that has lost its memory
\* or its connection, or refuses to submit the id again, may say so of any id.
Deserved(o) ==
    {a \in Answers : /\ a \in {"PENDING", "TIMEOUT"} => fate[o] # "new"
                     /\ a = "FILLED" => fate[o] \in Ended}

\* One or, when a connection or a process is lost, many answers change.
Answer ==
    /\ answer' \in [Orders -> Answers]
    /\ \A o \in Orders : answer'[o] # answer[o] => answer'[o] \in Deserved(o)
    /\ UNCHANGED fate

Next == Answer \/ \E o \in Orders : Send(o) \/ End(o)

Spec == Init /\ [][Next]_<<fate, answer>>

-----------------------------------------------------------------------------
\* Every answer has a reason: an order said to be pending or given up was sent,
\* and one said to be filled has ended at the broker, by a fill or a cancellation.
AnswersAreDeserved == \A o \in Orders : answer[o] \in Deserved(o)
=============================================================================
