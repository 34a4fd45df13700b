--------------------------- MODULE MCTradingLoop ----------------------------
(* Instance of TradingLoop for TLC, and of the executor that delivers the    *)
(* alerts of the loop: a behaviour moves one of the two.  In the code        *)
(* MaxStale is 5 (300 s at 60 s a bar) and MaxAttempts 5; two of each show   *)
(* every comparison.  Throttle and PostTimeout are 30 s and at most 10 s.    *)
EXTENDS TradingLoop, AlertDelivery

VARIABLE part

runnerVars == <<vars, alertVars, part>>

Everything == EventKinds

RunnerInit ==
    /\ part \in {"loop", "alerts"} /\ Init /\ AlertInit
    /\ part = "alerts" => gateway /\ ~weekend

Looping(A) == part = "loop" /\ A /\ UNCHANGED <<alertVars, part>>
Alerting(A) == part = "alerts" /\ A /\ UNCHANGED <<vars, part>>

RunnerNext == Looping(Next) \/ Alerting(AlertNext)

\* As FairSpec; and a thread of the executor goes on with its job.
RunnerFairness ==
    /\ WF_runnerVars(Looping(MainThread))
    /\ WF_runnerVars(Looping(FetchThreadEnds))
    /\ WF_runnerVars(Looping(MondayComes))
    /\ \A w \in Workers : WF_runnerVars(Alerting(Work(w)))

RunnerSpec == RunnerInit /\ [][RunnerNext]_runnerVars /\ RunnerFairness
=============================================================================
