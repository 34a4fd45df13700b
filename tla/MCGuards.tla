-------------------------------- MODULE MCGuards --------------------------------
(***************************************************************************)
(* One instance of each guard: the kill switch, and what a request to IB   *)
(* Gateway meets. They share no state; a behaviour exercises one of them   *)
(* and leaves the others as they were initialised. The switch comes twice: *)
(* "switch" is one process whose single thread activates and resets it,    *)
(* its file damaged at any time; "review" the runner, which activates, and *)
(* scripts/reset_kill_switch.py, which resets without a cooldown.          *)
(***************************************************************************)
EXTENDS GatewayConnection, CircuitBreaker, TokenBucket, KillSwitch

RunnerAndScript == {"runner", "script"}
LoopAndOperator == {"loop", "operator"}
Owners == [loop |-> "runner", operator |-> "script"]
Cooldowns == [runner |-> 2, script |-> 0]

VARIABLE part

allVars == <<vars, gatewayVars, breakerVars, bucketVars, part>>

GuardsInit ==
    /\ part \in {"switch", "review", "gateway", "breaker", "bucket"}
    /\ Init /\ GatewayInit /\ BreakerInit /\ BucketInit
    /\ part # "breaker" => healthy

Switch(A) == part \in {"switch", "review"} /\ A /\ UNCHANGED <<gatewayVars, breakerVars, bucketVars, part>>
Gateway(A) == part = "gateway" /\ A /\ UNCHANGED <<vars, breakerVars, bucketVars, part>>
Breaker(A) == part = "breaker" /\ A /\ UNCHANGED <<vars, gatewayVars, bucketVars, part>>
Bucket(A) == part = "bucket" /\ A /\ UNCHANGED <<vars, gatewayVars, breakerVars, part>>

OneProcess ==
    \/ Start("runner") \/ Crash("runner")
    \/ Activate("loop") \/ Reset("loop")
    \/ Damage

TwoProcesses ==
    \/ \E p \in Procs : Start(p) \/ Crash(p)
    \/ Activate("loop") \/ Reset("operator")
    \/ Damage /\ DamagedAtRest

SwitchNext ==
    \/ part = "switch" /\ OneProcess
    \/ part = "review" /\ TwoProcesses
    \/ \E t \in Threads : Proceed(t)
    \/ Tick

GuardsNext ==
    \/ Switch(SwitchNext)
    \/ Gateway(GatewayNext)
    \/ Breaker(BreakerNext)
    \/ Bucket(BucketNext)

(***************************************************************************)
(* The fairness of the part that moves.                                    *)
(***************************************************************************)
GuardsFairness ==
    /\ \A t \in Activators : WF_allVars(Switch(Proceed(t)))
    /\ WF_allVars(Gateway(TimePasses))
    /\ \A e \in Engines : WF_allVars(Gateway(EnsureConnected(e)))
    /\ WF_allVars(Breaker(ClockTicks))
    /\ \A t \in Callers : WF_allVars(Breaker(Admit(t) \/ Leave(t)))

GuardsSpec == GuardsInit /\ [][GuardsNext]_allVars /\ GuardsFairness
================================================================================
