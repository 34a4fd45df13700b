--------------------------- MODULE GatewayConnection ---------------------------
(***************************************************************************)
(* The connection of execution/ibkr_engine.py to IB Gateway: the breaker   *)
(* of _ensure_connected(), and the registry of client ids that engines of  *)
(* one process share. An engine is used by one thread, so that a call of   *)
(* _ensure_connected() is one step; the gateway comes, goes and drops      *)
(* connections between the steps. A call that is refused (breaker open,    *)
(* gateway declared dead) raises and changes nothing.                      *)
(* What a disconnection does to the orders is in OrderSubmission.          *)
(***************************************************************************)
EXTENDS Integers, FiniteSets

CONSTANTS Engines,        \* engine objects of a process, all with one client id
          Threshold,      \* _max_consecutive_failures, 5 in the code
          BasePause,      \* _cb_base_reset_timeout, in ticks of the clock
          MaxCycles       \* _cb_max_dead_cycles, 3 in the code

ASSUME GatewayAssumption ==
    /\ Threshold \in Nat \ {0}
    /\ BasePause \in Nat \ {0}
    /\ MaxCycles \in Nat \ {0}

MaxPause == 4 * BasePause

\* Bound of the history variable lost: more failures make no difference.
LostBound == MaxCycles * Threshold

VARIABLES
    claimed,       \* the client id is in _active_client_ids
    life,          \* "none", "built", "closed" (disconnect() was called), "refused"
    connected,     \* _ib is set and isConnected()
    failures,      \* _consecutive_failures
    since,         \* time since _last_failure_time, up to MaxPause
    cycles,        \* _cb_cycle_count
    pause,         \* _cb_reset_timeout
    dead,          \* _gateway_declared_dead
    lost           \* history: calls that failed since construction or operator reset

breakerOf == <<failures, since, cycles, pause, dead, lost>>
gatewayVars == <<claimed, life, connected, breakerOf>>

(***************************************************************************)
(* An engine object exists and its methods can be called.                  *)
(***************************************************************************)
Usable(e) == life[e] \in {"built", "closed"}

GatewayInit ==
    /\ claimed = FALSE
    /\ life = [e \in Engines |-> "none"]
    /\ connected = [e \in Engines |-> FALSE]
    /\ failures = [e \in Engines |-> 0]
    /\ since = [e \in Engines |-> 0]
    /\ cycles = [e \in Engines |-> 0]
    /\ pause = [e \in Engines |-> BasePause]
    /\ dead = [e \in Engines |-> FALSE]
    /\ lost = [e \in Engines |-> 0]

--------------------------------------------------------------------------------
(***************************************************************************)
(* __init__: the id is free, the new engine takes it. The fields of an     *)
(* object that does not exist are kept as __init__ sets them.              *)
(***************************************************************************)
Build(e) ==
    /\ life[e] = "none"
    /\ ~claimed
    /\ claimed' = TRUE
    /\ life' = [life EXCEPT ![e] = "built"]
    /\ UNCHANGED <<connected, breakerOf>>

(***************************************************************************)
(* __init__ raises, the id is taken: an object that has its client_id and  *)
(* waits for its finaliser.                                                *)
(***************************************************************************)
BuildRefused(e) ==
    /\ life[e] = "none"
    /\ claimed
    /\ life' = [life EXCEPT ![e] = "refused"]
    /\ UNCHANGED <<claimed, connected, breakerOf>>

\* Mutant: the finaliser forgets the id of an engine that is still open.
CollectKeepsClaim(e) ==
    /\ life[e] # "none"
    /\ life' = [life EXCEPT ![e] = "none"]
    /\ claimed' = (claimed /\ life[e] = "built")
    /\ connected' = [connected EXCEPT ![e] = FALSE]
    /\ failures' = [failures EXCEPT ![e] = 0]
    /\ since' = [since EXCEPT ![e] = 0]
    /\ cycles' = [cycles EXCEPT ![e] = 0]
    /\ pause' = [pause EXCEPT ![e] = BasePause]
    /\ dead' = [dead EXCEPT ![e] = FALSE]
    /\ lost' = [lost EXCEPT ![e] = 0]

(***************************************************************************)
(* __del__ of an engine nobody refers to any more, refused ones included:  *)
(* it releases the id, whoever holds it.                                   *)
(***************************************************************************)
Collect(e) ==
    /\ life[e] # "none"
    /\ life' = [life EXCEPT ![e] = "none"]
    /\ claimed' = FALSE
    /\ connected' = [connected EXCEPT ![e] = FALSE]
    /\ failures' = [failures EXCEPT ![e] = 0]
    /\ since' = [since EXCEPT ![e] = 0]
    /\ cycles' = [cycles EXCEPT ![e] = 0]
    /\ pause' = [pause EXCEPT ![e] = BasePause]
    /\ dead' = [dead EXCEPT ![e] = FALSE]
    /\ lost' = [lost EXCEPT ![e] = 0]

(***************************************************************************)
(* disconnect(): releases the id, the object stays usable.                 *)
(***************************************************************************)
Disconnect(e) ==
    /\ Usable(e)
    /\ life' = [life EXCEPT ![e] = "closed"]
    /\ claimed' = FALSE
    /\ connected' = [connected EXCEPT ![e] = FALSE]
    /\ UNCHANGED <<breakerOf>>

--------------------------------------------------------------------------------
(***************************************************************************)
(* The branches of _ensure_connected(): the breaker is open, it has been   *)
(* open for its pause.                                                     *)
(***************************************************************************)
Open(e) == failures[e] >= Threshold
Elapsed(e) == since[e] >= pause[e]
Doubled(p) == IF 2 * p < MaxPause THEN 2 * p ELSE MaxPause

\* The cycle that the end of the pause completes is the last one.
LastCycle(e) == cycles[e] + 1 >= MaxCycles

\* Mutant: a call that is refused counts as a failure of now.
RefusalPostpones(e) ==
    /\ Usable(e) /\ ~connected[e]
    /\ dead[e] \/ (Open(e) /\ ~Elapsed(e))
    /\ since' = [since EXCEPT ![e] = 0]
    /\ UNCHANGED <<claimed, life, connected, failures, cycles, pause, dead, lost>>

(***************************************************************************)
(* The gateway was declared dead, or the pause of the breaker is not over: *)
(* the call raises, and neither counts nor postpones anything.             *)
(***************************************************************************)
Refuse(e) ==
    /\ Usable(e) /\ ~connected[e]
    /\ dead[e] \/ (Open(e) /\ ~Elapsed(e))
    /\ UNCHANGED gatewayVars

(***************************************************************************)
(* Connected already: the failures are forgotten, the cycles are not.      *)
(***************************************************************************)
StillConnected(e) ==
    /\ Usable(e)
    /\ connected[e]
    /\ failures' = [failures EXCEPT ![e] = 0]
    /\ UNCHANGED <<claimed, life, connected, since, cycles, pause, dead, lost>>

(***************************************************************************)
(* The pause of an open breaker is over once too often: the gateway is     *)
(* declared dead, without another attempt.                                 *)
(***************************************************************************)
DeclareDead(e) ==
    /\ Usable(e) /\ ~connected[e] /\ ~dead[e]
    /\ Open(e) /\ Elapsed(e) /\ LastCycle(e)
    /\ cycles' = [cycles EXCEPT ![e] = cycles[e] + 1]
    /\ pause' = [pause EXCEPT ![e] = Doubled(pause[e])]
    /\ failures' = [failures EXCEPT ![e] = 0]
    /\ dead' = [dead EXCEPT ![e] = TRUE]
    /\ UNCHANGED <<claimed, life, connected, since, lost>>

(***************************************************************************)
(* A call that tries to connect finds the breaker closed, or closes it     *)
(* because its pause is over (auto-reset).                                 *)
(***************************************************************************)
MayTry(e) ==
    /\ Usable(e) /\ ~connected[e] /\ ~dead[e]
    /\ Open(e) => Elapsed(e) /\ ~LastCycle(e)

\* Mutant: every call counts as a cycle.
CountEveryCall(e) ==
    /\ cycles' = [cycles EXCEPT ![e] = IF cycles[e] < MaxCycles THEN cycles[e] + 1 ELSE cycles[e]]
    /\ pause' = [pause EXCEPT ![e] = Doubled(pause[e])]
    /\ UNCHANGED dead

CountCycle(e) ==
    /\ cycles' = [cycles EXCEPT ![e] = IF Open(e) THEN cycles[e] + 1 ELSE cycles[e]]
    /\ pause' = [pause EXCEPT ![e] = IF Open(e) THEN Doubled(pause[e]) ELSE pause[e]]
    /\ UNCHANGED dead

(***************************************************************************)
(* One of the attempts of the call succeeds. IB Gateway refuses a client   *)
(* id that is connected.                                                   *)
(***************************************************************************)
Connects(e) ==
    /\ MayTry(e)
    /\ \A f \in Engines : ~connected[f]
    /\ CountCycle(e)
    /\ failures' = [failures EXCEPT ![e] = 0]
    /\ connected' = [connected EXCEPT ![e] = TRUE]
    /\ UNCHANGED <<claimed, life, since, lost>>

(***************************************************************************)
(* All attempts of the call fail: one failure, and its time.               *)
(***************************************************************************)
CallFails(e) ==
    /\ MayTry(e)
    /\ CountCycle(e)
    /\ failures' = [failures EXCEPT ![e] = IF Open(e) THEN 1 ELSE failures[e] + 1]
    /\ since' = [since EXCEPT ![e] = 0]
    /\ lost' = [lost EXCEPT ![e] = IF lost[e] < LostBound THEN lost[e] + 1 ELSE LostBound]
    /\ UNCHANGED <<claimed, life, connected>>

(***************************************************************************)
(* reset_gateway_dead(), called by an operator, at any time.               *)
(***************************************************************************)
ResetGatewayDead(e) ==
    /\ Usable(e)
    /\ dead' = [dead EXCEPT ![e] = FALSE]
    /\ cycles' = [cycles EXCEPT ![e] = 0]
    /\ pause' = [pause EXCEPT ![e] = BasePause]
    /\ failures' = [failures EXCEPT ![e] = 0]
    /\ lost' = [lost EXCEPT ![e] = 0]
    /\ UNCHANGED <<claimed, life, connected, since>>

--------------------------------------------------------------------------------
(***************************************************************************)
(* IB Gateway stops, the network fails: one engine has the connection.     *)
(* Whether an attempt succeeds is a free choice of Connects and CallFails. *)
(***************************************************************************)
ConnectionDrops(e) ==
    /\ connected[e]
    /\ connected' = [connected EXCEPT ![e] = FALSE]
    /\ UNCHANGED <<claimed, life, breakerOf>>

(***************************************************************************)
(* The time since the last failure is read only while the breaker is open. *)
(***************************************************************************)
TimePasses ==
    /\ since' = [e \in Engines |->
                    IF Open(e) /\ since[e] < MaxPause THEN since[e] + 1 ELSE since[e]]
    /\ UNCHANGED <<claimed, life, connected, failures, cycles, pause, dead, lost>>

\* The calls of _ensure_connected() that are not refused.
EnsureConnected(e) ==
    StillConnected(e) \/ DeclareDead(e) \/ Connects(e) \/ CallFails(e)

GatewayNext ==
    \/ \E e \in Engines :
         \/ Build(e) \/ BuildRefused(e) \/ Collect(e) \/ Disconnect(e)
         \/ EnsureConnected(e) \/ Refuse(e) \/ ResetGatewayDead(e) \/ ConnectionDrops(e)
    \/ TimePasses

(***************************************************************************)
(* The users of an engine go on calling it and time passes. The gateway is *)
(* assumed to do nothing in particular.                                    *)
(***************************************************************************)
GatewayFairness ==
    /\ WF_gatewayVars(TimePasses)
    /\ \A e \in Engines : WF_gatewayVars(EnsureConnected(e))

GatewaySpec == GatewayInit /\ [][GatewayNext]_gatewayVars /\ GatewayFairness

--------------------------------------------------------------------------------
GatewayTypeOK ==
    /\ claimed \in BOOLEAN
    /\ life \in [Engines -> {"none", "built", "closed", "refused"}]
    /\ connected \in [Engines -> BOOLEAN]
    /\ failures \in [Engines -> 0 .. Threshold]
    /\ since \in [Engines -> 0 .. MaxPause]
    /\ cycles \in [Engines -> 0 .. MaxCycles]
    /\ pause \in [Engines -> 1 .. MaxPause]
    /\ dead \in [Engines -> BOOLEAN]
    /\ lost \in [Engines -> 0 .. LostBound]

(***************************************************************************)
(* A gateway is only declared dead after as many failed calls as the       *)
(* cycles stand for, and the failures of earlier cycles are not counted    *)
(* twice by the automatic reset of _ensure_connected().                    *)
(***************************************************************************)
DeadIsEarned ==
    \A e \in Engines :
        /\ cycles[e] * Threshold + failures[e] <= lost[e]
        /\ dead[e] => cycles[e] = MaxCycles

(***************************************************************************)
(* The pause that n cycles lead to.                                        *)
(***************************************************************************)
PauseAfter(n) ==
    IF n = 0 THEN BasePause ELSE IF n = 1 THEN 2 * BasePause ELSE MaxPause

(***************************************************************************)
(* The pause is the base one doubled once per cycle, up to four times the  *)
(* base, and back to it when an operator resets the engine.                *)
(***************************************************************************)
PauseFollowsCycles ==
    \A e \in Engines : pause[e] = PauseAfter(cycles[e])

(***************************************************************************)
(* An engine whose gateway was declared dead has no connection until an    *)
(* operator resets it, whatever the gateway does meanwhile.                *)
(***************************************************************************)
DeadIsDown == \A e \in Engines : dead[e] /\ Usable(e) => ~connected[e]

(***************************************************************************)
(* A new engine is refused only while another one has the id: no release   *)
(* is forgotten, whatever the order of constructions, disconnections and   *)
(* finalisers.                                                             *)
(***************************************************************************)
ClaimIsNotLeaked == claimed => \E e \in Engines : life[e] = "built"

(***************************************************************************)
(* An open breaker does not stay open while its engine is called: it lets  *)
(* a call through, or ends with a gateway declared dead.                   *)
(***************************************************************************)
OpenIsNotForEver ==
    \A e \in Engines : (Usable(e) /\ Open(e)) ~> (~Usable(e) \/ ~Open(e))

--------------------------------------------------------------------------------
(* How long an open breaker can stay open: why the last property holds. *)

\* What is left of the pause, and of all the pauses of this engine.
PauseLeft(e) == IF Elapsed(e) THEN 0 ELSE pause[e] - since[e]
OpenLeft(e) == (MaxCycles - cycles[e]) * (MaxPause + 1) + PauseLeft(e)

(***************************************************************************)
(* An open breaker whose pause is over lets its engine do something: the   *)
(* gateway was not declared dead while it was open.                        *)
(***************************************************************************)
OpenIsCallable ==
    \A e \in Engines : Usable(e) /\ Open(e) /\ Elapsed(e) =>
        \/ connected[e]
        \/ MayTry(e)
        \/ ~dead[e] /\ LastCycle(e)

(***************************************************************************)
(* While a breaker stays open, the clock brings the end of its pause       *)
(* nearer, each call that goes through uses up one of its cycles, and no   *)
(* step of another engine, of an operator or of the gateway gives it a     *)
(* longer time: a failed call that opens it anew does not start it afresh. *)
(***************************************************************************)
OpenRunsOut ==
    [][\A e \in Engines : Usable(e) /\ Open(e) /\ Open(e)' =>
        /\ OpenLeft(e)' <= OpenLeft(e)
        /\ EnsureConnected(e) \/ (TimePasses /\ ~Elapsed(e)) => OpenLeft(e)' < OpenLeft(e)]_gatewayVars
================================================================================
