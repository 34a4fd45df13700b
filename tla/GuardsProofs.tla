------------------------------ MODULE GuardsProofs ------------------------------
(***************************************************************************)
(* Theorems about GatewayConnection, CircuitBreaker and AlertDelivery, for *)
(* any engines, callers, threads and thresholds.                           *)
(***************************************************************************)
EXTENDS GatewayConnection, CircuitBreaker, TokenBucket, AlertDelivery, TLAPS

(***************************************************************************)
(* A product grows with its factor: the arithmetic of cycles and failures. *)
(***************************************************************************)
LEMMA CyclesCost ==
    ASSUME NEW c \in Nat, NEW m \in Nat, NEW t \in Nat, c + 1 <= m
    PROVE  c * t + t <= m * t
<1>1. (c + 1) * t <= m * t
  <2>1. PICK d \in Nat : m = (c + 1) + d
    <3>1. m - (c + 1) \in Nat /\ m = (c + 1) + (m - (c + 1))
      OBVIOUS
    <3> QED BY <3>1
  <2>2. m * t = (c + 1) * t + d * t
    BY <2>1
  <2>3. d * t >= 0
    OBVIOUS
  <2>4. (c + 1) * t \in Int /\ d * t \in Int
    OBVIOUS
  <2> QED BY <2>2, <2>3, <2>4
<1>2. (c + 1) * t = c * t + t
  OBVIOUS
<1> QED BY <1>1, <1>2

--------------------------------------------------------------------------------
(***************************************************************************)
(* What the numbers of one engine's breaker are to each other.             *)
(***************************************************************************)
Numbers(f, s, c, p, d, l) ==
    /\ f \in 0 .. Threshold
    /\ s \in 0 .. MaxPause
    /\ c \in 0 .. MaxCycles
    /\ p = PauseAfter(c)
    /\ l \in 0 .. LostBound
    /\ c * Threshold + f <= l
    /\ d => c = MaxCycles /\ f = 0
    /\ ~d => c < MaxCycles

NumbersOK == \A e \in Engines :
    Numbers(failures[e], since[e], cycles[e], pause[e], dead[e], lost[e])

Shape ==
    /\ claimed \in BOOLEAN
    /\ life \in [Engines -> {"none", "built", "closed", "refused"}]
    /\ connected \in [Engines -> BOOLEAN]
    /\ failures \in [Engines -> Nat]
    /\ since \in [Engines -> Nat]
    /\ cycles \in [Engines -> Nat]
    /\ pause \in [Engines -> Nat]
    /\ dead \in [Engines -> BOOLEAN]
    /\ lost \in [Engines -> Nat]

NoneDeadUp == \A e \in Engines : dead[e] => ~connected[e]

GatewayInv == Shape /\ NumbersOK /\ NoneDeadUp /\ ClaimIsNotLeaked

(***************************************************************************)
(* The four ways in which the numbers of a breaker change.                 *)
(***************************************************************************)
LEMMA FreshNumbers == Numbers(0, 0, 0, BasePause, FALSE, 0)
BY GatewayAssumption DEF Numbers, PauseAfter, MaxPause, LostBound

(***************************************************************************)
(* Failures, cycles and pause of such an engine stay within their limits.  *)
(***************************************************************************)
LEMMA NumbersAreBounded ==
    ASSUME NEW f, NEW s, NEW c, NEW p, NEW d \in BOOLEAN, NEW l,
           Numbers(f, s, c, p, d, l)
    PROVE  /\ f \in 0 .. Threshold /\ s \in 0 .. MaxPause /\ c \in 0 .. MaxCycles
           /\ p \in 1 .. MaxPause /\ l \in 0 .. LostBound
           /\ c * Threshold + f <= l
           /\ d => c = MaxCycles
BY GatewayAssumption DEF Numbers, PauseAfter, MaxPause

(***************************************************************************)
(* A call that goes through, and fails.                                    *)
(***************************************************************************)
LEMMA NumbersAfterFailure ==
    ASSUME NEW f, NEW s, NEW c, NEW p, NEW l, Numbers(f, s, c, p, FALSE, l),
           f >= Threshold => c + 1 < MaxCycles
    PROVE  Numbers(IF f >= Threshold THEN 1 ELSE f + 1, 0,
                   IF f >= Threshold THEN c + 1 ELSE c,
                   IF f >= Threshold THEN Doubled(p) ELSE p, FALSE,
                   IF l < LostBound THEN l + 1 ELSE LostBound)
<1> USE GatewayAssumption
<1>1. /\ f \in 0 .. Threshold /\ c \in Nat /\ c < MaxCycles /\ p = PauseAfter(c)
      /\ l \in 0 .. LostBound /\ c * Threshold + f <= l
  BY DEF Numbers
<1>2. c * Threshold + Threshold <= LostBound /\ LostBound \in Nat /\ c * Threshold \in Nat
  BY <1>1, CyclesCost DEF LostBound
<1>3. 0 \in 0 .. MaxPause
  BY DEF MaxPause
<1>4. CASE f >= Threshold
  <2>1. f = Threshold /\ c + 1 < MaxCycles
    BY <1>4, <1>1
  <2>2. (c + 1) * Threshold = c * Threshold + Threshold
    BY <1>1
  <2>3. (c + 1) * Threshold + Threshold <= LostBound
    BY <2>1, <1>1, CyclesCost DEF LostBound
  <2>4. Doubled(p) = PauseAfter(c + 1)
    BY <1>1 DEF Doubled, PauseAfter, MaxPause
  <2>5. (c + 1) * Threshold + 1 <= IF l < LostBound THEN l + 1 ELSE LostBound
    BY <1>1, <1>2, <2>1, <2>2, <2>3
  <2> QED BY <1>1, <1>2, <1>3, <1>4, <2>1, <2>4, <2>5 DEF Numbers
<1>5. CASE f < Threshold
  <2>1. c * Threshold + (f + 1) <= IF l < LostBound THEN l + 1 ELSE LostBound
    BY <1>1, <1>2, <1>5
  <2> QED BY <1>1, <1>2, <1>3, <1>5, <2>1 DEF Numbers
<1>6. f >= Threshold \/ f < Threshold
  BY <1>1
<1> QED BY ONLY <1>4, <1>5, <1>6

(***************************************************************************)
(* A call that goes through, and connects.                                 *)
(***************************************************************************)
LEMMA NumbersAfterSuccess ==
    ASSUME NEW f, NEW s, NEW c, NEW p, NEW l, Numbers(f, s, c, p, FALSE, l),
           f >= Threshold => c + 1 < MaxCycles
    PROVE  Numbers(0, s, IF f >= Threshold THEN c + 1 ELSE c,
                   IF f >= Threshold THEN Doubled(p) ELSE p, FALSE, l)
<1> USE GatewayAssumption
<1>1. /\ f \in 0 .. Threshold /\ c \in Nat /\ c < MaxCycles /\ p = PauseAfter(c)
      /\ l \in 0 .. LostBound /\ c * Threshold + f <= l /\ s \in 0 .. MaxPause
  BY DEF Numbers
<1>2. c * Threshold \in Nat
  BY <1>1
<1>3. CASE f >= Threshold
  <2>1. f = Threshold /\ (c + 1) * Threshold = c * Threshold + Threshold
    BY <1>1, <1>3
  <2>2. Doubled(p) = PauseAfter(c + 1)
    BY <1>1 DEF Doubled, PauseAfter, MaxPause
  <2> QED BY <1>1, <1>2, <1>3, <2>1, <2>2 DEF Numbers
<1>4. CASE f < Threshold
  BY <1>1, <1>2, <1>4 DEF Numbers
<1>5. f >= Threshold \/ f < Threshold
  BY <1>1
<1> QED BY ONLY <1>3, <1>4, <1>5

(***************************************************************************)
(* The pause of the last cycle is over.                                    *)
(***************************************************************************)
LEMMA NumbersOfTheDead ==
    ASSUME NEW f, NEW s, NEW c, NEW p, NEW l, Numbers(f, s, c, p, FALSE, l),
           f >= Threshold, c + 1 >= MaxCycles
    PROVE  Numbers(0, s, c + 1, Doubled(p), TRUE, l)
<1> USE GatewayAssumption
<1>1. /\ f = Threshold /\ c \in Nat /\ c + 1 = MaxCycles /\ p = PauseAfter(c)
      /\ l \in 0 .. LostBound /\ c * Threshold + f <= l /\ s \in 0 .. MaxPause
  BY DEF Numbers
<1>2. (c + 1) * Threshold = c * Threshold + Threshold /\ c * Threshold \in Nat
  BY <1>1
<1>3. Doubled(p) = PauseAfter(c + 1)
  BY <1>1 DEF Doubled, PauseAfter, MaxPause
<1> QED BY <1>1, <1>2, <1>3 DEF Numbers

--------------------------------------------------------------------------------
(***************************************************************************)
(* The invariant holds of an engine that has not been built.               *)
(***************************************************************************)
LEMMA GatewayStartsWell == GatewayInit => GatewayInv
<1> SUFFICES ASSUME GatewayInit PROVE GatewayInv
  OBVIOUS
<1>1. Shape
  BY GatewayAssumption DEF GatewayInit, Shape
<1>2. NumbersOK
  BY FreshNumbers DEF GatewayInit, NumbersOK
<1>3. NoneDeadUp /\ ClaimIsNotLeaked
  BY DEF GatewayInit, NoneDeadUp, ClaimIsNotLeaked
<1> QED BY <1>1, <1>2, <1>3 DEF GatewayInv

(***************************************************************************)
(* A step that gives one engine good numbers and leaves the others alone   *)
(* keeps NumbersOK.                                                        *)
(***************************************************************************)
LEMMA OneEngineMoves ==
    ASSUME NEW e \in Engines, Shape, NumbersOK,
           NEW f, NEW s, NEW c, NEW p, NEW d, NEW l, Numbers(f, s, c, p, d, l),
           failures' = [failures EXCEPT ![e] = f], since' = [since EXCEPT ![e] = s],
           cycles' = [cycles EXCEPT ![e] = c], pause' = [pause EXCEPT ![e] = p],
           dead' = [dead EXCEPT ![e] = d], lost' = [lost EXCEPT ![e] = l]
    PROVE  NumbersOK'
<1> SUFFICES ASSUME NEW g \in Engines
             PROVE  Numbers(failures'[g], since'[g], cycles'[g], pause'[g], dead'[g], lost'[g])
  BY DEF NumbersOK, Numbers, PauseAfter, LostBound, MaxPause
<1>1. CASE g = e
  <2>1. /\ failures'[g] = f /\ since'[g] = s /\ cycles'[g] = c
        /\ pause'[g] = p /\ dead'[g] = d /\ lost'[g] = l
    BY <1>1 DEF Shape
  <2> QED BY <2>1
<1>2. CASE g # e
  <2>1. /\ failures'[g] = failures[g] /\ since'[g] = since[g] /\ cycles'[g] = cycles[g]
        /\ pause'[g] = pause[g] /\ dead'[g] = dead[g] /\ lost'[g] = lost[g]
    BY <1>2 DEF Shape
  <2> QED BY <2>1 DEF NumbersOK
<1> QED BY <1>1, <1>2

(***************************************************************************)
(* Every step of _ensure_connected(), of the registry, of the operator and *)
(* of the world keeps the invariant.                                       *)
(***************************************************************************)
LEMMA GatewayMovesWell ==
    ASSUME GatewayInv, [GatewayNext]_gatewayVars
    PROVE  GatewayInv'
<1> USE DEF GatewayInv
<1>0. ASSUME UNCHANGED breakerOf PROVE NumbersOK'
  BY <1>0 DEF breakerOf, NumbersOK, Numbers, PauseAfter, MaxPause, LostBound
<1>1. ASSUME NEW e \in Engines, Build(e) PROVE GatewayInv'
  <2>1. Shape'
    BY <1>1 DEF Build, Shape, breakerOf
  <2>2. NoneDeadUp'
    BY <1>1 DEF Build, NoneDeadUp, breakerOf
  <2>3. ClaimIsNotLeaked'
    BY <1>1 DEF Build, ClaimIsNotLeaked, Shape
  <2> QED BY <2>1, <2>2, <2>3, <1>0, <1>1 DEF Build
<1>2. ASSUME NEW e \in Engines, BuildRefused(e) PROVE GatewayInv'
  <2>1. Shape'
    BY <1>2 DEF BuildRefused, Shape, breakerOf
  <2>2. NoneDeadUp'
    BY <1>2 DEF BuildRefused, NoneDeadUp, breakerOf
  <2>3. ClaimIsNotLeaked'
    <3>1. PICK f \in Engines : life[f] = "built"
      BY <1>2 DEF BuildRefused, ClaimIsNotLeaked
    <3>2. f # e /\ life'[f] = "built"
      BY <3>1, <1>2 DEF BuildRefused, Shape
    <3> QED BY <3>2 DEF ClaimIsNotLeaked
  <2> QED BY <2>1, <2>2, <2>3, <1>0, <1>2 DEF BuildRefused
<1>3. ASSUME NEW e \in Engines, Collect(e) PROVE GatewayInv'
  <2>1. Shape'
    BY <1>3, GatewayAssumption DEF Collect, Shape
  <2>2. NumbersOK'
    BY <1>3, OneEngineMoves, FreshNumbers DEF Collect
  <2>3. NoneDeadUp' /\ ClaimIsNotLeaked'
    BY <1>3 DEF Collect, NoneDeadUp, ClaimIsNotLeaked, Shape
  <2> QED BY <2>1, <2>2, <2>3
<1>4. ASSUME NEW e \in Engines, Disconnect(e) PROVE GatewayInv'
  <2>1. Shape'
    BY <1>4 DEF Disconnect, Shape, breakerOf
  <2>2. NoneDeadUp' /\ ClaimIsNotLeaked'
    BY <1>4 DEF Disconnect, NoneDeadUp, ClaimIsNotLeaked, Shape, breakerOf
  <2> QED BY <2>1, <2>2, <1>0, <1>4 DEF Disconnect
<1>5. ASSUME NEW e \in Engines, StillConnected(e) PROVE GatewayInv'
  <2>1. Shape'
    BY <1>5 DEF StillConnected, Shape
  <2>2. NumbersOK'
    <3>1. Numbers(0, since[e], cycles[e], pause[e], dead[e], lost[e])
      BY GatewayAssumption DEF NumbersOK, Numbers, Shape
    <3>2. /\ since' = [since EXCEPT ![e] = since[e]] /\ cycles' = [cycles EXCEPT ![e] = cycles[e]]
          /\ pause' = [pause EXCEPT ![e] = pause[e]] /\ dead' = [dead EXCEPT ![e] = dead[e]]
          /\ lost' = [lost EXCEPT ![e] = lost[e]] /\ failures' = [failures EXCEPT ![e] = 0]
      BY <1>5 DEF StillConnected, Shape
    <3> QED BY <3>1, <3>2, OneEngineMoves
  <2>3. NoneDeadUp' /\ ClaimIsNotLeaked'
    BY <1>5 DEF StillConnected, NoneDeadUp, ClaimIsNotLeaked
  <2> QED BY <2>1, <2>2, <2>3
<1>6. ASSUME NEW e \in Engines, DeclareDead(e) PROVE GatewayInv'
  <2>1. Shape'
    BY <1>6, GatewayAssumption DEF DeclareDead, LastCycle, Shape, Doubled, MaxPause
  <2>2. NumbersOK'
    <3>1. dead[e] = FALSE
      BY <1>6 DEF DeclareDead, Shape
    <3>2. Numbers(failures[e], since[e], cycles[e], pause[e], FALSE, lost[e])
      BY <3>1 DEF NumbersOK
    <3>3. Numbers(0, since[e], cycles[e] + 1, Doubled(pause[e]), TRUE, lost[e])
      BY <3>2, <1>6, NumbersOfTheDead DEF DeclareDead, LastCycle, Open
    <3>4. /\ since' = [since EXCEPT ![e] = since[e]] /\ lost' = [lost EXCEPT ![e] = lost[e]]
      BY <1>6 DEF DeclareDead, Shape
    <3> QED BY <3>3, <3>4, <1>6, OneEngineMoves DEF DeclareDead
  <2>3. NoneDeadUp' /\ ClaimIsNotLeaked'
    BY <1>6 DEF DeclareDead, NoneDeadUp, ClaimIsNotLeaked, Shape
  <2> QED BY <2>1, <2>2, <2>3
<1>7. ASSUME NEW e \in Engines, Connects(e) PROVE GatewayInv'
  <2>0. dead[e] = FALSE /\ (Open(e) => cycles[e] + 1 < MaxCycles)
    BY <1>7, GatewayAssumption DEF Connects, MayTry, LastCycle, Shape
  <2>1. Shape'
    BY <1>7, GatewayAssumption DEF Connects, CountCycle, Shape, Doubled, MaxPause
  <2>2. NumbersOK'
    <3>1. Numbers(failures[e], since[e], cycles[e], pause[e], FALSE, lost[e])
      BY <2>0 DEF NumbersOK
    <3>2. Numbers(0, since[e], IF Open(e) THEN cycles[e] + 1 ELSE cycles[e],
                  IF Open(e) THEN Doubled(pause[e]) ELSE pause[e], FALSE, lost[e])
      BY <3>1, <2>0, NumbersAfterSuccess DEF Open
    <3>3. /\ since' = [since EXCEPT ![e] = since[e]] /\ lost' = [lost EXCEPT ![e] = lost[e]]
          /\ dead' = [dead EXCEPT ![e] = FALSE]
      BY <1>7, <2>0 DEF Connects, CountCycle, Shape
    <3>4. /\ failures' = [failures EXCEPT ![e] = 0]
          /\ cycles' = [cycles EXCEPT ![e] = IF Open(e) THEN cycles[e] + 1 ELSE cycles[e]]
          /\ pause' = [pause EXCEPT ![e] = IF Open(e) THEN Doubled(pause[e]) ELSE pause[e]]
      BY <1>7 DEF Connects, CountCycle
    <3> QED BY <3>2, <3>3, <3>4, OneEngineMoves
  <2>3. NoneDeadUp'
    BY <1>7, <2>0 DEF Connects, CountCycle, NoneDeadUp, Shape
  <2>4. ClaimIsNotLeaked'
    BY <1>7 DEF Connects, ClaimIsNotLeaked
  <2> QED BY <2>1, <2>2, <2>3, <2>4
<1>8. ASSUME NEW e \in Engines, CallFails(e) PROVE GatewayInv'
  <2>0. dead[e] = FALSE /\ (Open(e) => cycles[e] + 1 < MaxCycles)
    BY <1>8, GatewayAssumption DEF CallFails, MayTry, LastCycle, Shape
  <2>1. Shape'
    BY <1>8, GatewayAssumption DEF CallFails, CountCycle, Shape, Doubled, MaxPause, LostBound
  <2>2. NumbersOK'
    <3>1. Numbers(failures[e], since[e], cycles[e], pause[e], FALSE, lost[e])
      BY <2>0 DEF NumbersOK
    <3>2. Numbers(IF Open(e) THEN 1 ELSE failures[e] + 1, 0,
                  IF Open(e) THEN cycles[e] + 1 ELSE cycles[e],
                  IF Open(e) THEN Doubled(pause[e]) ELSE pause[e], FALSE,
                  IF lost[e] < LostBound THEN lost[e] + 1 ELSE LostBound)
      BY <3>1, <2>0, NumbersAfterFailure DEF Open
    <3>3. dead' = [dead EXCEPT ![e] = FALSE]
      BY <1>8, <2>0 DEF CallFails, CountCycle, Shape
    <3> QED BY <3>2, <3>3, <1>8, OneEngineMoves DEF CallFails, CountCycle
  <2>3. NoneDeadUp' /\ ClaimIsNotLeaked'
    BY <1>8 DEF CallFails, CountCycle, NoneDeadUp, ClaimIsNotLeaked
  <2> QED BY <2>1, <2>2, <2>3
<1>9. ASSUME NEW e \in Engines, ResetGatewayDead(e) PROVE GatewayInv'
  <2>1. Shape'
    BY <1>9, GatewayAssumption DEF ResetGatewayDead, Shape
  <2>2. NumbersOK'
    <3>1. Numbers(0, since[e], 0, BasePause, FALSE, 0)
      BY FreshNumbers DEF NumbersOK, Numbers
    <3>2. since' = [since EXCEPT ![e] = since[e]]
      BY <1>9 DEF ResetGatewayDead, Shape
    <3> QED BY <3>1, <3>2, <1>9, OneEngineMoves DEF ResetGatewayDead
  <2>3. NoneDeadUp' /\ ClaimIsNotLeaked'
    BY <1>9 DEF ResetGatewayDead, NoneDeadUp, ClaimIsNotLeaked, Shape
  <2> QED BY <2>1, <2>2, <2>3
<1>10. ASSUME NEW e \in Engines, ConnectionDrops(e) PROVE GatewayInv'
  <2>1. UNCHANGED <<claimed, life, breakerOf>>
    BY <1>10 DEF ConnectionDrops
  <2>2. /\ connected' \in [Engines -> BOOLEAN]
        /\ \A f \in Engines : connected'[f] => connected[f]
    BY <1>10 DEF ConnectionDrops, Shape
  <2>3. Shape' /\ NoneDeadUp' /\ ClaimIsNotLeaked'
    BY <2>1, <2>2 DEF Shape, NoneDeadUp, ClaimIsNotLeaked, breakerOf
  <2> QED BY <2>1, <2>3, <1>0
<1>11. ASSUME TimePasses PROVE GatewayInv'
  <2>1. Shape'
    BY <1>11 DEF TimePasses, Shape
  <2>2. NumbersOK'
    <3> SUFFICES ASSUME NEW g \in Engines
                 PROVE  Numbers(failures[g], since'[g], cycles[g], pause[g], dead[g], lost[g])
      BY <1>11 DEF TimePasses, NumbersOK, Numbers, PauseAfter, MaxPause, LostBound
    <3>1. since'[g] \in 0 .. MaxPause
      BY <1>11, GatewayAssumption DEF TimePasses, NumbersOK, Numbers, MaxPause
    <3> QED BY <3>1 DEF NumbersOK, Numbers
  <2>3. NoneDeadUp' /\ ClaimIsNotLeaked'
    BY <1>11 DEF TimePasses, NoneDeadUp, ClaimIsNotLeaked
  <2> QED BY <2>1, <2>2, <2>3
<1>12. ASSUME UNCHANGED gatewayVars PROVE GatewayInv'
  BY <1>12, <1>0 DEF gatewayVars, breakerOf, Shape, NoneDeadUp, ClaimIsNotLeaked
<1> QED BY <1>1, <1>2, <1>3, <1>4, <1>5, <1>6, <1>7, <1>8, <1>9, <1>10, <1>11, <1>12
        DEF GatewayNext, EnsureConnected, Refuse

(***************************************************************************)
(* The invariant of the engines holds in every state.                      *)
(***************************************************************************)
LEMMA GatewayInvHolds == GatewaySpec => []GatewayInv
<1>1. GatewayInv /\ [GatewayNext]_gatewayVars => GatewayInv'
  BY GatewayMovesWell
<1> QED BY GatewayStartsWell, <1>1, PTL DEF GatewaySpec

(***************************************************************************)
(* The registry and the breaker of the engines stay well typed: failures   *)
(* never pass the threshold, cycles never the last one.                    *)
(***************************************************************************)
THEOREM GatewayTypeCorrect == GatewaySpec => []GatewayTypeOK
<1>1. GatewayInv => GatewayTypeOK
  <2> SUFFICES ASSUME GatewayInv PROVE GatewayTypeOK
    OBVIOUS
  <2>1. \A e \in Engines :
           /\ failures[e] \in 0 .. Threshold /\ since[e] \in 0 .. MaxPause
           /\ cycles[e] \in 0 .. MaxCycles /\ pause[e] \in 1 .. MaxPause
           /\ lost[e] \in 0 .. LostBound
    <3> SUFFICES ASSUME NEW e \in Engines
                 PROVE  /\ failures[e] \in 0 .. Threshold /\ since[e] \in 0 .. MaxPause
                        /\ cycles[e] \in 0 .. MaxCycles /\ pause[e] \in 1 .. MaxPause
                        /\ lost[e] \in 0 .. LostBound
      OBVIOUS
    <3>1. Numbers(failures[e], since[e], cycles[e], pause[e], dead[e], lost[e]) /\ dead[e] \in BOOLEAN
      BY DEF GatewayInv, NumbersOK, Shape
    <3> QED BY <3>1, NumbersAreBounded
  <2> QED BY <2>1 DEF GatewayInv, Shape, GatewayTypeOK
<1> QED BY <1>1, GatewayInvHolds, PTL

(***************************************************************************)
(* A gateway is declared dead only after the failed calls that its cycles  *)
(* stand for.                                                              *)
(***************************************************************************)
THEOREM DeathIsEarned == GatewaySpec => []DeadIsEarned
<1>1. GatewayInv => DeadIsEarned
  <2> SUFFICES ASSUME GatewayInv, NEW e \in Engines
               PROVE  /\ cycles[e] * Threshold + failures[e] <= lost[e]
                      /\ dead[e] => cycles[e] = MaxCycles
    BY DEF DeadIsEarned
  <2>1. Numbers(failures[e], since[e], cycles[e], pause[e], dead[e], lost[e]) /\ dead[e] \in BOOLEAN
    BY DEF GatewayInv, NumbersOK, Shape
  <2> QED BY <2>1, NumbersAreBounded
<1> QED BY <1>1, GatewayInvHolds, PTL

(***************************************************************************)
(* The pause of the breaker is the one its cycles ask for, through resets. *)
(***************************************************************************)
THEOREM PauseIsThatOfTheCycles == GatewaySpec => []PauseFollowsCycles
<1>1. GatewayInv => PauseFollowsCycles
  BY DEF GatewayInv, NumbersOK, Numbers, PauseFollowsCycles
<1> QED BY <1>1, GatewayInvHolds, PTL

(***************************************************************************)
(* Without an operator an engine declared dead does not connect again.     *)
(***************************************************************************)
THEOREM DeadStaysDown == GatewaySpec => []DeadIsDown
<1>1. GatewayInv => DeadIsDown
  BY DEF GatewayInv, NoneDeadUp, DeadIsDown
<1> QED BY <1>1, GatewayInvHolds, PTL

(***************************************************************************)
(* A client id is only taken while an engine that was built is open.       *)
(***************************************************************************)
THEOREM NoClaimLeaks == GatewaySpec => []ClaimIsNotLeaked
<1>1. GatewayInv => ClaimIsNotLeaked
  BY DEF GatewayInv
<1> QED BY <1>1, GatewayInvHolds, PTL

(***************************************************************************)
(* The numbers of an engine, as the steps of an open breaker use them.     *)
(***************************************************************************)
LEMMA OpenNumbers ==
    ASSUME GatewayInv, NEW e \in Engines
    PROVE  /\ MaxPause \in Nat
           /\ failures[e] \in 0 .. Threshold /\ since[e] \in 0 .. MaxPause
           /\ cycles[e] \in 0 .. MaxCycles /\ pause[e] \in 1 .. MaxPause
           /\ dead[e] => failures[e] = 0
           /\ PauseLeft(e) \in 0 .. MaxPause
           /\ (MaxCycles - cycles[e]) * (MaxPause + 1) \in Nat
<1>1. Numbers(failures[e], since[e], cycles[e], pause[e], dead[e], lost[e]) /\ dead[e] \in BOOLEAN
  BY DEF GatewayInv, NumbersOK, Shape
<1>2. /\ MaxPause \in Nat
      /\ failures[e] \in 0 .. Threshold /\ since[e] \in 0 .. MaxPause
      /\ cycles[e] \in 0 .. MaxCycles /\ pause[e] \in 1 .. MaxPause
  <2>1. MaxPause \in Nat
    BY GatewayAssumption DEF MaxPause
  <2> QED BY <1>1, <2>1, NumbersAreBounded
<1>3. dead[e] => failures[e] = 0
  BY <1>1 DEF Numbers
<1>4. PauseLeft(e) \in 0 .. MaxPause
  BY <1>2 DEF PauseLeft, Elapsed
<1>5. (MaxCycles - cycles[e]) * (MaxPause + 1) \in Nat
  <2>1. \A m, n \in Nat : m * n \in Nat
    OBVIOUS
  <2>2. MaxCycles - cycles[e] \in Nat /\ MaxPause + 1 \in Nat
    BY <1>2, GatewayAssumption
  <2> QED BY <2>1, <2>2, Zenon
<1> QED BY <1>2, <1>3, <1>4, <1>5

(***************************************************************************)
(* A call that goes through an open breaker, fails and opens it again has  *)
(* used a cycle, which is worth more than the pause that starts.           *)
(***************************************************************************)
LEMMA FailureUsesACycle ==
    ASSUME GatewayInv, NEW e \in Engines, Open(e), CallFails(e)
    PROVE  OpenLeft(e)' < OpenLeft(e) /\ OpenLeft(e)' <= OpenLeft(e)
<1>1. /\ cycles'[e] = cycles[e] + 1 /\ pause'[e] = Doubled(pause[e]) /\ since'[e] = 0
      /\ Elapsed(e) /\ cycles[e] + 1 < MaxCycles
  BY GatewayAssumption DEF GatewayInv, Shape, CallFails, CountCycle, MayTry, LastCycle
<1>2. /\ MaxPause \in Nat /\ cycles[e] \in Nat /\ pause[e] \in 1 .. MaxPause
  BY OpenNumbers
<1>3. pause'[e] \in 1 .. MaxPause
  BY <1>1, <1>2 DEF Doubled
<1>4. PauseLeft(e)' <= MaxPause /\ PauseLeft(e)' \in Nat /\ PauseLeft(e) = 0
  BY <1>1, <1>2, <1>3 DEF PauseLeft, Elapsed
<1>5. (MaxCycles - cycles[e]) * (MaxPause + 1)
        = (MaxCycles - (cycles[e] + 1)) * (MaxPause + 1) + (MaxPause + 1)
  BY <1>2, GatewayAssumption
<1>6. (MaxCycles - (cycles[e] + 1)) * (MaxPause + 1) \in Int
  BY <1>2, GatewayAssumption
<1>7. OpenLeft(e)' = (MaxCycles - (cycles[e] + 1)) * (MaxPause + 1) + PauseLeft(e)'
  BY <1>1 DEF OpenLeft, MaxPause
<1>8. OpenLeft(e) = (MaxCycles - (cycles[e] + 1)) * (MaxPause + 1) + (MaxPause + 1)
  BY <1>4, <1>5, <1>6, <1>2 DEF OpenLeft
<1> QED BY <1>2, <1>4, <1>6, <1>7, <1>8

(***************************************************************************)
(* A tick of the clock shortens the pause of every open breaker.           *)
(***************************************************************************)
LEMMA TimeRuns ==
    ASSUME GatewayInv, NEW e \in Engines, Open(e), TimePasses
    PROVE  /\ OpenLeft(e)' <= OpenLeft(e)
           /\ ~Elapsed(e) => OpenLeft(e)' < OpenLeft(e)
<1>1. /\ cycles'[e] = cycles[e] /\ pause'[e] = pause[e]
      /\ since'[e] = IF since[e] < MaxPause THEN since[e] + 1 ELSE since[e]
  BY DEF TimePasses
<1>2. /\ MaxPause \in Nat /\ since[e] \in 0 .. MaxPause /\ pause[e] \in 1 .. MaxPause
      /\ (MaxCycles - cycles[e]) * (MaxPause + 1) \in Nat
  BY OpenNumbers
<1>3. /\ PauseLeft(e)' \in Nat /\ PauseLeft(e) \in Nat
      /\ PauseLeft(e)' <= PauseLeft(e)
      /\ ~Elapsed(e) => PauseLeft(e)' < PauseLeft(e)
  BY <1>1, <1>2 DEF PauseLeft, Elapsed
<1>4. /\ OpenLeft(e)' = (MaxCycles - cycles[e]) * (MaxPause + 1) + PauseLeft(e)'
      /\ OpenLeft(e) = (MaxCycles - cycles[e]) * (MaxPause + 1) + PauseLeft(e)
  BY <1>1 DEF OpenLeft, MaxPause
<1> QED BY <1>2, <1>3, <1>4

(***************************************************************************)
(* The calls that go through, and the operator, close the breaker, all but *)
(* a call that fails.                                                      *)
(***************************************************************************)
LEMMA OnlyFailuresKeepOpen ==
    ASSUME GatewayInv, NEW e \in Engines, Open(e)'
    PROVE  /\ ~StillConnected(e) /\ ~DeclareDead(e) /\ ~Connects(e)
           /\ ~ResetGatewayDead(e) /\ ~Collect(e)
<1>1. failures'[e] # 0
  BY GatewayAssumption DEF Open
<1> QED
  BY <1>1 DEF GatewayInv, Shape, StillConnected, DeclareDead, Connects, ResetGatewayDead, Collect

(***************************************************************************)
(* Every other step that leaves the breaker open leaves its numbers alone. *)
(***************************************************************************)
LEMMA NothingElseWinds ==
    ASSUME GatewayInv, NEW e \in Engines, GatewayNext,
           ~CallFails(e), ~TimePasses, Open(e), Open(e)'
    PROVE  OpenLeft(e)' = OpenLeft(e) /\ ~EnsureConnected(e)
<1> USE GatewayAssumption DEF GatewayInv, Shape
<1>1. ~StillConnected(e) /\ ~DeclareDead(e) /\ ~Connects(e) /\ ~ResetGatewayDead(e) /\ ~Collect(e)
  BY OnlyFailuresKeepOpen
<1>2. ASSUME cycles'[e] = cycles[e], pause'[e] = pause[e], since'[e] = since[e]
      PROVE  OpenLeft(e)' = OpenLeft(e)
  BY <1>2 DEF OpenLeft, PauseLeft, Elapsed, MaxPause
<1>3. ASSUME UNCHANGED breakerOf PROVE OpenLeft(e)' = OpenLeft(e)
  BY <1>2, <1>3 DEF breakerOf
<1>4. ASSUME NEW f \in Engines,
             \/ Build(f) \/ BuildRefused(f) \/ Disconnect(f) \/ ConnectionDrops(f)
             \/ Refuse(f)
      PROVE  OpenLeft(e)' = OpenLeft(e)
  BY <1>3, <1>4 DEF Build, BuildRefused, Disconnect, ConnectionDrops, Refuse, gatewayVars
<1>5. ASSUME NEW f \in Engines, f # e, Collect(f) \/ EnsureConnected(f) \/ ResetGatewayDead(f)
      PROVE  OpenLeft(e)' = OpenLeft(e)
  <2>1. CASE Collect(f) BY <2>1, <1>5, <1>2 DEF Collect
  <2>2. CASE StillConnected(f) BY <2>2, <1>5, <1>2 DEF StillConnected
  <2>3. CASE DeclareDead(f) BY <2>3, <1>5, <1>2 DEF DeclareDead
  <2>4. CASE Connects(f) BY <2>4, <1>5, <1>2 DEF Connects, CountCycle
  <2>5. CASE CallFails(f) BY <2>5, <1>5, <1>2 DEF CallFails, CountCycle
  <2>6. CASE ResetGatewayDead(f) BY <2>6, <1>5, <1>2 DEF ResetGatewayDead
  <2> QED BY <1>5, <2>1, <2>2, <2>3, <2>4, <2>5, <2>6 DEF EnsureConnected
<1>6. ~EnsureConnected(e)
  BY <1>1 DEF EnsureConnected
<1>7. \E f \in Engines :
           \/ Build(f) \/ BuildRefused(f) \/ Disconnect(f) \/ ConnectionDrops(f) \/ Refuse(f)
           \/ f # e /\ (Collect(f) \/ EnsureConnected(f) \/ ResetGatewayDead(f))
  BY <1>1, <1>6, Zenon DEF GatewayNext
<1> QED BY <1>4, <1>5, <1>6, <1>7

(***************************************************************************)
(* Every step of an open breaker is one of these.                          *)
(***************************************************************************)
LEMMA OpenRunsOutStep ==
    ASSUME GatewayInv, GatewayNext, NEW e \in Engines, Open(e), Open(e)'
    PROVE  /\ OpenLeft(e)' <= OpenLeft(e)
           /\ EnsureConnected(e) \/ (TimePasses /\ ~Elapsed(e)) => OpenLeft(e)' < OpenLeft(e)
<1>1. OpenLeft(e) \in Nat
  BY OpenNumbers DEF OpenLeft, MaxPause
<1>2. CASE CallFails(e)
  BY <1>2, FailureUsesACycle
<1>3. CASE TimePasses /\ ~CallFails(e)
  <2>1. ~EnsureConnected(e)
    BY <1>3, OnlyFailuresKeepOpen DEF EnsureConnected
  <2> QED BY <1>3, <2>1, TimeRuns
<1>4. CASE ~CallFails(e) /\ ~TimePasses
  BY <1>1, <1>4, NothingElseWinds
<1> QED BY <1>2, <1>3, <1>4

(***************************************************************************)
(* An open breaker that is called does not stay open: it can be called     *)
(* when its pause is over, the time it has left is a natural number, and   *)
(* only its end, or an operator, changes it otherwise than downwards: the  *)
(* safety content of OpenIsNotForEver.                                     *)
(***************************************************************************)
THEOREM OpenBreakersRunOut ==
    GatewaySpec => []OpenIsCallable /\ [](\A e \in Engines : OpenLeft(e) \in Nat) /\ OpenRunsOut
<1>1. GatewayInv => OpenIsCallable
  <2> SUFFICES ASSUME GatewayInv, NEW e \in Engines, Usable(e), Open(e), Elapsed(e)
               PROVE  \/ connected[e] \/ MayTry(e)
                      \/ ~dead[e] /\ LastCycle(e)
    BY DEF OpenIsCallable
  <2>1. ~dead[e]
    BY OpenNumbers, GatewayAssumption DEF Open
  <2> QED BY <2>1 DEF MayTry
<1>2. GatewayInv => \A e \in Engines : OpenLeft(e) \in Nat
  BY OpenNumbers DEF OpenLeft
<1>3. GatewayInv /\ [GatewayNext]_gatewayVars =>
        [\A e \in Engines : Usable(e) /\ Open(e) /\ Open(e)' =>
            /\ OpenLeft(e)' <= OpenLeft(e)
            /\ EnsureConnected(e) \/ (TimePasses /\ ~Elapsed(e))
                 => OpenLeft(e)' < OpenLeft(e)]_gatewayVars
  BY OpenRunsOutStep
<1> QED BY <1>1, <1>2, <1>3, GatewayInvHolds, PTL DEF GatewaySpec, OpenRunsOut


--------------------------------------------------------------------------------
(***************************************************************************)
(* The breaker: its counters fit its state at every interleaving of        *)
(* admissions and results.                                                 *)
(***************************************************************************)
BreakerInv == BreakerTypeOK /\ CountersFitState

(***************************************************************************)
(* Every step of the breaker keeps its invariant.                          *)
(***************************************************************************)
LEMMA BreakerMovesWell ==
    ASSUME BreakerInv, [BreakerNext]_breakerVars
    PROVE  BreakerInv'
<1> USE BreakerAssumption DEF BreakerInv, BreakerTypeOK, CountersFitState
<1>1. ASSUME NEW t \in Callers, Enter(t) PROVE BreakerInv'
  BY <1>1 DEF Enter, Runs
<1>2. ASSUME NEW t \in Callers, EnterHalfOpen(t) PROVE BreakerInv'
  BY <1>2 DEF EnterHalfOpen, Rested, Runs
<1>3. ASSUME NEW t \in Callers, ProbeFails(t) PROVE BreakerInv'
  BY <1>3 DEF ProbeFails, Rested, TransitionToOpen
<1>4. ASSUME NEW t \in Callers, OnSuccess(t) PROVE BreakerInv'
  <2>1. CASE breaker = "half_open" /\ successRow + 1 >= SuccessThreshold
    BY <1>4, <2>1 DEF OnSuccess, Returns, TransitionToClosed
  <2>2. CASE ~(breaker = "half_open" /\ successRow + 1 >= SuccessThreshold)
    BY <1>4, <2>2 DEF OnSuccess, Returns
  <2> QED BY <2>1, <2>2
<1>5. ASSUME NEW t \in Callers, OnFailure(t) PROVE BreakerInv'
  <2> DEFINE Opens == \/ breaker = "half_open"
                      \/ breaker = "closed" /\ failuresRow + 1 >= FailureThreshold
  <2>1. CASE Opens
    BY <1>5, <2>1 DEF OnFailure, Returns, TransitionToOpen
  <2>2. CASE ~Opens
    BY <1>5, <2>2 DEF OnFailure, Returns
  <2> QED BY <2>1, <2>2
<1>6. ASSUME ResetBreaker PROVE BreakerInv'
  BY <1>6 DEF ResetBreaker, TransitionToClosed
<1>7. ASSUME ServiceChanges PROVE BreakerInv'
  BY <1>7 DEF ServiceChanges
<1>8. ASSUME ClockTicks PROVE BreakerInv'
  BY <1>8 DEF ClockTicks
<1>9. ASSUME UNCHANGED breakerVars PROVE BreakerInv'
  BY <1>9 DEF breakerVars
<1> QED BY <1>1, <1>2, <1>3, <1>4, <1>5, <1>6, <1>7, <1>8, <1>9
        DEF BreakerNext, Admit, Leave

(***************************************************************************)
(* The invariant of the breaker holds in every state.                      *)
(***************************************************************************)
LEMMA BreakerInvHolds == BreakerSpec => []BreakerInv
<1>1. BreakerInit => BreakerInv
  BY BreakerAssumption DEF BreakerInit, BreakerInv, BreakerTypeOK, CountersFitState
<1>2. BreakerInv /\ [BreakerNext]_breakerVars => BreakerInv'
  BY BreakerMovesWell
<1> QED BY <1>1, <1>2, PTL DEF BreakerSpec

(***************************************************************************)
(* A closed breaker has not missed its threshold, a half-open one counts   *)
(* only successes, for any number of callers.                              *)
(***************************************************************************)
THEOREM CountersAlwaysFit == BreakerSpec => [](BreakerTypeOK /\ CountersFitState)
BY BreakerInvHolds, PTL DEF BreakerInv

(***************************************************************************)
(* An open breaker is left after its open time and through half-open,      *)
(* unless somebody resets it: late results change nothing.                 *)
(***************************************************************************)
THEOREM LateResultsDoNotClose == BreakerSpec => OpenIsServed
<1>1. ASSUME BreakerInv, [BreakerNext]_breakerVars
      PROVE  [breaker = "open" /\ breaker' # "open" /\ ~ResetBreaker
                => breaker' = "half_open" /\ age > OpenTime]_breakerVars
  <2> SUFFICES ASSUME BreakerNext, breaker = "open", breaker' # "open", ~ResetBreaker
               PROVE  breaker' = "half_open" /\ age > OpenTime
    BY <1>1
  <2>1. PICK t \in Callers : Admit(t) \/ Leave(t)
    BY DEF BreakerNext, ServiceChanges, ClockTicks
  <2>2. EnterHalfOpen(t)
    BY <2>1 DEF Admit, Leave, Enter, ProbeFails, TransitionToOpen, OnSuccess, OnFailure
  <2> QED BY <2>2 DEF EnterHalfOpen, Rested
<1> QED BY <1>1, BreakerInvHolds, PTL DEF BreakerSpec, OpenIsServed

--------------------------------------------------------------------------------
(***************************************************************************)
(* What was taken and what the bucket holds now are together no more than  *)
(* a full bucket and what the ticks of the window brought.                 *)
(***************************************************************************)
TakenAndHeld ==
    \A w \in 1 .. Window : Token * taken[w] + Refilled <= Full + (w - 1) * Rate

BucketInv == BucketTypeOK /\ SleepersHaveTime /\ TakenAndHeld

(***************************************************************************)
(* A full bucket holds a token or more.                                    *)
(***************************************************************************)
LEMMA FullIsPositive == Full \in Nat \ {0} /\ Token <= Full
BY BucketAssumption DEF Full

(***************************************************************************)
(* A refill keeps the level in the bucket, before and after a step.        *)
(***************************************************************************)
LEMMA LevelFits ==
    /\ tokens \in 0 .. Full /\ idle \in Nat => Refilled \in 0 .. Full
    /\ tokens' \in 0 .. Full /\ idle' \in Nat => Refilled' \in 0 .. Full
<1>1. \A i \in Nat : i * Rate \in Nat
  BY BucketAssumption
<1> QED
  BY <1>1, FullIsPositive DEF Refilled

(***************************************************************************)
(* Writing the level back when the bucket is looked at changes nothing.    *)
(***************************************************************************)
LEMMA LevelIsKept ==
    ASSUME NEW level \in 0 .. Full, tokens' = level, idle' = 0
    PROVE  Refilled' = level
<1>1. idle' * Rate = 0
  BY BucketAssumption
<1> QED
  BY <1>1, FullIsPositive DEF Refilled

(***************************************************************************)
(* A tick brings at most its rate.                                         *)
(***************************************************************************)
LEMMA TickBringsRate ==
    ASSUME BucketTypeOK, BucketTick
    PROVE  Refilled' <= Refilled + Rate
<1> USE BucketAssumption
<1>1. idle * Rate \in Nat /\ (idle + 1) * Rate = idle * Rate + Rate
  BY DEF BucketTypeOK
<1>2. tokens \in 0 .. Full /\ Full \in Nat /\ tokens' = tokens
  BY FullIsPositive DEF BucketTypeOK, BucketTick
<1>3. CASE idle * Rate < Full
  <2>1. idle' * Rate = idle * Rate + Rate
    BY <1>1, <1>3 DEF BucketTick
  <2> QED
    BY <1>1, <1>2, <2>1 DEF Refilled
<1>4. CASE ~(idle * Rate < Full)
  <2>1. idle' = idle
    BY <1>4 DEF BucketTick
  <2> QED
    BY <1>1, <1>2, <2>1 DEF Refilled
<1> QED
  BY <1>3, <1>4

(***************************************************************************)
(* A look at the bucket, with or without a token taken, keeps what was     *)
(* taken and what is held below the same bound.                            *)
(***************************************************************************)
LEMMA LooksAreFair ==
    ASSUME BucketTypeOK, TakenAndHeld, TakeToken \/ LookOnly
    PROVE  /\ tokens' \in 0 .. Full /\ idle' \in Nat /\ taken' \in [1 .. Window -> Nat]
           /\ TakenAndHeld'
<1> USE BucketAssumption
<1>1. Refilled \in 0 .. Full /\ Full \in Nat
  BY LevelFits, FullIsPositive DEF BucketTypeOK
<1>2. CASE TakeToken
  <2>1. /\ Refilled - Token \in 0 .. Full
        /\ tokens' = Refilled - Token /\ idle' = 0
        /\ taken' = [w \in 1 .. Window |-> taken[w] + 1]
    BY <1>1, <1>2 DEF TakeToken
  <2>2. Refilled' = Refilled - Token
    BY <2>1, LevelIsKept
  <2>3. ASSUME NEW w \in 1 .. Window
        PROVE  Token * taken'[w] + Refilled' = Token * taken[w] + Refilled
    <3>1. taken[w] \in Nat /\ taken'[w] = taken[w] + 1
      BY <2>1 DEF BucketTypeOK
    <3>2. Token * taken'[w] = Token * taken[w] + Token /\ Token * taken[w] \in Nat
      BY <3>1
    <3> QED
      BY <1>1, <2>2, <3>2
  <2>4. taken' \in [1 .. Window -> Nat]
    BY <2>1 DEF BucketTypeOK
  <2>5. TakenAndHeld'
    BY <2>3 DEF TakenAndHeld, Full
  <2> QED
    BY <2>1, <2>4, <2>5
<1>3. CASE LookOnly
  <2>1. tokens' = Refilled /\ idle' = 0 /\ taken' = taken
    BY <1>3 DEF LookOnly
  <2>2. Refilled' = Refilled
    BY <1>1, <2>1, LevelIsKept
  <2> QED
    BY <1>1, <2>1, <2>2 DEF BucketTypeOK, TakenAndHeld, Full
<1> QED
  BY <1>2, <1>3

(***************************************************************************)
(* Every step keeps the invariant of the bucket.                           *)
(***************************************************************************)
LEMMA BucketMovesWell ==
    ASSUME BucketInv, [BucketNext]_bucketVars
    PROVE  BucketInv'
<1> USE BucketAssumption DEF BucketInv
<1>1. ASSUME NEW u \in Users, CallAcquire(u)
      PROVE  BucketInv'
  <2>1. left' = [left EXCEPT ![u] = Patience] /\ u \notin asleep
    BY <1>1 DEF CallAcquire, BucketTypeOK, Waiting
  <2> QED
    BY <1>1, <2>1 DEF CallAcquire, BucketTypeOK, Waiting, SleepersHaveTime, TakenAndHeld,
                      Refilled, Full
<1>2. ASSUME NEW u \in Users, Acquired(u) \/ TimedOut(u)
      PROVE  BucketInv'
  <2>1. /\ u \notin asleep /\ left' = [left EXCEPT ![u] = -1] /\ asleep' = asleep
        /\ TakeToken \/ LookOnly
    BY <1>2 DEF Acquired, TimedOut
  <2>2. BucketTypeOK' /\ TakenAndHeld'
    BY <2>1, LooksAreFair DEF BucketTypeOK, Waiting, Full
  <2> QED
    BY <2>1, <2>2 DEF BucketTypeOK, SleepersHaveTime
<1>3. ASSUME NEW u \in Users, SleepALittle(u)
      PROVE  BucketInv'
  <2>1. /\ u \in Waiting /\ left' = left /\ asleep' = asleep \union {u}
        /\ LookOnly /\ WaitForToken <= left[u]
    BY <1>3 DEF SleepALittle
  <2>2. WaitForToken > 0
    <3>1. Refilled \in Int /\ Token - Refilled + Rate - 1 >= Rate
      BY <2>1, LevelFits, FullIsPositive DEF LookOnly, BucketTypeOK
    <3>2. (Token - Refilled + Rate - 1) \div Rate >= 1
      BY <3>1
    <3> QED
      BY <3>1, <3>2 DEF WaitForToken
  <2>3. BucketTypeOK' /\ TakenAndHeld'
    BY <2>1, LooksAreFair DEF BucketTypeOK, Waiting, Full
  <2>4. WaitForToken \in Int /\ left[u] \in Int
    BY <2>1, LevelFits, FullIsPositive DEF WaitForToken, BucketTypeOK, Waiting
  <2> QED
    BY <2>1, <2>2, <2>3, <2>4 DEF SleepersHaveTime
<1>4. ASSUME NEW u \in Users, TryAcquire(u)
      PROVE  BucketInv'
  <2>1. (TakeToken \/ LookOnly) /\ UNCHANGED <<left, asleep>>
    BY <1>4 DEF TryAcquire
  <2> QED
    BY <2>1, LooksAreFair DEF BucketTypeOK, Waiting, SleepersHaveTime, Full
<1>5. ASSUME BucketTick
      PROVE  BucketInv'
  <2>1. /\ tokens' = tokens /\ asleep' = {}
        /\ left' = [u \in Users |-> IF left[u] >= 0 THEN left[u] - 1 ELSE -1]
        /\ taken' = [w \in 1 .. Window |-> IF w = 1 THEN 0 ELSE taken[w - 1]]
        /\ idle' \in Nat
    BY <1>5 DEF BucketTick, BucketTypeOK
  <2>2. BucketTypeOK'
    <3>1. taken' \in [1 .. Window -> Nat]
      BY <2>1 DEF BucketTypeOK
    <3>2. left' \in [Users -> -1 .. Patience]
      BY <2>1 DEF BucketTypeOK
    <3> QED
      BY <2>1, <3>1, <3>2 DEF BucketTypeOK, Full
  <2>3. Refilled \in 0 .. Full /\ Refilled' \in 0 .. Full /\ Full \in Nat
    <3>0. tokens \in 0 .. Full
      BY DEF BucketTypeOK
    <3>1. tokens' \in 0 .. Full /\ idle' \in Nat
      BY <2>1, <3>0
    <3>2. Refilled' \in 0 .. Full
      BY <3>1, LevelFits
    <3> QED
      BY <3>0, <3>2, LevelFits, FullIsPositive DEF BucketTypeOK
  <2>4. ASSUME NEW w \in 1 .. Window
        PROVE  Token * taken'[w] + Refilled' <= Full + (w - 1) * Rate
    <3>1. CASE w = 1
      <4>1. Token * taken'[w] = 0 /\ (w - 1) * Rate = 0
        BY <2>1, <3>1
      <4> QED
        BY <2>3, <4>1
    <3>2. CASE w # 1
      <4>1. w - 1 \in 1 .. Window /\ taken'[w] = taken[w - 1] /\ taken[w - 1] \in Nat
        BY <2>1, <3>2 DEF BucketTypeOK
      <4>2. Token * taken[w - 1] + Refilled <= Full + ((w - 1) - 1) * Rate
        BY <4>1 DEF TakenAndHeld
      <4>3. /\ ((w - 1) - 1) * Rate + Rate = (w - 1) * Rate
            /\ ((w - 1) - 1) * Rate \in Int /\ Token * taken[w - 1] \in Int
        BY <4>1
      <4>4. Refilled' <= Refilled + Rate
        BY <1>5, TickBringsRate
      <4> QED
        BY <2>3, <4>1, <4>2, <4>3, <4>4
    <3> QED
      BY <3>1, <3>2
  <2> QED
    BY <2>1, <2>2, <2>4 DEF SleepersHaveTime, TakenAndHeld, Full
<1>6. CASE UNCHANGED bucketVars
  BY <1>6 DEF bucketVars, BucketTypeOK, Waiting, SleepersHaveTime, TakenAndHeld, Refilled, Full
<1> QED
  BY <1>1, <1>2, <1>3, <1>4, <1>5, <1>6 DEF BucketNext, Turn

(***************************************************************************)
(* The invariant of the bucket holds in every state.                       *)
(***************************************************************************)
LEMMA BucketInvHolds == BucketSpec => []BucketInv
<1>1. BucketInit => BucketInv
  <2> SUFFICES ASSUME BucketInit PROVE BucketInv
    OBVIOUS
  <2>1. BucketTypeOK /\ SleepersHaveTime
    BY BucketAssumption, FullIsPositive DEF BucketInit, BucketTypeOK, Waiting, SleepersHaveTime
  <2>2. Refilled = Full
    BY BucketAssumption, FullIsPositive DEF BucketInit, Refilled
  <2>3. ASSUME NEW w \in 1 .. Window
        PROVE  Token * taken[w] + Refilled <= Full + (w - 1) * Rate
    <3>1. taken[w] = 0 /\ Token * 0 = 0 /\ (w - 1) * Rate >= 0 /\ (w - 1) * Rate \in Int
      BY BucketAssumption DEF BucketInit
    <3> QED
      BY <2>2, <3>1, FullIsPositive
  <2> QED
    BY <2>1, <2>3 DEF BucketInv, TakenAndHeld
<1>2. BucketInv /\ [BucketNext]_bucketVars => BucketInv'
  BY BucketMovesWell
<1> QED
  BY <1>1, <1>2, PTL DEF BucketSpec

(***************************************************************************)
(* The limit of the broker: for every rate, burst and number of threads,   *)
(* any w ticks in a row see no more calls than the burst and what w - 1    *)
(* ticks bring, whoever takes the tokens and however they come back.       *)
(***************************************************************************)
THEOREM WindowsAreBounded == BucketSpec => []WindowIsBounded
<1>1. BucketInv => WindowIsBounded
  <2> SUFFICES ASSUME BucketInv, NEW w \in 1 .. Window
               PROVE  Token * taken[w] <= Full + (w - 1) * Rate
    BY DEF WindowIsBounded
  <2>1. Refilled \in 0 .. Full
    BY LevelFits DEF BucketInv, BucketTypeOK
  <2>2. Token * taken[w] \in Int /\ (w - 1) * Rate \in Int
    BY BucketAssumption DEF BucketInv, BucketTypeOK
  <2> QED
    BY <2>1, <2>2, FullIsPositive DEF BucketInv, TakenAndHeld
<1> QED
  BY <1>1, BucketInvHolds, PTL

(***************************************************************************)
(* acquire() keeps its deadline: levels and times are in their types, and  *)
(* who sleeps has time left, for any number of threads.                    *)
(***************************************************************************)
THEOREM DeadlinesAreKept == BucketSpec => [](BucketTypeOK /\ SleepersHaveTime)
BY BucketInvHolds, PTL DEF BucketInv

--------------------------------------------------------------------------------
(***************************************************************************)
(* The last answer of a key tells when it was last acknowledged: a thread  *)
(* that posts it was not acknowledged for a throttle but for one timeout,  *)
(* and no thread twice in such a time.                                     *)
(***************************************************************************)
Spacing == Throttle - PostTimeout

Paced(w, k) ==
    /\ \A a \in Ages : sent[w][k][a] > 0 => silence[k] <= a + PostTimeout
    /\ doing[w] = "post" /\ alert[w] = k => \A a \in Ages : a < Spacing => sent[w][k][a] = 0
    /\ \A a \in Ages : a < Spacing => sent[w][k][a] <= 1
    /\ \A a, b \in Ages : a <= b /\ b - a <= Spacing => sent[w][k][b] <= sent[w][k][a] + 1

PostsArePaced == \A w \in Workers, k \in Alerts : Paced(w, k)

AlertInv == AlertTypeOK /\ SilenceIsEarned /\ PostsArePaced

(***************************************************************************)
(* Two posts fit into a throttle, one after the other.                     *)
(***************************************************************************)
LEMMA ThrottleIsLong ==
    /\ Throttle \in Nat \ {0} /\ PostTimeout \in Nat /\ Spacing \in Nat \ {0}
    /\ PostTimeout <= Spacing /\ Spacing <= Throttle /\ Spacing + PostTimeout = Throttle
BY AlertAssumption DEF Spacing

(***************************************************************************)
(* A thread that rests leaves the types as they are.                       *)
(***************************************************************************)
LEMMA RestKeepsTypes ==
    ASSUME AlertTypeOK, NEW w \in Workers, Rest(w)
    PROVE  /\ doing' \in [Workers -> Steps]
           /\ alert' \in [Workers -> Alerts \union {SaveJob}]
           /\ spent' \in [Workers -> Nat]
           /\ doing'[w] = "idle" /\ spent'[w] = 0
           /\ \A v \in Workers \ {w} :
                doing'[v] = doing[v] /\ alert'[v] = alert[v] /\ spent'[v] = spent[v]
BY DEF Rest, AlertTypeOK, Steps

(***************************************************************************)
(* What an acknowledgement adds to the history.                            *)
(***************************************************************************)
LEMMA AcknowledgedOnce ==
    ASSUME AlertTypeOK, NEW w \in Workers, NEW k \in Alerts, Acknowledged(w, k)
    PROVE  /\ sent' \in [Workers -> [Alerts -> [Ages -> Nat]]]
           /\ \A a \in Ages : sent'[w][k][a] = sent[w][k][a] + 1
           /\ \A v \in Workers, c \in Alerts : v # w \/ c # k => sent'[v][c] = sent[v][c]
<1> DEFINE added == [a \in Ages |-> sent[w][k][a] + 1]
<1>1. sent \in [Workers -> [Alerts -> [Ages -> Nat]]]
  BY DEF AlertTypeOK
<1>2. added \in [Ages -> Nat] /\ \A a \in Ages : added[a] = sent[w][k][a] + 1
  BY <1>1
<1>3. sent' = [sent EXCEPT ![w] = [sent[w] EXCEPT ![k] = added]]
  BY DEF Acknowledged
<1> HIDE DEF added
<1>4. sent'[w][k] = added
  BY <1>1, <1>3
<1> QED
  BY <1>1, <1>2, <1>3, <1>4

(***************************************************************************)
(* What a reset and a tick leave of the history.                           *)
(***************************************************************************)
LEMMA ResetForgets ==
    ASSUME AlertTypeOK, NEW k \in Alerts, ResetThrottle(k)
    PROVE  /\ sent' \in [Workers -> [Alerts -> [Ages -> Nat]]]
           /\ \A v \in Workers, a \in Ages : sent'[v][k][a] = 0
           /\ \A v \in Workers, c \in Alerts \ {k} : sent'[v][c] = sent[v][c]
<1>1. sent \in [Workers -> [Alerts -> [Ages -> Nat]]]
  BY DEF AlertTypeOK
<1>2. Never \in [Ages -> Nat] /\ \A a \in Ages : Never[a] = 0
  BY DEF Never
<1>3. sent' = [w \in Workers |-> [sent[w] EXCEPT ![k] = Never]]
  BY DEF ResetThrottle
<1> QED
  BY <1>1, <1>2, <1>3

(***************************************************************************)
(* A tick makes every acknowledged post a tick older.                      *)
(***************************************************************************)
LEMMA TickAges ==
    ASSUME AlertTypeOK, AlertTick
    PROVE  /\ sent' \in [Workers -> [Alerts -> [Ages -> Nat]]]
           /\ \A v \in Workers, c \in Alerts :
                /\ sent'[v][c][0] = 0
                /\ \A a \in Ages \ {0} : a - 1 \in Ages /\ sent'[v][c][a] = sent[v][c][a - 1]
<1>1. sent \in [Workers -> [Alerts -> [Ages -> Nat]]]
  BY DEF AlertTypeOK
<1>2. \A a \in Ages \ {0} : a - 1 \in Ages
  BY AlertAssumption DEF Ages
<1>3. 0 \in Ages
  BY AlertAssumption DEF Ages
<1>4. sent' = [w \in Workers |-> [k \in Alerts |->
                  [a \in Ages |-> IF a = 0 THEN 0 ELSE sent[w][k][a - 1]]]]
  BY DEF AlertTick
<1> QED
  BY <1>1, <1>2, <1>3, <1>4

(***************************************************************************)
(* Queue, threads and times keep their types.                              *)
(***************************************************************************)
LEMMA AlertTypesStay == ASSUME AlertTypeOK, [AlertNext]_alertVars PROVE AlertTypeOK'
<1> USE AlertAssumption DEF Ages
<1>1. ASSUME NEW j \in Alerts \union {SaveJob}, Submit(j)
      PROVE  AlertTypeOK'
  BY <1>1 DEF Submit, AlertTypeOK
<1>2. CASE Close
  BY <1>2 DEF Close, AlertTypeOK
<1>3. ASSUME NEW w \in Workers, Take(w)
      PROVE  AlertTypeOK'
  <2>1. Head(jobs) \in Alerts \union {SaveJob} /\ Tail(jobs) \in Seq(Alerts \union {SaveJob})
    BY <1>3 DEF Take, AlertTypeOK
  <2> QED
    BY <1>3, <2>1 DEF Take, FirstStep, AlertTypeOK, Steps
<1>4. ASSUME NEW w \in Workers, Rest(w), UNCHANGED <<jobs, silence, closed, sent>>
      PROVE  AlertTypeOK'
  BY <1>4, RestKeepsTypes DEF AlertTypeOK
<1>5. ASSUME NEW w \in Workers, MailEnds(w)
      PROVE  AlertTypeOK'
  BY <1>5 DEF MailEnds, AlertTypeOK, Steps
<1>6. ASSUME NEW w \in Workers, CheckThrottle(w)
      PROVE  AlertTypeOK'
  <2>1. CASE Rest(w)
    BY <1>4, <1>6, <2>1 DEF CheckThrottle
  <2>2. CASE doing' = [doing EXCEPT ![w] = "post"] /\ UNCHANGED <<alert, spent>>
    <3>1. spent[w] = 0 /\ alert[w] \in Alerts
      BY <1>6 DEF CheckThrottle, AlertTypeOK
    <3>2. doing' \in [Workers -> Steps] /\ doing'[w] = "post"
      BY <2>2 DEF AlertTypeOK, Steps
    <3>3. \A v \in Workers \ {w} : doing'[v] = doing[v]
      BY <2>2 DEF AlertTypeOK
    <3> QED
      BY <1>6, <2>2, <3>1, <3>2, <3>3 DEF CheckThrottle, AlertTypeOK
  <2> QED
    BY <1>6, <2>1, <2>2 DEF CheckThrottle
<1>7. ASSUME NEW w \in Workers, PostSucceeds(w)
      PROVE  AlertTypeOK'
  <2>1. PICK k \in Alerts : k = alert[w]
    BY <1>7 DEF PostSucceeds, AlertTypeOK
  <2>2. sent' \in [Workers -> [Alerts -> [Ages -> Nat]]]
    BY <1>7, <2>1, AcknowledgedOnce DEF PostSucceeds
  <2>3. silence' \in [Alerts -> 0 .. Throttle]
    BY <1>7, <2>1 DEF PostSucceeds, AlertTypeOK
  <2> QED
    BY <1>7, <2>2, <2>3, RestKeepsTypes DEF PostSucceeds, AlertTypeOK
<1>8. ASSUME NEW k \in Alerts, ResetThrottle(k)
      PROVE  AlertTypeOK'
  <2>1. sent' \in [Workers -> [Alerts -> [Ages -> Nat]]]
    BY <1>8, ResetForgets
  <2>2. silence' \in [Alerts -> 0 .. Throttle]
    BY <1>8 DEF ResetThrottle, AlertTypeOK
  <2> QED
    BY <1>8, <2>1, <2>2 DEF ResetThrottle, AlertTypeOK
<1>9. CASE AlertTick
  <2>1. sent' \in [Workers -> [Alerts -> [Ages -> Nat]]]
    BY <1>9, TickAges
  <2>2. silence' \in [Alerts -> 0 .. Throttle] /\ spent' \in [Workers -> Nat]
    BY <1>9 DEF AlertTick, Throttled, AlertTypeOK
  <2> QED
    BY <1>9, <2>1, <2>2 DEF AlertTick, AlertTypeOK
<1>10. CASE UNCHANGED alertVars
  BY <1>10 DEF alertVars, AlertTypeOK
<1> QED
  BY <1>1, <1>2, <1>3, <1>4, <1>5, <1>6, <1>7, <1>8, <1>9, <1>10
  DEF AlertNext, Work, SaveEnds, PostFails

(***************************************************************************)
(* A silent key was acknowledged since: every step of a thread and of the  *)
(* clock keeps it.                                                         *)
(***************************************************************************)
LEMMA SilenceStaysEarned ==
    ASSUME AlertTypeOK, AlertTypeOK', SilenceIsEarned, [AlertNext]_alertVars
    PROVE  SilenceIsEarned'
<1> USE ThrottleIsLong DEF SilenceIsEarned, Throttled
<1>1. CASE UNCHANGED <<silence, sent>>
  BY <1>1
<1>2. ASSUME NEW w \in Workers, PostSucceeds(w)
      PROVE  SilenceIsEarned'
  <2>1. PICK k \in Alerts : k = alert[w]
    BY <1>2 DEF PostSucceeds, AlertTypeOK
  <2>2. /\ silence' = [silence EXCEPT ![k] = spent[w]] /\ spent[w] <= PostTimeout
        /\ Acknowledged(w, k)
    BY <1>2, <2>1 DEF PostSucceeds, AlertTypeOK
  <2>3. ASSUME NEW c \in Alerts, silence'[c] < Throttle
        PROVE  \E v \in Workers : sent'[v][c][silence'[c]] > 0
    <3>1. silence'[c] \in Ages
      BY <2>3 DEF AlertTypeOK, Ages
    <3>2. CASE c = k
      <4>1. sent[w][k][silence'[c]] \in Nat
        BY <3>1 DEF AlertTypeOK
      <4> QED
        BY <2>2, <3>1, <3>2, <4>1, AcknowledgedOnce
    <3>3. CASE c # k
      <4>1. silence'[c] = silence[c]
        BY <2>2, <3>3 DEF AlertTypeOK
      <4>2. \A v \in Workers : sent'[v][c] = sent[v][c]
        BY <2>2, <3>3, AcknowledgedOnce
      <4> QED
        BY <2>3, <4>1, <4>2
    <3> QED
      BY <3>2, <3>3
  <2> QED
    BY <2>3
<1>3. ASSUME NEW k \in Alerts, ResetThrottle(k)
      PROVE  SilenceIsEarned'
  <2>1. silence' = [silence EXCEPT ![k] = Throttle]
    BY <1>3 DEF ResetThrottle
  <2>2. \A c \in Alerts \ {k} :
          silence'[c] = silence[c] /\ \A v \in Workers : sent'[v][c] = sent[v][c]
    BY <1>3, <2>1, ResetForgets DEF AlertTypeOK
  <2>3. silence'[k] = Throttle
    BY <2>1 DEF AlertTypeOK
  <2>4. ASSUME NEW c \in Alerts, silence'[c] < Throttle
        PROVE  \E v \in Workers : sent'[v][c][silence'[c]] > 0
    <3>1. c # k
      BY <2>3, <2>4
    <3>2. PICK v \in Workers : sent[v][c][silence[c]] > 0
      BY <2>2, <2>4, <3>1
    <3> QED
      BY <2>2, <3>1, <3>2
  <2> QED
    BY <2>4
<1>4. CASE AlertTick
  <2>1. SUFFICES ASSUME NEW k \in Alerts, silence'[k] < Throttle
                 PROVE  \E w \in Workers : sent'[w][k][silence'[k]] > 0
    OBVIOUS
  <2>2. silence[k] < Throttle /\ silence'[k] = silence[k] + 1 /\ silence[k] \in Nat
    BY <1>4, <2>1 DEF AlertTick, AlertTypeOK
  <2>3. PICK w \in Workers : sent[w][k][silence[k]] > 0
    BY <2>2
  <2>4. silence'[k] \in Ages \ {0} /\ silence'[k] - 1 = silence[k]
    BY <2>1, <2>2 DEF Ages
  <2> QED
    BY <1>4, <2>3, <2>4, TickAges
<1> QED
  BY <1>1, <1>2, <1>3, <1>4
  DEF AlertNext, Work, Submit, Close, Take, SaveEnds, MailEnds, CheckThrottle, PostFails, alertVars

(***************************************************************************)
(* Every step keeps the posts of every thread and key apart.               *)
(***************************************************************************)
LEMMA PostsStayPaced ==
    ASSUME AlertTypeOK, AlertTypeOK', PostsArePaced, [AlertNext]_alertVars
    PROVE  PostsArePaced'
<1> USE ThrottleIsLong
<1>0. SUFFICES ASSUME NEW w \in Workers, NEW k \in Alerts
               PROVE  Paced(w, k)'
  BY DEF PostsArePaced
<1>a. /\ Paced(w, k) /\ \A a \in Ages : a \in 0 .. Throttle - 1 /\ sent[w][k][a] \in Nat
      /\ silence[k] \in 0 .. Throttle
  BY DEF PostsArePaced, AlertTypeOK, Ages
<1>1. ASSUME UNCHANGED <<silence, sent>>,
             doing'[w] = "post" => doing[w] = "post" /\ alert'[w] = alert[w]
      PROVE  Paced(w, k)'
  BY <1>a, <1>1 DEF Paced
<1>2. ASSUME NEW v \in Workers, Rest(v), UNCHANGED <<silence, sent>>
      PROVE  Paced(w, k)'
  BY <1>1, <1>2, RestKeepsTypes
<1>3. ASSUME NEW v \in Workers, Take(v) \/ MailEnds(v)
      PROVE  Paced(w, k)'
  <2>1. /\ UNCHANGED <<silence, sent>> /\ doing'[v] # "post"
        /\ \A u \in Workers \ {v} : doing'[u] = doing[u] /\ alert'[u] = alert[u]
    BY <1>3 DEF Take, MailEnds, FirstStep, AlertTypeOK
  <2> QED
    BY <1>1, <2>1
<1>4. ASSUME NEW v \in Workers, CheckThrottle(v)
      PROVE  Paced(w, k)'
  <2>1. CASE Rest(v)
    BY <1>2, <1>4, <2>1 DEF CheckThrottle
  <2>2. CASE ~Throttled(alert[v])
    <3>1. /\ UNCHANGED <<silence, sent, alert>>
          /\ \A u \in Workers \ {v} : doing'[u] = doing[u]
      BY <1>4, <2>2 DEF CheckThrottle, AlertTypeOK
    <3>2. ASSUME v = w, alert[w] = k, NEW a \in Ages, a < Spacing
          PROVE  sent[w][k][a] = 0
      <4>1. silence[k] = Throttle
        BY <1>a, <2>2, <3>2 DEF Throttled
      <4> QED
        BY <1>a, <3>2, <4>1 DEF Paced
    <3> QED
      BY <1>a, <3>1, <3>2 DEF Paced
  <2> QED
    BY <1>4, <2>1, <2>2 DEF CheckThrottle
<1>5. ASSUME NEW v \in Workers, PostSucceeds(v)
      PROVE  Paced(w, k)'
  <2>1. PICK c \in Alerts : c = alert[v]
    BY <1>5 DEF PostSucceeds, AlertTypeOK
  <2>2. /\ silence' = [silence EXCEPT ![c] = spent[v]] /\ spent[v] <= PostTimeout
        /\ spent[v] \in Nat /\ Acknowledged(v, c) /\ Rest(v) /\ doing[v] = "post"
    BY <1>5, <2>1 DEF PostSucceeds, AlertTypeOK
  <2>3. doing'[w] = "post" => w # v /\ doing[w] = "post" /\ alert'[w] = alert[w]
    BY <2>2, RestKeepsTypes
  <2>4. ASSUME NEW a \in Ages
        PROVE  silence'[k] <= a + PostTimeout \/ (c # k /\ silence'[k] = silence[k])
    <3>1. CASE c = k
      <4>1. silence'[k] = spent[v]
        BY <2>2, <3>1 DEF AlertTypeOK
      <4> QED
        BY <1>a, <2>2, <2>4, <4>1
    <3>2. CASE c # k
      BY <2>2, <3>2 DEF AlertTypeOK
    <3> QED
      BY <3>1, <3>2
  <2>5. CASE w = v /\ k = c
    <3>1. \A a \in Ages : sent'[w][k][a] = sent[w][k][a] + 1
      BY <2>2, <2>5, AcknowledgedOnce
    <3>2. \A a \in Ages : a < Spacing => sent[w][k][a] = 0
      BY <1>a, <2>1, <2>2, <2>5 DEF Paced
    <3> QED
      BY <1>a, <2>3, <2>4, <2>5, <3>1, <3>2 DEF Paced
  <2>6. CASE ~(w = v /\ k = c)
    <3>1. sent'[w][k] = sent[w][k]
      BY <2>2, <2>6, AcknowledgedOnce
    <3> QED
      BY <1>a, <2>3, <2>4, <3>1 DEF Paced
  <2> QED
    BY <2>5, <2>6
<1>6. ASSUME NEW c \in Alerts, ResetThrottle(c)
      PROVE  Paced(w, k)'
  <2>1. CASE c = k
    <3>1. \A a \in Ages : sent'[w][k][a] = 0
      BY <1>6, <2>1, ResetForgets
    <3> QED
      BY <3>1 DEF Paced
  <2>2. CASE c # k
    <3>1. sent'[w][k] = sent[w][k] /\ silence'[k] = silence[k] /\ UNCHANGED <<doing, alert>>
      BY <1>6, <2>2, ResetForgets DEF ResetThrottle, AlertTypeOK
    <3> QED
      BY <1>a, <3>1 DEF Paced
  <2> QED
    BY <2>1, <2>2
<1>7. CASE AlertTick
  <2>1. /\ sent'[w][k][0] = 0
        /\ \A a \in Ages \ {0} : a - 1 \in Ages /\ sent'[w][k][a] = sent[w][k][a - 1]
    BY <1>7, TickAges
  <2>2. silence'[k] <= silence[k] + 1 /\ (silence[k] = Throttle => silence'[k] = Throttle)
        /\ silence'[k] \in 0 .. Throttle
    BY <1>7 DEF AlertTick, Throttled, AlertTypeOK
  <2>3. UNCHANGED <<doing, alert>>
    BY <1>7 DEF AlertTick
  <2>4. ASSUME NEW a \in Ages, sent'[w][k][a] > 0
        PROVE  silence'[k] <= a + PostTimeout
    <3>1. a # 0 /\ a - 1 \in Ages /\ sent[w][k][a - 1] > 0
      BY <2>1, <2>4
    <3>2. silence[k] <= (a - 1) + PostTimeout
      BY <1>a, <3>1 DEF Paced
    <3> QED
      BY <1>a, <2>2, <3>1, <3>2
  <2>5. ASSUME NEW a \in Ages, a < Spacing
        PROVE  /\ sent'[w][k][a] <= 1
               /\ doing'[w] = "post" /\ alert'[w] = k => sent'[w][k][a] = 0
    <3>1. CASE a = 0
      BY <2>1, <3>1
    <3>2. CASE a # 0
      <4>1. a - 1 \in Ages /\ a - 1 < Spacing /\ sent'[w][k][a] = sent[w][k][a - 1]
        BY <1>a, <2>1, <2>5, <3>2
      <4> QED
        BY <1>a, <2>3, <4>1 DEF Paced
    <3> QED
      BY <3>1, <3>2
  <2>6. ASSUME NEW a \in Ages, NEW b \in Ages, a <= b, b - a <= Spacing
        PROVE  sent'[w][k][b] <= sent'[w][k][a] + 1
    <3>1. CASE b = 0
      <4>1. a = 0
        BY <1>a, <2>6, <3>1
      <4> QED
        BY <2>1, <3>1, <4>1
    <3>2. CASE b # 0 /\ a = 0
      <4>1. b - 1 \in Ages /\ b - 1 < Spacing /\ sent'[w][k][b] = sent[w][k][b - 1]
        BY <1>a, <2>1, <2>6, <3>2
      <4> QED
        BY <1>a, <2>1, <3>2, <4>1 DEF Paced
    <3>3. CASE b # 0 /\ a # 0
      <4>1. /\ a - 1 \in Ages /\ b - 1 \in Ages
            /\ a - 1 <= b - 1 /\ (b - 1) - (a - 1) <= Spacing
            /\ sent'[w][k][a] = sent[w][k][a - 1] /\ sent'[w][k][b] = sent[w][k][b - 1]
        BY <1>a, <2>1, <2>6, <3>3
      <4> QED
        BY <1>a, <4>1 DEF Paced
    <3> QED
      BY <3>1, <3>2, <3>3
  <2> QED
    BY <2>4, <2>5, <2>6 DEF Paced
<1>8. CASE UNCHANGED <<silence, sent, doing, alert>>
  BY <1>1, <1>8
<1> QED
  BY <1>2, <1>3, <1>4, <1>5, <1>6, <1>7, <1>8
  DEF AlertNext, Work, Submit, Close, SaveEnds, PostFails, alertVars

(***************************************************************************)
(* The invariant of the delivery holds in every state.                     *)
(***************************************************************************)
LEMMA AlertInductive == AlertSpec => []AlertInv
<1>1. AlertInit => AlertInv
  <2> SUFFICES ASSUME AlertInit
               PROVE  AlertInv
    OBVIOUS
  <2>1. closed \in BOOLEAN
    BY Zenon DEF AlertInit
  <2>2. \A w \in Workers, k \in Alerts, a \in Ages : sent[w][k][a] = 0
    BY DEF AlertInit, Never
  <2>3. sent \in [Workers -> [Alerts -> [Ages -> Nat]]]
    BY DEF AlertInit, Never
  <2>4. AlertTypeOK
    BY <2>1, <2>3, AlertAssumption DEF AlertInit, AlertTypeOK, Steps
  <2>5. PostsArePaced
    BY <2>2, ThrottleIsLong DEF PostsArePaced, Paced, AlertInit
  <2> QED
    BY <2>4, <2>5, AlertAssumption DEF AlertInit, AlertInv, SilenceIsEarned, Throttled
<1>2. AlertInv /\ [AlertNext]_alertVars => AlertInv'
  BY AlertTypesStay, SilenceStaysEarned, PostsStayPaced DEF AlertInv
<1> QED
  BY <1>1, <1>2, PTL DEF AlertSpec

(***************************************************************************)
(* Queue and threads of the executor, and the times of SlackAlerter, stay  *)
(* in their types: a thread that mails or posts is at an alert.            *)
(***************************************************************************)
THEOREM AlertTypeCorrect == AlertSpec => []AlertTypeOK
<1>1. AlertInv => AlertTypeOK
  BY DEF AlertInv
<1> QED
  BY <1>1, AlertInductive, PTL

(***************************************************************************)
(* SlackAlerter drops an alert as a repeat only if the same alert was      *)
(* acknowledged within throttle_seconds, for any threads and times.        *)
(***************************************************************************)
THEOREM RepeatsWereSent == AlertSpec => []SilenceIsEarned
<1>1. AlertInv => SilenceIsEarned
  BY DEF AlertInv
<1> QED
  BY <1>1, AlertInductive, PTL

(***************************************************************************)
(* No thread has a key acknowledged more than twice within                 *)
(* throttle_seconds, although threads check before they post, record after *)
(* the answer, and may put an older time over a later one.                 *)
(***************************************************************************)
THEOREM RepeatsAreFew == AlertSpec => []RepeatsAreBounded
<1>1. AlertInv => RepeatsAreBounded
  <2> SUFFICES ASSUME AlertInv, NEW w \in Workers, NEW k \in Alerts
               PROVE  sent[w][k][Throttle - 1] <= 2
    BY DEF RepeatsAreBounded
  <2>1. Spacing - 1 \in Ages /\ Throttle - 1 \in Ages
    BY ThrottleIsLong DEF Ages
  <2>2. sent[w][k][Spacing - 1] <= 1
    BY <2>1, ThrottleIsLong DEF AlertInv, PostsArePaced, Paced
  <2>3. sent[w][k][Throttle - 1] <= sent[w][k][Spacing - 1] + 1
    BY <2>1, ThrottleIsLong DEF AlertInv, PostsArePaced, Paced
  <2>4. sent[w][k][Throttle - 1] \in Nat /\ sent[w][k][Spacing - 1] \in Nat
    BY <2>1 DEF AlertInv, AlertTypeOK
  <2> QED
    BY <2>2, <2>3, <2>4
<1> QED
  BY <1>1, AlertInductive, PTL
================================================================================
