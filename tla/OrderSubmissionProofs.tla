----------------------- MODULE OrderSubmissionProofs ------------------------
(***************************************************************************)
(* Proofs about OrderSubmission: type correctness; when none of the four   *)
(* faults occurs, that an order id reaches the broker at most once, that   *)
(* no order is orphaned, that a filled report is final and that the        *)
(* contract is implemented; and, whatever the faults, that what is         *)
(* recorded is not sent again and that a timeout is cancelled.             *)
(***************************************************************************)
EXTENDS OrderSubmission, TLAPS

(* Every reachable state of router, engine and broker has the declared     *)
(* types.                                                                  *)
THEOREM TypeCorrect == Spec => []TypeOK
<1> USE BoundsAssumption, OrdersAssumption
<1>1. Init => TypeOK
  <2> SUFFICES ASSUME Init PROVE TypeOK
    OBVIOUS
  <2>1. /\ book \in [Orders -> [Copies -> States]]
        /\ asked \in [Orders -> SUBSET Copies]
    BY DEF Init, States
  <2>2. /\ cache \in [Orders -> {"none", "FILLED", "TIMEOUT", "REJECTED"}]
        /\ trade \in [Orders -> 0 .. MaxSends]
        /\ seen \in [Orders -> States]
        /\ sent \in [Orders -> 0 .. MaxSends]
    BY DEF Init, States
  <2>3. persisted \in [Orders -> Perm] /\ saved \in [Orders -> Perm]
    BY DEF Init, Perm
  <2> QED
    BY <2>1, <2>2, <2>3 DEF Init, TypeOK
<1>2. TypeOK /\ [Next]_vars => TypeOK'
  <2> SUFFICES ASSUME TypeOK, [Next]_vars PROVE TypeOK'
    OBVIOUS
  <2> USE DEF TypeOK, Copies, States, Perm, Done, router, engine, broker, call,
              Goto, Return, Connected
  <2>1. ASSUME NEW o \in Orders, Begin(o) PROVE TypeOK'
    BY <2>1 DEF Begin
  <2>2. CASE Refuse
    BY <2>2 DEF Refuse
  <2>3. CASE AlreadySubmitted
    BY <2>3 DEF AlreadySubmitted
  <2>4. CASE Admit
    BY <2>4 DEF Admit
  <2>5. CASE Place
    BY <2>5 DEF Place, Arrives
  <2>6. CASE PlaceRetried
    <3>1. CASE Arrives(cur)
      BY <2>6, <3>1 DEF PlaceRetried, Arrives
    <3>2. CASE UNCHANGED broker
      BY <2>6, <3>2 DEF PlaceRetried
    <3> QED
      BY <2>6, <3>1, <3>2 DEF PlaceRetried
  <2>7. CASE Raises
    BY <2>7 DEF Raises
  <2>8. CASE Record
    BY <2>8 DEF Record, Placeholder, SaveMap
  <2>9. CASE PermAssigned
    BY <2>9 DEF PermAssigned, SaveMap
  <2>10. CASE PermTimeout
    BY <2>10 DEF PermTimeout
  <2>11. CASE PollFilled
    BY <2>11 DEF PollFilled
  <2>12. CASE PollAgain
    BY <2>12 DEF PollAgain
  <2>13. CASE GiveUp
    BY <2>13 DEF GiveUp
  <2>14. CASE Cancel
    <3>1. asked' \in [Orders -> SUBSET Copies]
      BY <2>14 DEF Cancel, AskCancel
    <3> QED
      BY <3>1, <2>14 DEF Cancel
  <2>15. CASE GlobalCancel
    <3>1. asked' \in [Orders -> SUBSET Copies]
      BY <2>15 DEF GlobalCancel
    <3> QED
      BY <3>1, <2>15 DEF GlobalCancel
  <2>16. CASE ReconcilePendingConfirm
    <3>1. persisted' \in [Orders -> Perm] /\ pendingConfirm' \subseteq Orders
      BY <2>16 DEF ReconcilePendingConfirm
    <3>2. saved' \in [Orders -> Perm]
      BY <2>16, <3>1 DEF ReconcilePendingConfirm, SaveMap
    <3> QED
      BY <3>1, <3>2, <2>16 DEF ReconcilePendingConfirm
  <2>17. CASE OnDisconnect
    <3>1. /\ trade' \in [Orders -> 0 .. MaxSends]
          /\ seen' \in [Orders -> States]
          /\ pendingConfirm' \subseteq Orders
      BY <2>17 DEF OnDisconnect
    <3>2. saved' \in [Orders -> Perm]
      BY <2>17 DEF OnDisconnect, SaveMap
    <3> QED
      BY <3>1, <3>2, <2>17 DEF OnDisconnect
  <2>18. ASSUME NEW o \in Orders, Deliver(o) PROVE TypeOK'
    BY <2>18 DEF Deliver
  <2>19. ASSUME NEW o \in Orders, NEW i \in Copies, BrokerEnds(o, i) PROVE TypeOK'
    BY <2>19 DEF BrokerEnds
  <2>20. CASE Crash
    <3>1. /\ cache' \in [Orders -> {"none", "FILLED", "TIMEOUT", "REJECTED"}]
          /\ trade' \in [Orders -> 0 .. MaxSends]
          /\ seen' \in [Orders -> States]
          /\ persisted' \in [Orders -> Perm]
      BY <2>20 DEF Crash
    <3> QED
      BY <3>1, <2>20 DEF Crash
  <2>21. CASE Restart
    BY <2>21 DEF Restart
  <2>22. CASE UNCHANGED vars
    BY <2>22 DEF vars
  <2> QED
    BY <2>1, <2>2, <2>3, <2>4, <2>5, <2>6, <2>7, <2>8, <2>9, <2>10, <2>11, <2>12,
       <2>13, <2>14, <2>15, <2>16, <2>17, <2>18, <2>19, <2>20, <2>21, <2>22
    DEF Next, LiveFill
<1> QED
  BY <1>1, <1>2, PTL DEF Spec

-----------------------------------------------------------------------------
NoFaults == Faults = {}

(* The file is always the map of the running process; no event reaches a   *)
(* process that is down.                                                   *)
MapIsSaved == IF pc = "down" THEN ~conn ELSE saved = persisted

(* Whatever the broker has received is saved or is about to be. *)
SentIsSaved ==
    \A o \in Orders : sent[o] > 0 => saved[o] # "no" \/ (pc = "record" /\ cur = o)

(* An order on its way to the broker has not been there. *)
PlacedIsNew ==
    /\ pc = "place" => saved[cur] = "no"
    /\ pc = "record" => sent[cur] = 1

(* The broker has no copy it was not sent. *)
BookIsSent ==
    \A o \in Orders : \A i \in Copies : book[o][i] = "none" <=> i > sent[o]

SendInv ==
    /\ TypeOK
    /\ MapIsSaved
    /\ SentIsSaved
    /\ PlacedIsNew
    /\ BookIsSent
    /\ AtMostOnce

(* The strengthening of AtMostOnce is inductive.                           *)
LEMMA SendInvStep == ASSUME NoFaults, SendInv, TypeOK', Next PROVE SendInv'
<1> USE BoundsAssumption, OrdersAssumption
    DEF SendInv, NoFaults, MapIsSaved, SentIsSaved, PlacedIsNew, BookIsSent, AtMostOnce,
        TypeOK, Copies, States, Done, router, engine, broker, call,
        Goto, Return, Connected, SaveMap
<1>1. ASSUME NEW o \in Orders, Begin(o) PROVE SendInv'
  BY <1>1 DEF Begin
<1>2. CASE Refuse
  BY <1>2 DEF Refuse
<1>3. CASE AlreadySubmitted
  BY <1>3 DEF AlreadySubmitted
<1>4. CASE Admit
  BY <1>4 DEF Admit, Unknown
<1>5. CASE Place
  BY <1>5 DEF Place, Arrives
<1>6. CASE PlaceRetried
  BY <1>6 DEF PlaceRetried, Arrives
<1>7. CASE Raises
  BY <1>7 DEF Raises
<1>8. CASE Record
  <2>1. /\ pc = "record" /\ pc' = "perm" /\ cur' = cur /\ cur \in Orders
        /\ saved' = persisted' /\ persisted' = [persisted EXCEPT ![cur] = "zero"]
        /\ UNCHANGED <<sent, book, asked>>
    BY <1>8 DEF Record, Placeholder
  <2>2. persisted = saved
    BY <2>1
  <2> QED
    BY <2>1, <2>2
<1>9. CASE PermAssigned
  BY <1>9 DEF PermAssigned
<1>10. CASE PermTimeout
  BY <1>10 DEF PermTimeout
<1>11. CASE PollFilled
  BY <1>11 DEF PollFilled
<1>12. CASE PollAgain
  BY <1>12 DEF PollAgain
<1>13. CASE GiveUp
  BY <1>13 DEF GiveUp
<1>14. CASE Cancel
  BY <1>14 DEF Cancel
<1>15. CASE GlobalCancel
  BY <1>15 DEF GlobalCancel
<1>16. CASE ReconcilePendingConfirm
  <2> DEFINE resolved == {o \in pendingConfirm :
                              \E x \in Orders : OrderRef(x) = o
                                  /\ \E i \in Copies : book[x][i] = "working"}
  <2>1. resolved = {}
    BY DEF OrderRef
  <2>2. /\ persisted' = [o \in Orders |-> IF o \in resolved THEN "perm" ELSE persisted[o]]
        /\ IF resolved = {} THEN UNCHANGED saved ELSE SaveMap
        /\ pc = "idle" /\ UNCHANGED <<pc, cur, sent, book, asked>>
    BY <1>16, Zenon DEF ReconcilePendingConfirm
  <2> HIDE DEF resolved
  <2>3. persisted' = persisted /\ saved' = saved
    BY <2>1, <2>2
  <2> QED
    BY <2>2, <2>3
<1>17. CASE OnDisconnect
  <2>1. /\ UNCHANGED <<pc, cur, sent, book, asked, persisted>>
        /\ pc # "down"
        /\ saved' = saved \/ saved' = persisted
    BY <1>17 DEF OnDisconnect
  <2>2. saved' = saved
    BY <2>1, <1>17 DEF OnDisconnect
  <2> QED
    BY <2>1, <2>2
<1>18. ASSUME NEW o \in Orders, Deliver(o) PROVE SendInv'
  BY <1>18 DEF Deliver
<1>19. ASSUME NEW o \in Orders, NEW i \in Copies, BrokerEnds(o, i) PROVE SendInv'
  BY <1>19 DEF BrokerEnds
<1>20. CASE Crash
  BY <1>20 DEF Crash
<1>21. CASE Restart
  BY <1>21 DEF Restart
<1> QED
  BY <1>1, <1>2, <1>3, <1>4, <1>5, <1>6, <1>7, <1>8, <1>9, <1>10, <1>11, <1>12,
     <1>13, <1>14, <1>15, <1>16, <1>17, <1>18, <1>19, <1>20, <1>21
  DEF Next, LiveFill

(***************************************************************************)
(* Without a fault, the invariant of sending holds in every state.         *)
(***************************************************************************)
LEMMA SendInvInvariant == ASSUME NoFaults PROVE Spec => []SendInv
<1>1. Init /\ TypeOK => SendInv
  BY BoundsAssumption, OrdersAssumption
  DEF Init, SendInv, MapIsSaved, SentIsSaved, PlacedIsNew, BookIsSent, AtMostOnce, Copies
<1>2. SendInv /\ TypeOK' /\ [Next]_vars => SendInv'
  <2>1. CASE Next
    BY <2>1, SendInvStep
  <2>2. CASE UNCHANGED vars
    BY <2>2 DEF vars, router, engine, broker, call, SendInv, TypeOK, MapIsSaved, SentIsSaved,
       PlacedIsNew, BookIsSent, AtMostOnce
  <2> QED
    BY <2>1, <2>2
<1> QED
  BY TypeCorrect, <1>1, <1>2, PTL DEF Spec

(* Without one of the four faults an order id reaches the broker at most   *)
(* once, however often it is submitted, retried or interrupted by a crash. *)
THEOREM SubmittedAtMostOnce == ASSUME NoFaults PROVE Spec => []AtMostOnce
<1>1. SendInv => AtMostOnce
  BY DEF SendInv
<1> QED
  BY SendInvInvariant, <1>1, PTL

(* Without one of the four faults no order works at the broker unknown to  *)
(* the running process, or to the next one if the process is down.         *)
THEOREM NoOrderIsOrphaned == ASSUME NoFaults PROVE Spec => []NoOrphan
<1>1. SendInv => NoOrphan
  <2> SUFFICES ASSUME SendInv, NEW o \in Orders, NEW i \in Copies, book[o][i] = "working"
               PROVE Recorded(o) \/ (pc = "record" /\ cur = o)
    BY DEF NoOrphan
  <2>1. sent[o] > 0
    BY BoundsAssumption DEF SendInv, BookIsSent, TypeOK, Copies
  <2> QED
    BY <2>1 DEF SendInv, SentIsSaved, MapIsSaved, Recorded
<1> QED
  BY SendInvInvariant, <1>1, PTL

-----------------------------------------------------------------------------
(* While an order is being placed its id is not in the map of the process. *)
PlacingIsUnknown == pc = "place" => persisted[cur] = "no"

(* Whatever faults occur, an id in the order map of the running process is *)
(* never sent again by it: a duplicate needs an id that was not recorded.  *)
THEOREM RecordedNeverResent == Spec => RecordedIsNotResent
<1> USE BoundsAssumption, OrdersAssumption
<1>1. Init => PlacingIsUnknown
  BY DEF Init, PlacingIsUnknown
<1>2. PlacingIsUnknown /\ TypeOK /\ [Next]_vars => PlacingIsUnknown'
  <2> SUFFICES ASSUME PlacingIsUnknown, TypeOK, [Next]_vars, pc' = "place"
               PROVE persisted'[cur'] = "no"
    BY DEF PlacingIsUnknown
  <2>1. CASE Admit
    BY <2>1 DEF Admit, Unknown
  <2>2. CASE PlaceRetried
    BY <2>2 DEF PlaceRetried, engine, PlacingIsUnknown
  <2>3. CASE OnDisconnect
    BY <2>3 DEF OnDisconnect, call, PlacingIsUnknown
  <2>4. CASE \E o \in Orders : Deliver(o)
    BY <2>4 DEF Deliver, call, PlacingIsUnknown
  <2>5. CASE \E o \in Orders : \E i \in Copies : BrokerEnds(o, i)
    BY <2>5 DEF BrokerEnds, call, engine, PlacingIsUnknown
  <2>6. CASE UNCHANGED vars
    BY <2>6 DEF vars, call, engine, PlacingIsUnknown
  <2> QED
    BY <2>1, <2>2, <2>3, <2>4, <2>5, <2>6
    DEF Next, LiveFill, Goto, Return, Begin, Refuse, AlreadySubmitted, Place, Raises, Record,
        PermAssigned, PermTimeout, PollFilled, PollAgain, GiveUp, Cancel, GlobalCancel,
        ReconcilePendingConfirm, Crash, Restart, call
<1>3. PlacingIsUnknown /\ TypeOK /\ [Next]_vars =>
        [\A o \in Orders : persisted[o] # "no" => sent'[o] = sent[o]]_vars
  <2> SUFFICES ASSUME PlacingIsUnknown, TypeOK, Next, NEW o \in Orders, persisted[o] # "no"
               PROVE sent'[o] = sent[o]
    OBVIOUS
  <2>1. CASE Place
    BY <2>1 DEF Place, Arrives, PlacingIsUnknown, TypeOK
  <2>2. CASE PlaceRetried
    <3>1. CASE Arrives(cur)
      BY <2>2, <3>1 DEF PlaceRetried, Arrives, PlacingIsUnknown, TypeOK
    <3> QED
      BY <2>2, <3>1 DEF PlaceRetried, broker
  <2> QED
    BY <2>1, <2>2
    DEF Next, LiveFill, Begin, Refuse, AlreadySubmitted, Admit, Raises, Record, PermAssigned,
        PermTimeout, PollFilled, PollAgain, GiveUp, Cancel, GlobalCancel, broker,
        ReconcilePendingConfirm, OnDisconnect, Deliver, BrokerEnds, Crash, Restart
<1> QED
  BY TypeCorrect, <1>1, <1>2, <1>3, PTL DEF Spec, RecordedIsNotResent

(* A function that differs from another in one point is its update there.  *)
LEMMA Update ==
    ASSUME NEW S, NEW f, NEW g, f = [x \in S |-> f[x]], g = [x \in S |-> g[x]],
           NEW a \in S, NEW v, g[a] = v, \A x \in S \ {a} : g[x] = f[x]
    PROVE  g = [f EXCEPT ![a] = v]
OBVIOUS

-----------------------------------------------------------------------------
(* A trade is bound to a copy the broker has, and shows no end that the    *)
(* broker does not know.                                                   *)
SeenIsTrue ==
    \A o \in Orders : trade[o] # 0 =>
        /\ trade[o] <= sent[o]
        /\ seen[o] \in Done => book[o][trade[o]] \in Done

(* A filled report is about an order that was sent and has ended.          *)
FilledHasEnded ==
    \A o \in Orders : cache[o] = "FILLED" => sent[o] = 1 /\ book[o][1] \in Done

(* Every step keeps trades and reports true.                               *)
LEMMA FinalInvStep ==
    ASSUME SendInv, SeenIsTrue, FilledHasEnded, TypeOK', Next
    PROVE  SeenIsTrue' /\ FilledHasEnded'
<1> USE BoundsAssumption, OrdersAssumption
    DEF SeenIsTrue, FilledHasEnded, Done, Copies, TypeOK, States, router, engine, broker, call,
        Goto, Return, Connected
<1>0. TypeOK /\ AtMostOnce
  BY DEF SendInv
<1>1. CASE UNCHANGED <<cache, trade, seen, sent, book>>
  BY <1>1
<1>2. CASE Refuse
  BY <1>0, <1>2 DEF Refuse
<1>3. CASE Arrives(cur) /\ pc = "place" /\ UNCHANGED <<cache, trade, seen>>
  <2>1. sent[cur] = 0
    BY <1>0, <1>3 DEF SendInv, PlacedIsNew, SentIsSaved
  <2> QED
    BY <1>0, <1>3, <2>1 DEF Arrives
<1>4. CASE Record
  <2>1. sent[cur] = 1 /\ cur \in Orders
    BY <1>0, <1>4 DEF SendInv, PlacedIsNew, Record
  <2>2. /\ trade' = [trade EXCEPT ![cur] = sent[cur]]
        /\ seen' = [seen EXCEPT ![cur] = "working"]
        /\ UNCHANGED <<cache, sent, book>>
    BY <1>4 DEF Record
  <2> QED
    BY <1>0, <2>1, <2>2
<1>5. CASE PollFilled
  <2>1. trade[cur] = 1 /\ sent[cur] = 1 /\ seen[cur] \in Done /\ cur \in Orders
    BY <1>0, <1>5 DEF PollFilled, EngineStatus, AtMostOnce
  <2> QED
    BY <1>0, <1>5, <2>1 DEF PollFilled
<1>6. CASE Cancel
  BY <1>0, <1>6 DEF Cancel
<1>7. CASE OnDisconnect
  <2>1. UNCHANGED <<cache, sent, book>> /\ trade' = [o \in Orders |-> 0]
    BY <1>7 DEF OnDisconnect
  <2> QED
    BY <2>1
<1>8. CASE \E o \in Orders : Deliver(o)
  BY <1>0, <1>8 DEF Deliver
<1>9. CASE \E o \in Orders : \E i \in Copies : BrokerEnds(o, i)
  <2>1. PICK o \in Orders, i \in Copies : BrokerEnds(o, i)
    BY <1>9
  <2>2. PICK s \in Done : book' = [book EXCEPT ![o] = [book[o] EXCEPT ![i] = s]]
    BY <2>1 DEF BrokerEnds
  <2>3. \A x \in Orders : \A j \in Copies : book[x][j] \in Done => book'[x][j] \in Done
    BY <1>0, <2>2
  <2>4. UNCHANGED <<cache, trade, seen, sent>>
    BY <2>1 DEF BrokerEnds
  <2> QED
    BY <1>0, <2>3, <2>4
<1>10. CASE Crash
  <2>1. /\ UNCHANGED <<sent, book>>
        /\ trade' = [o \in Orders |-> 0] /\ cache' = [o \in Orders |-> "none"]
    BY <1>10 DEF Crash
  <2> QED
    BY <2>1
<1>11. CASE PlaceRetried
  BY <1>1, <1>3, <1>11 DEF PlaceRetried
<1>12. CASE Place
  BY <1>1, <1>3, <1>12 DEF Place
<1> QED
  BY <1>1, <1>2, <1>4, <1>5, <1>6, <1>7, <1>8, <1>9, <1>10, <1>11, <1>12
  DEF Next, LiveFill, Begin, AlreadySubmitted, Admit, Raises, PermAssigned, PermTimeout,
      PollAgain, GiveUp, GlobalCancel, ReconcilePendingConfirm, Restart

(* Without a fault in the recording window a FILLED report is final: no    *)
(* copy of the order works at the broker any more, and none ever will,     *)
(* though done and filled are the same to get_order_status().              *)
THEOREM FilledReportsAreFinal == ASSUME NoFaults PROVE Spec => []FilledReportIsFinal
<1>1. Init => SeenIsTrue /\ FilledHasEnded
  BY DEF Init, SeenIsTrue, FilledHasEnded
<1>2. SendInv /\ TypeOK' /\ SeenIsTrue /\ FilledHasEnded /\ [Next]_vars
        => SeenIsTrue' /\ FilledHasEnded'
  <2>1. CASE Next
    BY <2>1, FinalInvStep
  <2>2. CASE UNCHANGED vars
    BY <2>2 DEF vars, router, engine, broker, call, SeenIsTrue, FilledHasEnded
  <2> QED
    BY <2>1, <2>2
<1>3. SendInv /\ FilledHasEnded => FilledReportIsFinal
  <2> SUFFICES ASSUME SendInv, FilledHasEnded, NEW o \in Orders, cache[o] = "FILLED",
                      NEW i \in Copies
               PROVE  book[o][i] # "working"
    BY DEF FilledReportIsFinal
  <2>1. sent[o] = 1 /\ book[o][1] # "working"
    BY DEF FilledHasEnded, Done
  <2>2. CASE i = 1
    BY <2>1, <2>2
  <2>3. CASE i # 1
    <3>1. i > sent[o]
      BY <2>1, <2>3, BoundsAssumption DEF Copies
    <3> QED
      BY <3>1 DEF SendInv, BookIsSent
  <2> QED
    BY <2>2, <2>3
<1> QED
  BY TypeCorrect, SendInvInvariant, <1>1, <1>2, <1>3, PTL DEF Spec

-----------------------------------------------------------------------------
(* What the process has polled or given up on is in its map, and what it   *)
(* sends is not.                                                           *)
GivenUpIsKnown ==
    /\ pc \in {"place", "record"} => persisted[cur] = "no"
    /\ pc \in {"perm", "poll", "cancel"} => persisted[cur] # "no"
    /\ \A o \in Orders : cache[o] = "TIMEOUT" => pc # "down" /\ persisted[o] # "no"

(* Both are inductive, whatever the faults.                                *)
LEMMA TimeoutStep ==
    ASSUME TypeOK, GivenUpIsKnown, TrackedTimeoutIsCancelled, TypeOK', Next
    PROVE  GivenUpIsKnown' /\ TrackedTimeoutIsCancelled'
<1> USE BoundsAssumption, OrdersAssumption
    DEF GivenUpIsKnown, TrackedTimeoutIsCancelled, TypeOK, Copies, Perm, router, engine, broker,
        call, Goto, Return, Connected
<1>1. ASSUME NEW o \in Orders, Begin(o) PROVE GivenUpIsKnown' /\ TrackedTimeoutIsCancelled'
  BY <1>1 DEF Begin
<1>2. CASE Refuse
  BY <1>2 DEF Refuse
<1>3. CASE AlreadySubmitted
  BY <1>3 DEF AlreadySubmitted
<1>4. CASE Admit
  BY <1>4 DEF Admit, Unknown
<1>5. CASE Place
  BY <1>5 DEF Place, Arrives
<1>6. CASE PlaceRetried
  BY <1>6 DEF PlaceRetried, Arrives
<1>7. CASE Raises
  BY <1>7 DEF Raises
<1>8. CASE Record
  <2>1. /\ pc = "record" /\ pc' = "perm" /\ cur' = cur /\ cur \in Orders
        /\ persisted' = [persisted EXCEPT ![cur] = "zero"]
        /\ trade' = [trade EXCEPT ![cur] = sent[cur]]
        /\ UNCHANGED <<cache, asked>>
    BY <1>8 DEF Record, Placeholder
  <2>2. cache[cur] # "TIMEOUT"
    BY <2>1
  <2> QED
    BY <2>1, <2>2
<1>9. CASE PermAssigned
  BY <1>9 DEF PermAssigned
<1>10. CASE PermTimeout
  BY <1>10 DEF PermTimeout
<1>11. CASE PollFilled
  BY <1>11 DEF PollFilled
<1>12. CASE PollAgain
  BY <1>12 DEF PollAgain
<1>13. CASE GiveUp
  BY <1>13 DEF GiveUp
<1>14. CASE Cancel
  <2>1. /\ pc = "cancel" /\ cur \in Orders /\ UNCHANGED <<trade, persisted>>
        /\ trade[cur] # 0 => trade[cur] \in asked'[cur]
        /\ \A o \in Orders : asked[o] \subseteq asked'[o]
    BY <1>14 DEF Cancel, AskCancel
  <2>2. CASE tries < CancelTries
    BY <1>14, <2>1, <2>2 DEF Cancel
  <2>3. CASE ~(tries < CancelTries)
    <3>1. cache' = [cache EXCEPT ![cur] = "TIMEOUT"] /\ pc' = "idle"
      BY <1>14, <2>3 DEF Cancel
    <3> QED
      BY <2>1, <3>1
  <2> QED
    BY <2>2, <2>3
<1>15. CASE GlobalCancel
  BY <1>15 DEF GlobalCancel
<1>16. CASE ReconcilePendingConfirm
  <2>1. /\ pc = "idle" /\ UNCHANGED <<pc, cur, cache, trade, asked>>
        /\ \A o \in Orders : persisted[o] # "no" => persisted'[o] # "no"
    BY <1>16 DEF ReconcilePendingConfirm
  <2> QED
    BY <2>1
<1>17. CASE OnDisconnect
  <2>1. /\ UNCHANGED <<pc, cur, cache, asked, persisted>>
        /\ trade' = [o \in Orders |-> 0]
    BY <1>17 DEF OnDisconnect
  <2> QED
    BY <2>1
<1>18. ASSUME NEW o \in Orders, Deliver(o) PROVE GivenUpIsKnown' /\ TrackedTimeoutIsCancelled'
  BY <1>18 DEF Deliver
<1>19. ASSUME NEW o \in Orders, NEW i \in Copies, BrokerEnds(o, i)
       PROVE  GivenUpIsKnown' /\ TrackedTimeoutIsCancelled'
  BY <1>19 DEF BrokerEnds
<1>20. CASE Crash
  BY <1>20 DEF Crash
<1>21. CASE Restart
  BY <1>21 DEF Restart
<1> QED
  BY <1>1, <1>2, <1>3, <1>4, <1>5, <1>6, <1>7, <1>8, <1>9, <1>10, <1>11, <1>12,
     <1>13, <1>14, <1>15, <1>16, <1>17, <1>18, <1>19, <1>20, <1>21
  DEF Next, LiveFill

(* An order given up on is asked to be cancelled while the engine has its  *)
(* trade, under every fault and however often its id is submitted again.   *)
THEOREM TimeoutsAreCancelled == Spec => []TrackedTimeoutIsCancelled
<1>1. Init => GivenUpIsKnown /\ TrackedTimeoutIsCancelled
  BY DEF Init, GivenUpIsKnown, TrackedTimeoutIsCancelled
<1>2. TypeOK /\ TypeOK' /\ GivenUpIsKnown /\ TrackedTimeoutIsCancelled /\ [Next]_vars
        => GivenUpIsKnown' /\ TrackedTimeoutIsCancelled'
  <2>1. CASE Next
    BY <2>1, TimeoutStep
  <2>2. CASE UNCHANGED vars
    BY <2>2 DEF vars, router, engine, broker, call, GivenUpIsKnown, TrackedTimeoutIsCancelled
  <2> QED
    BY <2>1, <2>2
<1> QED
  BY TypeCorrect, <1>1, <1>2, PTL DEF Spec
-----------------------------------------------------------------------------
(* The counters of a call stay within its limits.                          *)
CountersInRange ==
    /\ waited <= MaxPolls
    /\ pc \notin {"poll", "cancel"} => waited = 0
    /\ pc = "place" => tries \in 1 .. SubmitTries
    /\ pc = "cancel" => tries \in 1 .. CancelTries

(* The steps before a call are a number.                                   *)
LEMMA StepsAreNat == TypeOK /\ CountersInRange => StepsLeft \in Nat
BY BoundsAssumption DEF TypeOK, CountersInRange, StepsLeft

(* A step of a call keeps the counters and leaves it fewer steps.          *)
LEMMA CallMoves ==
    ASSUME TypeOK, CountersInRange, LiveFill
    PROVE  CountersInRange' /\ StepsLeft' < StepsLeft
<1> USE BoundsAssumption DEF TypeOK, CountersInRange, StepsLeft, Goto, Return
<1>1. CASE Refuse
  BY <1>1 DEF Refuse
<1>2. CASE AlreadySubmitted
  BY <1>2 DEF AlreadySubmitted
<1>3. CASE Admit
  BY <1>3 DEF Admit
<1>4. CASE Place
  BY <1>4 DEF Place
<1>5. CASE PlaceRetried
  BY <1>5 DEF PlaceRetried
<1>6. CASE Raises
  BY <1>6 DEF Raises
<1>7. CASE Record
  BY <1>7 DEF Record
<1>8. CASE PermAssigned \/ PermTimeout
  BY <1>8 DEF PermAssigned, PermTimeout
<1>9. CASE PollFilled \/ PollAgain
  BY <1>9 DEF PollFilled, PollAgain
<1>10. CASE GiveUp
  BY <1>10 DEF GiveUp
<1>11. CASE Cancel
  BY <1>11 DEF Cancel
<1> QED
  BY <1>1, <1>2, <1>3, <1>4, <1>5, <1>6, <1>7, <1>8, <1>9, <1>10, <1>11 DEF LiveFill

(* Whatever else happens leaves a call where it is, unless it kills it.    *)
LEMMA OthersWait ==
    ASSUME TypeOK, CountersInRange, Next, ~LiveFill
    PROVE  /\ CountersInRange'
           /\ pc # "idle" => StepsLeft' <= StepsLeft
<1> USE BoundsAssumption DEF TypeOK, CountersInRange, StepsLeft, Goto
<1>1. CASE UNCHANGED call
  BY <1>1 DEF call
<1>2. CASE \E o \in Orders : Begin(o)
  BY <1>2 DEF Begin
<1>3. CASE Crash
  BY <1>3 DEF Crash
<1>4. CASE Restart
  BY <1>4 DEF Restart
<1> QED
  BY <1>1, <1>2, <1>3, <1>4
  DEF Next, GlobalCancel, ReconcilePendingConfirm, OnDisconnect, Deliver, BrokerEnds

(* Every call of _live_fill() ends: under every fault, and for any limits, *)
(* a call has so many steps before it, each step leaves it fewer, and no   *)
(* disconnect, broker message or crash gives it more.                      *)
THEOREM EveryCallEnds == Spec => [](StepsLeft \in Nat) /\ CallsEnd
<1>1. Init => CountersInRange
  BY BoundsAssumption DEF Init, CountersInRange
<1>2. TypeOK /\ CountersInRange /\ [Next]_vars => CountersInRange'
  <2>1. CASE Next
    BY <2>1, CallMoves, OthersWait
  <2>2. CASE UNCHANGED vars
    BY <2>2 DEF vars, call, CountersInRange
  <2> QED
    BY <2>1, <2>2
<1>3. TypeOK /\ CountersInRange /\ [Next]_vars =>
        [IF LiveFill THEN StepsLeft' < StepsLeft
                     ELSE pc # "idle" => StepsLeft' <= StepsLeft]_vars
  BY CallMoves, OthersWait
<1> QED
  BY TypeCorrect, StepsAreNat, <1>1, <1>2, <1>3, PTL DEF Spec, CallsEnd

-----------------------------------------------------------------------------
(* What is in the map, of the process or on file, was sent.                *)
KnownIsSent ==
    \A o \in Orders : persisted[o] # "no" \/ saved[o] # "no" => sent[o] > 0

(* Router and engine know no more of an order than the broker.             *)
ReportInv ==
    /\ SendInv
    /\ SeenIsTrue
    /\ FilledHasEnded
    /\ GivenUpIsKnown
    /\ KnownIsSent

(* Without a fault only orders that were sent get into the map.            *)
LEMMA KnownIsSentStep ==
    ASSUME NoFaults, SendInv, GivenUpIsKnown, KnownIsSent, Next
    PROVE  KnownIsSent'
<1> USE BoundsAssumption, OrdersAssumption DEF SendInv, KnownIsSent, TypeOK
<1>1. CASE UNCHANGED <<persisted, saved, sent>>
  BY <1>1
<1>2. CASE UNCHANGED <<persisted, saved>> /\ Arrives(cur)
  BY <1>2 DEF Arrives
<1>3. CASE Place \/ PlaceRetried
  BY <1>1, <1>2, <1>3 DEF Place, PlaceRetried, engine, broker
<1>4. CASE Record \/ PermAssigned
  <2>1. /\ cur \in Orders /\ sent[cur] > 0
        /\ \A o \in Orders \ {cur} : persisted'[o] = persisted[o]
        /\ saved' = persisted' /\ UNCHANGED sent
    BY <1>4 DEF Record, Placeholder, PermAssigned, SaveMap, broker, PlacedIsNew, GivenUpIsKnown,
            NoFaults
  <2> QED
    BY <2>1
<1>5. CASE ReconcilePendingConfirm
  <2> DEFINE resolved == {o \in pendingConfirm :
                              \E x \in Orders : OrderRef(x) = o
                                  /\ \E i \in Copies : book[x][i] = "working"}
  <2>1. resolved = {}
    BY DEF OrderRef
  <2>2. /\ persisted' = [o \in Orders |-> IF o \in resolved THEN "perm" ELSE persisted[o]]
        /\ IF resolved = {} THEN UNCHANGED saved ELSE SaveMap
        /\ UNCHANGED sent
    BY <1>5, Zenon DEF ReconcilePendingConfirm, broker
  <2> HIDE DEF resolved
  <2> QED
    BY <2>1, <2>2
<1>6. CASE OnDisconnect
  BY <1>6 DEF OnDisconnect, SaveMap, broker, NoFaults
<1>7. CASE Crash
  BY <1>7 DEF Crash, broker
<1>8. CASE Restart
  BY <1>8 DEF Restart, broker, NoFaults
<1> QED
  BY <1>1, <1>3, <1>4, <1>5, <1>6, <1>7, <1>8
  DEF Next, LiveFill, Begin, Refuse, AlreadySubmitted, Admit, Raises, PermTimeout, PollFilled,
      PollAgain, GiveUp, Cancel, GlobalCancel, Deliver, BrokerEnds, engine, broker

(* Without a fault, what router and engine know holds in every state.      *)
LEMMA ReportInvInvariant == ASSUME NoFaults PROVE Spec => []ReportInv
<1>1. Init => /\ SeenIsTrue /\ FilledHasEnded /\ GivenUpIsKnown /\ KnownIsSent
              /\ TrackedTimeoutIsCancelled
  BY DEF Init, SeenIsTrue, FilledHasEnded, GivenUpIsKnown, KnownIsSent, TrackedTimeoutIsCancelled
<1>2. SendInv /\ TypeOK' /\ ReportInv /\ TrackedTimeoutIsCancelled /\ [Next]_vars
        => /\ SeenIsTrue' /\ FilledHasEnded' /\ GivenUpIsKnown' /\ KnownIsSent'
           /\ TrackedTimeoutIsCancelled'
  <2>1. CASE Next
    BY <2>1, FinalInvStep, TimeoutStep, KnownIsSentStep DEF ReportInv, SendInv
  <2>2. CASE UNCHANGED vars
    BY <2>2 DEF vars, router, engine, broker, call, ReportInv, SeenIsTrue, FilledHasEnded,
       GivenUpIsKnown, KnownIsSent, TrackedTimeoutIsCancelled
  <2> QED
    BY <2>1, <2>2
<1>3. SendInv /\ SeenIsTrue /\ FilledHasEnded /\ GivenUpIsKnown /\ KnownIsSent => ReportInv
  BY DEF ReportInv
<1> QED
  BY TypeCorrect, SendInvInvariant, <1>1, <1>2, <1>3, PTL DEF Spec

(* Then every answer is deserved.                                          *)
LEMMA KnowledgeIsDeserved == ReportInv => Contract!AnswersAreDeserved
<1> SUFFICES ASSUME ReportInv, NEW o \in Orders
             PROVE  Status(o) \in Contract!Deserved(o)
  BY DEF Contract!AnswersAreDeserved
<1> USE BoundsAssumption DEF ReportInv, SendInv, TypeOK, AtMostOnce, Fate
<1>1. Status(o) \in Contract!Answers
  BY DEF Status, EngineStatus, Contract!Answers
<1>2. ASSUME sent[o] > 0
      PROVE  sent[o] = 1 /\ Fate[o] = book[o][1] /\ Fate[o] # "new"
  <2>1. sent[o] = 1 /\ 1 \in Copies
    BY <1>2 DEF Copies
  <2> QED
    BY <2>1 DEF States
<1>3. Status(o) = "PENDING" => sent[o] > 0
  BY DEF Status, EngineStatus, SeenIsTrue
<1>4. Status(o) = "TIMEOUT" => sent[o] > 0
  BY DEF Status, EngineStatus, GivenUpIsKnown, KnownIsSent
<1>5. Status(o) = "FILLED" => sent[o] > 0 /\ book[o][1] \in Done
  <2>1. ASSUME EngineStatus(o) = "FILLED"
        PROVE  sent[o] > 0 /\ book[o][1] \in Done
    <3>1. trade[o] # 0 /\ seen[o] \in Done
      BY <2>1 DEF EngineStatus
    <3>2. trade[o] <= sent[o] /\ trade[o] \in Nat /\ sent[o] \in Nat /\ sent[o] <= 1
      BY <3>1 DEF SeenIsTrue
    <3>3. \A t, n \in Nat : t # 0 /\ t <= n /\ n <= 1 => t = 1 /\ n = 1
      OBVIOUS
    <3>4. trade[o] = 1 /\ sent[o] = 1
      BY <3>1, <3>2, <3>3, Zenon
    <3> QED
      BY <3>1, <3>4 DEF SeenIsTrue
  <2>2. CASE cache[o] # "none"
    BY <2>2 DEF Status, FilledHasEnded
  <2> QED
    BY <2>1, <2>2 DEF Status
<1>6. /\ Status(o) \in {"PENDING", "TIMEOUT"} => Fate[o] # "new"
      /\ Status(o) = "FILLED" => Fate[o] \in {"filled", "cancelled"}
  BY <1>2, <1>3, <1>4, <1>5 DEF Done
<1> QED
  BY <1>1, <1>6 DEF Contract!Deserved, Contract!Ended

(* Every answer of get_order_status(), from the cache or from the engine,  *)
(* has a reason: pending and given up orders were sent, and filled ones    *)
(* have ended at the broker, by a fill or by a cancellation.               *)
THEOREM AnswersStayDeserved == ASSUME NoFaults PROVE Spec => []Contract!AnswersAreDeserved
BY ReportInvInvariant, KnowledgeIsDeserved, PTL

(* Without one of the four faults router, engine and broker implement the  *)
(* contract: one sending per id, one end per sending, deserved answers.    *)
THEOREM ImplementsContract == ASSUME NoFaults PROVE Spec => ContractHolds
<1> USE BoundsAssumption, OrdersAssumption
<1>1. Init => Contract!Init
  BY DEF Init, Contract!Init, Fate, Status, EngineStatus
<1> DEFINE Reply == [o \in Orders |-> Status(o)]
<1>2. SendInv /\ SendInv' /\ Contract!AnswersAreDeserved' /\ [Next]_vars
        => [Contract!Next]_<<Fate, Reply>>
  <2> SUFFICES ASSUME SendInv, SendInv', Contract!AnswersAreDeserved', [Next]_vars
               PROVE Contract!Next
    OBVIOUS
  <2>1. CASE UNCHANGED <<sent, book>>
    <3>1. Fate' = Fate
      BY <2>1 DEF Fate
    <3> QED
      BY <3>1 DEF Contract!Next, Contract!Answer, Contract!AnswersAreDeserved,
                        Contract!Deserved
  <2>2. CASE Place
    <3>1. /\ cur \in Orders /\ sent[cur] = 0
          /\ sent' = [sent EXCEPT ![cur] = 1]
          /\ book' = [book EXCEPT ![cur] = [book[cur] EXCEPT ![1] = "working"]]
      <4>1. pc = "place" /\ Arrives(cur)
        BY <2>2 DEF Place
      <4>2. cur \in Orders
        BY <4>1 DEF SendInv, TypeOK
      <4>3. sent[cur] = 0
        BY <4>1, <4>2 DEF SendInv, TypeOK, SentIsSaved, PlacedIsNew
      <4> QED
        BY <4>1, <4>2, <4>3 DEF Arrives
    <3>2. book[cur] \in [Copies -> States] /\ 1 \in Copies
      BY <3>1 DEF SendInv, TypeOK, Copies
    <3>3. Fate[cur] = "new" /\ Fate' = [Fate EXCEPT ![cur] = "working"]
      <4>1. book' \in [Orders -> [Copies -> States]] /\ book \in [Orders -> [Copies -> States]]
        BY DEF SendInv, TypeOK
      <4>2. sent'[cur] = 1 /\ book'[cur][1] = "working"
        BY <3>1, <3>2, <4>1 DEF SendInv, TypeOK
      <4>3. \A x \in Orders \ {cur} : sent'[x] = sent[x] /\ book'[x] = book[x]
        BY <3>1, <4>1 DEF SendInv, TypeOK
      <4>4. Fate = [x \in Orders |-> Fate[x]] /\ Fate' = [x \in Orders |-> Fate'[x]]
        BY DEF Fate
      <4>5. Fate[cur] = "new" /\ Fate'[cur] = "working"
        BY <3>1, <4>2 DEF Fate
      <4>6. \A x \in Orders \ {cur} : Fate'[x] = Fate[x]
        BY <4>3 DEF Fate
      <4> QED
        BY <3>1, <4>4, <4>5, <4>6, Update
    <3>4. Reply' = Reply
      BY <2>2 DEF Place, Status, EngineStatus, router, engine
    <3> QED
      BY <3>1, <3>3, <3>4 DEF Contract!Next, Contract!Send
  <2>3. ASSUME NEW o \in Orders, NEW i \in Copies, BrokerEnds(o, i)
        PROVE Contract!Next
    <3>1. i = 1 /\ sent[o] = 1 /\ UNCHANGED sent
      <4>1. book[o][i] = "working" /\ UNCHANGED sent
        BY <2>3 DEF BrokerEnds
      <4>2. ~(i > sent[o]) /\ sent[o] <= 1 /\ sent[o] \in Nat
        BY <4>1 DEF SendInv, BookIsSent, AtMostOnce, TypeOK
      <4> QED
        BY <4>1, <4>2 DEF Copies
    <3>2. PICK s \in Done : book' = [book EXCEPT ![o] = [book[o] EXCEPT ![1] = s]]
      BY <2>3, <3>1 DEF BrokerEnds
    <3>3. book[o] \in [Copies -> States] /\ 1 \in Copies
      BY <3>1 DEF SendInv, TypeOK, Copies
    <3>4. Fate[o] = "working" /\ Fate' = [Fate EXCEPT ![o] = s]
      <4>1. book[o][1] = "working"
        BY <2>3, <3>1 DEF BrokerEnds
      <4>2. book'[o][1] = s
        BY <3>2, <3>3 DEF SendInv, TypeOK
      <4>3. \A x \in Orders \ {o} : book'[x] = book[x]
        BY <3>2 DEF SendInv, TypeOK
      <4>4. Fate = [x \in Orders |-> Fate[x]] /\ Fate' = [x \in Orders |-> Fate'[x]]
        BY DEF Fate
      <4>5. Fate[o] = "working" /\ Fate'[o] = s
        BY <3>1, <4>1, <4>2 DEF Fate
      <4>6. \A x \in Orders \ {o} : Fate'[x] = Fate[x]
        BY <3>1, <4>3 DEF Fate
      <4> QED
        BY <4>4, <4>5, <4>6, Update
    <3>5. Reply' = Reply
      BY <2>3 DEF BrokerEnds, Status, EngineStatus, router, engine
    <3> QED
      BY <3>4, <3>5 DEF Contract!Next, Contract!End, Contract!Ended, Done
  <2>4. CASE PlaceRetried
    BY <2>1, <2>4 DEF PlaceRetried, broker, NoFaults
  <2> QED
    BY <2>1, <2>2, <2>3, <2>4
    DEF Next, vars, LiveFill, Begin, Refuse, AlreadySubmitted, Admit, Raises, Record,
        PermAssigned, PermTimeout, PollFilled, PollAgain, GiveUp, Cancel, GlobalCancel,
        broker, ReconcilePendingConfirm, OnDisconnect, Deliver, Crash, Restart
<1> QED
  BY SendInvInvariant, AnswersStayDeserved, <1>1, <1>2, PTL DEF Spec, Contract!Spec, ContractHolds
=============================================================================
