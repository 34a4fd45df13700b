----------------------------- MODULE BacktestProofs -----------------------------
(***************************************************************************)
(* Theorems about the drawdown manager, for any tiers in ascending order   *)
(* and any cooldown, and about the bar loop that it judges, for any number *)
(* of pairs and bars, any time limits and any P&L.                         *)
(***************************************************************************)
EXTENDS Backtest, FiniteSetTheorems, TLAPS

--------------------------------------------------------------------------------
(***************************************************************************)
(* How the fields of the drawdown manager hang together: a cooldown has    *)
(* counted the bars it stopped, the half was closed only once tier 2 was   *)
(* reached, a cooldown that ended left the caller's mark at the value, and *)
(* the bars of a cooldown or after a full stop are stopped.                *)
(***************************************************************************)
DrawdownInv ==
    /\ DrawdownTypeOK
    /\ wait > 0 => ~latched /\ stopped = TierCooldown - wait + 1
    /\ wait = 0 /\ ~latched => tier < 3 /\ stopped = 0
    /\ halves <= 1
    /\ ~(tier >= 2 /\ halfDone) => halves = 0
    /\ verdict = "resume" => wait = 0 /\ ~latched /\ mark = nav
    /\ wait > 0 \/ latched => verdict = "stop"

(***************************************************************************)
(* A bar under no drawdown is beyond no tier.                              *)
(***************************************************************************)
LEMMA NoDrawdownNoTier ==
    ASSUME NEW n \in Navs, NEW k \in 1 .. 4
    PROVE  ~Below(k, n, n)
<1>1. n \in Nat /\ n > 0 /\ Tiers[k] \in Nat /\ Tiers[k] > 0
  BY DrawdownAssumption
<1>2. Tiers[k] * n > 0
  BY <1>1
<1>3. (n - n) * 100 = 0
  BY <1>1
<1> QED
  BY <1>1, <1>2, <1>3 DEF Below

(***************************************************************************)
(* The invariant of the drawdown manager is inductive.                     *)
(***************************************************************************)
LEMMA DrawdownInductive ==
    DrawdownSpec => []DrawdownInv
<1>1. DrawdownInit => DrawdownInv
  <2> SUFFICES ASSUME DrawdownInit
               PROVE  DrawdownInv
    OBVIOUS
  <2>1. ~latched /\ ~halfDone /\ latched \in BOOLEAN /\ halfDone \in BOOLEAN
    BY Zenon DEF DrawdownInit
  <2> QED
    BY <2>1, DrawdownAssumption DEF DrawdownInit, DrawdownInv, DrawdownTypeOK, StopBound
<1>2. DrawdownInv /\ [DrawdownNext]_drawdownVars => DrawdownInv'
  <2> SUFFICES ASSUME DrawdownInv, [DrawdownNext]_drawdownVars
               PROVE  DrawdownInv'
    OBVIOUS
  <2>0. TierCooldown \in Nat /\ TierCooldown > 0 /\ StopBound = TierCooldown + 1
    BY DrawdownAssumption DEF StopBound
  <2> USE <2>0 DEF DrawdownInv, DrawdownTypeOK
  <2>1. ASSUME NEW n \in Navs, NEW m \in Navs, Bar(n, m), CoolDown(n, m)
        PROVE  DrawdownInv'
    BY <2>1 DEF Bar, CoolDown, Stopped
  <2>2. ASSUME NEW n \in Navs, NEW m \in Navs, Bar(n, m), Resume(n, m)
        PROVE  DrawdownInv'
    <3>1. ~halfDone' /\ halfDone' \in BOOLEAN
      BY <2>2, Zenon DEF Resume
    <3> QED
      BY <2>2, <3>1 DEF Bar, Resume
  <2>3. ASSUME NEW n \in Navs, NEW m \in Navs, Bar(n, m), FullStop(n, m)
        PROVE  DrawdownInv'
    BY <2>3 DEF Bar, FullStop, Stopped
  <2>4. ASSUME NEW n \in Navs, NEW m \in Navs, Bar(n, m), CloseAll(n, m)
        PROVE  DrawdownInv'
    BY <2>4 DEF Bar, CloseAll, Unlatched, Stopped
  <2>5. ASSUME NEW n \in Navs, NEW m \in Navs, Bar(n, m), CloseHalf(n, m)
        PROVE  DrawdownInv'
    BY <2>5 DEF Bar, CloseHalf, Unlatched
  <2>6. ASSUME NEW n \in Navs, NEW m \in Navs, Bar(n, m), Reduce(n, m)
        PROVE  DrawdownInv'
    BY <2>6 DEF Bar, Reduce, Unlatched
  <2>7. ASSUME NEW n \in Navs, NEW m \in Navs, Bar(n, m), Normal(n, m)
        PROVE  DrawdownInv'
    BY <2>7 DEF Bar, Normal, Unlatched
  <2>8. ASSUME NEW n \in Navs, ResetAll(n)
        PROVE  DrawdownInv'
    <3>1. ~latched' /\ ~halfDone' /\ latched' \in BOOLEAN /\ halfDone' \in BOOLEAN
      BY <2>8, Zenon DEF ResetAll
    <3> QED
      BY <2>8, <3>1 DEF ResetAll
  <2>9. CASE UNCHANGED drawdownVars
    BY <2>9 DEF drawdownVars
  <2> QED
    BY <2>1, <2>2, <2>3, <2>4, <2>5, <2>6, <2>7, <2>8, <2>9 DEF DrawdownNext, Evaluate, Judge
<1> QED
  BY <1>1, <1>2, PTL DEF DrawdownSpec

(***************************************************************************)
(* The fields of the drawdown manager stay in their types: the cooldown    *)
(* never counts below zero.                                                *)
(***************************************************************************)
THEOREM DrawdownTypeCorrect == DrawdownSpec => []DrawdownTypeOK
<1>1. DrawdownInv => DrawdownTypeOK
  BY DEF DrawdownInv
<1> QED
  BY <1>1, DrawdownInductive, PTL

(***************************************************************************)
(* Tier 2 halves the positions once until the next normal bar.             *)
(***************************************************************************)
THEOREM HalvingHappensOnce == DrawdownSpec => []HalvedOnce
<1>1. DrawdownInv => HalvedOnce
  BY DEF DrawdownInv, HalvedOnce
<1> QED
  BY <1>1, DrawdownInductive, PTL

(***************************************************************************)
(* Tier 4 stops every bar until reset().                                   *)
(***************************************************************************)
THEOREM FullStopsAreFinal == DrawdownSpec => FullStopIsFinal
<1>1. DrawdownInv /\ [DrawdownNext]_drawdownVars
        => [latched => \/ verdict' = "stop" /\ latched'
                       \/ \E n \in Navs : ResetAll(n)]_drawdownVars
  <2> SUFFICES ASSUME DrawdownInv, DrawdownNext, latched,
                      ~ \E n \in Navs : ResetAll(n)
               PROVE  verdict' = "stop" /\ latched'
    OBVIOUS
  <2>1. wait = 0
    BY DEF DrawdownInv, DrawdownTypeOK
  <2> QED
    BY <2>1 DEF DrawdownNext, Evaluate, Judge, CoolDown, Resume, FullStop, CloseAll,
       CloseHalf, Reduce, Normal, Unlatched
<1> QED
  BY <1>1, DrawdownInductive, PTL DEF DrawdownSpec, FullStopIsFinal

(***************************************************************************)
(* A cooldown that has ended is not held against the next bar: the caller  *)
(* lowers its mark as the manager asks (reset_peak).                       *)
(***************************************************************************)
THEOREM CooldownsArePaidOnce == DrawdownSpec => CooldownIsPaidOnce
<1>1. DrawdownInv /\ [DrawdownNext]_drawdownVars
        => [verdict = "resume" /\ nav' >= nav => verdict' = "go"]_drawdownVars
  <2> SUFFICES ASSUME DrawdownInv, DrawdownNext, verdict = "resume", nav' >= nav
               PROVE  verdict' = "go"
    OBVIOUS
  <2>1. wait = 0 /\ ~latched /\ mark = nav /\ mark \in Navs
    BY DEF DrawdownInv, DrawdownTypeOK
  <2>2. ASSUME NEW n \in Navs, NEW m \in Navs, Bar(n, m)
        PROVE  m = n
    BY <2>1, <2>2, DrawdownAssumption DEF Bar
  <2>3. ASSUME NEW n \in Navs, NEW m \in Navs, Bar(n, m), NEW k \in 1 .. 4
        PROVE  ~Below(k, m, n)
    BY <2>2, <2>3, NoDrawdownNoTier
  <2>4. ASSUME NEW n \in Navs, NEW m \in Navs, Bar(n, m)
        PROVE  ~Below(1, m, n) /\ ~Below(2, m, n) /\ ~Below(3, m, n) /\ ~Below(4, m, n)
    BY <2>3, <2>4
  <2> QED
    BY <2>1, <2>4 DEF DrawdownNext, Evaluate, Judge, CoolDown, Resume, FullStop, CloseAll,
       CloseHalf, Reduce, Normal, Unlatched, ResetAll
<1> QED
  BY <1>1, DrawdownInductive, PTL DEF DrawdownSpec, CooldownIsPaidOnce

(***************************************************************************)
(* Trading resumes after tier_3_cooldown_bars stopped bars and not sooner. *)
(***************************************************************************)
THEOREM CooldownsAreServed == DrawdownSpec => CooldownIsServed
<1>1. DrawdownInv /\ [DrawdownNext]_drawdownVars
        => [verdict' = "resume" => stopped = TierCooldown]_drawdownVars
  <2> SUFFICES ASSUME DrawdownInv, DrawdownNext, verdict' = "resume"
               PROVE  stopped = TierCooldown
    OBVIOUS
  <2>1. wait = 1
    BY DEF DrawdownNext, Evaluate, Judge, CoolDown, Resume, FullStop, CloseAll,
       CloseHalf, Reduce, Normal, ResetAll
  <2> QED
    BY <2>1, DrawdownAssumption DEF DrawdownInv, DrawdownTypeOK
<1> QED
  BY <1>1, DrawdownInductive, PTL DEF DrawdownSpec, CooldownIsServed

--------------------------------------------------------------------------------
(***************************************************************************)
(* The portfolio keeps a value that portfolios have, so that the drawdown  *)
(* manager is only asked about such values.                                *)
(***************************************************************************)
ValueIsNav == value \in Navs

(***************************************************************************)
(* In every state of the loop the manager is specified for the value.      *)
(***************************************************************************)
LEMMA ValueInvariant == BacktestSpec => []ValueIsNav
<1>1. BacktestInit => ValueIsNav
  BY DrawdownAssumption DEF BacktestInit, ValueIsNav
<1>2. ValueIsNav /\ [BacktestNext]_backtestVars => ValueIsNav'
  BY DEF ValueIsNav, BacktestNext, BarHead, HaltedBar, HalvedBar, TradedBar,
     StopLosses, Signals, Sweep, MarkToMarket, AfterLoop, VisitOpen, VisitClosed,
     ForceClose, Solvent, backtestVars, bookVars, accountVars
<1> QED
  BY <1>1, <1>2, PTL DEF BacktestSpec

(***************************************************************************)
(* Every bar of the loop, halted, halved or traded, treats the drawdown    *)
(* manager and its mark as their specification says, and nothing else      *)
(* touches them.                                                           *)
(***************************************************************************)
LEMMA BarsAreJudged == BacktestSpec => DrawdownSpec
<1>1. BacktestInit => DrawdownInit
  BY DEF BacktestInit
<1>2. ValueIsNav /\ [BacktestNext]_backtestVars => [DrawdownNext]_drawdownVars
  <2> SUFFICES ASSUME ValueIsNav, [BacktestNext]_backtestVars
               PROVE  [DrawdownNext]_drawdownVars
    OBVIOUS
  <2>1. CASE BarHead
    <3>1. Judge(value) \/ ResetAll(value)
      BY <2>1 DEF BarHead, Review
    <3> QED
      BY <3>1 DEF ValueIsNav, DrawdownNext, Evaluate
  <2>2. CASE StopLosses \/ Signals \/ Sweep \/ MarkToMarket \/ AfterLoop \/ ForceClose
    BY <2>2 DEF StopLosses, Signals, Sweep, MarkToMarket, AfterLoop, ForceClose
  <2>3. CASE UNCHANGED backtestVars
    BY <2>3 DEF backtestVars
  <2> QED
    BY <2>1, <2>2, <2>3 DEF BacktestNext
<1> QED
  BY <1>1, <1>2, ValueInvariant, PTL DEF BacktestSpec, DrawdownSpec

(***************************************************************************)
(* What the head of a bar does to the mark, the peak and the verdict.      *)
(***************************************************************************)
LEMMA ReviewKeeps ==
    ASSUME value \in Navs, mark \in Navs, peak \in Navs, mark <= peak, Review
    PROVE  /\ mark' \in Navs /\ peak' \in Navs
           /\ mark' <= peak'
<1> USE DrawdownAssumption
<1>1. CASE ResetAll(value) /\ peak' = value
  BY <1>1 DEF ResetAll
<1>2. ASSUME peak' = (IF value > peak THEN value ELSE peak),
             NEW m \in {value, mark}, Bar(value, m),
             mark' = m \/ mark' = value
      PROVE  mark' \in Navs /\ peak' \in Navs /\ mark' <= peak'
  BY <1>2 DEF Bar
<1>3. CASE Judge(value) /\ peak' = IF value > peak THEN value ELSE peak
  BY <1>2, <1>3 DEF Judge, CoolDown, Resume, FullStop, CloseAll, CloseHalf, Reduce, Normal
<1> QED
  BY <1>1, <1>3 DEF Review

(***************************************************************************)
(* What closings earn and marks are worth is a number.                     *)
(***************************************************************************)
LEMMA NumbersAreNumbers ==
    ASSUME NEW S
    PROVE  Result(S) \subseteq Int /\ Worth(S) \subseteq Int
BY BacktestAssumption DEF Result, Worth

(***************************************************************************)
(* The types of the loop, with the mark under the peak of the strategy.    *)
(***************************************************************************)
Fields ==
    /\ bar \in 0 .. LastBar
    /\ pc \in {"head", "stops", "signals", "sweep", "mark", "end", "done"}
    /\ open \subseteq Pairs /\ active \subseteq Pairs /\ todo \subseteq Pairs
    /\ entryBar \in [Pairs -> 0 .. LastBar]
    /\ value \in Navs /\ peak \in Navs /\ high \in Navs /\ mark \in Navs /\ mark <= peak
    /\ realized \in Int /\ booked \in Int /\ earned \in Int /\ misbooked \in Int
    /\ returns \in Nat

(***************************************************************************)
(* The costs of a set of entries are a number.                             *)
(***************************************************************************)
LEMMA CostIsNumber ==
    ASSUME NEW A \in SUBSET Pairs
    PROVE  EntryCost * Cardinality(A) \in Int
<1>1. IsFiniteSet(A)
  BY BacktestAssumption, FS_Subset
<1>2. Cardinality(A) \in Nat
  BY <1>1, FS_CardinalityType
<1> QED
  BY <1>2, BacktestAssumption

(***************************************************************************)
(* The signals of a bar: X is left, N is believed in, A is entered.        *)
(***************************************************************************)
SignalStep(X, N, A, r) ==
    /\ X \subseteq active /\ A \subseteq N /\ (A # {} => bar < LastBar)
    /\ N # {} => Cardinality((active \ X) \cup N) <= Slots
    /\ open' = (open \ X) \cup A /\ active' = (active \ X) \cup N
    /\ entryBar' = [p \in Pairs |-> IF p \in A THEN bar + 1 ELSE entryBar[p]]
    /\ Earn(r)

(***************************************************************************)
(* The signals of a bar are such a step.                                   *)
(***************************************************************************)
LEMMA SignalsTaken ==
    ASSUME Fields, Signals
    PROVE  \E X \in SUBSET Pairs, N \in SUBSET Pairs, A \in SUBSET Pairs, r \in Int :
               SignalStep(X, N, A, r)
<1>1. PICK listed \in SUBSET Pairs : \E X \in ExitSignals(listed) :
           \E N \in EntrySignals(listed, X) : \E A \in Accepted(N) :
              /\ open' = (open \ X) \cup A /\ active' = (active \ X) \cup N
              /\ entryBar' = [p \in Pairs |-> IF p \in A THEN bar + 1 ELSE entryBar[p]]
              /\ \E r \in Result(X \cap open) : Earn(r - EntryCost * Cardinality(A))
  BY DEF Signals
<1>2. PICK X \in ExitSignals(listed) : \E N \in EntrySignals(listed, X) : \E A \in Accepted(N) :
              /\ open' = (open \ X) \cup A /\ active' = (active \ X) \cup N
              /\ entryBar' = [p \in Pairs |-> IF p \in A THEN bar + 1 ELSE entryBar[p]]
              /\ \E r \in Result(X \cap open) : Earn(r - EntryCost * Cardinality(A))
  BY <1>1
<1>3. PICK N \in EntrySignals(listed, X) : \E A \in Accepted(N) :
              /\ open' = (open \ X) \cup A /\ active' = (active \ X) \cup N
              /\ entryBar' = [p \in Pairs |-> IF p \in A THEN bar + 1 ELSE entryBar[p]]
              /\ \E r \in Result(X \cap open) : Earn(r - EntryCost * Cardinality(A))
  BY <1>2
<1>4. PICK A \in Accepted(N) :
              /\ open' = (open \ X) \cup A /\ active' = (active \ X) \cup N
              /\ entryBar' = [p \in Pairs |-> IF p \in A THEN bar + 1 ELSE entryBar[p]]
              /\ \E r \in Result(X \cap open) : Earn(r - EntryCost * Cardinality(A))
  BY <1>3
<1>5. PICK r \in Result(X \cap open) : Earn(r - EntryCost * Cardinality(A))
  BY <1>4
<1>6. X \in SUBSET Pairs /\ N \in SUBSET Pairs /\ A \in SUBSET Pairs
  BY DEF Fields, ExitSignals, EntrySignals, Accepted
<1>7. r - EntryCost * Cardinality(A) \in Int
  BY <1>6, CostIsNumber, NumbersAreNumbers
<1>8. SignalStep(X, N, A, r - EntryCost * Cardinality(A))
  BY <1>4, <1>5 DEF SignalStep, ExitSignals, EntrySignals, Accepted
<1> QED
  BY <1>6, <1>7, <1>8

(***************************************************************************)
(* A visit of the loop after the last bar: S is closed.                    *)
(***************************************************************************)
VisitStep(S, r, u) ==
    /\ open' = open \ S /\ active' = active \ S
    /\ Earn(r)
    /\ value' = value + (realized + r) + (u - booked)
    /\ booked' = u

(***************************************************************************)
(* A visit after the last bar is such a step.                              *)
(***************************************************************************)
LEMMA VisitsTaken ==
    ASSUME Fields, NEW p, VisitOpen(p)
    PROVE  \E S \in SUBSET Pairs, r \in Int, u \in Int : VisitStep(S, r, u)
<1>1. PICK S \in SUBSET open :
          /\ open' = open \ S /\ active' = active \ S
          /\ \E r \in Result(S) \cup Gains \cup {0} : \E u \in Worth(open \ S) :
                /\ S # {} => r \in Gains
                /\ Earn(r)
                /\ value' = value + (realized + r) + (u - booked)
                /\ booked' = u
  BY DEF VisitOpen
<1>2. PICK r \in Result(S) \cup Gains \cup {0} : \E u \in Worth(open \ S) :
                /\ Earn(r)
                /\ value' = value + (realized + r) + (u - booked)
                /\ booked' = u
  BY <1>1
<1>3. PICK u \in Worth(open \ S) :
                /\ value' = value + (realized + r) + (u - booked)
                /\ booked' = u
  BY <1>2
<1>4. r \in Int /\ u \in Int /\ S \in SUBSET Pairs
  <2>1. Gains \subseteq Int /\ Result(S) \subseteq Int /\ Worth(open \ S) \subseteq Int
    <3>1. Gains \subseteq Int
      BY BacktestAssumption
    <3>2. Result(S) \subseteq Int
      BY <3>1 DEF Result
    <3>3. Worth(open \ S) \subseteq Int
      BY <3>1 DEF Worth
    <3> QED
      BY <3>1, <3>2, <3>3
  <2>2. r \in Int
    <3>1. r \in Result(S) \/ r \in Gains \/ r = 0
      OBVIOUS
    <3>2. CASE r \in Result(S)
      BY <2>1, <3>2, Zenon
    <3>3. CASE r \in Gains
      BY <2>1, <3>3, Zenon
    <3>4. CASE r = 0
      BY <3>4
    <3> QED
      BY <3>1, <3>2, <3>3, <3>4
  <2>3. u \in Int
    BY <2>1
  <2>4. S \in SUBSET Pairs
    BY DEF Fields
  <2> QED
    BY <2>2, <2>3, <2>4
<1>5. VisitStep(S, r, u)
  BY <1>1, <1>2, <1>3 DEF VisitStep
<1> QED
  BY <1>4, <1>5

(***************************************************************************)
(* Every step keeps the types.                                             *)
(***************************************************************************)
LEMMA FieldsStep ==
    ASSUME Fields, [BacktestNext]_backtestVars
    PROVE  Fields'
<1> USE DrawdownAssumption, BacktestAssumption, NumbersAreNumbers DEF Fields
<1>1. ASSUME BarHead, HaltedBar PROVE Fields'
  <2>1. mark' \in Navs /\ peak' \in Navs /\ mark' <= peak'
    BY <1>1, ReviewKeeps DEF BarHead
  <2> QED
    BY <1>1, <2>1 DEF BarHead, High, HaltedBar, NextBar, Record, Solvent
<1>2. ASSUME BarHead, HalvedBar PROVE Fields'
  <2>1. mark' \in Navs /\ peak' \in Navs /\ mark' <= peak'
    BY <1>2, ReviewKeeps DEF BarHead
  <2> QED
    BY <1>2, <2>1 DEF BarHead, High, HalvedBar
<1>3. ASSUME BarHead, TradedBar PROVE Fields'
  <2>1. mark' \in Navs /\ peak' \in Navs /\ mark' <= peak'
    BY <1>3, ReviewKeeps DEF BarHead
  <2> QED
    BY <1>3, <2>1 DEF BarHead, High, TradedBar, bookVars
<1>4. CASE StopLosses
  BY <1>4 DEF StopLosses, Earn, drawdownVars, peaks
<1>5. CASE Signals
  <2>1. PICK X \in SUBSET Pairs, N \in SUBSET Pairs, A \in SUBSET Pairs, r \in Int :
             SignalStep(X, N, A, r)
    BY <1>5, SignalsTaken
  <2>2. entryBar' \in [Pairs -> 0 .. LastBar]
    BY <2>1 DEF SignalStep
  <2> QED
    BY <1>5, <2>1, <2>2 DEF Signals, SignalStep, Earn, drawdownVars, peaks
<1>6. CASE Sweep
  BY <1>6 DEF Sweep, Earn, drawdownVars, peaks
<1>7. CASE MarkToMarket
  BY <1>7 DEF MarkToMarket, NextBar, Record, Solvent, drawdownVars, peaks
<1>8. ASSUME NEW p \in todo, AfterLoop, VisitOpen(p), todo' = todo \ {p} PROVE Fields'
  <2>1. PICK S \in SUBSET Pairs, r \in Int, u \in Int : VisitStep(S, r, u)
    BY <1>8, VisitsTaken
  <2> QED
    BY <1>8, <2>1 DEF AfterLoop, VisitOpen, VisitStep, Earn, Record, Solvent, drawdownVars, peaks
<1>9. ASSUME NEW p \in todo, AfterLoop, VisitClosed(p), todo' = todo \ {p} PROVE Fields'
  BY <1>9 DEF AfterLoop, VisitClosed, bookVars, accountVars, drawdownVars, peaks
<1>10. CASE ForceClose
  BY <1>10 DEF ForceClose, Solvent, drawdownVars, peaks
<1>11. CASE UNCHANGED backtestVars
  BY <1>11 DEF backtestVars, bookVars, accountVars, drawdownVars, peaks
<1> QED
  BY <1>1, <1>2, <1>3, <1>4, <1>5, <1>6, <1>7, <1>8, <1>9, <1>10, <1>11
     DEF BacktestNext, BarHead, AfterLoop

(***************************************************************************)
(* The types hold throughout.                                              *)
(***************************************************************************)
LEMMA FieldsInvariant == BacktestSpec => []Fields
<1>1. BacktestInit => Fields
  BY DrawdownAssumption, BacktestAssumption DEF BacktestInit, DrawdownInit, Fields
<1> QED
  BY <1>1, FieldsStep, PTL DEF BacktestSpec

(***************************************************************************)
(* The fields of the loop and of its drawdown manager stay in their types. *)
(***************************************************************************)
THEOREM BacktestTypeCorrect == BacktestSpec => []BacktestTypeOK
<1>1. Fields /\ DrawdownInv => BacktestTypeOK
  BY DEF Fields, DrawdownInv, BacktestTypeOK
<1> QED
  BY <1>1, FieldsInvariant, BarsAreJudged, DrawdownInductive, PTL

(***************************************************************************)
(* The strategy's own limit sees at least the drawdown the manager sees.   *)
(***************************************************************************)
THEOREM MarksStayUnderThePeak == BacktestSpec => []MarkUnderPeak
<1>1. Fields => MarkUnderPeak
  BY DEF Fields, MarkUnderPeak
<1> QED
  BY <1>1, FieldsInvariant, PTL

--------------------------------------------------------------------------------
(***************************************************************************)
(* The value can be explained by what was earned and what the book is      *)
(* worth, for any P&L, apart from what is counted twice on purpose of the  *)
(* history variable.                                                       *)
(***************************************************************************)
THEOREM AccountsBalance == BacktestSpec => []AccountsAgree
<1>1. BacktestInit => AccountsAgree
  BY DrawdownAssumption DEF BacktestInit, AccountsAgree, InsideBar
<1>2. Fields /\ AccountsAgree /\ [BacktestNext]_backtestVars => AccountsAgree'
  <2> SUFFICES ASSUME Fields, AccountsAgree, [BacktestNext]_backtestVars
               PROVE  AccountsAgree'
    OBVIOUS
  <2>0. /\ value \in Int /\ realized \in Int /\ booked \in Int
        /\ earned \in Int /\ misbooked \in Int /\ StartNav \in Int
    BY DrawdownAssumption DEF Fields
  <2> USE <2>0, NumbersAreNumbers DEF AccountsAgree, InsideBar
  <2>1. ASSUME BarHead, HaltedBar PROVE AccountsAgree'
    <3>1. PICK r \in Int : value' = value + r /\ earned' = earned + r
      BY <2>1 DEF HaltedBar
    <3>2. pc = "head" /\ pc' \in {"head", "end"}
      BY <2>1 DEF BarHead, HaltedBar, NextBar
    <3> QED
      BY <2>1, <3>1, <3>2 DEF HaltedBar
  <2>2. ASSUME BarHead, HalvedBar PROVE AccountsAgree'
    <3>1. PICK r \in Int : realized' = r /\ earned' = earned + r
      BY <2>2 DEF HalvedBar
    <3> QED
      BY <2>2, <3>1 DEF BarHead, HalvedBar
  <2>3. ASSUME BarHead, TradedBar PROVE AccountsAgree'
    BY <2>3 DEF BarHead, TradedBar
  <2>4. CASE StopLosses
    <3>1. PICK r \in Int : Earn(r)
      BY <2>4 DEF StopLosses
    <3> QED
      BY <2>4, <3>1 DEF StopLosses, Earn
  <2>5. CASE Signals
    <3>1. PICK r \in Int : Earn(r)
      BY <2>5, SignalsTaken DEF SignalStep
    <3> QED
      BY <2>5, <3>1 DEF Signals, Earn
  <2>6. CASE Sweep
    <3>1. PICK r \in Int : Earn(r)
      BY <2>6 DEF Sweep
    <3> QED
      BY <2>6, <3>1 DEF Sweep, Earn
  <2>7. CASE MarkToMarket
    <3>1. PICK u \in Int : value' = value + realized + (u - booked) /\ booked' = u
      BY <2>7 DEF MarkToMarket
    <3>2. pc = "mark" /\ pc' \in {"head", "end"}
      BY <2>7 DEF MarkToMarket, NextBar
    <3> QED
      BY <2>7, <3>1, <3>2 DEF MarkToMarket
  <2>8. ASSUME NEW p \in todo, AfterLoop, VisitOpen(p) PROVE AccountsAgree'
    <3>1. PICK S \in SUBSET Pairs, r \in Int, u \in Int : VisitStep(S, r, u)
      BY <2>8, VisitsTaken
    <3> QED
      BY <2>8, <3>1 DEF AfterLoop, VisitOpen, VisitStep, Earn
  <2>9. ASSUME NEW p \in todo, AfterLoop, VisitClosed(p) PROVE AccountsAgree'
    BY <2>9 DEF AfterLoop, VisitClosed, accountVars
  <2>10. CASE ForceClose
    <3>1. PICK r \in Int : value' = value + r /\ earned' = earned + r
      BY <2>10 DEF ForceClose
    <3> QED
      BY <2>10, <3>1 DEF ForceClose
  <2>11. CASE UNCHANGED backtestVars
    BY <2>11 DEF backtestVars, accountVars
  <2> QED
    BY <2>1, <2>2, <2>3, <2>4, <2>5, <2>6, <2>7, <2>8, <2>9, <2>10, <2>11
       DEF BacktestNext, BarHead, AfterLoop
<1> QED
  BY <1>1, <1>2, FieldsInvariant, PTL DEF BacktestSpec

(***************************************************************************)
(* The trades of the strategy contain the positions of the simulator, are  *)
(* the same when the book is marked, and fit its slots.                    *)
(***************************************************************************)
Books ==
    /\ open \subseteq active
    /\ pc = "mark" => active = open
    /\ Cardinality(active) <= Slots

(***************************************************************************)
(* A part of what fits the slots fits them as well.                        *)
(***************************************************************************)
LEMMA FewerFit ==
    ASSUME NEW A \in SUBSET Pairs, Cardinality(A) <= Slots, NEW T \in SUBSET A
    PROVE  Cardinality(T) <= Slots
<1>1. IsFiniteSet(A)
  BY BacktestAssumption, FS_Subset
<1>2. IsFiniteSet(T) /\ Cardinality(T) <= Cardinality(A)
  BY <1>1, FS_Subset
<1>3. Cardinality(T) \in Nat /\ Cardinality(A) \in Nat
  BY <1>1, <1>2, FS_CardinalityType
<1> QED
  BY <1>2, <1>3, BacktestAssumption

(***************************************************************************)
(* Every step keeps the two books together.                                *)
(***************************************************************************)
LEMMA BooksInvariant == BacktestSpec => []Books
<1>1. BacktestInit => Books
  BY FS_EmptySet, BacktestAssumption DEF BacktestInit, Books
<1>2. Fields /\ Books /\ [BacktestNext]_backtestVars => Books'
  <2> SUFFICES ASSUME Fields, Books, [BacktestNext]_backtestVars
               PROVE  Books'
    OBVIOUS
  <2>0. ASSUME NEW T \in SUBSET active PROVE Cardinality(T) <= Slots
    BY <2>0, FewerFit DEF Fields, Books
  <2> USE DEF Books
  <2>1. ASSUME BarHead, HaltedBar PROVE Books'
    BY <2>1 DEF HaltedBar, NextBar
  <2>2. ASSUME NEW S \in SUBSET open, open' = open \ S, active' = active \ S,
               pc' # "mark"
        PROVE  Books'
    BY <2>2, <2>0
  <2>3. ASSUME BarHead, HalvedBar PROVE Books'
    BY <2>2, <2>3 DEF HalvedBar
  <2>4. ASSUME BarHead, TradedBar PROVE Books'
    BY <2>4 DEF TradedBar, bookVars
  <2>5. CASE StopLosses
    BY <2>2, <2>5 DEF StopLosses
  <2>6. CASE Signals
    <3>1. PICK X \in SUBSET Pairs, N \in SUBSET Pairs, A \in SUBSET Pairs, r \in Int :
               SignalStep(X, N, A, r)
      BY <2>6, SignalsTaken
    <3>2. open' \subseteq active' /\ pc' = "sweep"
      BY <2>6, <3>1 DEF Signals, SignalStep
    <3>3. Cardinality(active') <= Slots
      BY <3>1, <2>0 DEF SignalStep
    <3> QED
      BY <3>2, <3>3
  <2>7. CASE Sweep
    <3>1. open' = open \ Overdue /\ active' = open \ Overdue /\ open' \in SUBSET active
      BY <2>7 DEF Sweep
    <3> QED
      BY <3>1, <2>0
  <2>8. CASE MarkToMarket
    BY <2>8 DEF MarkToMarket, NextBar
  <2>9. ASSUME NEW p \in todo, AfterLoop, VisitOpen(p) PROVE Books'
    <3>1. PICK S \in SUBSET open : open' = open \ S /\ active' = active \ S
      BY <2>9 DEF VisitOpen
    <3>2. pc' = "end"
      BY <2>9 DEF AfterLoop
    <3> QED
      BY <3>1, <3>2, <2>2
  <2>10. ASSUME NEW p \in todo, AfterLoop, VisitClosed(p) PROVE Books'
    BY <2>10 DEF AfterLoop, VisitClosed, bookVars
  <2>11. CASE ForceClose
    BY <2>11 DEF ForceClose
  <2>12. CASE UNCHANGED backtestVars
    BY <2>12 DEF backtestVars, bookVars
  <2> QED
    BY <2>1, <2>3, <2>4, <2>5, <2>6, <2>7, <2>8, <2>9, <2>10, <2>11, <2>12
       DEF BacktestNext, BarHead, AfterLoop
<1> QED
  BY <1>1, <1>2, FieldsInvariant, PTL DEF BacktestSpec

(***************************************************************************)
(* The strategy knows every position of the simulator, and believes in no  *)
(* other when a traded bar marks its book.                                 *)
(***************************************************************************)
THEOREM BooksAgree == BacktestSpec => []StrategyKnowsTheBook
<1>1. Books => StrategyKnowsTheBook
  BY DEF Books, StrategyKnowsTheBook
<1> QED
  BY <1>1, BooksInvariant, PTL

(***************************************************************************)
(* The limit the strategy keeps on its trades bounds the positions.        *)
(***************************************************************************)
THEOREM SlotsSuffice == BacktestSpec => []PositionsWithinSlots
<1>1. Fields /\ Books => PositionsWithinSlots
  BY FewerFit DEF Fields, Books, PositionsWithinSlots
<1> QED
  BY <1>1, FieldsInvariant, BooksInvariant, PTL

--------------------------------------------------------------------------------
(***************************************************************************)
(* A stop leaves the loop at the head of a bar, with nothing open.         *)
(***************************************************************************)
StoppedFlat == verdict = "stop" => open = {} /\ ~InsideBar

(***************************************************************************)
(* While the drawdown manager says stop, nothing is open.                  *)
(***************************************************************************)
THEOREM StopsAreFlat == BacktestSpec => []FlatWhileStopped
<1>1. BacktestInit => StoppedFlat
  BY DEF BacktestInit, DrawdownInit, StoppedFlat
<1>2. StoppedFlat /\ [BacktestNext]_backtestVars => StoppedFlat'
  <2> SUFFICES ASSUME StoppedFlat, [BacktestNext]_backtestVars
               PROVE  StoppedFlat'
    OBVIOUS
  <2> USE DEF StoppedFlat, InsideBar
  <2>1. ASSUME BarHead, HaltedBar PROVE StoppedFlat'
    BY <2>1 DEF HaltedBar, NextBar
  <2>2. ASSUME BarHead, HalvedBar PROVE StoppedFlat'
    BY <2>2 DEF HalvedBar
  <2>3. ASSUME BarHead, TradedBar PROVE StoppedFlat'
    BY <2>3 DEF TradedBar
  <2>4. CASE StopLosses \/ Signals \/ Sweep \/ MarkToMarket
    BY <2>4 DEF StopLosses, Signals, Sweep, MarkToMarket, drawdownVars
  <2>5. ASSUME NEW p \in todo, AfterLoop, VisitOpen(p) PROVE StoppedFlat'
    BY <2>5 DEF AfterLoop, VisitOpen, drawdownVars
  <2>6. ASSUME NEW p \in todo, AfterLoop, VisitClosed(p) PROVE StoppedFlat'
    BY <2>6 DEF AfterLoop, VisitClosed, bookVars, drawdownVars
  <2>7. CASE ForceClose
    BY <2>7 DEF ForceClose, drawdownVars
  <2>8. CASE UNCHANGED backtestVars
    BY <2>8 DEF backtestVars, bookVars, drawdownVars
  <2> QED
    BY <2>1, <2>2, <2>3, <2>4, <2>5, <2>6, <2>7, <2>8 DEF BacktestNext, BarHead, AfterLoop
<1>3. StoppedFlat => FlatWhileStopped
  BY DEF StoppedFlat, FlatWhileStopped
<1> QED
  BY <1>1, <1>2, <1>3, PTL DEF BacktestSpec

(***************************************************************************)
(* The clocks of a bar: between signals and marks a position may wait for  *)
(* its fill at the next bar, elsewhere it is filled; none is marked at its *)
(* time limit, so that the next bar finds none past it.                    *)
(***************************************************************************)
Clocks ==
    /\ pc \in {"head", "stops", "signals", "end"} => \A p \in open : entryBar[p] <= bar
    /\ \A p \in open : entryBar[p] <= bar + 1
    /\ pc = "mark" => \A p \in open : bar - entryBar[p] < HoldLimit[p]
    /\ HoldingIsBounded

(***************************************************************************)
(* The age of a position is a difference of numbers.                       *)
(***************************************************************************)
LEMMA AgesAreNumbers ==
    ASSUME Fields, NEW p \in Pairs
    PROVE  bar \in Nat /\ entryBar[p] \in Nat /\ HoldLimit[p] \in Nat /\ HoldLimit[p] > 0
BY BacktestAssumption DEF Fields

(***************************************************************************)
(* Every step keeps the clocks.                                            *)
(***************************************************************************)
LEMMA ClocksInvariant == BacktestSpec => []Clocks
<1> USE BacktestAssumption
<1>1. BacktestInit => Clocks
  BY DEF BacktestInit, Clocks, HoldingIsBounded
<1>2. Fields /\ Clocks /\ [BacktestNext]_backtestVars => Clocks'
  <2> SUFFICES ASSUME Fields, Clocks, [BacktestNext]_backtestVars
               PROVE  Clocks'
    OBVIOUS
  <2>0. ASSUME entryBar' = entryBar, bar' = bar, open' \subseteq open,
               \/ pc = "head" /\ pc' = "stops"
               \/ pc = "stops" /\ pc' = "signals"
               \/ pc = "end" /\ pc' \in {"end", "done"}
        PROVE  Clocks'
    BY <2>0 DEF Clocks, HoldingIsBounded
  <2>1. ASSUME BarHead, HaltedBar PROVE Clocks'
    <3>1. open' = {}
      BY <2>1 DEF HaltedBar
    <3> QED
      BY <3>1 DEF Clocks, HoldingIsBounded
  <2>2. ASSUME BarHead, HalvedBar PROVE Clocks'
    BY <2>0, <2>2 DEF BarHead, HalvedBar
  <2>3. ASSUME BarHead, TradedBar PROVE Clocks'
    BY <2>0, <2>3 DEF BarHead, TradedBar, bookVars
  <2>4. CASE StopLosses
    BY <2>0, <2>4 DEF StopLosses
  <2>5. CASE Signals
    <3>1. PICK X \in SUBSET Pairs, N \in SUBSET Pairs, A \in SUBSET Pairs, r \in Int :
               SignalStep(X, N, A, r)
      BY <2>5, SignalsTaken
    <3>2. ASSUME NEW p \in open'
          PROVE  entryBar'[p] <= bar + 1 /\ bar - entryBar'[p] <= HoldLimit[p]
      <4>1. p \in Pairs /\ (p \in A \/ p \in open)
        BY <3>1 DEF SignalStep, Fields
      <4>2. bar \in Nat /\ HoldLimit[p] \in Nat
        BY <4>1, AgesAreNumbers
      <4>3. CASE p \in A
        <5>1. entryBar'[p] = bar + 1
          BY <3>1, <4>1, <4>3 DEF SignalStep, Fields
        <5> QED
          BY <4>2, <5>1
      <4>4. CASE p \notin A
        <5>1. entryBar'[p] = entryBar[p] /\ p \in open
          BY <3>1, <4>1, <4>4 DEF SignalStep, Fields
        <5> QED
          BY <5>1 DEF Clocks, HoldingIsBounded
      <4> QED
        BY <4>3, <4>4
    <3> QED
      BY <2>5, <3>2 DEF Signals, Clocks, HoldingIsBounded
  <2>6. CASE Sweep
    <3>1. ASSUME NEW p \in open' PROVE bar - entryBar[p] < HoldLimit[p] /\ p \in open
      <4>1. p \in open /\ ~(bar - entryBar[p] >= HoldLimit[p])
        BY <2>6 DEF Sweep, Overdue
      <4> QED
        BY <4>1, AgesAreNumbers DEF Fields
    <3> QED
      BY <2>6, <3>1 DEF Sweep, Clocks, HoldingIsBounded
  <2>7. CASE MarkToMarket
    <3>1. pc = "mark" /\ open' = open /\ entryBar' = entryBar /\ pc' \in {"head", "end"}
          /\ (bar' = bar + 1 \/ (bar' = bar /\ bar = LastBar))
      BY <2>7 DEF MarkToMarket, NextBar, Fields
    <3>2. ASSUME NEW p \in open
          PROVE  entryBar[p] <= bar' /\ bar' - entryBar[p] <= HoldLimit[p]
      <4>1. /\ bar \in Nat /\ entryBar[p] \in Nat /\ HoldLimit[p] \in Nat
            /\ entryBar[p] <= LastBar
        BY AgesAreNumbers DEF Fields
      <4>2. entryBar[p] <= bar + 1 /\ bar - entryBar[p] < HoldLimit[p]
        BY <3>1 DEF Clocks
      <4> QED
        BY <3>1, <4>1, <4>2
    <3>3. ASSUME NEW p \in open PROVE entryBar[p] <= bar' + 1
      <4>1. bar' \in Nat /\ entryBar[p] \in Nat
        BY <3>1, AgesAreNumbers DEF Fields
      <4> QED
        BY <3>2, <4>1
    <3> QED
      BY <3>1, <3>2, <3>3 DEF Clocks, HoldingIsBounded
  <2>8. ASSUME NEW p \in todo, AfterLoop, VisitOpen(p) PROVE Clocks'
    BY <2>0, <2>8 DEF AfterLoop, VisitOpen
  <2>9. ASSUME NEW p \in todo, AfterLoop, VisitClosed(p) PROVE Clocks'
    BY <2>0, <2>9 DEF AfterLoop, VisitClosed, bookVars
  <2>10. CASE ForceClose
    BY <2>0, <2>10 DEF ForceClose
  <2>11. CASE UNCHANGED backtestVars
    BY <2>11 DEF backtestVars, bookVars, Clocks, HoldingIsBounded
  <2> QED
    BY <2>1, <2>2, <2>3, <2>4, <2>5, <2>6, <2>7, <2>8, <2>9, <2>10, <2>11
       DEF BacktestNext, BarHead, AfterLoop
<1> QED
  BY <1>1, <1>2, FieldsInvariant, PTL DEF BacktestSpec

(***************************************************************************)
(* No position outlives its time limit, for any limits of the pairs.       *)
(***************************************************************************)
THEOREM HoldingsAreBounded == BacktestSpec => []HoldingIsBounded
<1>1. Clocks => HoldingIsBounded
  BY DEF Clocks
<1> QED
  BY <1>1, ClocksInvariant, PTL

(***************************************************************************)
(* The returns after the last bar: the pairs yet to be visited were open   *)
(* then, each adds one return at most, and they fit the slots.             *)
(***************************************************************************)
Tail ==
    /\ ReturnsCoverTheWindow
    /\ pc = "end" => returns + Cardinality(todo) <= WindowTo(LastBar) + Slots

(***************************************************************************)
(* The end of a bar: its return is recorded, and the positions that the    *)
(* last one leaves fit the slots.                                          *)
(***************************************************************************)
LEMMA BarsEnd ==
    ASSUME Fields, Fields', Books', NextBar, Record, ReturnsCoverTheWindow,
           pc = "head" \/ InsideBar
    PROVE  Tail'
<1> USE BacktestAssumption DEF Fields
<1>1. returns' = WindowTo(bar) /\ returns' \in Nat
  BY DEF Record, ReturnsCoverTheWindow, WindowTo
<1>2. CASE pc' = "head" /\ bar' = bar + 1
  <2>1. bar' - 1 = bar
    BY <1>2
  <2>2. ReturnsCoverTheWindow'
    BY <1>1, <1>2, <2>1 DEF ReturnsCoverTheWindow, InsideBar, WindowTo
  <2> QED
    BY <1>2, <2>2 DEF Tail
<1>3. CASE pc' = "end" /\ bar = LastBar /\ todo' = open'
  <2>1. Cardinality(todo') <= Slots
    BY <1>3, FewerFit DEF Books
  <2>2. Cardinality(todo') \in Nat
    BY FS_Subset, FS_CardinalityType
  <2>3. ReturnsCoverTheWindow'
    BY <1>1, <1>3 DEF ReturnsCoverTheWindow, InsideBar, WindowTo
  <2> QED
    BY <1>1, <1>3, <2>1, <2>2, <2>3 DEF Tail, WindowTo
<1> QED
  BY <1>2, <1>3 DEF NextBar

(***************************************************************************)
(* Every step keeps the count of the returns.                              *)
(***************************************************************************)
LEMMA TailInvariant == BacktestSpec => []Tail
<1> USE BacktestAssumption
<1>1. BacktestInit => Tail
  BY DEF BacktestInit, Tail, ReturnsCoverTheWindow, InsideBar, WindowTo
<1>2. Fields /\ Fields' /\ Books' /\ Tail /\ [BacktestNext]_backtestVars => Tail'
  <2> SUFFICES ASSUME Fields, Fields', Books', Tail, [BacktestNext]_backtestVars
               PROVE  Tail'
    OBVIOUS
  <2>0. ASSUME bar' = bar, returns' = returns, todo' = todo,
               pc = "head" \/ InsideBar, InsideBar'
        PROVE  Tail'
    BY <2>0 DEF Tail, ReturnsCoverTheWindow, InsideBar
  <2>1. ASSUME BarHead, HaltedBar PROVE Tail'
    BY <2>1, BarsEnd DEF BarHead, HaltedBar, Tail
  <2>2. ASSUME BarHead, HalvedBar PROVE Tail'
    BY <2>0, <2>2 DEF BarHead, HalvedBar, InsideBar
  <2>3. ASSUME BarHead, TradedBar PROVE Tail'
    BY <2>0, <2>3 DEF BarHead, TradedBar, InsideBar
  <2>4. CASE StopLosses \/ Signals \/ Sweep
    BY <2>0, <2>4 DEF StopLosses, Signals, Sweep, InsideBar
  <2>5. CASE MarkToMarket
    BY <2>5, BarsEnd DEF MarkToMarket, InsideBar, Tail
  <2>6. ASSUME NEW p \in todo, AfterLoop, todo' = todo \ {p},
               returns' \in {returns, returns + 1}
        PROVE  Tail'
    <3>1. pc = "end" /\ pc' = "end"
      BY <2>6 DEF AfterLoop
    <3>2. IsFiniteSet(todo)
      BY FS_Subset DEF Fields
    <3>3. Cardinality(todo') = Cardinality(todo) - 1
      BY <2>6, <3>2, FS_RemoveElement
    <3>4. Cardinality(todo) \in Nat /\ Cardinality(todo') \in Nat
      BY <2>6, <3>2, FS_RemoveElement, FS_CardinalityType
    <3>5. returns \in Nat /\ WindowTo(LastBar) \in Nat
      BY DEF Fields, WindowTo
    <3>6. /\ returns + Cardinality(todo) <= WindowTo(LastBar) + Slots
          /\ WindowTo(LastBar) <= returns
      BY <3>1, <3>5 DEF Tail, ReturnsCoverTheWindow
    <3>7. returns' + Cardinality(todo') <= WindowTo(LastBar) + Slots
      BY <2>6, <3>3, <3>4, <3>5, <3>6
    <3>8. returns' \in WindowTo(LastBar) .. WindowTo(LastBar) + Slots
      BY <2>6, <3>4, <3>5, <3>6, <3>7
    <3> QED
      BY <3>1, <3>7, <3>8 DEF Tail, ReturnsCoverTheWindow, InsideBar
  <2>7. ASSUME NEW p \in todo, AfterLoop, VisitOpen(p), todo' = todo \ {p} PROVE Tail'
    BY <2>6, <2>7 DEF VisitOpen, Record
  <2>8. ASSUME NEW p \in todo, AfterLoop, VisitClosed(p), todo' = todo \ {p} PROVE Tail'
    BY <2>6, <2>8 DEF VisitClosed
  <2>9. CASE ForceClose
    <3>1. pc = "end" /\ pc' = "done" /\ returns' \in {returns, returns + 1}
      BY <2>9 DEF ForceClose
    <3>2. returns \in Nat /\ WindowTo(LastBar) \in Nat
      BY DEF Fields, WindowTo
    <3> QED
      BY <3>1, <3>2 DEF Tail, ReturnsCoverTheWindow, InsideBar
  <2>10. CASE UNCHANGED backtestVars
    BY <2>10 DEF backtestVars, Tail, ReturnsCoverTheWindow, InsideBar
  <2> QED
    BY <2>1, <2>2, <2>3, <2>4, <2>5, <2>7, <2>8, <2>9, <2>10
       DEF BacktestNext, BarHead, AfterLoop
<1> QED
  BY <1>1, <1>2, FieldsInvariant, BooksInvariant, PTL DEF BacktestSpec

(***************************************************************************)
(* The out-of-sample window has one return for each of its bars, and at    *)
(* most Slots + 1 more when the run ends.                                  *)
(***************************************************************************)
THEOREM ReturnsAreComplete == BacktestSpec => []ReturnsCoverTheWindow
<1>1. Tail => ReturnsCoverTheWindow
  BY DEF Tail
<1> QED
  BY <1>1, TailInvariant, PTL

(***************************************************************************)
(* No position is closed before the bar that fills it.                     *)
(***************************************************************************)
THEOREM FillsComeFirst == BacktestSpec => FilledBeforeClosed
<1>1. Fields /\ Clocks /\ [BacktestNext]_backtestVars
        => [\A p \in open \ open' : entryBar[p] <= bar]_backtestVars
  <2> SUFFICES ASSUME Fields, Clocks, BacktestNext, NEW p \in open, p \notin open'
               PROVE  entryBar[p] <= bar
    OBVIOUS
  <2>1. CASE pc \in {"head", "stops", "signals", "end"}
    BY <2>1 DEF Clocks
  <2>2. CASE Sweep
    <3>1. bar - entryBar[p] >= HoldLimit[p]
      BY <2>2 DEF Sweep, Overdue
    <3>2. HoldLimit[p] \in Nat /\ entryBar[p] \in Nat /\ bar \in Nat
      BY BacktestAssumption DEF Fields
    <3> QED
      BY <3>1, <3>2
  <2>3. CASE MarkToMarket
    BY <2>3 DEF MarkToMarket
  <2> QED
    BY <2>1, <2>2, <2>3 DEF BacktestNext, BarHead, StopLosses, Signals, AfterLoop, ForceClose
<1> QED
  BY <1>1, FieldsInvariant, ClocksInvariant, PTL DEF BacktestSpec, FilledBeforeClosed

--------------------------------------------------------------------------------
(***************************************************************************)
(* A drawdown under a mark is one under a higher mark as well: thresholds  *)
(* are at most the whole of the mark.                                      *)
(***************************************************************************)
LEMMA HigherMarksLoseMore ==
    ASSUME NEW m \in Nat, NEW h \in Nat, NEW n \in Nat, m <= h, NEW k \in 1 .. 4,
           Below(k, m, n)
    PROVE  Below(k, h, n)
<1>1. Tiers[k] \in Nat /\ Tiers[k] <= 100
  BY DrawdownAssumption
<1>2. PICK d \in Nat : h = m + d
  BY SMT
<1>3. Tiers[k] * h = Tiers[k] * m + Tiers[k] * d
  BY <1>1, <1>2
<1>4. Tiers[k] * d <= 100 * d
  BY <1>1, <1>2
<1>5. Tiers[k] * m \in Nat /\ Tiers[k] * d \in Nat
  BY <1>1, <1>2
<1> QED
  BY <1>2, <1>3, <1>4, <1>5 DEF Below

(***************************************************************************)
(* In the window the marks of the loop and of the strategy are memories of *)
(* the window: once its first bar is reviewed, the strategy's peak is the  *)
(* highest value a bar began with, and the loop's mark is not above it.    *)
(***************************************************************************)
OwnPeaks ==
    bar > OosBar \/ (bar = OosBar /\ pc # "head") => mark <= high /\ peak = high

(***************************************************************************)
(* What the head of a bar of the window does to the three memories, and    *)
(* why it stops.                                                           *)
(***************************************************************************)
LEMMA HeadsOfTheWindow ==
    ASSUME Fields, DrawdownInv, OwnPeaks, BarHead, bar >= OosBar
    PROVE  /\ mark' <= high' /\ peak' = high'
           /\ verdict' = "stop" => \/ Below(3, high', value)
                                   \/ verdict = "stop" /\ bar > OosBar
<1> USE DrawdownAssumption, BacktestAssumption DEF Fields
<1>0. /\ bar \in Nat /\ OosBar \in Nat /\ pc = "head"
      /\ value \in Nat /\ mark \in Nat /\ peak \in Nat /\ high \in Nat
  BY DEF BarHead
<1>1. CASE bar = OosBar
  <2>1. mark' = value /\ peak' = value /\ verdict' = "go" /\ high' = value
    BY <1>0, <1>1 DEF BarHead, Review, ResetAll, High
  <2> QED
    BY <1>0, <2>1
<1>2. CASE bar > OosBar
  <2>1. mark <= high /\ peak = high
    BY <1>2 DEF OwnPeaks
  <2>2. /\ Judge(value) /\ peak' = (IF value > peak THEN value ELSE peak)
        /\ high' = IF value > high THEN value ELSE high
    BY <1>0, <1>2 DEF BarHead, Review, High
  <2>3. peak' = high' /\ high' \in Nat /\ value <= high'
    BY <1>0, <2>1, <2>2
  <2>4. PICK m \in {value, mark} :
            /\ Bar(value, m)
            /\ \/ CoolDown(value, m) \/ Resume(value, m) \/ FullStop(value, m)
               \/ CloseAll(value, m) \/ CloseHalf(value, m) \/ Reduce(value, m)
               \/ Normal(value, m)
    BY <2>2 DEF Judge
  <2>5. m \in Nat /\ m <= high'
    BY <1>0, <2>1, <2>2, <2>4
  <2>6. mark' = m \/ mark' = value
    BY <2>4 DEF CoolDown, Resume, FullStop, CloseAll, CloseHalf, Reduce, Normal
  <2>7. mark' <= high'
    BY <2>3, <2>5, <2>6
  <2>8. ASSUME verdict' = "stop" PROVE Below(3, m, value) \/ verdict = "stop"
    <3>1. CASE CoolDown(value, m)
      BY <3>1 DEF CoolDown, DrawdownInv, DrawdownTypeOK
    <3>2. CASE FullStop(value, m) /\ latched
      BY <3>2 DEF DrawdownInv
    <3>3. CASE FullStop(value, m) /\ ~latched
      <4>1. Below(4, m, value)
        BY <3>3 DEF FullStop
      <4>2. /\ Tiers[3] \in Nat /\ Tiers[4] \in Nat /\ Tiers[3] <= Tiers[4]
        OBVIOUS
      <4>3. Tiers[3] * m <= Tiers[4] * m /\ Tiers[3] * m \in Nat /\ Tiers[4] * m \in Nat
        BY <2>5, <4>2
      <4> QED
        BY <1>0, <2>5, <4>1, <4>3 DEF Below
    <3>4. CASE CloseAll(value, m)
      BY <3>4 DEF CloseAll
    <3>5. CASE Resume(value, m) \/ CloseHalf(value, m) \/ Reduce(value, m) \/ Normal(value, m)
      BY <2>8, <3>5 DEF Resume, CloseHalf, Reduce, Normal
    <3> QED
      BY <2>4, <3>1, <3>2, <3>3, <3>4, <3>5
  <2>9. ASSUME Below(3, m, value) PROVE Below(3, high', value)
    BY <1>0, <2>3, <2>5, <2>9, HigherMarksLoseMore
  <2> QED
    BY <1>2, <2>3, <2>7, <2>8, <2>9
<1> QED
  BY <1>0, <1>1, <1>2

(***************************************************************************)
(* The three memories stay those of the window.                            *)
(***************************************************************************)
LEMMA PeaksInvariant == BacktestSpec => []OwnPeaks
<1>1. BacktestInit => OwnPeaks
  BY BacktestAssumption DEF BacktestInit, OwnPeaks
<1>2. Fields /\ DrawdownInv /\ OwnPeaks /\ [BacktestNext]_backtestVars => OwnPeaks'
  <2> SUFFICES ASSUME Fields, DrawdownInv, OwnPeaks, [BacktestNext]_backtestVars
               PROVE  OwnPeaks'
    OBVIOUS
  <2>0. bar \in Nat /\ OosBar \in Nat
    BY BacktestAssumption DEF Fields
  <2>1. CASE BarHead
    <3>1. CASE bar >= OosBar
      BY <2>1, <3>1, HeadsOfTheWindow DEF OwnPeaks
    <3>2. CASE bar < OosBar
      <4>1. bar' = bar \/ (bar' = bar + 1 /\ pc' = "head")
        BY <2>1 DEF BarHead, HaltedBar, HalvedBar, TradedBar, NextBar
      <4> QED
        BY <2>0, <3>2, <4>1 DEF OwnPeaks
    <3> QED
      BY <2>0, <3>1, <3>2
  <2>2. CASE StopLosses \/ Signals \/ Sweep \/ AfterLoop \/ ForceClose
    <3>1. /\ UNCHANGED <<drawdownVars, peaks, bar>> /\ pc # "head"
      BY <2>2 DEF StopLosses, Signals, Sweep, AfterLoop, ForceClose
    <3> QED
      BY <3>1 DEF OwnPeaks, drawdownVars, peaks
  <2>3. CASE MarkToMarket
    <3>1. /\ UNCHANGED <<drawdownVars, peaks>> /\ pc # "head"
          /\ bar' = bar \/ (bar' = bar + 1 /\ pc' = "head")
      BY <2>3 DEF MarkToMarket, NextBar
    <3> QED
      BY <2>0, <3>1 DEF OwnPeaks, drawdownVars, peaks
  <2>4. CASE UNCHANGED backtestVars
    BY <2>4 DEF backtestVars, drawdownVars, peaks, OwnPeaks
  <2> QED
    BY <2>1, <2>2, <2>3, <2>4 DEF BacktestNext
<1>3. BacktestSpec => []DrawdownInv
  BY BarsAreJudged, DrawdownInductive, PTL
<1> QED
  BY <1>1, <1>2, <1>3, FieldsInvariant, PTL DEF BacktestSpec

(***************************************************************************)
(* In the out-of-sample window a bar is halted, and the strategy refuses   *)
(* entries, only for what the window itself has lost, for any tiers and    *)
(* limits, any boundary and any P&L.                                       *)
(***************************************************************************)
THEOREM WindowsStartAfresh == BacktestSpec => OnlyLossesOfTheWindowStop
<1>1. Fields /\ DrawdownInv /\ OwnPeaks /\ [BacktestNext]_backtestVars
        => [BarHead /\ bar >= OosBar =>
              /\ verdict' = "stop" => \/ Below(3, high', value)
                                      \/ verdict = "stop" /\ bar > OosBar
              /\ Blocked(peak', value) => Blocked(high', value)]_backtestVars
  <2> SUFFICES ASSUME Fields, DrawdownInv, OwnPeaks, BarHead, bar >= OosBar
               PROVE  /\ verdict' = "stop" => \/ Below(3, high', value)
                                              \/ verdict = "stop" /\ bar > OosBar
                      /\ Blocked(peak', value) => Blocked(high', value)
    OBVIOUS
  <2> QED
    BY HeadsOfTheWindow
<1>2. BacktestSpec => []DrawdownInv
  BY BarsAreJudged, DrawdownInductive, PTL
<1> QED
  BY <1>1, <1>2, FieldsInvariant, PeaksInvariant, PTL
     DEF BacktestSpec, OnlyLossesOfTheWindowStop
================================================================================
