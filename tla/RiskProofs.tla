------------------------------- MODULE RiskProofs -------------------------------
(***************************************************************************)
(* Theorems about the portfolio gate, for any equities, losses and limits, *)
(* and about the blacklist, for any pairs, limits and dates.               *)
(***************************************************************************)
EXTENDS PortfolioRisk, Blacklist, TLAPS

--------------------------------------------------------------------------------
(***************************************************************************)
(* What the portfolio gate knows of the day and of the halt: a passed      *)
(* limit has halted it, and the losses on record are those of today unless *)
(* the record is of another day, when there are none today.                *)
(***************************************************************************)
PortfolioInv ==
    /\ PortfolioTypeOK
    /\ equity <= peak
    /\ breached => halted
    /\ staleDate => lossToday = 0
    /\ ~staleDate => dailyLoss = lossToday

(***************************************************************************)
(* So _maybe_reset_daily() leaves the losses of today on record.           *)
(***************************************************************************)
LEMMA OnRecordIsToday ==
    ASSUME PortfolioInv
    PROVE  OnRecord = lossToday
BY DEF PortfolioInv, OnRecord

(***************************************************************************)
(* The invariant of the portfolio gate is inductive: every operation keeps *)
(* the record of the day, as record_trade_result() resets it first.        *)
(***************************************************************************)
LEMMA PortfolioInductive ==
    PortfolioSpec => []PortfolioInv
<1>1. PortfolioInit => PortfolioInv
  <2> SUFFICES ASSUME PortfolioInit
               PROVE  PortfolioInv
    OBVIOUS
  <2>1. ~staleDate /\ ~breached /\ ~halted
    BY DEF PortfolioInit
  <2>2. /\ staleDate \in BOOLEAN /\ halted \in BOOLEAN /\ breached \in BOOLEAN
    BY Zenon DEF PortfolioInit
  <2> QED
    BY <2>1, <2>2, PortfolioAssumption DEF PortfolioInit, PortfolioInv, PortfolioTypeOK
<1>2. PortfolioInv /\ [PortfolioNext]_portfolioVars => PortfolioInv'
  <2> SUFFICES ASSUME PortfolioInv, [PortfolioNext]_portfolioVars
               PROVE  PortfolioInv'
    OBVIOUS
  <2>0. OnRecord = lossToday
    BY OnRecordIsToday
  <2> USE PortfolioAssumption DEF PortfolioInv, PortfolioTypeOK
  <2>1. ASSUME NEW e \in Equities, UpdateEquity(e)
        PROVE  PortfolioInv'
    BY <2>1 DEF UpdateEquity
  <2>2. ASSUME NEW n \in 0 .. MaxPositions, SetOpenPositions(n)
        PROVE  PortfolioInv'
    BY <2>2 DEF SetOpenPositions
  <2>3. ASSUME NEW l \in Losses, RecordLoss(l)
        PROVE  PortfolioInv'
    <3>1. dailyLoss' = lossToday + l /\ lossToday' = lossToday + l
      BY <2>0, <2>3 DEF RecordLoss
    <3>2. ~staleDate' /\ staleDate' \in BOOLEAN
      BY <2>3, Zenon DEF RecordLoss
    <3>3. breached' => halted'
      BY <2>0, <2>3 DEF RecordLoss
    <3>4. breached' \in BOOLEAN /\ halted' \in BOOLEAN
      BY <2>3 DEF RecordLoss
    <3>5. /\ UNCHANGED <<equity, peak, open>>
          /\ streak' \in 0 .. MaxStreak
          /\ cooldown' \in 0 .. CooldownBars
          /\ lossToday' <= LossBound
      BY <2>3, <3>1 DEF RecordLoss
    <3> QED
      BY <3>1, <3>2, <3>3, <3>4, <3>5
  <2>4. CASE RecordGain
    <3>1. dailyLoss' = lossToday /\ lossToday' = lossToday
      BY <2>0, <2>4 DEF RecordGain
    <3>2. ~staleDate' /\ staleDate' \in BOOLEAN
      BY <2>4, Zenon DEF RecordGain
    <3>3. breached' => halted'
      BY <2>0, <2>4 DEF RecordGain
    <3>4. breached' \in BOOLEAN /\ halted' \in BOOLEAN
      BY <2>4 DEF RecordGain
    <3>5. /\ UNCHANGED <<equity, peak, open>>
          /\ streak' \in 0 .. MaxStreak
          /\ cooldown' \in 0 .. CooldownBars
      BY <2>4 DEF RecordGain
    <3> QED
      BY <3>1, <3>2, <3>3, <3>4, <3>5
  <2>5. CASE CanOpenPosition
    BY <2>5 DEF CanOpenPosition, OnRecord
  <2>6. CASE GetState
    <3>1. dailyLoss' = lossToday
      BY <2>0, <2>6 DEF GetState
    <3>2. ~staleDate' /\ staleDate' \in BOOLEAN
      BY <2>6, Zenon DEF GetState
    <3> QED
      BY <2>6, <3>1, <3>2 DEF GetState
  <2>7. CASE ManualReset
    <3>1. ~breached' /\ breached' \in BOOLEAN /\ halted' \in BOOLEAN
      BY <2>7, Zenon DEF ManualReset
    <3> QED
      BY <2>7, <3>1 DEF ManualReset
  <2>8. CASE Midnight
    <3>1. staleDate' /\ staleDate' \in BOOLEAN
      BY <2>8, Zenon DEF Midnight
    <3> QED
      BY <2>8, <3>1 DEF Midnight
  <2>9. CASE UNCHANGED portfolioVars
    BY <2>9 DEF portfolioVars
  <2> QED
    BY <2>1, <2>2, <2>3, <2>4, <2>5, <2>6, <2>7, <2>8, <2>9 DEF PortfolioNext
<1> QED
  BY <1>1, <1>2, PTL DEF PortfolioSpec

(***************************************************************************)
(* The fields of PortfolioRiskManager stay in their types; in particular   *)
(* the losses on record never exceed those of the day.                     *)
(***************************************************************************)
THEOREM PortfolioTypeCorrect == PortfolioSpec => []PortfolioTypeOK
<1>1. PortfolioInv => PortfolioTypeOK
  BY DEF PortfolioInv
<1> QED
  BY <1>1, PortfolioInductive, PTL

(***************************************************************************)
(* can_open_position() approves only when no limit was passed since the    *)
(* operator's reset and today's losses are within theirs.                  *)
(***************************************************************************)
THEOREM ApprovalsAreDeserved == PortfolioSpec => []ApprovalIsDeserved
<1>1. PortfolioInv => ApprovalIsDeserved
  BY OnRecordIsToday DEF PortfolioInv, ApprovalIsDeserved, Approves, Within
<1> QED
  BY <1>1, PortfolioInductive, PTL

(***************************************************************************)
(* Only a recovery of the equity ends a drawdown, manual_reset() does not. *)
(***************************************************************************)
THEOREM DrawdownsStand == PortfolioSpec => DrawdownStands
<1>1. PortfolioInv /\ [PortfolioNext]_portfolioVars
        => [DrawdownBreach(peak, equity) /\ ~DrawdownBreach(peak', equity')
              => equity' > equity]_portfolioVars
  <2> SUFFICES ASSUME PortfolioInv, PortfolioNext,
                      DrawdownBreach(peak, equity), ~DrawdownBreach(peak', equity')
               PROVE  equity' > equity
    OBVIOUS
  <2>1. ASSUME NEW e \in Equities, UpdateEquity(e)
        PROVE  equity' > equity
    <3>1. equity \in Nat /\ peak \in Nat /\ e \in Nat /\ MaxDrawdown \in Nat /\ equity <= peak
      BY PortfolioAssumption DEF PortfolioInv, PortfolioTypeOK
    <3>2. ASSUME e <= equity
          PROVE  FALSE
      <4>1. equity' = e /\ peak' = peak
        BY <2>1, <3>1, <3>2 DEF UpdateEquity
      <4>2. (peak - equity) * 100 <= (peak - e) * 100
        BY <3>1, <3>2
      <4>3. MaxDrawdown * peak \in Int
        BY <3>1
      <4>4. (peak - e) * 100 >= MaxDrawdown * peak
        <5>1. (peak - equity) * 100 >= MaxDrawdown * peak
          BY DEF DrawdownBreach
        <5> QED
          BY <3>1, <4>2, <4>3, <5>1
      <4> QED
        BY <4>1, <4>4 DEF DrawdownBreach
    <3> QED
      BY <2>1, <3>1, <3>2 DEF UpdateEquity
  <2>2. ASSUME peak' = peak, equity' = equity
        PROVE  FALSE
    BY <2>2 DEF DrawdownBreach
  <2> QED
    BY <2>1, <2>2 DEF PortfolioNext, SetOpenPositions, RecordLoss, RecordGain,
       CanOpenPosition, GetState, ManualReset, Midnight
<1> QED
  BY <1>1, PortfolioInductive, PTL DEF PortfolioSpec, DrawdownStands

--------------------------------------------------------------------------------
(***************************************************************************)
(* A copy of the blacklist, in memory or in the file, is whole when a pair *)
(* at the limit has a cooldown, and covers history when its counters and   *)
(* ends are no smaller than what the trades so far demand.                 *)
(***************************************************************************)
Whole(l, u) == \A p \in TradedPairs : u[p] = 0 => l[p] < LossLimit

Covers(l, u) ==
    \A p \in TradedPairs :
        /\ owed[p] # 0 => u[p] >= owed[p]
        /\ u[p] = 0 => inARow[p] <= l[p]

MemoryCovers ==
    up => /\ Whole(losses, until) /\ Covers(losses, until)
          /\ \A p \in entered : until[p] = 0
          /\ \A p \in TradedPairs : owed[p] # 0 => today < owed[p]

FileCovers ==
    /\ Whole(kept.losses, kept.until)
    /\ file = "kept" /\ ~unsaved => Covers(kept.losses, kept.until)
    /\ file # "kept" /\ ~unsaved => inARow = Zero /\ owed = Zero

BlacklistInv ==
    /\ BlacklistTypeOK
    /\ ~up => entered = {}
    /\ MemoryCovers
    /\ FileCovers

(***************************************************************************)
(* A save that succeeds or fails leaves a file of its type.                *)
(***************************************************************************)
LEMMA SavesKeepTypes ==
    ASSUME BlacklistTypeOK, SaveSucceeds \/ SaveFails,
           losses' \in [TradedPairs -> Nat], until' \in [TradedPairs -> Ends]
    PROVE  /\ file' \in {"absent", "kept", "damaged"} /\ unsaved' \in BOOLEAN
           /\ kept' \in [losses : [TradedPairs -> Nat], until : [TradedPairs -> Ends]]
<1>1. unsaved' \in BOOLEAN
  BY Zenon DEF SaveSucceeds, SaveFails
<1> QED
  BY <1>1 DEF SaveSucceeds, SaveFails, BlacklistTypeOK

(***************************************************************************)
(* The blacklist in memory covers the history of its run, and the file     *)
(* that of all runs as long as the last save succeeded.                    *)
(***************************************************************************)
LEMMA BlacklistInductive == BlacklistSpec => []BlacklistInv
<1> USE BlacklistAssumption DEF Ends
<1>1. BlacklistInit => BlacklistInv
  <2> SUFFICES ASSUME BlacklistInit
               PROVE  BlacklistInv
    OBVIOUS
  <2>1. up \in BOOLEAN /\ unsaved \in BOOLEAN
    BY Zenon DEF BlacklistInit
  <2>2. Zero \in [TradedPairs -> Nat] /\ Zero \in [TradedPairs -> Ends]
    BY DEF Zero
  <2>3. kept \in [losses : [TradedPairs -> Nat], until : [TradedPairs -> Ends]]
    BY <2>2 DEF BlacklistInit
  <2>4. BlacklistTypeOK
    BY <2>1, <2>2, <2>3 DEF BlacklistInit, BlacklistTypeOK
  <2>5. FileCovers
    BY DEF BlacklistInit, FileCovers, Whole, Zero
  <2> QED
    BY <2>4, <2>5 DEF BlacklistInit, BlacklistInv, MemoryCovers
<1>2. BlacklistInv /\ [BlacklistNext]_blacklistVars => BlacklistInv'
  <2> SUFFICES ASSUME BlacklistInv, [BlacklistNext]_blacklistVars
               PROVE  BlacklistInv'
    OBVIOUS
  <2> USE DEF BlacklistInv
  <2>1. ASSUME NEW d \in FirstDates, BeginRun(d)
        PROVE  BlacklistInv'
    <3>0. up' \in BOOLEAN /\ unsaved' \in BOOLEAN
      BY <2>1, Zenon DEF BeginRun
    <3>a. losses' \in [TradedPairs -> Nat] /\ until' \in [TradedPairs -> Ends]
      BY <2>1 DEF BeginRun, Load, BlacklistTypeOK, Zero
    <3>b. inARow' \in [TradedPairs -> Nat] /\ owed' \in [TradedPairs -> Ends]
      BY <2>1 DEF BeginRun, ServeUntil, BlacklistTypeOK, Zero
    <3>1. BlacklistTypeOK'
      BY <2>1, <3>0, <3>a, <3>b DEF BeginRun, BlacklistTypeOK
    <3>2. MemoryCovers'
      BY <2>1 DEF BeginRun, Load, ServeUntil, Served, BlacklistTypeOK, FileCovers,
         MemoryCovers, Whole, Covers, Zero
    <3>3. FileCovers'
      BY <2>1 DEF BeginRun, ServeUntil, Served, BlacklistTypeOK, FileCovers, Whole, Covers, Zero
    <3> QED
      BY <2>1, <3>1, <3>2, <3>3 DEF BeginRun
  <2>2. ASSUME NextDate
        PROVE  BlacklistInv'
    <3>1. BlacklistTypeOK'
      BY <2>2 DEF NextDate, ServeUntil, BlacklistTypeOK, memory
    <3>2. MemoryCovers'
      BY <2>2 DEF NextDate, ServeUntil, Served, BlacklistTypeOK, memory, MemoryCovers, Whole, Covers
    <3>3. FileCovers'
      BY <2>2 DEF NextDate, ServeUntil, Served, BlacklistTypeOK, memory, FileCovers, Whole, Covers, Zero
    <3> QED
      BY <2>2, <3>1, <3>2, <3>3 DEF NextDate
  <2>3. ASSUME EndRun \/ DieInSave
        PROVE  BlacklistInv'
    BY <2>3 DEF EndRun, DieInSave, BlacklistTypeOK, memory, MemoryCovers, FileCovers, Whole, Covers
  <2>4. ASSUME NEW p \in TradedPairs, ClosePair(p)
        PROVE  BlacklistInv'
    <3>1. PICK n \in Nat, s \in Nat :
            /\ Record(p, n) /\ Count(p, s)
            /\ s <= n
      BY <2>4 DEF ClosePair, BlacklistTypeOK, MemoryCovers, Covers
    <3>0. /\ losses' \in [TradedPairs -> Nat] /\ until' \in [TradedPairs -> Ends]
          /\ inARow' \in [TradedPairs -> Nat] /\ owed' \in [TradedPairs -> Ends]
      BY <3>1 DEF Record, Count, BlacklistTypeOK
    <3>2. BlacklistTypeOK'
      BY <2>4, <3>0, SavesKeepTypes DEF ClosePair, BlacklistTypeOK
    <3>3. MemoryCovers'
      BY <2>4, <3>1 DEF ClosePair, Record, Count, BlacklistTypeOK, MemoryCovers, Whole, Covers
    <3>4. FileCovers'
      <4>1. CASE SaveSucceeds
        BY <2>4, <3>3, <4>1 DEF ClosePair, SaveSucceeds, MemoryCovers, FileCovers, Whole, Covers
      <4>2. CASE SaveFails
        BY <4>2 DEF SaveFails, FileCovers, Whole
      <4> QED
        BY <2>4, <4>1, <4>2 DEF ClosePair
    <3> QED
      BY <2>4, <3>2, <3>3, <3>4 DEF ClosePair
  <2>5. ASSUME NEW p \in TradedPairs, EnterFree(p)
        PROVE  BlacklistInv'
    BY <2>5 DEF EnterFree, Enter, BlacklistTypeOK, memory, MemoryCovers, FileCovers, Whole, Covers
  <2>6. ASSUME NEW p \in TradedPairs, EnterRehabilitated(p)
        PROVE  BlacklistInv'
    <3>1. up /\ owed[p] = 0
      BY <2>6 DEF EnterRehabilitated, Rehabilitate, InCooldown, BlacklistTypeOK, MemoryCovers, Covers
    <3>0. /\ losses' \in [TradedPairs -> Nat] /\ until' \in [TradedPairs -> Ends]
          /\ inARow' \in [TradedPairs -> Nat]
      BY <2>6 DEF EnterRehabilitated, Rehabilitate, BlacklistTypeOK
    <3>a. up' \in BOOLEAN
      BY <2>6, <3>1, Zenon DEF EnterRehabilitated, BlacklistTypeOK
    <3>2. BlacklistTypeOK'
      BY <2>6, <3>0, <3>a, SavesKeepTypes DEF EnterRehabilitated, Enter, BlacklistTypeOK
    <3>3. /\ Whole(losses, until)' /\ Covers(losses, until)'
          /\ \A q \in TradedPairs : owed[q] # 0 => today < owed[q]
      BY <2>6, <3>1 DEF EnterRehabilitated, Rehabilitate, BlacklistTypeOK, MemoryCovers, Whole, Covers
    <3>4. CASE SaveSucceeds /\ Enter(p) /\ UNCHANGED up
      <4>1. MemoryCovers'
        BY <2>6, <3>1, <3>3, <3>4 DEF EnterRehabilitated, Rehabilitate, Enter, BlacklistTypeOK, MemoryCovers
      <4>2. FileCovers'
        BY <3>3, <3>4 DEF SaveSucceeds, FileCovers, Whole, Covers
      <4> QED
        BY <3>1, <3>2, <3>4, <4>1, <4>2
    <3>5. CASE SaveFails /\ up' = FALSE /\ entered' = {}
      BY <3>2, <3>5 DEF SaveFails, MemoryCovers, FileCovers, Whole
    <3> QED
      BY <2>6, <3>4, <3>5 DEF EnterRehabilitated
  <2>7. ASSUME NEW S \in SUBSET TradedPairs, Seed(S)
        PROVE  BlacklistInv'
    <3>0. up' \in BOOLEAN /\ unsaved' \in BOOLEAN
      BY <2>7, Zenon DEF Seed, BlacklistTypeOK
    <3>a. kept' \in [losses : [TradedPairs -> Nat], until : [TradedPairs -> Ends]]
      BY <2>7 DEF Seed, BlacklistTypeOK
    <3>b. inARow' \in [TradedPairs -> Nat] /\ owed' \in [TradedPairs -> Ends]
      BY <2>7 DEF Seed, BlacklistTypeOK, Zero
    <3>1. BlacklistTypeOK'
      BY <2>7, <3>0, <3>a, <3>b DEF Seed, BlacklistTypeOK, memory
    <3>2. FileCovers'
      BY <2>7 DEF Seed, BlacklistTypeOK, FileCovers, Whole, Covers, Zero
    <3> QED
      BY <2>7, <3>1, <3>2 DEF Seed, MemoryCovers
  <2>8. ASSUME ForgetAll
        PROVE  BlacklistInv'
    <3>0. up' \in BOOLEAN /\ unsaved' \in BOOLEAN
      BY <2>8, Zenon DEF ForgetAll, BlacklistTypeOK
    <3>a. Zero \in [TradedPairs -> Nat] /\ Zero \in [TradedPairs -> Ends]
      BY DEF Zero
    <3>1. BlacklistTypeOK'
      BY <2>8, <3>0, <3>a DEF ForgetAll, BlacklistTypeOK
    <3>2. MemoryCovers'
      <4>1. \A p \in TradedPairs : Zero[p] = 0
        BY DEF Zero
      <4>2. Whole(losses, until)' /\ Covers(losses, until)'
        BY <2>8, <4>1 DEF ForgetAll, Whole, Covers
      <4> QED
        BY <2>8, <4>1, <4>2 DEF ForgetAll, MemoryCovers, BlacklistTypeOK
    <3>3. FileCovers'
      BY <2>8 DEF ForgetAll, FileCovers, Whole, Zero
    <3> QED
      BY <2>8, <3>1, <3>2, <3>3 DEF ForgetAll
  <2>9. CASE UNCHANGED blacklistVars
    BY <2>9 DEF blacklistVars, memory, BlacklistTypeOK, MemoryCovers, FileCovers, Whole, Covers
  <2> QED
    BY <2>1, <2>2, <2>3, <2>4, <2>5, <2>6, <2>7, <2>8, <2>9 DEF BlacklistNext
<1> QED
  BY <1>1, <1>2, PTL DEF BlacklistSpec

(***************************************************************************)
(* The blacklist of record_outcome() and is_blocked(), its file and its    *)
(* dates stay in their types.                                              *)
(***************************************************************************)
THEOREM BlacklistTypeCorrect == BlacklistSpec => []BlacklistTypeOK
<1>1. BlacklistInv => BlacklistTypeOK
  BY DEF BlacklistInv
<1> QED
  BY <1>1, BlacklistInductive, PTL

(***************************************************************************)
(* No entry passes is_blocked() while the pair has a cooldown to serve,    *)
(* for any pairs, limits and dates, through restarts, windows and seeds.   *)
(***************************************************************************)
THEOREM CooldownsOfPairsAreServed == BlacklistSpec => []NoTradeInCooldown
<1>1. BlacklistInv => NoTradeInCooldown
  BY DEF BlacklistInv, BlacklistTypeOK, MemoryCovers, Covers, NoTradeInCooldown, Ends
<1> QED
  BY <1>1, BlacklistInductive, PTL
================================================================================
