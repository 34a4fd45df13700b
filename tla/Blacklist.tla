------------------------------- MODULE Blacklist -------------------------------
(***************************************************************************)
(* The blacklist of pairs that lost several times in a row                 *)
(* (pair_selection/blacklist.py), with the simulator that asks it before   *)
(* an entry and tells it the result of a trade                             *)
(* (backtests/strategy_simulator.py, backtests/position_tracker.py), and   *)
(* the walk-forward script that writes its file between two windows        *)
(* (scripts/run_v56_wf3.py). The file outlives a run; the positions of a   *)
(* run do not.                                                             *)
(***************************************************************************)
EXTENDS Integers

CONSTANTS TradedPairs,
          LossLimit,       \* max_consecutive_losses
          CooldownDays,    \* cooldown_days
          SeedLosses,      \* the consecutive_losses the script writes
          FirstDates,      \* bound: dates on which a run may begin
          LastDate         \* bound: the last date of the prices

ASSUME BlacklistAssumption ==
    /\ LossLimit \in Nat \ {0} /\ CooldownDays \in Nat \ {0} /\ SeedLosses \in Nat
    /\ LastDate \in Nat /\ FirstDates \subseteq 1 .. LastDate

VARIABLES
    up,         \* a run of the simulator is in progress
    today,      \* the date of its bar
    losses,     \* per pair: consecutive_losses in memory
    until,      \* per pair: cooldown_until in memory, 0 for None
    entered,    \* the pairs with an open position
    file,       \* "absent", "kept" or "damaged"
    kept,       \* the losses and the ends of cooldowns in the file
    unsaved,    \* history: the last attempt to save failed
    inARow,     \* history: losses of a pair in a row since its last cooldown
    owed        \* history: the end of the cooldown a pair has still to serve, or 0

memory == <<losses, until>>
blacklistVars == <<up, today, memory, entered, file, kept, unsaved, inARow, owed>>

Zero == [p \in TradedPairs |-> 0]

BlacklistInit ==
    /\ up = FALSE /\ today = 0 /\ entered = {}
    /\ losses = Zero /\ until = Zero /\ inARow = Zero /\ owed = Zero
    /\ file = "absent" /\ unsaved = FALSE
    /\ kept = [losses |-> Zero, until |-> Zero]

\* A date was reached: the cooldowns that end by then are served.
Served(d, e) == e # 0 /\ d >= e
ServeUntil(d, s, e) ==
    /\ inARow' = [p \in TradedPairs |-> IF Served(d, e[p]) THEN 0 ELSE s[p]]
    /\ owed' = [p \in TradedPairs |-> IF Served(d, e[p]) THEN 0 ELSE e[p]]

--------------------------------------------------------------------------------
\* Mutant: the ends of the cooldowns are not read back.
LoadLosses ==
    /\ losses' = IF file = "kept" THEN kept.losses ELSE Zero
    /\ until' = Zero

(***************************************************************************)
(* _load(): a file that cannot be read counts as empty.                    *)
(***************************************************************************)
Load ==
    /\ losses' = IF file = "kept" THEN kept.losses ELSE Zero
    /\ until' = IF file = "kept" THEN kept.until ELSE Zero

(***************************************************************************)
(* A run begins at any date. What the file has lost is forgiven.           *)
(***************************************************************************)
BeginRun(d) ==
    /\ ~up
    /\ Load
    /\ up' = TRUE /\ today' = d /\ unsaved' = FALSE
    /\ IF unsaved THEN inARow' = Zero /\ owed' = Zero ELSE ServeUntil(d, inARow, owed)
    /\ UNCHANGED <<entered, file, kept>>

NextDate ==
    /\ up /\ today < LastDate
    /\ today' = today + 1
    /\ ServeUntil(today + 1, inARow, owed)
    /\ UNCHANGED <<up, memory, entered, file, kept, unsaved>>

(***************************************************************************)
(* The run ends, by itself or in a crash: the positions are gone.          *)
(***************************************************************************)
EndRun ==
    /\ up
    /\ up' = FALSE /\ entered' = {}
    /\ UNCHANGED <<today, memory, file, kept, unsaved, inARow, owed>>

(***************************************************************************)
(* _save() opens the file for writing, which empties it, and then fills    *)
(* it.                                                                     *)
(***************************************************************************)
SaveSucceeds ==
    /\ file' = "kept" /\ unsaved' = FALSE
    /\ kept' = [losses |-> losses', until |-> until']

SaveFails ==
    /\ file' \in {file, "damaged"} /\ unsaved' = TRUE
    /\ UNCHANGED kept

(***************************************************************************)
(* record_outcome() in memory, n losses in a row being counted now.        *)
(***************************************************************************)
Record(p, n) ==
    /\ losses' = [losses EXCEPT ![p] = n]
    /\ until' = [until EXCEPT ![p] =
                    IF n >= LossLimit /\ until[p] = 0 THEN today + CooldownDays ELSE until[p]]

(***************************************************************************)
(* The history of the same trade: s losses in a row.                       *)
(***************************************************************************)
Count(p, s) ==
    /\ inARow' = [inARow EXCEPT ![p] = s]
    /\ owed' = [owed EXCEPT ![p] = IF s >= LossLimit THEN today + CooldownDays ELSE owed[p]]

(***************************************************************************)
(* A position is closed, at a loss or not; close_position() swallows the   *)
(* error of a save that fails.                                             *)
(***************************************************************************)
ClosePair(p) ==
    /\ up /\ p \in entered
    /\ entered' = entered \ {p}
    /\ \/ Record(p, losses[p] + 1) /\ Count(p, inARow[p] + 1)
       \/ Record(p, 0) /\ Count(p, 0)
    /\ SaveSucceeds \/ SaveFails
    /\ UNCHANGED <<up, today>>

InCooldown(p) == until[p] # 0 /\ today < until[p]

(***************************************************************************)
(* The signal to enter passes the gate, or another gate rejects it.        *)
(***************************************************************************)
Enter(p) == entered' \in {entered, entered \union {p}}

\* is_blocked() of a pair that is in no cooldown.
EnterFree(p) ==
    /\ up /\ p \notin entered
    /\ until[p] = 0
    /\ Enter(p)
    /\ UNCHANGED <<up, today, memory, file, kept, unsaved, inARow, owed>>

(***************************************************************************)
(* is_blocked() of a pair whose cooldown is over: it is rehabilitated and  *)
(* the file saved. A save that fails here raises out of the run.           *)
(***************************************************************************)
Rehabilitate(p) ==
    /\ until[p] # 0 /\ ~InCooldown(p)
    /\ losses' = [losses EXCEPT ![p] = 0]
    /\ until' = [until EXCEPT ![p] = 0]
    /\ inARow' = [inARow EXCEPT ![p] = 0]

EnterRehabilitated(p) ==
    /\ up /\ p \notin entered
    /\ Rehabilitate(p)
    /\ \/ SaveSucceeds /\ Enter(p) /\ UNCHANGED up
       \/ SaveFails /\ up' = FALSE /\ entered' = {}
    /\ UNCHANGED <<today, owed>>

(***************************************************************************)
(* The process dies in a save of one of the two kinds: the file is left    *)
(* without its contents.                                                   *)
(***************************************************************************)
DieInSave ==
    /\ up
    /\ \E p \in TradedPairs : p \in entered \/ (until[p] # 0 /\ ~InCooldown(p))
    /\ up' = FALSE /\ entered' = {}
    /\ file' = "damaged" /\ unsaved' = TRUE
    /\ UNCHANGED <<today, memory, kept, inARow, owed>>

(***************************************************************************)
(* _build_blacklist_json() of the script, after a window that ended on     *)
(* today: the pairs that lost too much there are blacklisted, unless the   *)
(* file has a later end for them. A file that cannot be read raises.       *)
(***************************************************************************)
Seed(S) ==
    LET later == {p \in S : kept.until[p] < today + CooldownDays}
    IN  /\ ~up /\ today # 0 /\ file # "damaged"
        /\ file' = "kept"
        /\ kept' = [losses |-> [p \in TradedPairs |-> IF p \in later THEN SeedLosses
                                                      ELSE kept.losses[p]],
                    until |-> [p \in TradedPairs |-> IF p \in later THEN today + CooldownDays
                                                     ELSE kept.until[p]]]
        /\ owed' = [p \in TradedPairs |-> IF p \in S THEN today + CooldownDays
                                         ELSE IF unsaved THEN 0 ELSE owed[p]]
        /\ inARow' = IF unsaved THEN Zero ELSE inARow
        /\ unsaved' = FALSE
        /\ UNCHANGED <<up, today, memory, entered>>

(***************************************************************************)
(* reset() and the removal of the file.                                    *)
(***************************************************************************)
ForgetAll ==
    /\ losses' = Zero /\ until' = Zero /\ inARow' = Zero /\ owed' = Zero
    /\ file' = "absent" /\ unsaved' = FALSE
    /\ kept' = [losses |-> Zero, until |-> Zero]
    /\ UNCHANGED <<up, today, entered>>

BlacklistNext ==
    \/ \E d \in FirstDates : BeginRun(d)
    \/ NextDate \/ EndRun \/ DieInSave \/ ForgetAll
    \/ \E p \in TradedPairs : ClosePair(p) \/ EnterFree(p) \/ EnterRehabilitated(p)
    \/ \E S \in SUBSET TradedPairs : Seed(S)

BlacklistSpec == BlacklistInit /\ [][BlacklistNext]_blacklistVars

--------------------------------------------------------------------------------
Ends == 0 .. LastDate + CooldownDays

(***************************************************************************)
(* Dates, counters and the file have their types.                          *)
(***************************************************************************)
BlacklistTypeOK ==
    /\ up \in BOOLEAN /\ unsaved \in BOOLEAN
    /\ today \in 0 .. LastDate /\ entered \subseteq TradedPairs
    /\ losses \in [TradedPairs -> Nat] /\ inARow \in [TradedPairs -> Nat]
    /\ until \in [TradedPairs -> Ends] /\ owed \in [TradedPairs -> Ends]
    /\ file \in {"absent", "kept", "damaged"}
    /\ kept \in [losses : [TradedPairs -> Nat], until : [TradedPairs -> Ends]]

(***************************************************************************)
(* No pair is traded while it has a cooldown to serve: neither a restart   *)
(* from the file, nor a window at other dates, nor a seed of the script,   *)
(* nor the rehabilitation of another pair lifts it, as long as the last    *)
(* save succeeded.                                                         *)
(***************************************************************************)
NoTradeInCooldown == \A p \in entered : owed[p] = 0
================================================================================
