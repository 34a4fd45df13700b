----------------------------- MODULE KillSwitch -----------------------------
(***************************************************************************)
(* The kill switch (risk_engine/kill_switch.py): a flag in the memory of   *)
(* each process that builds a KillSwitch, a state file they share, and the *)
(* steps of activate() and reset() that lie outside the activation lock.   *)
(*                                                                         *)
(* A process is the live runner or the script scripts/reset_kill_switch.py;*)
(* a thread is whoever calls check(), activate() or reset() in it.  What a *)
(* thread does under the lock is one step.  _save_state() runs after the   *)
(* lock is released and is split where another thread can interleave: the  *)
(* reads that build the state record, the write of the shared .tmp file,   *)
(* and the rename onto the state file.                                     *)
(***************************************************************************)
EXTENDS Integers

CONSTANTS
    Procs,       \* operating system processes
    Threads,     \* threads that call the kill switch
    OwnerOf,     \* OwnerOf[t] is the process of thread t
    Activators,  \* the threads that call check() and activate()
    Resetters,   \* the threads that call reset()
    Cooldown,    \* Cooldown[p] is config.cooldown_seconds in process p
    MaxTime,     \* bound of the clock
    DiskFaults,  \* can a write fail, can the file be damaged
    NoFile, Corrupt, None

ASSUME ThreadsAssumption ==
    /\ OwnerOf \in [Threads -> Procs]
    /\ Activators \subseteq Threads
    /\ Resetters \subseteq Threads
ASSUME TimeAssumption ==
    /\ Cooldown \in [Procs -> Nat]
    /\ MaxTime \in Nat
    /\ DiskFaults \in BOOLEAN

Stamp == Nat \union {None}

\* What the state file records: is_active and activated_at.
Record == [active : BOOLEAN, at : Stamp]

ASSUME DistinctAssumption ==
    /\ None \notin Nat
    /\ NoFile # Corrupt
    /\ NoFile \notin Record
    /\ Corrupt \notin Record

VARIABLES
    up,           \* is the process running
    active,       \* _is_active
    activatedAt,  \* _activated_at
    disk,         \* kill_switch_state.json
    tmp,          \* kill_switch_state.tmp, shared by every save
    pc,           \* where a thread is in activate() or reset()
    op,           \* which of the two it is in
    snap,         \* the record its _save_state() has built so far
    now,          \* the clock
    notice,       \* history: is on_activate due, sent, or did the halt raise instead; none once it is lifted
    shown         \* history: when the halt a process loaded, or made, had been activated

vars == <<up, active, activatedAt, disk, tmp, pc, op, snap, now, notice, shown>>
memory == <<up, active, activatedAt>>
history == <<notice, shown>>

Labels == {"idle", "readFlag", "testStamp", "readStamp", "write", "replace", "callback"}
Saving == {"readFlag", "testStamp", "readStamp", "write", "replace"}

TypeOK ==
    /\ up \in [Procs -> BOOLEAN]
    /\ active \in [Procs -> BOOLEAN]
    /\ activatedAt \in [Procs -> Stamp]
    /\ disk \in Record \union {NoFile, Corrupt}
    /\ tmp \in Record \union {NoFile}
    /\ pc \in [Threads -> Labels]
    /\ op \in [Threads -> {"activate", "reset"}]
    /\ snap \in [Threads -> Record]
    /\ now \in Nat
    /\ notice \in [Procs -> {"none", "due", "sent", "raised"}]
    /\ shown \in [Procs -> Stamp]

Blank == [active |-> FALSE, at |-> None]

\* The record of a halt.
HaltRecorded(file) == file \in Record /\ file.active

\* A process that loads this file starts halted (_load_state).
Halts(file) == file = Corrupt \/ HaltRecorded(file)

Init ==
    /\ up = [p \in Procs |-> FALSE]
    /\ active = [p \in Procs |-> FALSE]
    /\ activatedAt = [p \in Procs |-> None]
    /\ disk = NoFile
    /\ tmp = NoFile
    /\ pc = [t \in Threads |-> "idle"]
    /\ op = [t \in Threads |-> "activate"]
    /\ snap = [t \in Threads |-> Blank]
    /\ now = 0
    /\ notice = [p \in Procs |-> "none"]
    /\ shown = [p \in Procs |-> None]

-----------------------------------------------------------------------------
\* Mutant: the activation time is not read back.
LoadedWithoutTime == None

\* The activation time a halted process takes from the state file.
LoadedAt ==
    IF disk = Corrupt THEN None
    ELSE IF disk.at = None THEN now ELSE disk.at

\* __init__ and _load_state: the flag is restored from the file, and an
\* unreadable file activates the switch without an activation time.
Start(p) ==
    /\ ~up[p]
    /\ up' = [up EXCEPT ![p] = TRUE]
    /\ active' = [active EXCEPT ![p] = Halts(disk)]
    /\ activatedAt' = [activatedAt EXCEPT ![p] =
          IF Halts(disk) THEN LoadedAt ELSE None]
    /\ notice' = [notice EXCEPT ![p] = "none"]
    /\ shown' = [shown EXCEPT ![p] = IF HaltRecorded(disk) THEN disk.at ELSE None]
    /\ UNCHANGED <<disk, tmp, pc, op, snap, now>>

\* A crash, or the end of the script: memory and threads are gone, files stay.
Crash(p) ==
    /\ up[p]
    /\ up' = [up EXCEPT ![p] = FALSE]
    /\ pc' = [t \in Threads |-> IF OwnerOf[t] = p THEN "idle" ELSE pc[t]]
    /\ UNCHANGED <<active, activatedAt, disk, tmp, op, snap, now, history>>

\* Mutant: the callback runs first and the save is forgotten.
CallbackFirst(t, name) ==
    /\ pc' = [pc EXCEPT ![t] = IF name = "activate" THEN "callback" ELSE "readFlag"]
    /\ op' = [op EXCEPT ![t] = name]

\* The lock is released and _save_state() begins.
BeginSave(t, name) ==
    /\ pc' = [pc EXCEPT ![t] = "readFlag"]
    /\ op' = [op EXCEPT ![t] = name]

\* activate(), up to the end of its locked section; check() ends here when a
\* threshold is passed, and both return at once when the flag is already set.
Activate(t) ==
    LET p == OwnerOf[t] IN
    /\ t \in Activators /\ up[p] /\ pc[t] = "idle"
    /\ ~active[p]
    /\ active' = [active EXCEPT ![p] = TRUE]
    /\ activatedAt' = [activatedAt EXCEPT ![p] = now]
    /\ notice' = [notice EXCEPT ![p] = "due"]
    /\ shown' = [shown EXCEPT ![p] = now]
    /\ BeginSave(t, "activate")
    /\ UNCHANGED <<up, disk, tmp, snap, now>>

\* The cooldown guard of reset().
CooldownOver(p) ==
    Cooldown[p] > 0 /\ activatedAt[p] # None => now - activatedAt[p] >= Cooldown[p]

\* reset(), up to the end of its locked section.
Reset(t) ==
    LET p == OwnerOf[t] IN
    /\ t \in Resetters /\ up[p] /\ pc[t] = "idle"
    /\ active[p]
    /\ CooldownOver(p)
    /\ active' = [active EXCEPT ![p] = FALSE]
    /\ activatedAt' = [activatedAt EXCEPT ![p] = None]
    /\ notice' = [q \in Procs |-> "none"]
    /\ BeginSave(t, "reset")
    /\ UNCHANGED <<up, disk, tmp, snap, now, shown>>

-----------------------------------------------------------------------------
\* _save_state(), first field of the record: is_active, read without the lock.
ReadFlag(t) ==
    /\ pc[t] = "readFlag"
    /\ snap' = [snap EXCEPT ![t] = [active |-> active[OwnerOf[t]], at |-> None]]
    /\ pc' = [pc EXCEPT ![t] = "testStamp"]
    /\ UNCHANGED <<memory, disk, tmp, op, now, history>>

\* "... if self._activated_at else None"
TestStamp(t) ==
    /\ pc[t] = "testStamp"
    /\ pc' = [pc EXCEPT ![t] =
          IF activatedAt[OwnerOf[t]] = None THEN "write" ELSE "readStamp"]
    /\ UNCHANGED <<memory, disk, tmp, op, snap, now, history>>

\* "self._activated_at.isoformat()": a second read.  If a reset has cleared
\* the field in between, None has no isoformat and the exception, raised
\* before the try block, leaves activate() or reset() without a save.
ReadStamp(t) ==
    LET at == activatedAt[OwnerOf[t]] IN
    /\ pc[t] = "readStamp"
    /\ snap' = [snap EXCEPT ![t] = [active |-> snap[t].active, at |-> at]]
    /\ pc' = [pc EXCEPT ![t] = IF at = None THEN "idle" ELSE "write"]
    /\ UNCHANGED <<memory, disk, tmp, op, now, history>>

\* tmp_path.write_text(...)
WriteTmp(t) ==
    /\ pc[t] = "write"
    /\ tmp' = snap[t]
    /\ pc' = [pc EXCEPT ![t] = "replace"]
    /\ UNCHANGED <<memory, disk, op, snap, now, history>>

\* Mutant: activate() returns without its callback.
AfterSaveNothing(t) == "idle"

\* Where a call goes on when its record is saved.
AfterSave(t) == IF op[t] = "activate" THEN "callback" ELSE "idle"

\* tmp_path.replace(state_path): whatever the .tmp file holds becomes the
\* state; activate() goes on to its callback, reset() is done.
Replace(t) ==
    /\ pc[t] = "replace"
    /\ tmp # NoFile
    /\ disk' = tmp
    /\ tmp' = NoFile
    /\ pc' = [pc EXCEPT ![t] = AfterSave(t)]
    /\ UNCHANGED <<memory, op, snap, now, history>>

\* Mutant: the exception is raised and nothing else.
NotFailSafe(p) == UNCHANGED active

\* "Force active so we never trade without persisted state".
FailSafe(p) == active' = [active EXCEPT ![p] = TRUE]

\* The except branch of _save_state(): an I/O error, or a .tmp file that
\* another thread has already moved.  Fail-safe: the flag is set, outside the
\* lock, and the exception leaves activate() before its callback.
SaveFails(t) ==
    LET p == OwnerOf[t] IN
    /\ \/ DiskFaults /\ pc[t] \in {"write", "replace"}
       \/ pc[t] = "replace" /\ tmp = NoFile
    /\ FailSafe(p)
    /\ pc' = [pc EXCEPT ![t] = "idle"]
    /\ notice' = [notice EXCEPT ![p] = IF op[t] = "activate" /\ notice[p] = "due" THEN "raised" ELSE notice[p]]
    /\ UNCHANGED <<up, activatedAt, disk, tmp, op, snap, now, shown>>

\* on_activate: the runner cancels the pending orders and sends the alerts.
Callback(t) ==
    /\ pc[t] = "callback"
    /\ notice' = [notice EXCEPT ![OwnerOf[t]] = IF @ = "due" THEN "sent" ELSE @]
    /\ pc' = [pc EXCEPT ![t] = "idle"]
    /\ UNCHANGED <<memory, disk, tmp, op, snap, now, shown>>

-----------------------------------------------------------------------------
\* The state file is damaged from outside.
Damage ==
    /\ DiskFaults /\ disk # NoFile
    /\ disk' = Corrupt
    /\ UNCHANGED <<memory, tmp, pc, op, snap, now, history>>

Tick ==
    /\ now < MaxTime
    /\ now' = now + 1
    /\ UNCHANGED <<memory, disk, tmp, pc, op, snap, history>>

\* The steps of a call that has begun, which the interpreter goes on to run.
Proceed(t) ==
    \/ ReadFlag(t) \/ TestStamp(t) \/ ReadStamp(t)
    \/ WriteTmp(t) \/ Replace(t) \/ SaveFails(t)
    \/ Callback(t)

Next ==
    \/ \E p \in Procs : Start(p) \/ Crash(p)
    \/ \E t \in Threads : Activate(t) \/ Reset(t) \/ Proceed(t)
    \/ Damage
    \/ Tick

Spec == Init /\ [][Next]_vars

FairSpec == Spec /\ \A t \in Activators : WF_vars(Proceed(t))

(***************************************************************************)
(* Runner and script: the file is damaged while no process runs only (a    *)
(* loss of power, an edit by hand).  Damaged under a runner that trades,   *)
(* it lets the script reset a halt the runner saves meanwhile.             *)
(***************************************************************************)
DamagedAtRest == Damage => \A p \in Procs : ~up[p]
ReviewSpec == Init /\ [][Next /\ DamagedAtRest]_vars

-----------------------------------------------------------------------------
\* A halt the operator has been told of survives a crash: from the moment
\* on_activate has run until the switch is reset, a process that loads the
\* state file starts halted.
AlertedHaltIsDurable ==
    \A p \in Procs : up[p] /\ active[p] /\ notice[p] = "sent" => Halts(disk)

\* No stale record: when every call has returned, a process that may trade has
\* no record of a halt waiting for its next start.
NoStaleHalt ==
    (\A t \in Threads : pc[t] = "idle") =>
        \A t \in Activators : up[OwnerOf[t]] /\ ~active[OwnerOf[t]] => ~HaltRecorded(disk)

\* "This should ONLY be called after the operator has reviewed the situation":
\* the record of a halt gives way to one that lets trading resume only by a
\* reset, in a process that has loaded or made this very halt, and that has
\* waited its own cooldown since the activation, whatever prompts, crashes,
\* failed saves and restarts of either process lie between.
ReviewedHaltIsLifted ==
    [][HaltRecorded(disk) /\ ~Halts(disk') =>
        \E t \in Threads :
            /\ Replace(t) /\ op[t] = "reset"
            /\ shown[OwnerOf[t]] = disk.at
            /\ now - disk.at >= Cooldown[OwnerOf[t]]]_vars

\* A halt is announced (orders cancelled, operator alerted) unless the process
\* dies first or the save fails, and then activate() has raised: no call is
\* left with its callback due.
HaltIsAnnouncedEventually ==
    \A t \in Activators :
        notice[OwnerOf[t]] = "due" ~> (notice[OwnerOf[t]] # "due" \/ ~up[OwnerOf[t]])
=============================================================================
