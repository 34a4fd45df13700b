-------------------------- MODULE KillSwitchProofs --------------------------
(***************************************************************************)
(* Proofs about KillSwitch.  Type correctness holds for any number of      *)
(* threads and processes.  The durability of an announced halt holds when  *)
(* one thread drives the switch, as in live_trading/runner.py, whatever    *)
(* the cooldowns, the faults of the disk, the crashes and the restarts.    *)
(***************************************************************************)
EXTENDS KillSwitch, TLAPS

(* Every reachable state of the kill switch has the declared types: in     *)
(* particular the state file is always a whole record, absent or damaged   *)
(* from outside, never a half-written one.                                 *)
THEOREM TypeCorrect == Spec => []TypeOK
<1>1. Init => TypeOK
  BY ThreadsAssumption, DistinctAssumption
  DEF Init, TypeOK, Labels, Record, Stamp, Blank
<1>2. TypeOK /\ [Next]_vars => TypeOK'
  <2> SUFFICES ASSUME TypeOK, [Next]_vars PROVE TypeOK'
    OBVIOUS
  <2> USE ThreadsAssumption, TimeAssumption DEF TypeOK, Labels, Record, Stamp, memory, history
  <2>1. ASSUME NEW p \in Procs, Start(p) PROVE TypeOK'
    BY <2>1 DEF Start, LoadedAt, Halts, HaltRecorded
  <2>2. ASSUME NEW p \in Procs, Crash(p) PROVE TypeOK'
    BY <2>2 DEF Crash
  <2>3. ASSUME NEW t \in Threads, Activate(t) PROVE TypeOK'
    BY <2>3 DEF Activate, BeginSave
  <2>4. ASSUME NEW t \in Threads, Reset(t) PROVE TypeOK'
    BY <2>4 DEF Reset, BeginSave
  <2>5. ASSUME NEW t \in Threads, ReadFlag(t) PROVE TypeOK'
    BY <2>5 DEF ReadFlag
  <2>6. ASSUME NEW t \in Threads, TestStamp(t) PROVE TypeOK'
    BY <2>6 DEF TestStamp
  <2>7. ASSUME NEW t \in Threads, ReadStamp(t) PROVE TypeOK'
    BY <2>7 DEF ReadStamp
  <2>8. ASSUME NEW t \in Threads, WriteTmp(t) PROVE TypeOK'
    BY <2>8 DEF WriteTmp
  <2>9. ASSUME NEW t \in Threads, Replace(t) PROVE TypeOK'
    BY <2>9 DEF Replace, AfterSave
  <2>10. ASSUME NEW t \in Threads, SaveFails(t) PROVE TypeOK'
    BY <2>10 DEF SaveFails, FailSafe
  <2>11. ASSUME NEW t \in Threads, Callback(t) PROVE TypeOK'
    BY <2>11 DEF Callback
  <2>12. CASE Damage
    BY <2>12 DEF Damage
  <2>13. CASE Tick
    BY <2>13 DEF Tick
  <2>14. CASE UNCHANGED vars
    BY <2>14 DEF vars
  <2> QED
    BY <2>1, <2>2, <2>3, <2>4, <2>5, <2>6, <2>7, <2>8, <2>9, <2>10, <2>11,
       <2>12, <2>13, <2>14 DEF Next, Proceed
<1> QED
  BY <1>1, <1>2, PTL DEF Spec

-----------------------------------------------------------------------------
(* One thread drives the switch. *)
Serial == \A s, t \in Threads : s = t

(* A call in progress belongs to a running process. *)
CallsRun == \A t \in Threads : pc[t] # "idle" => up[OwnerOf[t]]

(* While a save is in progress the last halt is not announced, and it is   *)
(* never announced in a process that no thread drives.                     *)
SaveBeforeNotice ==
    /\ \A t \in Threads : pc[t] \in Saving => notice[OwnerOf[t]] # "sent"
    /\ \A p \in Procs : notice[p] = "sent" => \E t \in Threads : OwnerOf[t] = p

(* The save of an activation records the activation. *)
ActivationIsSaved ==
    \A t \in Threads : op[t] = "activate" =>
        /\ pc[t] \in Saving => active[OwnerOf[t]]
        /\ pc[t] \in {"testStamp", "readStamp", "write", "replace"} => snap[t].active

TmpIsOurs == \A t \in Threads : pc[t] = "replace" => tmp = snap[t]

CallbackAfterSave == \A t \in Threads : pc[t] = "callback" => Halts(disk)

DurableInv ==
    /\ TypeOK
    /\ CallsRun
    /\ SaveBeforeNotice
    /\ ActivationIsSaved
    /\ TmpIsOurs
    /\ CallbackAfterSave
    /\ AlertedHaltIsDurable

(* The strengthening of AlertedHaltIsDurable is inductive.                 *)
LEMMA DurableInvStep ==
    ASSUME Serial, DurableInv, TypeOK', Next PROVE DurableInv'
<1> USE ThreadsAssumption, DistinctAssumption
    DEF DurableInv, Serial, CallsRun, SaveBeforeNotice, ActivationIsSaved,
        TmpIsOurs, CallbackAfterSave, AlertedHaltIsDurable, Saving, memory, history,
        Halts, HaltRecorded
<1>1. ASSUME NEW p \in Procs, Start(p) PROVE DurableInv'
  BY <1>1 DEF Start, LoadedAt, TypeOK
<1>2. ASSUME NEW p \in Procs, Crash(p) PROVE DurableInv'
  BY <1>2 DEF Crash, TypeOK
<1>3. ASSUME NEW t \in Threads, Activate(t) PROVE DurableInv'
  BY <1>3 DEF Activate, BeginSave, TypeOK
<1>4. ASSUME NEW t \in Threads, Reset(t) PROVE DurableInv'
  BY <1>4 DEF Reset, BeginSave, TypeOK
<1>5. ASSUME NEW t \in Threads, ReadFlag(t) PROVE DurableInv'
  BY <1>5 DEF ReadFlag, TypeOK
<1>6. ASSUME NEW t \in Threads, TestStamp(t) PROVE DurableInv'
  BY <1>6 DEF TestStamp, TypeOK
<1>7. ASSUME NEW t \in Threads, ReadStamp(t) PROVE DurableInv'
  BY <1>7 DEF ReadStamp, TypeOK, Record
<1>8. ASSUME NEW t \in Threads, WriteTmp(t) PROVE DurableInv'
  BY <1>8 DEF WriteTmp, TypeOK
<1>9. ASSUME NEW t \in Threads, Replace(t) PROVE DurableInv'
  BY <1>9 DEF Replace, AfterSave, TypeOK, Record
<1>10. ASSUME NEW t \in Threads, SaveFails(t) PROVE DurableInv'
  BY <1>10 DEF SaveFails, FailSafe, TypeOK
<1>11. ASSUME NEW t \in Threads, Callback(t) PROVE DurableInv'
  BY <1>11 DEF Callback, TypeOK
<1>12. CASE Damage
  BY <1>12 DEF Damage, TypeOK
<1>13. CASE Tick
  BY <1>13 DEF Tick, TypeOK
<1> QED
  BY <1>1, <1>2, <1>3, <1>4, <1>5, <1>6, <1>7, <1>8, <1>9, <1>10, <1>11,
     <1>12, <1>13 DEF Next, Proceed

(* A halt the operator has been told of survives any crash: with a single  *)
(* thread driving the switch, once on_activate has run and until a reset,  *)
(* every process that loads the state file starts halted, even when disk   *)
(* writes fail and the file is damaged.                                    *)
THEOREM AnnouncedHaltSurvives ==
    ASSUME Serial PROVE Spec => []AlertedHaltIsDurable
<1>1. Init => DurableInv
  BY ThreadsAssumption, DistinctAssumption
  DEF Init, DurableInv, TypeOK, Labels, Record, Stamp, Blank, CallsRun, SaveBeforeNotice,
      ActivationIsSaved, TmpIsOurs, CallbackAfterSave, AlertedHaltIsDurable, Saving
<1>2. DurableInv /\ TypeOK' /\ [Next]_vars => DurableInv'
  <2>1. CASE Next
    BY <2>1, DurableInvStep
  <2>2. CASE UNCHANGED vars
    BY <2>2 DEF vars, DurableInv, TypeOK, CallsRun, SaveBeforeNotice, ActivationIsSaved,
       TmpIsOurs, CallbackAfterSave, AlertedHaltIsDurable, Halts, HaltRecorded
  <2> QED
    BY <2>1, <2>2
<1>3. DurableInv => AlertedHaltIsDurable
  BY DEF DurableInv
<1> QED
  BY TypeCorrect, <1>1, <1>2, <1>3, PTL DEF Spec

-----------------------------------------------------------------------------
(* The processes that a thread drives. *)
Driven == {OwnerOf[t] : t \in Threads}

(* Process p has loaded or made the halt on file, and waited its cooldown. *)
Reviewed(p) == HaltRecorded(disk) => shown[p] = disk.at /\ now - disk.at >= Cooldown[p]

(* The record of a halt bears a time that has come.                        *)
RecordIsDated == HaltRecorded(disk) => disk.at \in Nat /\ disk.at <= now

(* What the memory of a driven process knows of the halt on file: its      *)
(* time, unless a reset that was due has failed or the file was damaged.   *)
MemoryIsDated ==
    \A p \in Driven : up[p] /\ active[p] =>
        IF activatedAt[p] = None THEN Reviewed(p)
        ELSE /\ activatedAt[p] = shown[p] /\ shown[p] <= now
             /\ HaltRecorded(disk) => disk.at = shown[p]

(* A call in progress saves what its critical section decided.             *)
SaveIsDated ==
    \A t \in Threads :
        LET p == OwnerOf[t] IN
        /\ pc[t] \in Saving /\ op[t] = "activate" =>
              /\ active[p] /\ activatedAt[p] # None /\ ~HaltRecorded(disk)
              /\ pc[t] # "readFlag" => snap[t].active
              /\ pc[t] \in {"write", "replace"} => snap[t].at = activatedAt[p]
        /\ pc[t] \in Saving /\ op[t] = "reset" =>
              /\ ~active[p] /\ activatedAt[p] = None /\ Reviewed(p)
              /\ pc[t] # "readFlag" => ~snap[t].active
        /\ pc[t] = "readStamp" => activatedAt[p] # None
        /\ pc[t] = "callback" => active[p]

NoHaltForgotten ==
    \A t \in Threads :
        pc[t] = "idle" /\ up[OwnerOf[t]] /\ ~active[OwnerOf[t]] => ~HaltRecorded(disk)

ReviewInv ==
    /\ TypeOK
    /\ CallsRun
    /\ TmpIsOurs
    /\ RecordIsDated
    /\ MemoryIsDated
    /\ SaveIsDated
    /\ NoHaltForgotten

(* The strengthening of ReviewedHaltIsLifted is inductive.                     *)
LEMMA ReviewInvStep ==
    ASSUME Serial, ReviewInv, TypeOK', Next PROVE ReviewInv'
<1> USE ThreadsAssumption, TimeAssumption, DistinctAssumption
    DEF ReviewInv, Serial, CallsRun, TmpIsOurs, RecordIsDated,
        Reviewed, MemoryIsDated, SaveIsDated, NoHaltForgotten, Driven, Saving, memory,
        history, HaltRecorded, Record, Stamp
<1>1. ASSUME NEW p \in Procs, Start(p) PROVE ReviewInv'
  BY <1>1 DEF Start, LoadedAt, TypeOK, Halts
<1>2. ASSUME NEW p \in Procs, Crash(p) PROVE ReviewInv'
  BY <1>2 DEF Crash, TypeOK
<1>3. ASSUME NEW t \in Threads, Activate(t) PROVE ReviewInv'
  BY <1>3 DEF Activate, BeginSave, TypeOK
<1>4. ASSUME NEW t \in Threads, Reset(t) PROVE ReviewInv'
  BY <1>4 DEF Reset, CooldownOver, BeginSave, TypeOK
<1>5. ASSUME NEW t \in Threads, ReadFlag(t) PROVE ReviewInv'
  BY <1>5 DEF ReadFlag, TypeOK
<1>6. ASSUME NEW t \in Threads, TestStamp(t) PROVE ReviewInv'
  BY <1>6 DEF TestStamp, TypeOK
<1>7. ASSUME NEW t \in Threads, ReadStamp(t) PROVE ReviewInv'
  BY <1>7 DEF ReadStamp, TypeOK
<1>8. ASSUME NEW t \in Threads, WriteTmp(t) PROVE ReviewInv'
  BY <1>8 DEF WriteTmp, TypeOK
<1>9. ASSUME NEW t \in Threads, Replace(t) PROVE ReviewInv'
  BY <1>9 DEF Replace, AfterSave, TypeOK
<1>10. ASSUME NEW t \in Threads, SaveFails(t) PROVE ReviewInv'
  BY <1>10 DEF SaveFails, FailSafe, TypeOK
<1>11. ASSUME NEW t \in Threads, Callback(t) PROVE ReviewInv'
  BY <1>11 DEF Callback, TypeOK
<1>12. CASE Damage
  BY <1>12 DEF Damage, TypeOK
<1>13. CASE Tick
  BY <1>13 DEF Tick, TypeOK
<1> QED
  BY <1>1, <1>2, <1>3, <1>4, <1>5, <1>6, <1>7, <1>8, <1>9, <1>10, <1>11,
     <1>12, <1>13 DEF Next, Proceed

(* One thread drives the switch, with any cooldown: the record of a halt   *)
(* is lifted only by a reset in the process that loaded or made it, and    *)
(* after the cooldown of that process, whatever crashes, restarts, failed  *)
(* saves and damage of the file lie between.                               *)
THEOREM LiftedAfterItsReview ==
    ASSUME Serial PROVE Spec => ReviewedHaltIsLifted
<1>1. Init => ReviewInv
  BY ThreadsAssumption, DistinctAssumption
  DEF Init, ReviewInv, TypeOK, Labels, Record, Stamp, Blank, CallsRun, TmpIsOurs, RecordIsDated,
      MemoryIsDated, SaveIsDated, NoHaltForgotten, HaltRecorded, Saving, Driven
<1>2. ReviewInv /\ TypeOK' /\ [Next]_vars => ReviewInv'
  <2>1. CASE Next
    BY <2>1, ReviewInvStep
  <2>2. CASE UNCHANGED vars
    BY <2>2 DEF vars, ReviewInv, TypeOK, CallsRun, TmpIsOurs, RecordIsDated, Reviewed,
       MemoryIsDated, SaveIsDated, NoHaltForgotten, HaltRecorded
  <2> QED
    BY <2>1, <2>2
<1>3. ReviewInv /\ TypeOK' /\ [Next]_vars =>
        [HaltRecorded(disk) /\ ~Halts(disk') =>
            \E t \in Threads :
                /\ Replace(t) /\ op[t] = "reset"
                /\ shown[OwnerOf[t]] = disk.at
                /\ now - disk.at >= Cooldown[OwnerOf[t]]]_vars
  <2> SUFFICES ASSUME ReviewInv, Next, HaltRecorded(disk), ~Halts(disk')
               PROVE \E t \in Threads :
                        /\ Replace(t) /\ op[t] = "reset"
                        /\ shown[OwnerOf[t]] = disk.at
                        /\ now - disk.at >= Cooldown[OwnerOf[t]]
    OBVIOUS
  <2>1. PICK t \in Threads : Replace(t)
    BY DEF Next, Proceed, Start, Crash, Activate, Reset, ReadFlag, TestStamp, ReadStamp,
       WriteTmp, SaveFails, FailSafe, Callback, Damage, Tick, Halts
  <2>2. op[t] = "reset"
    BY <2>1 DEF Replace, AfterSave, ReviewInv, TypeOK, SaveIsDated, TmpIsOurs, Saving, Halts
  <2> QED
    BY <2>1, <2>2 DEF Replace, AfterSave, ReviewInv, SaveIsDated, Reviewed, Saving
<1> QED
  BY TypeCorrect, <1>1, <1>2, <1>3, PTL DEF Spec, ReviewedHaltIsLifted
-----------------------------------------------------------------------------
(* What a call in progress saves is the state of the switch, and a reset   *)
(* finds no activation time to read.                                       *)
SaveAgrees ==
    \A t \in Threads :
        LET p == OwnerOf[t] IN
        /\ pc[t] \in Saving /\ op[t] = "activate" => active[p]
        /\ pc[t] \in Saving /\ op[t] = "reset" =>
              /\ ~active[p] /\ activatedAt[p] = None
              /\ pc[t] # "readFlag" => ~snap[t].active
        /\ pc[t] = "readStamp" => activatedAt[p] # None
        /\ pc[t] = "callback" => active[p]

StaleInv ==
    /\ TypeOK
    /\ CallsRun
    /\ TmpIsOurs
    /\ SaveAgrees
    /\ NoHaltForgotten

(* The strengthening of NoStaleHalt is inductive, whatever the cooldowns.  *)
LEMMA StaleInvStep ==
    ASSUME Serial, StaleInv, TypeOK', Next PROVE StaleInv'
<1> USE ThreadsAssumption, DistinctAssumption
    DEF StaleInv, Serial, CallsRun, TmpIsOurs, SaveAgrees, NoHaltForgotten, Saving,
        memory, history, HaltRecorded, Record
<1>1. ASSUME NEW p \in Procs, Start(p) PROVE StaleInv'
  BY <1>1 DEF Start, LoadedAt, TypeOK, Halts
<1>2. ASSUME NEW p \in Procs, Crash(p) PROVE StaleInv'
  BY <1>2 DEF Crash, TypeOK
<1>3. ASSUME NEW t \in Threads, Activate(t) PROVE StaleInv'
  BY <1>3 DEF Activate, BeginSave, TypeOK
<1>4. ASSUME NEW t \in Threads, Reset(t) PROVE StaleInv'
  BY <1>4 DEF Reset, BeginSave, TypeOK
<1>5. ASSUME NEW t \in Threads, ReadFlag(t) PROVE StaleInv'
  BY <1>5 DEF ReadFlag, TypeOK
<1>6. ASSUME NEW t \in Threads, TestStamp(t) PROVE StaleInv'
  BY <1>6 DEF TestStamp, TypeOK
<1>7. ASSUME NEW t \in Threads, ReadStamp(t) PROVE StaleInv'
  BY <1>7 DEF ReadStamp, TypeOK
<1>8. ASSUME NEW t \in Threads, WriteTmp(t) PROVE StaleInv'
  BY <1>8 DEF WriteTmp, TypeOK
<1>9. ASSUME NEW t \in Threads, Replace(t) PROVE StaleInv'
  BY <1>9 DEF Replace, AfterSave, TypeOK
<1>10. ASSUME NEW t \in Threads, SaveFails(t) PROVE StaleInv'
  BY <1>10 DEF SaveFails, FailSafe, TypeOK
<1>11. ASSUME NEW t \in Threads, Callback(t) PROVE StaleInv'
  BY <1>11 DEF Callback, TypeOK
<1>12. CASE Damage
  BY <1>12 DEF Damage, TypeOK
<1>13. CASE Tick
  BY <1>13 DEF Tick, TypeOK
<1> QED
  BY <1>1, <1>2, <1>3, <1>4, <1>5, <1>6, <1>7, <1>8, <1>9, <1>10, <1>11,
     <1>12, <1>13 DEF Next, Proceed

(* No stale record: when one thread drives the switch, and                 *)
(* its calls have returned, a switch that lets trade has no record of a    *)
(* halt waiting for the next start, whatever saves failed and whatever     *)
(* was damaged.                                                            *)
THEOREM NoHaltIsStale ==
    ASSUME Serial PROVE Spec => []NoStaleHalt
<1>1. Init => StaleInv
  BY ThreadsAssumption, DistinctAssumption
  DEF Init, StaleInv, TypeOK, Labels, Record, Stamp, Blank, CallsRun, TmpIsOurs, SaveAgrees,
      NoHaltForgotten, HaltRecorded, Saving
<1>2. StaleInv /\ TypeOK' /\ [Next]_vars => StaleInv'
  <2>1. CASE Next
    BY <2>1, StaleInvStep
  <2>2. CASE UNCHANGED vars
    BY <2>2 DEF vars, StaleInv, TypeOK, CallsRun, TmpIsOurs, SaveAgrees, NoHaltForgotten,
       HaltRecorded
  <2> QED
    BY <2>1, <2>2
<1>3. StaleInv => NoStaleHalt
  BY ThreadsAssumption DEF StaleInv, NoHaltForgotten, NoStaleHalt
<1> QED
  BY TypeCorrect, <1>1, <1>2, <1>3, PTL DEF Spec
-----------------------------------------------------------------------------
(* The runner, which activates, and the script, which resets.              *)
Apart(loop, operator) ==
    /\ Threads = {loop, operator}
    /\ OwnerOf[loop] # OwnerOf[operator]
    /\ Activators = {loop} /\ Resetters = {operator}

RolesApart == \E loop, operator \in Threads : Apart(loop, operator)

(* A runner that may trade has no halt on file, nor has it one while it    *)
(* saves its own: the script finds nothing to reset meanwhile.             *)
RunnerKnows(loop) ==
    LET p == OwnerOf[loop] IN
    /\ up[p] /\ ~active[p] => ~Halts(disk)
    /\ pc[loop] \in Saving =>
          /\ op[loop] = "activate" /\ active[p] /\ ~Halts(disk)
          /\ activatedAt[p] \in Nat /\ activatedAt[p] <= now
          /\ pc[loop] # "readFlag" => snap[loop].active
          /\ pc[loop] \in {"write", "replace"} => snap[loop].at = activatedAt[p]

(* A script that may reset, or does, has the halt that is still on file.   *)
ScriptKnows(operator) ==
    LET p == OwnerOf[operator] IN
    /\ up[p] /\ active[p] =>
          /\ Halts(disk)
          /\ IF activatedAt[p] = None THEN Reviewed(p)
             ELSE activatedAt[p] = shown[p] /\ (HaltRecorded(disk) => disk.at = shown[p])
    /\ pc[operator] \in Saving =>
          /\ op[operator] = "reset" /\ Halts(disk)
          /\ ~active[p] /\ activatedAt[p] = None /\ Reviewed(p)
          /\ pc[operator] # "readFlag" => ~snap[operator].active
    /\ pc[operator] \notin {"readStamp", "callback"}

(* An announcement is that of the runner, of a halt that is on file and    *)
(* that no reset has begun to lift.                                        *)
NoticeIsOurs(loop, operator) ==
    /\ \A p \in Procs : notice[p] # "none" => p = OwnerOf[loop]
    /\ notice[OwnerOf[loop]] = "sent" => pc[loop] \notin Saving /\ Halts(disk)
    /\ pc[loop] = "callback" /\ notice[OwnerOf[loop]] = "due" => Halts(disk)
    /\ pc[operator] \in Saving => notice[OwnerOf[loop]] = "none"

ApartInv(loop, operator) ==
    /\ TypeOK
    /\ CallsRun
    /\ TmpIsOurs
    /\ RecordIsDated
    /\ RunnerKnows(loop)
    /\ ScriptKnows(operator)
    /\ NoticeIsOurs(loop, operator)

(* Each step of the two keeps what they know.                              *)
LEMMA ApartInvStep ==
    ASSUME NEW loop \in Threads, NEW operator \in Threads, Apart(loop, operator),
           ApartInv(loop, operator), TypeOK', Next, DamagedAtRest
    PROVE  ApartInv(loop, operator)'
<1> USE ThreadsAssumption, TimeAssumption, DistinctAssumption
    DEF ApartInv, Apart, CallsRun, TmpIsOurs, RecordIsDated, Reviewed, RunnerKnows,
        ScriptKnows, NoticeIsOurs, Saving, memory, history, Halts, HaltRecorded, Record, Stamp
<1>1. ASSUME NEW p \in Procs, Start(p) PROVE ApartInv(loop, operator)'
  <2> USE <1>1 DEF Start
  <2>1. CallsRun' /\ TmpIsOurs' /\ RecordIsDated'
    BY DEF TypeOK
  <2>2. RunnerKnows(loop)'
    <3>1. CASE p = OwnerOf[loop]
      <4>1. pc[loop] \notin Saving
        BY <3>1
      <4>2. up'[p] /\ ~active'[p] => ~Halts(disk)
        BY <3>1 DEF TypeOK
      <4> QED
        BY <3>1, <4>1, <4>2
    <3>2. CASE p # OwnerOf[loop]
      <4>1. UNCHANGED <<active[OwnerOf[loop]], activatedAt[OwnerOf[loop]], up[OwnerOf[loop]]>>
        BY <3>2 DEF TypeOK
      <4> QED
        BY <4>1
    <3> QED
      BY <3>1, <3>2
  <2>3. ScriptKnows(operator)'
    BY DEF LoadedAt, TypeOK
  <2>4. NoticeIsOurs(loop, operator)'
    BY DEF TypeOK
  <2> QED
    BY <2>1, <2>2, <2>3, <2>4
<1>2. ASSUME NEW p \in Procs, Crash(p) PROVE ApartInv(loop, operator)'
  BY <1>2 DEF Crash, TypeOK
<1>3. ASSUME NEW t \in Threads, Activate(t) PROVE ApartInv(loop, operator)'
  BY <1>3 DEF Activate, BeginSave, TypeOK
<1>4. ASSUME NEW t \in Threads, Reset(t) PROVE ApartInv(loop, operator)'
  BY <1>4 DEF Reset, CooldownOver, BeginSave, TypeOK
<1>5. ASSUME NEW t \in Threads, ReadFlag(t) PROVE ApartInv(loop, operator)'
  BY <1>5 DEF ReadFlag, TypeOK
<1>6. ASSUME NEW t \in Threads, TestStamp(t) PROVE ApartInv(loop, operator)'
  BY <1>6 DEF TestStamp, TypeOK
<1>7. ASSUME NEW t \in Threads, ReadStamp(t) PROVE ApartInv(loop, operator)'
  BY <1>7 DEF ReadStamp, TypeOK
<1>8. ASSUME NEW t \in Threads, WriteTmp(t) PROVE ApartInv(loop, operator)'
  BY <1>8 DEF WriteTmp, TypeOK
<1>9. ASSUME NEW t \in Threads, Replace(t) PROVE ApartInv(loop, operator)'
  BY <1>9 DEF Replace, AfterSave, TypeOK
<1>10. ASSUME NEW t \in Threads, SaveFails(t) PROVE ApartInv(loop, operator)'
  BY <1>10 DEF SaveFails, FailSafe, TypeOK
<1>11. ASSUME NEW t \in Threads, Callback(t) PROVE ApartInv(loop, operator)'
  BY <1>11 DEF Callback, TypeOK
<1>12. CASE Damage
  BY <1>12 DEF Damage, DamagedAtRest, TypeOK
<1>13. CASE Tick
  BY <1>13 DEF Tick, TypeOK
<1> QED
  BY <1>1, <1>2, <1>3, <1>4, <1>5, <1>6, <1>7, <1>8, <1>9, <1>10, <1>11,
     <1>12, <1>13 DEF Next, Proceed

(* With the runner and the script as two processes, whatever the cooldown  *)
(* of either, and files that are damaged at rest only: a reset lifts the   *)
(* halt its operator was shown and no later one, a halt that was announced *)
(* outlives every crash until then, and no stale one waits for the runner. *)
THEOREM ScriptLiftsWhatItShows ==
    ASSUME RolesApart
    PROVE  ReviewSpec => ReviewedHaltIsLifted /\ []AlertedHaltIsDurable /\ []NoStaleHalt
<1> PICK loop \in Threads, operator \in Threads : Apart(loop, operator)
  BY DEF RolesApart
<1>1. Init => ApartInv(loop, operator)
  BY ThreadsAssumption, DistinctAssumption
  DEF Init, ApartInv, Apart, TypeOK, Labels, Record, Stamp, Blank, CallsRun, TmpIsOurs,
      RecordIsDated, RunnerKnows, ScriptKnows, NoticeIsOurs, HaltRecorded, Halts, Saving
<1>2. ApartInv(loop, operator) /\ TypeOK' /\ [Next /\ DamagedAtRest]_vars
        => ApartInv(loop, operator)'
  <2>1. CASE Next /\ DamagedAtRest
    BY <2>1, ApartInvStep
  <2>2. CASE UNCHANGED vars
    BY <2>2 DEF vars, ApartInv, Apart, TypeOK, CallsRun, TmpIsOurs, RecordIsDated, Reviewed,
       RunnerKnows, ScriptKnows, NoticeIsOurs, HaltRecorded, Halts
  <2> QED
    BY <2>1, <2>2
<1>3. ApartInv(loop, operator) /\ TypeOK' /\ [Next /\ DamagedAtRest]_vars =>
        [HaltRecorded(disk) /\ ~Halts(disk') =>
            \E t \in Threads :
                /\ Replace(t) /\ op[t] = "reset"
                /\ shown[OwnerOf[t]] = disk.at
                /\ now - disk.at >= Cooldown[OwnerOf[t]]]_vars
  <2> SUFFICES ASSUME ApartInv(loop, operator), Next, HaltRecorded(disk), ~Halts(disk')
               PROVE \E t \in Threads :
                        /\ Replace(t) /\ op[t] = "reset"
                        /\ shown[OwnerOf[t]] = disk.at
                        /\ now - disk.at >= Cooldown[OwnerOf[t]]
    OBVIOUS
  <2>1. PICK t \in Threads : Replace(t)
    BY DEF Next, Proceed, Start, Crash, Activate, Reset, ReadFlag, TestStamp, ReadStamp,
       WriteTmp, SaveFails, FailSafe, Callback, Damage, Tick, Halts
  <2>2. t = operator
    BY <2>1 DEF Apart, Replace, ApartInv, RunnerKnows, Saving, Halts
  <2> QED
    BY <2>1, <2>2 DEF Replace, ApartInv, ScriptKnows, Reviewed, Saving
<1>4. ApartInv(loop, operator) => AlertedHaltIsDurable /\ NoStaleHalt
  BY ThreadsAssumption DEF Apart, ApartInv, RunnerKnows, NoticeIsOurs, AlertedHaltIsDurable,
     NoStaleHalt, Halts
<1>5. [Next /\ DamagedAtRest]_vars => [Next]_vars
  OBVIOUS
<1> QED
  BY TypeCorrect, <1>1, <1>2, <1>3, <1>4, <1>5, PTL DEF Spec, ReviewSpec, ReviewedHaltIsLifted
=============================================================================
