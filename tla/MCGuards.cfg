SPECIFICATION GuardsSpec
CONSTANTS
  NoFile = NoFile
  Corrupt = Corrupt
  None = None
  Procs <- RunnerAndScript
  Threads <- LoopAndOperator
  OwnerOf <- Owners
  Activators = {"loop"}
  Resetters = {"loop", "operator"}
  Cooldown <- Cooldowns
  MaxTime = 4
  DiskFaults = TRUE
  Engines = {e1, e2}
  Threshold = 2
  BasePause = 1
  MaxCycles = 3
  Callers = {t1, t2, t3}
  FailureThreshold = 2
  SuccessThreshold = 2
  OpenTime = 1
  Users = {u1, u2}
  Burst = 2
  Token = 2
  Rate = 1
  Patience = 3
  Window = 4
INVARIANTS
  AlertedHaltIsDurable NoStaleHalt DeadIsEarned ClaimIsNotLeaked WindowIsBounded
PROPERTIES
  ReviewedHaltIsLifted HaltIsAnnouncedEventually OpenIsNotForEver OpenIsServed ClosesAfterRecovery
CHECK_DEADLOCK FALSE
