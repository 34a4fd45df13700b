SPECIFICATION RiskSpec
CONSTANTS
  Equities = {0, 85, 95, 100, 110}
  Initial = 100
  Losses = {1, 2}
  RiskShares = {0, 40}
  MaxDrawdown = 10
  MaxDailyLoss = 3
  MaxStreak = 3
  MaxPositions = 3
  MaxHeat = 95
  CooldownBars = 2
  LossBound = 5
  Navs = {70, 80, 84, 88, 90, 92, 94, 96, 98, 100, 104}
  StartNav = 100
  Tiers <- TierTable
  TierCooldown = 3
  Pairs = {"AAPL_MSFT", "SPY_IVV"}
  SectorOf <- SectorTable
  NoSector = "unknown"
  EngineLosses = {2}
  StreakLimit = 2
  PositionLimit = 2
  DayLimit = 3
  SectorLimit = 40
  DayBound = 6
  MaxIterations = 4
  MaxErrors = 2
  Tracked = {o1, o2}
  Quantity = 1
  MaxRetries = 1
  AttemptBound = 2
  TradedPairs = {"AAPL_MSFT", "SPY_IVV"}
  LossLimit = 2
  CooldownDays = 2
  SeedLosses = 1
  FirstDates = {1, 3}
  LastDate = 4
INVARIANTS
  ApprovalIsDeserved
  NoTradeInCooldown
  MismatchIsRaised OldLossesAreForgotten ShutdownClosesAll
PROPERTIES
  CooldownIsPaidOnce CooldownIsServed
  NoOrderStaysOpen
