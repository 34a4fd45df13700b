SPECIFICATION BacktestSpec
CONSTANTS
  Navs <- Values
  StartNav = 100
  Tiers <- TierTable
  TierCooldown = 1
  Pairs = {k1, k2, k3}
  LastBar = 5
  OosBar = 2
  HoldLimit <- Limits
  Slots = 2
  StrategyLimit = 12
  EntryCost = 1
  Gains <- Outcomes
INVARIANTS
  AccountsAgree StrategyKnowsTheBook HoldingIsBounded
PROPERTIES
  FilledBeforeClosed OnlyLossesOfTheWindowStop
SYMMETRY Interchangeable
CHECK_DEADLOCK FALSE
