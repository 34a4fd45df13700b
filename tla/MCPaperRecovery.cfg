SPECIFICATION PaperSpec
CONSTANTS
  Pairs = {"AAPL_MSFT", "SPY_IVV"}
  SectorOf <- NoSectors
  NoSector = "unknown"
  EngineLosses = {2}
  StreakLimit = 2
  PositionLimit = 2
  DayLimit = 3
  SectorLimit = 40
  DayBound = 6
  MaxIterations = 4
  MaxErrors = 2
INVARIANT ErrorsHaveACause
