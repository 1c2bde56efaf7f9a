SPECIFICATION Spec
CONSTANTS
  Symbols = {a, b}
  Strategies = {s, t}
  Modes = {"cooldown", "raw", "clustered"}
  BlockAt = 2
  CoolDownAt = 2
  Window = 2
  MinTrades = 2
  MaxOpen = 2
  DailyLoss = 3
  Gains <- MCGains
  MaxTrades = 3
  MaxDays = 1
INVARIANTS TypeOK TrialsAreRemembered OneTrialAtATime
PROPERTIES FillsMeetTheLimits
SYMMETRY MCSymmetry
CHECK_DEADLOCK FALSE
