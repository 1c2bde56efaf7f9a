SPECIFICATION Spec
CONSTANTS
  Symbols = {a, b}
  Gains <- MCMarks
  Drawdown = 2
  MaxTrades = 2
PROPERTY DrawdownTripIsReal
CHECK_DEADLOCK FALSE
