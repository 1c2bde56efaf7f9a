SPECIFICATION Spec
CONSTANTS
  Threads = {main, exits}
  Files = {1}
  Symbols = {"btc"}
  Contents <- MCContents
  MaxPos = 2
  MaxTime = 2
  Slack = 1
  MaxDrops = 2
  MaxCrashes = 0
  MaxFaults = 0
PROPERTY LaterPositionsSurvive
CHECK_DEADLOCK FALSE
