SPECIFICATION Spec
CONSTANTS
  Threads = {main, exits}
  Files = {1}
  Symbols = {"btc"}
  Contents <- MCContents
  MaxPos = 1
  MaxTime = 0
  Slack = 1
  MaxDrops = 2
  MaxCrashes = 1
  MaxFaults = 1
PROPERTY OnlyBadRequestsAreRejected
CHECK_DEADLOCK FALSE
