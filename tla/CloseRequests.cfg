SPECIFICATION FairSpec
CONSTANTS
  Threads = {main, exits}
  Files = {1}
  Symbols = {"btc"}
  Contents <- MCContents
  MaxPos = 2
  MaxTime = 2
  Slack = 1
  MaxDrops = 2
  MaxCrashes = 1
  MaxFaults = 1
INVARIANTS TypeOK OnePositionPerSymbol AnswersAreTrue
PROPERTIES LaterCloseNeedsARace AnswerStands EveryRequestLeaves
CHECK_DEADLOCK FALSE
