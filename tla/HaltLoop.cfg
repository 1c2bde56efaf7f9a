SPECIFICATION FairSpec
CONSTANTS
  Desk = desk
  Operator = operator
  Inodes = {1, 2, 3, 4}
  None = None
  MaxOpen = 2
  MaxFills = 2
  MaxOps = 2
  MaxTroubles = 2
INVARIANTS TypeOK TripStands AtMostOneLateFill
PROPERTIES LeavesOnlyFlat HaltEndsFlat MismatchTrips
CHECK_DEADLOCK FALSE
