SPECIFICATION FairSpec
CONSTANTS
  N = 2
  SymbolOf <- MCTwinSymbolOf
  StepOf <- MCTwinStepOf
  Start = 4
  MaxTime = 6
  MaxScans = 2
  MaxTroubles = 1
INVARIANTS TypeOK SubmittedOnce HeldBatchIsOneBar
PROPERTIES MarkedIsFinal DueBarIsTaken
