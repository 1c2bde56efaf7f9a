SPECIFICATION Spec
CONSTANTS
  N = 3
  SymbolOf <- MCSymbolOf
  StepOf <- MCStepOf
  Start = 2
  MaxTime = 4
  MaxScans = 2
  MaxTroubles = 0
INVARIANT BatchIsNotSplit
