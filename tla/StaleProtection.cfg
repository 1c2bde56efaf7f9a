SPECIFICATION Spec
CONSTANTS
  Sides = {"LONG", "SHORT"}
  Window = 2
  MaxTime = 4
  Moves <- MCMoves
  Fundings <- MCFundings
  Bars <- MCBars
  SleeveStop <- MCSleeveStop
  MaxRows = 2
  MaxCrashes = 0
  MaxFaults = 0
PROPERTY OtherRowsAreLeftAlone
CHECK_DEADLOCK FALSE
