SPECIFICATION Spec
CONSTANTS
  Sides = {"LONG", "SHORT"}
  Window = 2
  MaxTime = 4
  Moves <- MCMoves
  Fundings <- MCFundings
  Bars <- MCBars
  SleeveStop <- MCSleeveStop
  MaxRows = 2
  MaxCrashes = 1
  MaxFaults = 1
INVARIANTS TypeOK FilledOnce
PROPERTIES FillIsConfirmed StopNeverLoosens FloorWaitsASample
CHECK_DEADLOCK FALSE
