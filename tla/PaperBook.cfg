SPECIFICATION Spec
CONSTANTS
  Symbols = {btc, eth}
  Terms = {1}
  MaxPos = 2
  Capital = 100
  EntryFee = 1
  ExitFee = 2
  Gross <- MCGross
  FundingTargets <- MCFunding
  MaxCrashes = 1
  MaxFaults = 1
INVARIANTS TypeOK AtMostOneUnjournaled OpenMirrorsAreJournaled FundingIsOwned NoFalseTrip SettledOnce OpenPositionsAreWatched CashMatchesHistory
SYMMETRY MCSymmetry
