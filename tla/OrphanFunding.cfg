SPECIFICATION Spec
CONSTANTS
  Symbols = {btc}
  Terms = {1}
  MaxPos = 2
  Capital = 100
  EntryFee = 1
  ExitFee = 2
  Gross <- MCGross
  FundingTargets <- MCFunding
  MaxCrashes = 2
  MaxFaults = 1
INVARIANT FundingIsOwned
