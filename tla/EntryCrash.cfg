CONSTANTS
  acct = acct  btc = btc  eth = eth
  Account = {acct}
  Acct = acct
  Intent = {1, 2}
  Amount = {1}
  Limits = {1, 2}
  Instrument = {btc}
  InstOf <- TwoOnBtc
  SideOf <- LongShort
  MaxPositions = 2
  MaxSameSide = 2
  MaxScaleIn = 1
  Faults = {"crash"}
SPECIFICATION FairEntrySpec
INVARIANTS NeverHedged
PROPERTIES OwnIntentSurvives OrphanResolved BudgetReturns
