CONSTANTS
  acct = acct  btc = btc  eth = eth
  Account = {acct}
  Acct = acct
  Intent = {1}
  Amount = {1}
  Limits = {1}
  Instrument = {btc}
  InstOf <- OneOnBtc
  SideOf <- OneLong
  MaxPositions = 1
  MaxSameSide = 1
  MaxScaleIn = 1
  Faults = {"lost_reply"}
SPECIFICATION EntrySpec
INVARIANT UnknownOutcomeKeepsBudget
