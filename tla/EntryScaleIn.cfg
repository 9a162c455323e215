CONSTANTS
  acct = acct  btc = btc  eth = eth
  Account = {acct}
  Acct = acct
  Intent = {1, 2, 3}
  Amount = {1}
  Limits = {3}
  Instrument = {btc}
  InstOf <- ThreeOnBtc
  SideOf <- ThreeLong
  MaxPositions = 1
  MaxSameSide = 1
  MaxScaleIn = 1
  Faults = {"crash"}
SPECIFICATION EntrySpec
INVARIANT ScaleInsBounded
PROPERTY UsesLedger
CONSTRAINT YoungOnly
