CONSTANTS
  acct = acct  btc = btc  eth = eth
  Account = {acct}
  Acct = acct
  Intent = {1, 2}
  Amount = {1}
  Limits = {2}
  Instrument = {btc, eth}
  InstOf <- BtcEth
  SideOf <- TwoLong
  MaxPositions = 1
  MaxSameSide = 1
  MaxScaleIn = 1
  Faults = {"network", "lost_reply", "crash", "files"}
SPECIFICATION EntrySpec
CONSTRAINTS AgesApart FaultsApart
INVARIANTS KnownExposureReserved SlotsRespected
