CONSTANTS
  xrp = xrp  cycle = cycle  panel = panel
  Trade = {xrp}
  Sync = {cycle}
  MaxAge = 1
  SyncLimit = 1
  LossCap = 1
  Faults = {"publish"}
  MaxFaults = 1
SPECIFICATION TradeLedgerSpec
INVARIANTS OnlySentRemembered
