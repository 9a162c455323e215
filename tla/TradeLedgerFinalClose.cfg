CONSTANTS
  xrp = xrp  cycle = cycle  panel = panel
  Trade = {xrp}
  Sync = {cycle}
  MaxAge = 1
  SyncLimit = 1
  LossCap = 1
  Faults = {}
  MaxFaults = 0
SPECIFICATION TradeLedgerSpec
INVARIANTS FinalCloseAnnounced
