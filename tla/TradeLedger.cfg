CONSTANTS
  xrp = xrp  cycle = cycle  panel = panel
  Trade = {xrp}
  Sync = {cycle, panel}
  MaxAge = 1
  SyncLimit = 1
  LossCap = 1
  Faults = {"fetch", "kill", "publish", "save"}
  MaxFaults = 1
SPECIFICATION TradeLedgerSpec
INVARIANTS GateSeesOldLosses CardsExcused CloseAnnounced
