CONSTANTS
  Top = 5
  Entry = 2
  InitialStop = 1
  Breakeven = 3
  LockIn = 3
  EarlyProfit = 4
  FirstTier = 4
  SecondTier = 4
  MomentumAt = 4
  Pullback = 2
  Buffer = 1
  FirstTp = 4
  SecondTp = 6
  Targets = {5, 6}
  Ratio = 35
  Sizes = {2}
  MaxFaults = 0
SPECIFICATION ProtectionSpec
PROPERTIES AiOnlyTightens
