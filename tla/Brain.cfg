SPECIFICATION Spec
CONSTANTS
  Seats = 3
  Weight <- FactoryWeights
  Models = 3
  Trader = {t1, t2}
  Manual = {m1}
  Instrument = {btc}
  Timeout <- SomeTimeouts
CONSTRAINT CouncilsApart
INVARIANTS
  FreshInstructionsOnly
  OnlyShownPositions
  ArbitrationReached
CHECK_DEADLOCK FALSE
