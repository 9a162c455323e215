SPECIFICATION Spec
CONSTANTS
  Price = 200
  Atr = 4
  StopDistance = 8
  TargetDistance = 20
  Entry <- SomeEntries
  Stop <- SomeStops
  Target <- SomeTargets
  Ticker <- SomeTickers
  Margin = {0, 7000, 30000, 150000}
  Lever = {1, 3, 7}
  Confidence = {60, 70, 80, 95}
  Base = {1, 4}
  Equity = {30000, 400000}
  Held = {0, 20000}
  Cap = 60000
INVARIANT ClampKeepsAcceptable
CHECK_DEADLOCK FALSE
