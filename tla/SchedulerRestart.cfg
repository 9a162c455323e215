CONSTANTS
  trading = trading  news = news  factors = factors  briefing = briefing
  Job = {news, briefing}
  Kind <- Kinds
  Interval <- Intervals
  Offset <- Offsets
  Minutes <- Times
  Trader = trading
  Threads = 1
  Run = {1, 2, 3, 4, 5}
  StartTime = 5
  MaxTime = 8
  MaxLives = 2
  Faults = {"kill", "stop"}
SPECIFICATION FairSchedulerSpec
INVARIANTS OnlyFailuresRepeated
PROPERTIES RowsClosed
