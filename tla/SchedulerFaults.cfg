CONSTANTS
  trading = trading  news = news  factors = factors  briefing = briefing
  Job = {trading}
  Kind <- Kinds
  Interval <- Intervals
  Offset <- Offsets
  Minutes <- Times
  Trader = trading
  Threads = 1
  Run = {1, 2, 3, 4}
  StartTime = 5
  MaxTime = 10
  MaxLives = 2
  Faults = {"kill", "stop", "database"}
SPECIFICATION FairSchedulerSpec
INVARIANTS RetriedOnce NoOverlap
PROPERTIES SlotsServed
