CONSTANTS
  e1 = e1  e2 = e2
  Event = {e1, e2}
  Delivery = {1, 2}
  EventOf <- Siblings
  Priority <- Urgency
  MaxAttempts = 2
  MaxFaults = 2
  MaxReplays = 1
SPECIFICATION FairQueueSpec
INVARIANTS CompletedWasReceived RepeatsExcused GivenUpAfterRefusals
PROPERTIES UnfinishedKept EventuallyFinished
