SPECIFICATION MCSpec
CONSTANTS
  NumSubs = 2
  LoSub = 1
  MaxRetries = 2
  Values = {0, 1, 2}
  Default = 1
  MaxEvents = 0
INVARIANTS
  ConnectedMeansAccepted
CHECK_DEADLOCK FALSE
