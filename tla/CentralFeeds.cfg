SPECIFICATION MCSpec
CONSTANTS
  NumSubs = 2
  LoSub = 1
  MaxRetries = 2
  Values = {0, 1, 2}
  Default = 1
  MaxEvents = 3
INVARIANTS
  TypeOK
  NoFeedForgotten
  AgreesWhenQuiet
PROPERTIES
  AgreesWithFeed
CHECK_DEADLOCK FALSE
