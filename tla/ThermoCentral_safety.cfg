SPECIFICATION FairSpec
CONSTANTS
  DEFAULT_SET_TEMP_LO = 3
  DEFAULT_SET_TEMP_HI = 5
  tempgap = 2
  FilterFrom = 2
  MaxTemp = 8
  Drift = 6
  Payloads = {4, 7, 255, 260}
  Buttons = {2, 3, 4}
INVARIANTS
  TypeOK
  BlowerFollows
  HighSetPointSurvivesRestart
PROPERTIES
  OpposedOnlyWhenCrossed
  SteadyRoomSteadyRelays
