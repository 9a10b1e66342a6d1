SPECIFICATION MCSpec
CONSTANTS
  LOWEST_TEMP = 4
  HIGHEST_TEMP = 7
  HILOGAP = 2
  AWAYMIN = 5
  AWAYMAX = 7
  MIN_CHANGE_DURATION = 1
  NightTemp = 4
  DayTemp = 7
  MinTemp = 5
  MaxTemp = 6
  SensorMayFail = FALSE
  Leftover = {}
  Drags = {4, 7}
  PressedModes = {"cooling", "off"}
  Injected = {"heating"}
  MaxEvents = 2
  MaxWaiting = 7
PROPERTIES
  ConversationHolds
  ControlHolds
  RestUnlessCooling
  OffReachesRelays
  RefreshesUnlessCooling
