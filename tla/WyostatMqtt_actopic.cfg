SPECIFICATION MCSpec
CONSTANTS
  LOWEST_TEMP = 4
  HIGHEST_TEMP = 5
  NightTemp = 4
  DayTemp = 5
  Drags = {3, 5, 6}
  PressedModes = {"heating", "cooling", "off"}
  Injected = {"heating", "cooling"}
  MaxEvents = 2
PROPERTY
  FurnaceTopicTellsFurnace
CHECK_DEADLOCK FALSE
