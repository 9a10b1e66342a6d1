SPECIFICATION Spec
CONSTANTS
  LOWEST_TEMP = 4
  HIGHEST_TEMP = 8
  HILOGAP = 4
  AWAYMIN = 5
  AWAYMAX = 8
  MIN_CHANGE_DURATION = 2
  NightTemp = 5
  DayTemp = 7
  MinTemp = 1
  MaxTemp = 9
  Payloads = {3, 8}
  SensorMayFail = FALSE
  Leftover = {80}
PROPERTIES
  OffOnlyWhenTooHot
