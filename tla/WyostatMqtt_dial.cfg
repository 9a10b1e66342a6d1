SPECIFICATION MCSpec
CONSTANTS
  LOWEST_TEMP = 4
  HIGHEST_TEMP = 6
  NightTemp = 4
  DayTemp = 5
  Drags = {3, 5, 7}
  PressedModes = {"cooling", "off"}
  Injected = {"heating", "cooling"}
  MaxEvents = 3
INVARIANTS
  TypeOK
PROPERTIES
  ConnectRefreshes
  SettingsSettle
  NoEchoStorm
  KeepsInStep
CHECK_DEADLOCK FALSE
