SPECIFICATION Spec
CONSTANTS
  LOWEST_TEMP = 2
  HIGHEST_TEMP = 6
  DEFAULT_SETTEMPLO = 3
  DEFAULT_SETTEMPHI = 5
  MaxTemp = 7
  Payloads = {2, 3, 4, 5, 6}
PROPERTY
  CrossingIsReset
