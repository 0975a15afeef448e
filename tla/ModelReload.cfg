\* Whether a scan begins with the models whose announcement was heard.
SPECIFICATION Spec
CONSTANTS
  Symbol = {s}
  SuppressAfter = 2
  StaleAfter = 2
  WarnEvery = 1
  Streams = {"none", "up", "down"}
  MaxOutages = 1
PROPERTIES
  ReloadedOnceHeard
CHECK_DEADLOCK FALSE
