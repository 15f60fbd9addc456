SPECIFICATION LegacyLiveSpec
CONSTANTS
  MaxGc = 5
INVARIANTS LegacyTypeOK
PROPERTIES CountIsCleared
CHECK_DEADLOCK FALSE
