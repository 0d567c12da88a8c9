SPECIFICATION Spec
CONSTANTS
  MaxData = 1
  MaxSaves = 1
  MaxTroubles = 1
INVARIANTS OneWriter SavedIsDurable FormNotOlder
PROPERTIES PageCatchesUp WSLCatchesUp SettingsReachThePage
CHECK_DEADLOCK FALSE
