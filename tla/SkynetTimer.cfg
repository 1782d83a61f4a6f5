SPECIFICATION FairSpec
CONSTANTS
  Bound = 2
  NearShift = 2
  LevelShift = 1
  MaxDiff = 2
 
PROPERTIES IsAlarm Fires
