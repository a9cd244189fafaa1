SPECIFICATION FairSpec
CONSTANTS
  JobRoom = 2
  UpdateRoom = 8
  MaxShots = 1
  MaxClipboard = 2
  Destinations <- OneDestination
  None = None
PROPERTIES
  LockStopsRecording
