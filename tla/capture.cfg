SPECIFICATION Spec
CONSTANTS
  JobRoom = 2
  UpdateRoom = 8
  MaxShots = 2
  MaxClipboard = 2
  Destinations <- AllDestinations
  None = None
INVARIANTS
  TypeOK
  EveryPhotographIsCharged
  RecordingCanEnd
