SPECIFICATION Spec
CONSTANTS
  p1 = p1
  p2 = p2
  Procs <- TwoProcs
  None = None
  Policy = "onCrash"
  PingEvery = 1
  MaxUnanswered = 2
  Grace = 1
  RejoinWindow = 2
  CrashWindow = 4
  MaxFailures = 2
  Backoff <- ShortBackoff
  Capacity = 2
  Overflow = 1
  Room = 1
  MaxInbox = 1
  MaxEvents = 2
INVARIANTS
  TypeOK
  SlotIsItsOwn
  NothingLeftRunning
  LaunchesBounded
  NoStaleReading
PROPERTIES
  PassSettles
SYMMETRY Symmetry
