SPECIFICATION Spec
CONSTANTS
  w1 = w1
  w2 = w2
  l1 = l1
  l2 = l2
  g1 = g1
  g2 = g2
  k1 = k1
  k2 = k2
  o1 = o1
  o2 = o2
  Windows <- TwoWindows
  Layers <- TwoLayers
  Grabs <- TwoGrabs
  LockSurfaces <- TwoLockSurfaces
  Outputs <- TwoOutputs
  Whitelistable <- TwoLayers
  None = None
  Gone = Gone
  MaxEvents = 5
CHECK_DEADLOCK FALSE
INVARIANTS
  TypeOK
  LockOwnsKeyboard
  ClaimsAreTypeable
  ClearedOnce
  LedgerNamesItsOutput
  NoWrongWindow
SYMMETRY Symmetry
