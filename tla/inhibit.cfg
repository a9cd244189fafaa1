SPECIFICATION Spec
CONSTANTS
  p1 = p1
  p2 = p2
  h1 = h1
  c1 = c1
  c2 = c2
  Peers <- TwoPeers
  Paths <- OnePath
  Slots <- TwoSlots
  None = None
  Service = Service
  MaxRequests = 2
  CookieSpace = 3
  MaxCalls = 3
INVARIANTS
  TypeOK
  CountIsTheLedgers
  NoLostWake
  CookieIsHeld
  PortalAgrees
  PolicyFollows
SYMMETRY Symmetry
