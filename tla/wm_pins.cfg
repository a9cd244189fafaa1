SPECIFICATION Spec
CONSTANTS
  NumClients = 2
  MaxWorkspaces = 3
  SpecialNames = {term}
  MaxSpecials = 1
  NoSpecial = NoSpecial
  MapRules <- PinningRules
  Gestures = {"pin", "carry", "remove", "chrome", "lock", "urgent", "activate"}
  HideSpecialOnSwitch = FALSE
  FocusFollowsMouse = TRUE
INVARIANTS
  WorkspacesInRange
  NothingLeftMapped
PROPERTIES
  LockKeepsDesktop
