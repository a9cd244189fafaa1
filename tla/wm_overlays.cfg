SPECIFICATION Spec
CONSTANTS
  NumClients = 2
  MaxWorkspaces = 2
  SpecialNames = {term}
  MaxSpecials = 1
  NoSpecial = NoSpecial
  MapRules <- PlacingRules
  Gestures = {"workspace", "special", "activate", "parent", "reparent", "minimize"}
  HideSpecialOnSwitch = TRUE
  FocusFollowsMouse = FALSE
INVARIANTS
  SpecialMembership
  FocusedOnScreen
PROPERTIES
  DialogsFollow
