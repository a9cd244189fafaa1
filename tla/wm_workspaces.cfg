SPECIFICATION Spec
CONSTANTS
  NumClients = 3
  MaxWorkspaces = 2
  SpecialNames = {}
  MaxSpecials = 1
  NoSpecial = NoSpecial
  MapRules <- PlainOnly
  Gestures = {"workspace", "minimize", "direct", "activate"}
  HideSpecialOnSwitch = FALSE
  FocusFollowsMouse = FALSE
INVARIANTS
  TypeOK
  HistoryWellFormed
PROPERTIES
  NoStrandedKeyboard
  ActivationWithoutDetour
