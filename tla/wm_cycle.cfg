SPECIFICATION Spec
CONSTANTS
  NumClients = 3
  MaxWorkspaces = 1
  SpecialNames = {}
  MaxSpecials = 1
  NoSpecial = NoSpecial
  MapRules <- PlainOnly
  Gestures = {"cycle", "minimize", "reuse", "parent", "remodal"}
  HideSpecialOnSwitch = FALSE
  FocusFollowsMouse = FALSE
INVARIANTS
  CycleHonest
PROPERTIES
  ModalKeepsKeyboard
