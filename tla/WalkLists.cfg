SPECIFICATION Spec
CONSTANTS
  a = a
  b = b
  c = c
  d = d
  e = e
  Root = Root
  Nodes <- SheetNodes
  Parent <- SheetParent
  Kind <- SheetKind
  Contents <- SheetContents
  Modes = {"ALL"}
  Plugin = "sacdiso"
  MaxChanges = 2
  MaxWalks = 2
  OneShot = TRUE
  DiscardAllowed = FALSE
  CancelAllowed = FALSE
  SaveMayFail = FALSE
  Ignorable = {}
PROPERTY OnlyDisappearedListsGo
CHECK_DEADLOCK FALSE
