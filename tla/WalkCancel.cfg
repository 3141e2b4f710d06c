SPECIFICATION Spec
CONSTANTS
  a = a
  b = b
  c = c
  d = d
  e = e
  Root = Root
  Nodes <- AlbumNodes
  Parent <- AlbumParent
  Kind <- AlbumKind
  Contents <- AlbumContents
  Modes = {"ALL"}
  Plugin = "sacdiso"
  MaxChanges = 2
  MaxWalks = 2
  OneShot = FALSE
  DiscardAllowed = FALSE
  CancelAllowed = TRUE
  SaveMayFail = FALSE
  Ignorable = {}
PROPERTY OnlyDeletedIsPurged
CHECK_DEADLOCK FALSE
