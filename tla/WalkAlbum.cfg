SPECIFICATION Spec
CONSTANTS
  a = a
  b = b
  c = c
  d = d
  e = e
  Root = Root
  Nodes <- AlbumNodes
  Parent <- AlbumParent
  Kind <- AlbumKind
  Contents <- AlbumContents
  Modes = {"STEREO"}
  Plugin = "sacdiso"
  MaxChanges = 4
  MaxWalks = 2
  OneShot = FALSE
  DiscardAllowed = FALSE
  CancelAllowed = TRUE
  SaveMayFail = FALSE
  Ignorable = {a}
INVARIANTS TypeOK WalkComplete AdditionsAreSaved
PROPERTIES WalkTerminates
CHECK_DEADLOCK FALSE
