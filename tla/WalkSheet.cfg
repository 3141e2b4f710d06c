SPECIFICATION Spec
CONSTANTS
  a = a
  b = b
  c = c
  d = d
  e = e
  Root = Root
  Nodes <- SheetNodes
  Parent <- SheetParent
  Kind <- SheetKind
  Contents <- SheetContents
  Modes = {"ALL"}
  Plugin = "dvdaiso"
  MaxChanges = 4
  MaxWalks = 2
  OneShot = TRUE
  DiscardAllowed = TRUE
  CancelAllowed = FALSE
  SaveMayFail = TRUE
  Ignorable = {}
INVARIANTS WalkComplete NoDanglingTracks ExitMeansSaved
CHECK_DEADLOCK FALSE
