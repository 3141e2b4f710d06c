SPECIFICATION Spec
CONSTANTS
  a = a
  b = b
  c = c
  d = d
  e = e
  Root = Root
  Nodes <- AlbumNodes
  Parent <- AlbumParent
  Kind <- AlbumKind
  Contents <- AlbumContents
  Modes = {"ALL", "MULTICHANNEL"}
  Plugin = "sacdiso"
  MaxChanges = 2
  MaxWalks = 2
  OneShot = TRUE
  DiscardAllowed = FALSE
  CancelAllowed = FALSE
  SaveMayFail = FALSE
  Ignorable = {}
INVARIANT ChannelModeHonoured
CHECK_DEADLOCK FALSE
