SPECIFICATION Spec
CONSTANTS
  Watched <- Small
  Capacity = 2
  MaxChanges = 3
INVARIANT MusicDirectoryUpdated
CHECK_DEADLOCK FALSE
