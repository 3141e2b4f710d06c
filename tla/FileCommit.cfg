SPECIFICATION Spec
CONSTANTS
  Supports = {"none"}
  IoMayFail = FALSE
  MaxSaves = 3
  MaxCrashes = 2
INVARIANT ThrowsOnlyOnError
