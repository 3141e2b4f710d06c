SPECIFICATION Spec
CONSTANTS
  Supports = {"tmpfile", "tmp", "none"}
  IoMayFail = TRUE
  MaxSaves = 3
  MaxCrashes = 2
INVARIANTS SavedMeansVisible RolledBack OldOrNew NeverTorn DamageIsDetected
