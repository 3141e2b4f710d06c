SPECIFICATION Spec
CONSTANTS
  Watched <- Nested
  Capacity = 1
  MaxChanges = 3
INVARIANTS NoChangeForgotten QueueIsAntichain
PROPERTIES ChangesAreUpdated
CHECK_DEADLOCK FALSE
