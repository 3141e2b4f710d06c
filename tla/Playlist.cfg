SPECIFICATION Spec
CONSTANTS
  a = a
  b = b
  c = c
  Songs = {a, b, c}
  MaxLength = 3
  IdSize = 6
  MaxVersion = 9
  Priorities = {0, 1}
  Cautious = TRUE
  Saved <- MCSaved
  MaxCommands = 3
INVARIANTS
  Sound
  QueueConsistent
  InStep
  WillResume
PROPERTIES
  ChangesAnnounced
  RestartGoesOn
CHECK_DEADLOCK FALSE
