SPECIFICATION Spec
CONSTANTS
  a = a
  b = b
  c = c
  Songs = {a, b, c}
  MaxLength = 3
  IdSize = 6
  MaxVersion = 9
  Priorities = {0, 1}
  Cautious = FALSE
  Saved <- MCSaved
  MaxCommands = 3
INVARIANT
  InStep
CHECK_DEADLOCK FALSE
