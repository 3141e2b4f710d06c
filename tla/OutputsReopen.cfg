SPECIFICATION Spec
CONSTANTS
  o1 = o1
  o2 = o2
  Outputs = {o1, o2}
  Order <- MCOrder
  Managed = {o1}
  AlwaysOn = {o2}
  MaxChunks = 2
  MaxOperations = 3
  MaxFaults = 1
INVARIANTS
  NoFailedDeviceIsOpen
CHECK_DEADLOCK FALSE
