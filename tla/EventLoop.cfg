SPECIFICATION Spec
CONSTANTS
  Events = {e1, e2}
  Threads = {t1, t2}
INVARIANTS
  NoLostWakeup
PROPERTIES
  InjectedBreakStops
  ImplementsInjectQueue
