SPECIFICATION Spec
CONSTANTS
  NoProc = NoProc
  Proc = {p1, p2}
  MaxClock = 1
  TTL = 1
  Kinds = {"scoped"}
  MaxFaults = 0
PROPERTIES
  NoOverlappingSideEffect
CHECK_DEADLOCK FALSE
