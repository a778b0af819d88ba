SPECIFICATION Spec
CONSTANTS
  NoProc = NoProc
  Proc = {p1, p2}
  MaxClock = 2
  TTL = 2
  Kinds = {"runtime", "scoped"}
  MaxFaults = 0
SYMMETRY ProcSymmetry
INVARIANTS
  OneOutcomePerGeneration
PROPERTIES
  HeartbeatMonotone
  ReleasedQuiescent
CHECK_DEADLOCK FALSE
