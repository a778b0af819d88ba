SPECIFICATION Spec
CONSTANTS
  NoProc = NoProc
  Proc = {p1, p2}
  MaxClock = 1
  TTL = 1
  Kinds = {"runtime"}
  MaxFaults = 1
SYMMETRY ProcSymmetry
INVARIANTS
  TypeOK
  GenerationsUnique
  LossStopsRuntime
PROPERTIES
  DispatchFenced
  SupersededIsInert
  NoOverlappingSideEffect
  ImplementsFence
CHECK_DEADLOCK FALSE
