SPECIFICATION Spec
CONSTANTS
  NoTask = NoTask
  Task = {t1, t2}
  Key = {k1, k2}
  Decisions <- OwnDecisions
  Reconciler = {r1}
  Enough = 2
  Prompt = TRUE
  MaxFaults = 0
  MaxCommands = 1
SYMMETRY OrderSymmetry
INVARIANTS
  TypeOK
  UnresolvedBlocks
  AbsenceIsNonDispatch
PROPERTIES
  SendsExclusive
  LeaseKept
CHECK_DEADLOCK FALSE
