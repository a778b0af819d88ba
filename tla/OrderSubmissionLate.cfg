SPECIFICATION Spec
CONSTANTS
  NoTask = NoTask
  Task = {t1}
  Key = {k1}
  Decisions <- AnyDecisions
  Reconciler = {r1}
  Enough = 2
  Prompt = FALSE
  MaxFaults = 0
  MaxCommands = 0
INVARIANTS
  AbsenceIsNonDispatch
CHECK_DEADLOCK FALSE
