SPECIFICATION Spec
CONSTANTS
  NoTask = NoTask
  Task = {t1, t2}
  Key = {k1}
  Decisions <- AnyDecisions
  Reconciler = {r1}
  Enough = 2
  Prompt = TRUE
  MaxFaults = 2
  MaxCommands = 2
SYMMETRY OrderSymmetry
PROPERTIES
  SentOnce
  
CHECK_DEADLOCK FALSE
