SPECIFICATION FairSpec
CONSTANTS
  NoTask = NoTask
  Task = {t1}
  Key = {k1}
  Decisions <- AnyDecisions
  Reconciler = {r1}
  Enough = 2
  Prompt = TRUE
  MaxFaults = 1
  MaxCommands = 1
PROPERTIES
  RecoveryConcludes
CHECK_DEADLOCK FALSE
