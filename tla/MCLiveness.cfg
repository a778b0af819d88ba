SPECIFICATION Spec
CONSTANTS
  Parts = {"stop", "inbound", "queue", "timers", "history", "sweep", "starving", "opening"}
CHECK_DEADLOCK FALSE
PROPERTIES OperationsConclude RecoveryCompletes
