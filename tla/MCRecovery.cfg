SPECIFICATION Spec
CONSTANTS
  Parts = {"history", "complete", "sweep", "crashing", "portfolio", "overlap", "identity", "pinned", "scripts", "opening"}
CHECK_DEADLOCK FALSE
INVARIANTS  SweepSound  DatabaseSound
PROPERTIES RecoverySteps
