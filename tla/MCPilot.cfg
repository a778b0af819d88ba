SPECIFICATION Spec
CONSTANTS
  Parts = {"stores", "two orders", "ledger", "lifecycle", "binding", "creation", "first", "held", "draining", "entered", "inspected"}
CHECK_DEADLOCK FALSE
INVARIANTS StoresAgree PilotSound InspectionSound
PROPERTIES PilotSteps
