SPECIFICATION Spec
CONSTANTS
  Parts = {"operator", "takeover", "queue", "inbound", "scheduler", "timers", "live", "clock", "dryrun"}
  OperatorBounds <- SmallOperator
  TakeoverBounds <- TwoRuntimes
  QueueBounds <- TwoNotes
  InboundBounds <- FiveUpdates
  SchedulerBounds <- TwoMarkets
  TimersBounds <- TwoTimers
  LiveBounds <- TwoSyncs
  ClockBounds <- SetBackClock
  DryRunBounds <- TwoTicks
CHECK_DEADLOCK FALSE
INVARIANTS OperatorSound TelegramSound SchedulerSound 
PROPERTIES OperationsSteps
