SPECIFICATION Spec
CONSTANTS
  MinimumTradeValue = 5000
  EntryAllocation = 30
  AddAllocation = 18
  ReduceFraction = 3300
  AssetMax = 45
  StrongAssetMax = 60
  PortfolioMax = 75
  ExitPenalty = 4
  LossExitPenalty = 2
  LossCooldown = 2
  PathCooldown = 4
  MaxAdds = 1
  Null = Null
  r1 = r1
  r2 = r2
  r3 = r3
  a1 = a1
  a2 = a2
  a3 = a3
  i1 = i1
  Parts = {"guard", "runs", "wallet", "waiting", "replay", "invested", "parity", "data", "trades", "two markets", "report", "marks", "drawdown", "hourly", "off hour", "no trade", "gaps", "commitment", "registration", "abandonment", "residue", "evaluation"}
CHECK_DEADLOCK FALSE
INVARIANTS  BacktestSound ReportSound CoverageSound ShadowSound
PROPERTIES EvidenceSteps
