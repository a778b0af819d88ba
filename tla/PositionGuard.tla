---------------------------- MODULE PositionGuard ----------------------------
(***************************************************************************)
(* The decisions of the PositionGuard strategy: the baseline engine, the   *)
(* candidate policy laid over it, and the route that decides which of the  *)
(* two is executed. All of it is pure; a context c is a record             *)
(*   a         the analysis of the market (MarketStructure)                *)
(*   quantity, cost   the position and what was paid for it                *)
(*   availableKrw, totalEquity, assetValue, totalExposure   in KRW         *)
(*   latest    the market's last recorded decision, or NoDecision          *)
(*   time      of the decision, in half hours                              *)
(*   exitAge   half hours since the last filled sell, or -1                *)
(* Fractions of the code are hundredths here, of a quantity ten-thousandths.*)
(***************************************************************************)
EXTENDS MarketStructure

CONSTANTS MinimumTradeValue,             \* minimumTradeValueKrw
          EntryAllocation, AddAllocation, \* hundredths of the budget
          ReduceFraction,                \* ten-thousandths of the position
          AssetMax, StrongAssetMax, PortfolioMax,  \* hundredths of the equity
          ExitPenalty,              \* RECENT_EXIT_PENALTY_HOURS, in half hours
          LossExitPenalty,          \* RECENT_LOSS_EXIT_PENALTY_HOURS, too
          LossCooldown, PathCooldown,    \* the candidate's cooldowns, in half hours
          MaxAdds                        \* the candidate's maxAddsPerEpisode

SettingsAssumption ==
  /\ MinimumTradeValue \in Nat \ {0} /\ ReduceFraction \in 0 .. 10000 /\ MaxAdds \in Nat
  /\ {EntryAllocation, AddAllocation, AssetMax, StrongAssetMax, PortfolioMax} \subseteq 0 .. 100
  /\ {ExitPenalty, LossExitPenalty, LossCooldown, PathCooldown} \subseteq Nat

Actions == {"ENTER", "ADD", "REDUCE", "EXIT", "HOLD"}
Dispositions == {"IMMEDIATE", "DEFERRED_CONFIRMATION", "EXECUTED_AFTER_CONFIRMATION", "SKIPPED"}

NoDecision == [action |-> "HOLD", disposition |-> "SKIPPED", path |-> "NONE", bucket |-> "LOW", time |-> -2]

EntryRegimes == {"BULL_TREND", "PULLBACK_IN_UPTREND", "EARLY_RECOVERY"}
CoreRegimes == {"BULL_TREND", "PULLBACK_IN_UPTREND"}

-----------------------------------------------------------------------------
(***************************************************************************)
(* Scores and predicates of the baseline                                   *)
(***************************************************************************)

\* isImmediateExitRequired
ImmediateExitRequired(a) ==
  a.invalidationState = "BROKEN" \/ a.f.breakdown1d \/ (a.f.breakdown4h /\ a.f.bearishMomentumExpansion)

\* hasConstructivePullbackQuality
ConstructivePullback(a) ==
  /\ a.f.pullbackZone
  /\ \/ "LOWER" \in {a.oneHourLocation, a.fourHourLocation}
     \/ a.oneHourLocation = "MIDDLE" /\ a.f.volumeRecovery

\* computeBullishScore
BullishScore(a) ==
  (CASE a.regime \in CoreRegimes -> 3 [] a.regime = "EARLY_RECOVERY" -> 2
     [] a.regime = "RECLAIM_ATTEMPT" -> 1 [] OTHER -> 0)
  + Points(a.invalidationState = "CLEAR", 2)
  + (IF ConstructivePullback(a) THEN 1 ELSE Points(a.f.pullbackZone, -1))
  + Points(a.f.reclaimStructure, 2) + Points(a.f.breakoutHoldStructure, 2)
  + Points(a.f.volumeRecovery, 1) + Points(a.f.macdImproving, 1) + Points(a.f.rsiRecovery, 1)
  + Points(a.f.upperRangeChase, -2) + Points(a.f.breakdown4h, -3) + Points(a.f.breakdown1d, -4)
  + Points(a.trendAlignmentScore >= 4, 1) + Points(a.recoveryQualityScore >= 4, 1)
  + Points(a.entryPath = "NONE", -1) + Points(a.breakdownPressureScore >= 3, -1)

\* computeWeaknessScore
WeaknessScore(a) ==
  Points(a.f.failedReclaim, 2) + Points(a.f.bearishMomentumExpansion, 2) + Points(a.f.breakdown4h, 2)
  + Points(a.regime = "WEAK_DOWNTREND", 1) + Points(a.f.atrShock, 1) + Points(a.f.upperRangeChase, 1)

\* getBullishThresholds: the score for an immediate buy; one for a deferred buy is two lower.
StrongThreshold(action, a) ==
  8 + (CASE a.entryPath = "RECLAIM" -> Points(a.recoveryQualityScore >= 3 /\ a.trendAlignmentScore >= 3, -1)
         [] a.entryPath = "BREAKOUT_HOLD" -> 1 + Points(a.oneHourLocation = "UPPER", 1)
         [] a.entryPath = "PULLBACK" ->
              Points(action = "ADD", 1) + Points("LOWER" \notin {a.oneHourLocation, a.fourHourLocation}, 1)
         [] OTHER -> 0)
    + Points(a.breakdownPressureScore >= 2 /\ action = "ADD", 1)

BorderlineThreshold(action, a) == StrongThreshold(action, a) - 2

\* getReentryPenalty; the derived context never knows the realized result.
ReentryPenalty(c) ==
  IF c.quantity > 0 \/ c.exitAge < 0 \/ c.exitAge > ExitPenalty THEN 0
  ELSE Larger(0, 1 + Points(c.exitAge <= LossExitPenalty, 1)
                   - Points(c.a.f.reclaimStructure /\ c.a.recoveryQualityScore >= 3, 1))

\* toQualityBucket
QualityBucket(score) ==
  CASE score >= 8 -> "HIGH" [] score \in 6 .. 7 -> "MEDIUM" [] score \in 4 .. 5 -> "BORDERLINE" [] OTHER -> "LOW"

\* isConstructiveBullishCandidate
ConstructiveBullish(a) ==
  /\ a.invalidationState = "CLEAR" /\ ~a.f.upperRangeChase /\ ~a.f.breakdown1d /\ ~a.f.breakdown4h
  /\ ConstructivePullback(a) \/ a.f.reclaimStructure \/ a.f.breakoutHoldStructure
  /\ a.regime \in EntryRegimes \cup {"RECLAIM_ATTEMPT"}

\* isHealthyHoldState
HealthyHold(a) ==
  /\ a.invalidationState = "CLEAR" /\ ~a.f.failedReclaim /\ ~a.f.bearishMomentumExpansion
  /\ a.regime # "WEAK_DOWNTREND"

\* isConstructiveAddCandidate
ConstructiveAdd(a) ==
  /\ ConstructiveBullish(a) /\ HealthyHold(a)
  /\ a.breakdownPressureScore <= 1 /\ a.trendAlignmentScore >= 3
  /\ \/ a.entryPath \in {"RECLAIM", "BREAKOUT_HOLD"}
     \/ a.entryPath = "PULLBACK" /\ a.recoveryQualityScore >= 2

-----------------------------------------------------------------------------
(***************************************************************************)
(* Exposure and sizes                                                      *)
(***************************************************************************)

\* getEffectivePerAssetMaxAllocation
AssetAllocation(a) ==
  IF /\ a.invalidationState = "CLEAR" /\ ~a.f.upperRangeChase /\ a.breakdownPressureScore <= 1
     /\ a.trendAlignmentScore >= 4 /\ a.recoveryQualityScore >= 4
     /\ a.regime \in CoreRegimes \/ a.entryPath = "RECLAIM"
  THEN Larger(AssetMax, StrongAssetMax) ELSE AssetMax

Budget(c) == Larger(c.totalEquity, c.availableKrw)

\* buildExposureGuardrails
AssetCapacity(c) == Larger(0, (Budget(c) * AssetAllocation(c.a)) \div 100 - c.assetValue)
PortfolioCapacity(c) == Larger(0, (Budget(c) * PortfolioMax) \div 100 - c.totalExposure)

\* hasBullishRiskCapacity
RiskCapacity(c) ==
  \A room \in {c.availableKrw, AssetCapacity(c), PortfolioCapacity(c)} : room >= MinimumTradeValue

\* getBullishAllocationMultiplier
AllocationMultiplier(action, a, disposition) ==
  LET m == (IF action = "ENTER" THEN 72 ELSE 48)
           + (CASE a.entryPath = "RECLAIM" -> 16 [] a.entryPath = "BREAKOUT_HOLD" -> 12
                [] a.entryPath = "PULLBACK" -> Points("LOWER" \in {a.oneHourLocation, a.fourHourLocation}, 8)
                [] OTHER -> 0)
           + (IF a.trendAlignmentScore >= 4 THEN 8 ELSE Points(a.trendAlignmentScore <= 2, -5))
           + (IF a.recoveryQualityScore >= 4 THEN 8 ELSE Points(a.recoveryQualityScore <= 1, -8))
           - Points(disposition = "EXECUTED_AFTER_CONFIRMATION", 8)
           - Points(disposition = "DEFERRED_CONFIRMATION", 18)
  IN IF action = "ENTER" THEN Larger(35, Smaller(100, m)) ELSE Larger(25, Smaller(90, m))

\* The size in bullishDecision.
TargetNotional(c, action, disposition) ==
  LET base == (Budget(c) * (IF action = "ENTER" THEN EntryAllocation ELSE AddAllocation)) \div 100
  IN Larger(0, Smaller(Smaller((base * AllocationMultiplier(action, c.a, disposition)) \div 100, c.availableKrw),
                       Smaller(AssetCapacity(c), PortfolioCapacity(c))))

-----------------------------------------------------------------------------
(***************************************************************************)
(* Reductions                                                              *)
(***************************************************************************)

\* pnlPct of at least two percent.
Profitable(c) == c.quantity > 0 /\ 100 * (c.quantity * c.a.currentPrice - c.cost) >= 2 * c.cost

\* hasIndependentReduceEvidence
IndependentEvidence(a) ==
  \/ a.f.failedReclaim \/ a.f.breakdown4h \/ a.breakdownPressureScore >= 2 \/ a.f.atrShock
  \/ a.f.upperRangeChase \/ a.regime = "WEAK_DOWNTREND" \/ a.weakeningStage \in {"CLEAR", "FAILURE"}

Deterioration(a) ==
  \/ a.f.failedReclaim \/ a.f.bearishMomentumExpansion \/ a.f.atrShock
  \/ a.breakdownPressureScore >= 2 \/ a.weakeningStage # "NONE"

\* hasProfitableRangeProtectionEvidence
RangeProtection(a) ==
  /\ a.regime = "RANGE" /\ a.weakeningStage = "SOFT"
  /\ \/ a.f.failedReclaim \/ a.f.bearishMomentumExpansion \/ a.f.atrShock \/ a.f.upperRangeChase
     \/ a.breakdownPressureScore >= 1

Portion(fraction, of) == (fraction * of) \div 100

\* The fraction of getDefensiveExposureReducePlan; 0 for no plan.
DefensiveFraction(c) ==
  CASE ~Profitable(c) -> 0
    [] Profitable(c) /\ c.a.regime = "WEAK_DOWNTREND" /\ Deterioration(c.a) ->
         Smaller(4500, Larger(2500, Portion(ReduceFraction, 90)))
    [] Profitable(c) /\ c.a.regime = "BREAKDOWN_RISK" /\ Deterioration(c.a) ->
         Smaller(5500, Larger(3000, ReduceFraction))
    [] Profitable(c) /\ RangeProtection(c.a) -> Smaller(2800, Larger(1500, Portion(ReduceFraction, 50)))
    [] OTHER -> 0

\* getGraduatedReduceFraction
GraduatedFraction(score) ==
  CASE score >= 7 -> Smaller(9000, Portion(ReduceFraction, 175))
    [] score \in 5 .. 6 -> Smaller(7500, Portion(ReduceFraction, 120))
    [] OTHER -> Larger(2000, Portion(ReduceFraction, 65))

\* The threshold in getLegacyStructuredReducePlan.
ReduceThreshold(a) ==
  LET usual == IF HealthyHold(a) THEN 5 ELSE 4
  IN IF a.weakeningStage = "CLEAR" THEN Larger(3, usual - 1) ELSE usual

\* The fraction of getLegacyStructuredReducePlan; 0 for no plan.
LegacyFraction(c) ==
  CASE c.a.weakeningStage = "SOFT" ->
         IF Profitable(c) /\ IndependentEvidence(c.a)
         THEN Smaller(3500, Larger(1500, Portion(ReduceFraction, 50))) ELSE 0
    [] c.a.weakeningStage = "NONE" /\ ~IndependentEvidence(c.a) -> 0
    [] OTHER -> IF WeaknessScore(c.a) >= ReduceThreshold(c.a) THEN GraduatedFraction(WeaknessScore(c.a)) ELSE 0

\* getRequestedQuantity
RequestedQuantity(quantity, fraction) == (quantity * fraction) \div 10000

\* buildStructuredReducePlan drops a plan below the minimum order value.
Worthwhile(c, fraction) ==
  IF RequestedQuantity(c.quantity, fraction) * c.a.currentPrice >= MinimumTradeValue THEN fraction ELSE 0

\* getStructuredReducePlan
ReducePlan(c) == Larger(Worthwhile(c, DefensiveFraction(c)), Worthwhile(c, LegacyFraction(c)))

-----------------------------------------------------------------------------
(***************************************************************************)
(* The baseline decision                                                   *)
(***************************************************************************)

Decision(action, disposition, notional, fraction, c, bucket) ==
  [action |-> action, disposition |-> disposition, notional |-> notional, fraction |-> fraction,
   path |-> c.a.entryPath, bucket |-> bucket]

Hold(c, bucket) == Decision("HOLD", "SKIPPED", 0, 0, c, bucket)

\* hasPendingBullishConfirmation
PendingConfirmation(c, action, bucket) ==
  /\ c.latest.action = action /\ c.latest.disposition = "DEFERRED_CONFIRMATION"
  /\ c.latest.path = c.a.entryPath /\ c.latest.bucket = bucket
  /\ c.time \div 2 - c.latest.time \div 2 = 1

\* decideFlatPositionAction and decideAddOrHoldAction.
BuyOrHold(c, action) ==
  LET score == BullishScore(c.a) - ReentryPenalty(c)
      bucket == QualityBucket(score)
      constructive == IF action = "ENTER" THEN ConstructiveBullish(c.a) ELSE ConstructiveAdd(c.a)
      disposition == IF score >= StrongThreshold(action, c.a) THEN "IMMEDIATE"
                     ELSE IF PendingConfirmation(c, action, bucket) THEN "EXECUTED_AFTER_CONFIRMATION"
                     ELSE "DEFERRED_CONFIRMATION"
  IN IF constructive /\ RiskCapacity(c) /\ score >= BorderlineThreshold(action, c.a)
     THEN Decision(action, disposition, TargetNotional(c, action, disposition), 0, c, bucket)
     ELSE Hold(c, bucket)

\* decidePositionGuardCore
DecideCore(c) ==
  CASE c.quantity <= 0 -> IF ImmediateExitRequired(c.a) THEN Hold(c, "LOW") ELSE BuyOrHold(c, "ENTER")
    [] c.quantity > 0 /\ ImmediateExitRequired(c.a) -> Decision("EXIT", "IMMEDIATE", 0, 10000, c, "LOW")
    [] c.quantity > 0 /\ ~ImmediateExitRequired(c.a) /\ ReducePlan(c) > 0 ->
         Decision("REDUCE", "IMMEDIATE", 0, ReducePlan(c), c, "MEDIUM")
    [] OTHER -> BuyOrHold(c, "ADD")

-----------------------------------------------------------------------------
(***************************************************************************)
(* The candidate policy COMBINED_CONSERVATIVE, over the candidate state    *)
(* st = [adds, quantity, cost, pnl, exitAt, exitPnl, path]                 *)
(***************************************************************************)

\* getEarlyFailureReason
EarlyFailure(c, d) ==
  /\ d.action \in {"HOLD", "ADD"} /\ c.quantity > 0
  /\ \/ c.a.f.failedReclaim /\ c.a.weakeningStage \in {"CLEAR", "FAILURE"} /\ c.a.recoveryQualityScore <= 1
     \/ /\ c.a.breakdownPressureScore >= 2 /\ c.a.f.bearishMomentumExpansion
        /\ c.quantity * c.a.currentPrice < c.cost

\* getCooldownReason
Cooldown(c, d, st) ==
  /\ d.action = "ENTER" /\ st.exitAt >= 0
  /\ \/ st.exitPnl <= 0 /\ c.time - st.exitAt < LossCooldown
     \/ st.path = c.a.entryPath /\ c.time - st.exitAt < PathCooldown

\* getHtfTrendGateReason
TrendGate(c, d) ==
  /\ d.action = "ENTER"
  /\ \/ c.a.f.breakdown1d \/ c.a.f.breakdown4h \/ c.a.trendAlignmentScore < 3
     \/ c.a.weakeningStage # "NONE" \/ c.a.regime \notin EntryRegimes

\* getAddLimitReason
AddLimit(c, d, st) ==
  /\ d.action = "ADD"
  /\ \/ c.quantity * c.a.currentPrice < c.cost \/ st.adds >= MaxAdds \/ c.a.f.atrShock
     \/ c.a.weakeningStage # "NONE" \/ c.a.trendAlignmentScore < 4
     \/ c.a.recoveryQualityScore < 3 \/ c.a.regime \notin CoreRegimes

\* holdDecision and exitDecision of the policy, suppressedDecision of the router.
Suppressed(d) == [d EXCEPT !.action = "HOLD", !.disposition = "SKIPPED", !.notional = 0, !.fraction = 0]
OverrideExit(d) == [d EXCEPT !.action = "EXIT", !.disposition = "IMMEDIATE", !.notional = 0, !.fraction = 10000]

\* evaluatePositionGuardCandidate
EvaluateCandidate(c, d, st) ==
  CASE d.action \in {"EXIT", "REDUCE"} -> d
    [] d.action \notin {"EXIT", "REDUCE"} /\ EarlyFailure(c, d) -> OverrideExit(d)
    [] d.action \notin {"EXIT", "REDUCE"} /\ ~EarlyFailure(c, d)
         /\ (Cooldown(c, d, st) \/ TrendGate(c, d) \/ AddLimit(c, d, st)) -> Suppressed(d)
    [] OTHER -> d

\* A draining pilot stands still.
WrongPhaseGate(d) == Suppressed(d)

\* phaseGateRoute
PhaseGate(d) == IF d.action \in {"ENTER", "ADD"} THEN Suppressed(d) ELSE d

\* routePositionGuardPolicy: the decision that is recorded, and executed unless blocked.
Route(c, d, st, phase) ==
  CASE phase \in {"BASELINE", "DISABLED"} -> d
    [] phase \in {"PENDING_FLAT", "DRAINING"} -> PhaseGate(d)
    [] phase = "PAUSED_FAULT" -> Suppressed(d)
    [] phase = "ACTIVE" -> EvaluateCandidate(c, d, st)

=============================================================================
