--------------------------- MODULE MarketStructure ---------------------------
(***************************************************************************)
(* What the strategy sees of the market: the structure of a timeframe, read *)
(* off its candles, and the analysis of the three timeframes together.     *)
(*                                                                         *)
(* Prices are integers. The indicators computed from long candle histories *)
(* (moving averages, ATR, RSI, MACD, volume ratio) are inputs; 0 stands    *)
(* for a moving average, ATR or ratio that could not be computed. A        *)
(* structure s is a record                                                 *)
(*   trend, location             UP FLAT DOWN, LOWER MIDDLE UPPER          *)
(*   latestClose, previousClose, support, resistance, previousRangeHigh    *)
(*   ema20, ema50, ema200, atr, rsi, volume (percent of the mean)          *)
(*   histogram, improving        the MACD histogram's sign and its change  *)
(***************************************************************************)
EXTENDS Integers, Sequences, SequencesExt

Timeframes == {"1h", "4h", "1d"}
Larger(a, b) == IF a >= b THEN a ELSE b
Smaller(a, b) == IF a <= b THEN a ELSE b
Points(test, n) == IF test THEN n ELSE 0

-----------------------------------------------------------------------------
(***************************************************************************)
(* From candles [close, high, low, closeTime] to a structure               *)
(***************************************************************************)

\* Candles kept for the range, and for the swings.
Lookback(tf) == IF tf = "1d" THEN 30 ELSE 24
SwingLookback(tf) == IF tf = "1d" THEN 20 ELSE 18

\* In tenths of a percent.
TrendThreshold(tf) == CASE tf = "1h" -> 15 [] tf = "4h" -> 25 [] tf = "1d" -> 30

LastOnes(s, n) == SubSeq(s, Larger(1, Len(s) - n + 1), Len(s))

High(candles, fallback) ==
  IF candles = <<>> THEN fallback
  ELSE Max({candles[i].high : i \in DOMAIN candles})

Low(candles, fallback) ==
  IF candles = <<>> THEN fallback
  ELSE Min({candles[i].low : i \in DOMAIN candles})

\* findSwings: the last candle that is the extreme of the five around it.
FindSwings(candles, fallback) ==
  LET inner == IF Len(candles) < 5 THEN {} ELSE 3 .. Len(candles) - 2
      Around(i) == SubSeq(candles, i - 2, i + 2)
      tops == {i \in inner : candles[i].high = High(Around(i), 0)}
      bottoms == {i \in inner : candles[i].low = Low(Around(i), 0)}
  IN [high |-> IF tops = {} THEN High(candles, fallback) ELSE candles[Max(tops)].high,
      low |-> IF bottoms = {} THEN Low(candles, fallback) ELSE candles[Max(bottoms)].low]

\* classifyLocation: the thirds of the swing range.
ClassifyLocation(quote, low, high) ==
  CASE high <= low -> "MIDDLE"
    [] high > low /\ 100 * (quote - low) <= 33 * (high - low) -> "LOWER"
    [] high > low /\ 100 * (quote - low) >= 67 * (high - low) -> "UPPER"
    [] OTHER -> "MIDDLE"

Above(close, ema) == ema > 0 /\ close >= ema

\* classifyTrend of the change from one close to another.
ClassifyTrend(tf, first, newest, ema20, ema50) ==
  LET change == 1000 * (newest - first)
      threshold == TrendThreshold(tf) * first
  IN CASE change >= threshold /\ Above(newest, ema20) /\ (ema50 = 0 \/ Above(newest, ema50)) -> "UP"
       [] change <= -threshold /\ ~Above(newest, ema20) /\ (ema50 = 0 \/ ~Above(newest, ema50)) -> "DOWN"
       [] OTHER -> "FLAT"

\* analyzeTimeframe; ind holds the indicators.
AnalyzeTimeframe(tf, candles, quote, ind) ==
  LET recent == LastOnes(candles, Lookback(tf))
      prior == IF Len(recent) > 1 THEN Front(recent) ELSE recent
      newest == IF recent = <<>> THEN quote ELSE Last(recent).close
      previous == IF Len(recent) < 2 THEN newest ELSE recent[Len(recent) - 1].close
      first == IF recent = <<>> THEN quote ELSE recent[1].close
      swings == FindSwings(LastOnes(candles, SwingLookback(tf)), quote)
  IN [trend |-> ClassifyTrend(tf, first, newest, ind.ema20, ind.ema50),
      location |-> ClassifyLocation(newest, swings.low, swings.high),
      latestClose |-> newest, previousClose |-> previous,
      support |-> swings.low, resistance |-> swings.high,
      previousRangeHigh |-> High(prior, quote),
      ema20 |-> ind.ema20, ema50 |-> ind.ema50, ema200 |-> ind.ema200, atr |-> ind.atr,
      rsi |-> ind.rsi, volume |-> ind.volume, histogram |-> ind.histogram,
      improving |-> ind.improving]

AboveEma20(s) == Above(s.latestClose, s.ema20)
EmaStackBullish(s) == s.ema20 >= s.ema50 /\ s.ema50 >= s.ema200 /\ s.ema200 > 0
EmaStackBearish(s) == s.ema20 <= s.ema50 /\ s.ema50 <= s.ema200 /\ s.ema20 > 0

-----------------------------------------------------------------------------
(***************************************************************************)
(* Closes against levels. Buffers are in ten-thousandths of the price unit *)
(* and the ATR multipliers in hundredths.                                  *)
(***************************************************************************)

LevelBuffer(level, atr, multiplier) == Larger(level * 25, atr * multiplier * 100)

\* getLevelBuffer's smaller relative, in isFreshReclaim and isBreakoutHold.
HoldBuffer(level, atr) == Larger(level * 10, atr * 5 * 100)

\* Price is at the level or above it, by delta ten-thousandths.
AtLeast(quote, level, delta) == 10000 * quote >= 10000 * level + delta
AtMost(quote, level, delta) == 10000 * quote <= 10000 * level + delta

CloseBelow(s, level, multiplier) ==
  level > 0 /\ AtMost(s.latestClose, level, -LevelBuffer(level, s.atr, multiplier))

SustainedCloseBelow(s, level) ==
  LET buffer == LevelBuffer(level, s.atr, 5)
  IN AtMost(s.previousClose, level, -buffer) /\ AtMost(s.latestClose, level, -buffer)

FailedReclaimBelow(s, level) ==
  LET buffer == LevelBuffer(level, s.atr, 8)
  IN level > 0 /\ AtLeast(s.previousClose, level, -buffer) /\ AtMost(s.latestClose, level, -buffer)

\* isConfirmedBreakdown
ConfirmedBreakdown(s, lower, level) ==
  CloseBelow(s, level, 20) \/ SustainedCloseBelow(s, level) \/ FailedReclaimBelow(lower, level)

\* getReclaimLevel; 0 when there is none.
ReclaimLevel(h1, h4) == Larger(0, Larger(Smaller(h1.previousRangeHigh, h4.resistance), h4.support))

FreshReclaim(h1, h4) ==
  LET level == ReclaimLevel(h1, h4)
      buffer == HoldBuffer(level, h1.atr)
      limit == Larger(LevelBuffer(level, h1.atr, 220), level * 250)
  IN /\ level > 0
     /\ AtMost(h1.previousClose, level, buffer) /\ AtLeast(h1.latestClose, level, buffer)
     /\ AtMost(h1.latestClose, level, limit) /\ AboveEma20(h1)

BreakoutHold(h1, h4) ==
  LET level == Smaller(h1.previousRangeHigh, h1.resistance)
      buffer == HoldBuffer(level, h1.atr)
      limit == Larger(LevelBuffer(level, h1.atr, 200), level * 200)
  IN /\ level > 0
     /\ AtLeast(h1.previousClose, level, -buffer) /\ AtLeast(h1.latestClose, level, -buffer)
     /\ AtMost(h1.latestClose, level, limit) /\ AboveEma20(h1)
     /\ h4.trend # "DOWN" \/ AboveEma20(h4)

RsiRecovery(s) == s.rsi \in 40 .. 64 /\ s.improving

\* isConstructiveVolumeRecovery; the 1h ratio must exceed the mean by half a percent.
VolumeRecovery(h1, h4) ==
  \/ h1.volume >= 101 /\ h1.latestClose > h1.previousClose
  \/ h4.volume >= 100 /\ h4.latestClose >= h4.previousClose /\ AboveEma20(h4)

BearishMomentum(t) ==
  \A s \in {t["1h"], t["4h"]} : s.histogram < 0 /\ ~s.improving

\* isAtrShock
AtrShock(s) ==
  LET move == s.latestClose - s.previousClose
  IN /\ s.atr > 0 /\ 100 * (IF move < 0 THEN -move ELSE move) >= s.atr * 120
     /\ AtMost(s.latestClose, s.support, -LevelBuffer(s.support, s.atr, 15))

UpperRangeChase(t, quote, reclaimed) ==
  LET h1 == t["1h"]
      extended == t["4h"].location = "UPPER" /\ t["1d"].location = "UPPER"
      localExtension == /\ h1.location = "UPPER" /\ h1.rsi >= 66
                        /\ AtLeast(quote, h1.resistance, LevelBuffer(h1.resistance, h1.atr, 25))
      ema == IF h1.ema20 = 0 THEN quote ELSE h1.ema20
  IN IF reclaimed THEN extended /\ localExtension
     ELSE extended \/ localExtension \/ (h1.location = "UPPER" /\ 100 * quote > 102 * ema)

\* getInvalidationLevel; 0 when there is none.
InvalidationLevel(t) == Larger(0, Larger(t["4h"].support, t["1d"].support))

InvalidationBroken(t, level) ==
  CloseBelow(t["4h"], level, 20) \/ CloseBelow(t["1d"], level, 15) \/ FailedReclaimBelow(t["1h"], level)

-----------------------------------------------------------------------------
(***************************************************************************)
(* The analysis of the three timeframes                                    *)
(***************************************************************************)

\* getTrendAlignmentScore
TrendAlignmentScore(t) ==
  LET Of(s) == IF EmaStackBullish(s) THEN 2 ELSE Points(s.trend = "UP" \/ AboveEma20(s), 1)
  IN Of(t["1d"]) + Of(t["4h"]) + Points(t["1h"].trend = "UP", 1)

\* classifyRegime; f holds the findings already made.
ClassifyRegime(t, f) ==
  LET h1 == t["1h"]  h4 == t["4h"]  d1 == t["1d"]
      signals == Points(f.reclaimStructure \/ f.breakoutHoldStructure, 1) + Points(f.macdImproving, 1)
                 + Points(f.rsiRecovery, 1) + Points(AboveEma20(h4), 1)
                 + Points(d1.location # "LOWER", 1)
      holds == ~f.breakdown4h /\ h1.latestClose >= h4.support
      ema == IF h4.ema20 = 0 THEN h4.latestClose ELSE h4.ema20
  IN IF f.breakdown1d \/ f.failedReclaim \/ (f.breakdown4h /\ d1.trend = "DOWN")
        \/ (EmaStackBearish(d1) /\ CloseBelow(d1, d1.support, 15))
     THEN "BREAKDOWN_RISK"
     ELSE IF EmaStackBullish(d1) /\ EmaStackBullish(h4) /\ "DOWN" \notin {d1.trend, h4.trend}
     THEN IF h4.location # "UPPER" /\ (100 * h4.latestClose <= 102 * ema \/ h1.location # "UPPER")
          THEN "PULLBACK_IN_UPTREND" ELSE "BULL_TREND"
     ELSE IF signals >= 4 /\ ~EmaStackBearish(d1) /\ holds THEN "EARLY_RECOVERY"
     ELSE IF signals >= 3 /\ holds THEN "RECLAIM_ATTEMPT"
     ELSE IF d1.trend = "FLAT" /\ h4.trend # "DOWN" /\ ~EmaStackBearish(d1) /\ d1.location # "LOWER"
     THEN "RANGE" ELSE "WEAK_DOWNTREND"

\* getEntryPath
EntryPath(pullback, reclaim, breakout) ==
  CASE reclaim -> "RECLAIM" [] ~reclaim /\ breakout -> "BREAKOUT_HOLD"
    [] ~reclaim /\ ~breakout /\ pullback -> "PULLBACK" [] OTHER -> "NONE"

\* getWeakeningStage
WeakeningStage(pressure, failed) ==
  CASE failed -> "FAILURE" [] ~failed /\ pressure >= 4 -> "CLEAR"
    [] ~failed /\ pressure \in 2 .. 3 -> "SOFT" [] OTHER -> "NONE"

\* getRecoveryQualityScore
RecoveryQualityScore(t, f) ==
  Points(f.reclaimStructure, 2) + Points(f.breakoutHoldStructure, 2)
  + Points(f.pullbackZone /\ "LOWER" \in {t["1h"].location, t["4h"].location}, 1)
  + Points(f.volumeRecovery, 1) + Points(f.macdImproving, 1) + Points(f.rsiRecovery, 1)

\* getBreakdownPressureScore
BreakdownPressureScore(t, f) ==
  Points(f.breakdown1d, 3) + Points(f.breakdown4h, 2) + Points(f.failedReclaim, 2)
  + Points(f.bearishMomentumExpansion, 1) + Points(f.atrShock, 1) + Points(t["1d"].trend = "DOWN", 1)

\* What the closes show against the levels, before anything is scored.
Findings(t, quote) ==
  LET h1 == t["1h"]  h4 == t["4h"]  d1 == t["1d"]
      reclaim == FreshReclaim(h1, h4)
      breakout == BreakoutHold(h1, h4)
      failed == FailedReclaimBelow(h1, h4.support) \/ FailedReclaimBelow(h4, d1.support)
      broken4h == ConfirmedBreakdown(h4, h1, h4.support)
      broken1d == ConfirmedBreakdown(d1, h4, d1.support)
  IN [reclaimStructure |-> reclaim, breakoutHoldStructure |-> breakout, failedReclaim |-> failed,
      breakdown4h |-> broken4h, breakdown1d |-> broken1d,
      pullbackZone |-> /\ ~broken4h /\ ~broken1d /\ ~failed
                       /\ \/ h4.location = "LOWER"
                          \/ h4.location = "MIDDLE" /\ ~breakout
                          \/ h1.location = "LOWER" /\ h4.trend # "DOWN",
      upperRangeChase |-> UpperRangeChase(t, quote, reclaim \/ breakout),
      volumeRecovery |-> VolumeRecovery(h1, h4), macdImproving |-> h1.improving \/ h4.improving,
      rsiRecovery |-> RsiRecovery(h1) \/ RsiRecovery(h4),
      bearishMomentumExpansion |-> BearishMomentum(t), atrShock |-> AtrShock(h1) \/ AtrShock(h4)]

\* analyzePositionGuardMarketStructure
Analyze(t, quote) ==
  LET f == Findings(t, quote)
      level == InvalidationLevel(t)
      state == CASE level = 0 -> "UNCLEAR" [] level > 0 /\ InvalidationBroken(t, level) -> "BROKEN"
                 [] OTHER -> "CLEAR"
      pressure == BreakdownPressureScore(t, f)
  IN [regime |-> ClassifyRegime(t, f), invalidationState |-> state, invalidationLevel |-> level,
      entryPath |-> EntryPath(f.pullbackZone, f.reclaimStructure, f.breakoutHoldStructure),
      trendAlignmentScore |-> TrendAlignmentScore(t), recoveryQualityScore |-> RecoveryQualityScore(t, f),
      breakdownPressureScore |-> pressure,
      weakeningStage |-> WeakeningStage(pressure, f.breakdown1d \/ state = "BROKEN"),
      oneHourLocation |-> t["1h"].location, fourHourLocation |-> t["4h"].location,
      currentPrice |-> quote, f |-> f]

=============================================================================
