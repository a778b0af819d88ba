----------------------------- MODULE MCEvidence -------------------------------
(***************************************************************************)
(* The strategy and the evidence about it: its decisions and runs, the     *)
(* backtest and its data, trade matching and the performance report, the   *)
(* certificates of hours without a trade, and the prospective shadow test. *)
(* A behaviour is of the one component "part" names, with the bounds of that*)
(* instance.                                                               *)
(***************************************************************************)
EXTENDS PositionGuard, TLC

CONSTANTS Parts, Null, r1, r2, r3, a1, a2, a3, i1

VARIABLES
  part,  \* the component this behaviour is of
  chart, holding, decision,  \* PositionGuardDecisions
  time, cash, quantity, cost, price, soldAt, refused, phase, st,  \* StrategyRun
  policy, timing, account, research, pending, results, metrics, live, bought,  \* Backtest
  source, fetched, to, pages, status, frames,  \* BacktestData
  fills, lots, slices, failure, calc, marks,  \* PerformanceReport
  observed, ranges, segments,  \* HourlyCoverage
  traded, collections, acq, conflict,  \* NoTradeEvidence
  now, main, pushedAt, verified, reports,  \* ShadowCommitment
  dir, lock, temp, pc, seen, expect, errors, crashes, published, accepted,  \* RegistrationWriter
  paths, changes,  \* ShadowEvaluation
  runs, latest, order, episode, done, dataset, file  \* of several

ASSUME SettingsAssumption

AllPolicies ==
  {"NONE", "NO_ADD", "STRICT_PULLBACK", "COMBINED_CONSERVATIVE",
   "EARLY_THESIS_FAILURE", "COOLDOWN_CONTROL", "HTF_TREND_GATE", "ADD_LIMITED",
   "COMBINED_MINUS_EARLY_THESIS_FAILURE", "COMBINED_MINUS_COOLDOWN_CONTROL",
   "COMBINED_MINUS_HTF_TREND_GATE", "COMBINED_MINUS_ADD_LIMITED",
   "ADD_RISK_CLEAR", "ADD_HIGH_ALIGNMENT", "ADD_CORE_TREND"}

Periods == "1h" :> 1 @@ "4h" :> 2 @@ "1d" :> 3

\* What was held before the first fill, at a known or an unknown price.
Nothing == [qty |-> 0, price |-> Null]
Lot(n, p) == [qty |-> n, price |-> p]
NoOpening == {"BTC" :> Nothing}
OneOpening == {"BTC" :> p : p \in {Nothing, Lot(1, 2), Lot(2, Null)}}
TwoOpenings == {"BTC" :> p @@ "ETH" :> Nothing : p \in {Nothing, Lot(1, 2)}}
BothOpenings == {"BTC" :> Lot(1, Null) @@ "ETH" :> Nothing}
Unlabelled == "bid" :> {Null} @@ "ask" :> {Null}
Labelled == "bid" :> {"ADD", Null} @@ "ask" :> {"EXIT"}

-----------------------------------------------------------------------------
\* Market situations for the instances: a reclaim and a pullback that buy at once, a held
\* breakout that waits for confirmation, a weakness that reduces and a broken support that
\* exits. Each timeframe has seven candles whose third is the swing low.
Candle(x) == [close |-> x, high |-> x + 1, low |-> x - 1, closeTime |-> 0]
Candles(first, pivot, before, last) ==
  <<Candle(first), Candle(1040), Candle(pivot), Candle(1030), Candle(1040), Candle(before), Candle(last)>>

Rising == <<1005, 1000, 995>>
Falling == <<1035, 1045, 1050>>

\* The shape of one timeframe: the first close, the swing low, the last two closes, the
\* averages and the momentum.
Shape(first, pivot, closes, ema, momentum) ==
  [first |-> first, pivot |-> pivot, closes |-> closes, ema |-> ema, momentum |-> momentum]
Strong == [histogram |-> 1, improving |-> TRUE, rsi |-> 55, volume |-> 120]
Hot == [histogram |-> 1, improving |-> FALSE, rsi |-> 70, volume |-> 90]
Weak == [histogram |-> -1, improving |-> FALSE, rsi |-> 30, volume |-> 80]

Structure(tf, s) ==
  AnalyzeTimeframe(tf, Candles(s.first, s.pivot, s.closes[1], s.closes[2]), s.closes[2],
    [ema20 |-> s.ema[1], ema50 |-> s.ema[2], ema200 |-> s.ema[3], atr |-> 10,
     histogram |-> s.momentum.histogram, improving |-> s.momentum.improving,
     rsi |-> s.momentum.rsi, volume |-> s.momentum.volume])

Shapes(h1, h4, d1) ==
  [tf \in Timeframes |-> CASE tf = "1h" -> h1 [] tf = "4h" -> h4 [] tf = "1d" -> d1]

CalmFour == Shape(1010, 995, <<1000, 1010>>, Rising, Weak)
FallingFour == Shape(1010, 995, <<1000, 1010>>, Falling, Weak)
CalmDay == Shape(960, 985, <<1000, 1010>>, Rising, Strong)

Reclaim == Shapes(Shape(1000, 1000, <<980, 1049>>, Rising, Strong), CalmFour, CalmDay)
Pullback == Shapes(Shape(1000, 1000, <<980, 980>>, Rising, Strong), CalmFour, CalmDay)
Breakout == Shapes(Shape(1000, 1000, <<1041, 1041>>, Rising, Hot), CalmFour, CalmDay)
Weakness == Shapes(Shape(1000, 1000, <<980, 1041>>, Rising, Weak), FallingFour, CalmDay)
Broken == Shapes(Shape(1000, 1000, <<980, 980>>, Rising, Weak),
                 Shape(1010, 995, <<990, 985>>, Rising, Weak),
                 Shape(960, 985, <<990, 975>>, Rising, Strong))

\* The analyses of some situations, at the last hourly close.
Analyses(situations) ==
  {Analyze([tf \in Timeframes |-> Structure(tf, s[tf])], s["1h"].closes[2]) : s \in situations}

AllSituations == Analyses({Reclaim, Pullback, Breakout, Weakness, Broken})
BuysOnly == Analyses({Reclaim, Breakout, Broken})

-----------------------------------------------------------------------------
Guard == INSTANCE PositionGuardDecisions
Runs == INSTANCE StrategyRun WITH Markets <- {"BTC"}, PilotMarket <- "BTC",
  Situations <- AllSituations, InitialPhase <- "ACTIVE", InitialQuantity <- 0, Cash <- 100000,
  AssetCap <- 60, TotalCap <- 95, MaxTime <- 4, MaxRuns <- 3
Wallet == INSTANCE StrategyRun WITH Markets <- {"BTC", "ETH"}, PilotMarket <- "none",
  Situations <- BuysOnly, InitialPhase <- "DISABLED", InitialQuantity <- 0, Cash <- 100000,
  AssetCap <- 60, TotalCap <- 95, MaxTime <- 2, MaxRuns <- 4
Waiting == INSTANCE StrategyRun WITH Markets <- {"BTC"}, PilotMarket <- "BTC",
  Situations <- AllSituations, InitialPhase <- "PENDING_FLAT", InitialQuantity <- 20,
  Cash <- 100000, AssetCap <- 60, TotalCap <- 95, MaxTime <- 2, MaxRuns <- 4
Replay == INSTANCE Backtest WITH Situations <- AllSituations,
  Timings <- {"SAME_CLOSE_MODELED", "NEXT_FRAME_MODELED"}, InitialCash <- 100000,
  InitialQuantity <- 0, InitialCost <- 0, FeeRate <- 5, SlippageRate <- 2,
  Policies <- AllPolicies, MaxFrames <- 3
Invested == INSTANCE Backtest WITH Situations <- AllSituations,
  Timings <- {"SAME_CLOSE_MODELED"}, InitialCash <- 100000, InitialQuantity <- 30,
  InitialCost <- 30000, FeeRate <- 5, SlippageRate <- 2,
  Policies <- {"NONE", "NO_ADD", "EARLY_THESIS_FAILURE"}, MaxFrames <- 4
Parity == INSTANCE Backtest WITH Situations <- AllSituations, Timings <- {"SAME_CLOSE_MODELED"},
  InitialCash <- 100000, InitialQuantity <- 0, InitialCost <- 0, FeeRate <- 5,
  SlippageRate <- 2, Policies <- {"COMBINED_CONSERVATIVE"}, MaxFrames <- 4
Data == INSTANCE BacktestData WITH Period <- Periods, LastHour <- 6, HistoryStart <- 1,
  Start <- 3, End <- 6, PageSize <- 2, PageLimit <- 3, Minimum <- 1
Trades == INSTANCE PerformanceReport WITH Markets <- {"BTC"}, Prices <- {2, 5},
  Volumes <- {1, 2}, UnitFees <- {1, Null}, Actions <- Unlabelled, Gaps <- {1},
  Openings <- OneOpening, MarkPrices <- {3, Null}, MaxMarks <- 0, MaxFills <- 3
TwoMarkets == INSTANCE PerformanceReport WITH Markets <- {"BTC", "ETH"}, Prices <- {2},
  Volumes <- {1, 2}, UnitFees <- {1}, Actions <- Unlabelled, Gaps <- {0, 1},
  Openings <- TwoOpenings, MarkPrices <- {3, Null}, MaxMarks <- 0, MaxFills <- 4
Report == INSTANCE PerformanceReport WITH Markets <- {"BTC", "ETH"}, Prices <- {2},
  Volumes <- {1, 2}, UnitFees <- {1, Null}, Actions <- Labelled, Gaps <- {1},
  Openings <- BothOpenings, MarkPrices <- {3, Null}, MaxMarks <- 0, MaxFills <- 3
Marks == INSTANCE PerformanceReport WITH Markets <- {"BTC"}, Prices <- {2, 5},
  Volumes <- {1, 2}, UnitFees <- {1, Null}, Actions <- Unlabelled, Gaps <- {0, 1},
  Openings <- NoOpening, MarkPrices <- {3, Null}, MaxMarks <- 2, MaxFills <- 2
Drawdown == INSTANCE PerformanceReport WITH Markets <- {"BTC"}, Prices <- {2, 3, 5},
  Volumes <- {1, 2}, UnitFees <- {1}, Actions <- Unlabelled, Gaps <- {1}, Openings <- NoOpening,
  MarkPrices <- {3, Null}, MaxMarks <- 0, MaxFills <- 4
Hourly == INSTANCE HourlyCoverage WITH Start <- 0, End <- 6, MaxRanges <- 2, MaxSegments <- 2
OffHour == INSTANCE HourlyCoverage WITH Start <- 1, End <- 7, MaxRanges <- 2, MaxSegments <- 1
NoTrade == INSTANCE NoTradeEvidence WITH Procs <- {"p", "q"}, Start <- 2, End <- 6,
  PageSize <- 1, PageLimit <- 2, MaxCollections <- 2
Gaps == INSTANCE NoTradeEvidence WITH Procs <- {"p"}, Start <- 2, End <- 8, PageSize <- 2,
  PageLimit <- 1, MaxCollections <- 2
Commitment == INSTANCE ShadowCommitment WITH Clocks <- {0, 1}, Hour <- 2, Prep <- 2,
  MinLead <- 1, Duration <- 1, MaxTime <- 4, MaxCommits <- 4, None <- Null
Registration == INSTANCE RegistrationWriter WITH Free <- Null, Registrars <- {r1, r2, r3},
  Abandoners <- {}, Inspectors <- {}, MaxErrors <- 2, MaxCrashes <- 1
Abandonment == INSTANCE RegistrationWriter WITH Free <- Null, Registrars <- {r1},
  Abandoners <- {a1, a2, a3}, Inspectors <- {}, MaxErrors <- 1, MaxCrashes <- 1
Residue == INSTANCE RegistrationWriter WITH Free <- Null, Registrars <- {r1, r2},
  Abandoners <- {a1}, Inspectors <- {i1}, MaxErrors <- 0, MaxCrashes <- 2
Evaluation == INSTANCE ShadowEvaluation WITH Cells <- {"c1", "c2"}, Minimum <- 1, MaxValue <- 4,
  MaxChanges <- 3

ASSUME Runs!RunAssumption /\ Wallet!RunAssumption /\ Waiting!RunAssumption /\
       Replay!BacktestAssumption /\ Replay!PolicyAssumption /\ Invested!BacktestAssumption /\
       Invested!PolicyAssumption /\ Parity!BacktestAssumption /\ Parity!PolicyAssumption /\
       Data!DataAssumption /\ Trades!StreamAssumption /\ TwoMarkets!StreamAssumption /\
       Report!StreamAssumption /\ Marks!StreamAssumption /\ Drawdown!StreamAssumption /\
       Hourly!Bounds /\ OffHour!Bounds /\ NoTrade!Parameters /\ Gaps!Parameters /\
       Commitment!ConstantsAssumption /\ Registration!ConstantsAssumption /\
       Abandonment!ConstantsAssumption /\ Residue!ConstantsAssumption /\ Evaluation!Parameters

guardVars == <<chart, holding, decision>>
runVars == <<time, cash, quantity, cost, price, soldAt, refused, phase, st>>
replayVars == <<policy, timing, account, research, pending, results, metrics, live, bought>>
dataVars == <<source, fetched, to, pages, status, frames>>
reportVars == <<fills, lots, slices, failure, calc, marks>>
hourlyVars == <<observed, ranges, segments>>
noTradeVars == <<traded, collections, acq, conflict>>
commitmentVars == <<now, main, pushedAt, verified, reports>>
registrationVars == <<dir, lock, temp, pc, seen, expect, errors, crashes, published, accepted>>
evaluationVars == <<paths, changes>>
vars == <<part, guardVars, runVars, replayVars, dataVars, reportVars, hourlyVars, noTradeVars,
          commitmentVars, registrationVars, evaluationVars, runs, latest, order, episode, done,
          dataset, file>>

Off == 0
guardOff == chart = Off /\ holding = Off /\ decision = Off
runOff == time = Off /\ cash = Off /\ quantity = Off /\ cost = Off /\ price = Off /\
          soldAt = Off /\ refused = Off /\ phase = Off /\ st = Off
replayOff == policy = Off /\ timing = Off /\ account = Off /\ research = Off /\ pending = Off /\
             results = Off /\ metrics = Off /\ live = Off /\ bought = Off
dataOff == source = Off /\ fetched = Off /\ to = Off /\ pages = Off /\ status = Off /\
           frames = Off
reportOff == fills = Off /\ lots = Off /\ slices = Off /\ failure = Off /\ calc = Off /\
             marks = Off
hourlyOff == observed = Off /\ ranges = Off /\ segments = Off
noTradeOff == traded = Off /\ collections = Off /\ acq = Off /\ conflict = Off
commitmentOff == now = Off /\ main = Off /\ pushedAt = Off /\ verified = Off /\ reports = Off
registrationOff == dir = Off /\ lock = Off /\ temp = Off /\ pc = Off /\ seen = Off /\
                   expect = Off /\ errors = Off /\ crashes = Off /\ published = Off /\
                   accepted = Off
evaluationOff == paths = Off /\ changes = Off

Init == /\ part \in Parts
        /\ \/ part = "guard" /\ Guard!Init /\ runOff /\ replayOff /\ dataOff /\ reportOff /\
              hourlyOff /\ noTradeOff /\ commitmentOff /\ registrationOff /\ evaluationOff /\
              runs = Off /\ latest = Off /\ order = Off /\ episode = Off /\ done = Off /\
              dataset = Off /\ file = Off
           \/ part = "runs" /\ Runs!Init /\ guardOff /\ replayOff /\ dataOff /\ reportOff /\
              hourlyOff /\ noTradeOff /\ commitmentOff /\ registrationOff /\ evaluationOff /\
              done = Off /\ dataset = Off /\ file = Off
           \/ part = "wallet" /\ Wallet!Init /\ guardOff /\ replayOff /\ dataOff /\ reportOff /\
              hourlyOff /\ noTradeOff /\ commitmentOff /\ registrationOff /\ evaluationOff /\
              done = Off /\ dataset = Off /\ file = Off
           \/ part = "waiting" /\ Waiting!Init /\ guardOff /\ replayOff /\ dataOff /\
              reportOff /\ hourlyOff /\ noTradeOff /\ commitmentOff /\ registrationOff /\
              evaluationOff /\ done = Off /\ dataset = Off /\ file = Off
           \/ part = "replay" /\ Replay!Init /\ guardOff /\ runOff /\ dataOff /\ reportOff /\
              hourlyOff /\ noTradeOff /\ commitmentOff /\ registrationOff /\ evaluationOff /\
              runs = Off /\ order = Off /\ episode = Off /\ dataset = Off /\ file = Off
           \/ part = "invested" /\ Invested!Init /\ guardOff /\ runOff /\ dataOff /\
              reportOff /\ hourlyOff /\ noTradeOff /\ commitmentOff /\ registrationOff /\
              evaluationOff /\ runs = Off /\ order = Off /\ episode = Off /\ dataset = Off /\
              file = Off
           \/ part = "parity" /\ Parity!Init /\ guardOff /\ runOff /\ dataOff /\ reportOff /\
              hourlyOff /\ noTradeOff /\ commitmentOff /\ registrationOff /\ evaluationOff /\
              runs = Off /\ order = Off /\ episode = Off /\ dataset = Off /\ file = Off
           \/ part = "data" /\ Data!Init /\ guardOff /\ runOff /\ replayOff /\ reportOff /\
              hourlyOff /\ noTradeOff /\ commitmentOff /\ registrationOff /\ evaluationOff /\
              runs = Off /\ latest = Off /\ episode = Off /\ done = Off /\ dataset = Off /\
              file = Off
           \/ part = "trades" /\ Trades!RInit /\ guardOff /\ runOff /\ replayOff /\ dataOff /\
              hourlyOff /\ noTradeOff /\ commitmentOff /\ registrationOff /\ evaluationOff /\
              runs = Off /\ latest = Off /\ order = Off /\ dataset = Off /\ file = Off
           \/ part = "two markets" /\ TwoMarkets!RInit /\ guardOff /\ runOff /\ replayOff /\
              dataOff /\ hourlyOff /\ noTradeOff /\ commitmentOff /\ registrationOff /\
              evaluationOff /\ runs = Off /\ latest = Off /\ order = Off /\ dataset = Off /\
              file = Off
           \/ part = "report" /\ Report!RInit /\ guardOff /\ runOff /\ replayOff /\ dataOff /\
              hourlyOff /\ noTradeOff /\ commitmentOff /\ registrationOff /\ evaluationOff /\
              runs = Off /\ latest = Off /\ order = Off /\ dataset = Off /\ file = Off
           \/ part = "marks" /\ Marks!RInit /\ guardOff /\ runOff /\ replayOff /\ dataOff /\
              hourlyOff /\ noTradeOff /\ commitmentOff /\ registrationOff /\ evaluationOff /\
              runs = Off /\ latest = Off /\ order = Off /\ dataset = Off /\ file = Off
           \/ part = "drawdown" /\ Drawdown!RInit /\ guardOff /\ runOff /\ replayOff /\
              dataOff /\ hourlyOff /\ noTradeOff /\ commitmentOff /\ registrationOff /\
              evaluationOff /\ runs = Off /\ latest = Off /\ order = Off /\ dataset = Off /\
              file = Off
           \/ part = "hourly" /\ Hourly!Init /\ guardOff /\ runOff /\ replayOff /\ dataOff /\
              reportOff /\ noTradeOff /\ commitmentOff /\ registrationOff /\ evaluationOff /\
              runs = Off /\ latest = Off /\ order = Off /\ episode = Off /\ done = Off /\
              dataset = Off /\ file = Off
           \/ part = "off hour" /\ OffHour!Init /\ guardOff /\ runOff /\ replayOff /\ dataOff /\
              reportOff /\ noTradeOff /\ commitmentOff /\ registrationOff /\ evaluationOff /\
              runs = Off /\ latest = Off /\ order = Off /\ episode = Off /\ done = Off /\
              dataset = Off /\ file = Off
           \/ part = "no trade" /\ NoTrade!Init /\ guardOff /\ runOff /\ replayOff /\ dataOff /\
              reportOff /\ hourlyOff /\ commitmentOff /\ registrationOff /\ evaluationOff /\
              runs = Off /\ latest = Off /\ order = Off /\ episode = Off /\ done = Off
           \/ part = "gaps" /\ Gaps!Init /\ guardOff /\ runOff /\ replayOff /\ dataOff /\
              reportOff /\ hourlyOff /\ commitmentOff /\ registrationOff /\ evaluationOff /\
              runs = Off /\ latest = Off /\ order = Off /\ episode = Off /\ done = Off
           \/ part = "commitment" /\ Commitment!Init /\ guardOff /\ runOff /\ replayOff /\
              dataOff /\ reportOff /\ hourlyOff /\ noTradeOff /\ registrationOff /\
              evaluationOff /\ latest = Off /\ order = Off /\ episode = Off /\ done = Off /\
              dataset = Off /\ file = Off
           \/ part = "registration" /\ Registration!Init /\ guardOff /\ runOff /\ replayOff /\
              dataOff /\ reportOff /\ hourlyOff /\ noTradeOff /\ commitmentOff /\
              evaluationOff /\ runs = Off /\ latest = Off /\ order = Off /\ episode = Off /\
              dataset = Off
           \/ part = "abandonment" /\ Abandonment!Init /\ guardOff /\ runOff /\ replayOff /\
              dataOff /\ reportOff /\ hourlyOff /\ noTradeOff /\ commitmentOff /\
              evaluationOff /\ runs = Off /\ latest = Off /\ order = Off /\ episode = Off /\
              dataset = Off
           \/ part = "residue" /\ Residue!Init /\ guardOff /\ runOff /\ replayOff /\ dataOff /\
              reportOff /\ hourlyOff /\ noTradeOff /\ commitmentOff /\ evaluationOff /\
              runs = Off /\ latest = Off /\ order = Off /\ episode = Off /\ dataset = Off
           \/ part = "evaluation" /\ Evaluation!Init /\ guardOff /\ runOff /\ replayOff /\
              dataOff /\ reportOff /\ hourlyOff /\ noTradeOff /\ commitmentOff /\
              registrationOff /\ runs = Off /\ latest = Off /\ order = Off /\ episode = Off /\
              done = Off /\ file = Off

GuardStep == part = "guard" /\ Guard!Decide /\ UNCHANGED <<part, runVars, replayVars, dataVars,
            reportVars, hourlyVars, noTradeVars, commitmentVars, registrationVars,
            evaluationVars, runs, latest, order, episode, done, dataset, file>>
RunsStep == part = "runs" /\ Runs!Next /\ UNCHANGED <<part, guardVars, replayVars, dataVars,
            reportVars, hourlyVars, noTradeVars, commitmentVars, registrationVars,
            evaluationVars, done, dataset, file>>
WalletStep == part = "wallet" /\ Wallet!Next /\ UNCHANGED <<part, guardVars, replayVars,
            dataVars, reportVars, hourlyVars, noTradeVars, commitmentVars, registrationVars,
            evaluationVars, done, dataset, file>>
WaitingStep == part = "waiting" /\ Waiting!Next /\ UNCHANGED <<part, guardVars, replayVars,
            dataVars, reportVars, hourlyVars, noTradeVars, commitmentVars, registrationVars,
            evaluationVars, done, dataset, file>>
ReplayStep == part = "replay" /\ Replay!Next /\ UNCHANGED <<part, guardVars, runVars, dataVars,
            reportVars, hourlyVars, noTradeVars, commitmentVars, registrationVars,
            evaluationVars, runs, order, episode, dataset, file>>
InvestedStep == part = "invested" /\ Invested!Next /\ UNCHANGED <<part, guardVars, runVars,
            dataVars, reportVars, hourlyVars, noTradeVars, commitmentVars, registrationVars,
            evaluationVars, runs, order, episode, dataset, file>>
ParityStep == part = "parity" /\ Parity!Next /\ UNCHANGED <<part, guardVars, runVars, dataVars,
            reportVars, hourlyVars, noTradeVars, commitmentVars, registrationVars,
            evaluationVars, runs, order, episode, dataset, file>>
DataStep == part = "data" /\ Data!Next /\ UNCHANGED <<part, guardVars, runVars, replayVars,
            reportVars, hourlyVars, noTradeVars, commitmentVars, registrationVars,
            evaluationVars, runs, latest, episode, done, dataset, file>>
TradesStep == part = "trades" /\ Trades!RNext /\ UNCHANGED <<part, guardVars, runVars,
            replayVars, dataVars, hourlyVars, noTradeVars, commitmentVars, registrationVars,
            evaluationVars, runs, latest, order, dataset, file>>
TwoMarketsStep == part = "two markets" /\ TwoMarkets!RNext /\ UNCHANGED <<part, guardVars,
            runVars, replayVars, dataVars, hourlyVars, noTradeVars, commitmentVars,
            registrationVars, evaluationVars, runs, latest, order, dataset, file>>
ReportStep == part = "report" /\ Report!RNext /\ UNCHANGED <<part, guardVars, runVars,
            replayVars, dataVars, hourlyVars, noTradeVars, commitmentVars, registrationVars,
            evaluationVars, runs, latest, order, dataset, file>>
MarksStep == part = "marks" /\ Marks!RNext /\ UNCHANGED <<part, guardVars, runVars, replayVars,
            dataVars, hourlyVars, noTradeVars, commitmentVars, registrationVars, evaluationVars,
            runs, latest, order, dataset, file>>
DrawdownStep == part = "drawdown" /\ Drawdown!RNext /\ UNCHANGED <<part, guardVars, runVars,
            replayVars, dataVars, hourlyVars, noTradeVars, commitmentVars, registrationVars,
            evaluationVars, runs, latest, order, dataset, file>>
HourlyStep == part = "hourly" /\ Hourly!Next /\ UNCHANGED <<part, guardVars, runVars,
            replayVars, dataVars, reportVars, noTradeVars, commitmentVars, registrationVars,
            evaluationVars, runs, latest, order, episode, done, dataset, file>>
OffHourStep == part = "off hour" /\ OffHour!Next /\ UNCHANGED <<part, guardVars, runVars,
            replayVars, dataVars, reportVars, noTradeVars, commitmentVars, registrationVars,
            evaluationVars, runs, latest, order, episode, done, dataset, file>>
NoTradeStep == part = "no trade" /\ NoTrade!Next /\ UNCHANGED <<part, guardVars, runVars,
            replayVars, dataVars, reportVars, hourlyVars, commitmentVars, registrationVars,
            evaluationVars, runs, latest, order, episode, done>>
GapsStep == part = "gaps" /\ Gaps!Next /\ UNCHANGED <<part, guardVars, runVars, replayVars,
            dataVars, reportVars, hourlyVars, commitmentVars, registrationVars, evaluationVars,
            runs, latest, order, episode, done>>
CommitmentStep == part = "commitment" /\ Commitment!Next /\ UNCHANGED <<part, guardVars,
            runVars, replayVars, dataVars, reportVars, hourlyVars, noTradeVars,
            registrationVars, evaluationVars, latest, order, episode, done, dataset, file>>
RegistrationStep == part = "registration" /\ Registration!Next /\ UNCHANGED <<part, guardVars,
            runVars, replayVars, dataVars, reportVars, hourlyVars, noTradeVars, commitmentVars,
            evaluationVars, runs, latest, order, episode, dataset>>
AbandonmentStep == part = "abandonment" /\ Abandonment!Next /\ UNCHANGED <<part, guardVars,
            runVars, replayVars, dataVars, reportVars, hourlyVars, noTradeVars, commitmentVars,
            evaluationVars, runs, latest, order, episode, dataset>>
ResidueStep == part = "residue" /\ Residue!Next /\ UNCHANGED <<part, guardVars, runVars,
            replayVars, dataVars, reportVars, hourlyVars, noTradeVars, commitmentVars,
            evaluationVars, runs, latest, order, episode, dataset>>
EvaluationStep == part = "evaluation" /\ Evaluation!Next /\ UNCHANGED <<part, guardVars,
            runVars, replayVars, dataVars, reportVars, hourlyVars, noTradeVars, commitmentVars,
            registrationVars, runs, latest, order, episode, done, file>>

Next == GuardStep \/ RunsStep \/ WalletStep \/ WaitingStep \/ ReplayStep \/ InvestedStep \/
        ParityStep \/ DataStep \/ TradesStep \/ TwoMarketsStep \/ ReportStep \/ MarksStep \/
        DrawdownStep \/ HourlyStep \/ OffHourStep \/ NoTradeStep \/ GapsStep \/
        CommitmentStep \/ RegistrationStep \/ AbandonmentStep \/ ResidueStep \/ EvaluationStep

Spec == Init /\ [][Next]_vars

-----------------------------------------------------------------------------
\* The strategy: it does not buy while a completed close lies below support, does not
\* sell at once what it bought, and the pilot's candidate never takes more risk than the
\* baseline; run after run, reductions pass the guards, an episode has its limit of ADDs
\* and buys stay within the allocations over all markets.
DecisionsSound ==
  /\ part = "guard" => /\ Guard!BuyAboveInvalidation /\ Guard!NoImmediateReversal
                       /\ Guard!CandidateNeverRiskier
  /\ part = "runs" => Runs!TypeOK /\ Runs!ReduceNeverRefused /\ Runs!EpisodeAddLimit
  /\ part = "wallet" => Wallet!BuysWithinAllocations

\* The backtest: money is conserved through fees and slippage, a pending order is
\* settled once and before the next, the report adds up to the account, the combined
\* policy decides as the frozen candidate does, and its candles are complete and never
\* from the future.
BacktestSound ==
  /\ part = "replay" => Replay!TypeOK /\ Replay!MoneyConserved /\ Replay!PendingSettledOnce
  /\ part = "replay" => Replay!ReportAddsUp
  /\ part = "invested" => Invested!TypeOK /\ Invested!ReportAddsUp
  /\ part = "parity" => Parity!FrozenParity
  /\ part = "data" => Data!TypeOK /\ Data!HistoryComplete /\ Data!NoLookAhead

\* Trade matching and the report: lots are sold first in, first out, an episode owns its
\* lots and its result, selling more than was bought is noticed, the separate engines
\* agree; the report's partitions add up, every unknown has its explanation, the curve
\* at a mark is what the lots are worth, and the drawdown is its largest fall.
ReportSound ==
  /\ part = "trades" => /\ Trades!TypeOK /\ Trades!FirstInFirstOut /\ Trades!EpisodesOwnLots
                        /\ Trades!EpisodeResults /\ Trades!OversoldIsNoticed /\ Trades!EnginesAgree
  /\ part = "two markets" => /\ TwoMarkets!FirstInFirstOut /\ TwoMarkets!EpisodesOwnLots
                             /\ TwoMarkets!EpisodesApart /\ TwoMarkets!EnginesAgree
  /\ part = "report" => /\ Report!ReportsAgree /\ Report!PartitionsAddUp /\ Report!UnknownsExplained
                        /\ Report!CompleteFeesKnown
  /\ part = "marks" => Marks!RTypeOK /\ Marks!CurveMatchesLots /\ Marks!CalculatorMatchesCurve
  /\ part = "drawdown" => Drawdown!DrawdownIsLargestFall

\* Hours without a trade: the file's validation accepts exactly what the dataset covers,
\* its readers agree, an hour is certified silent only if it was silent, and whatever two
\* commands do to the evidence file, it is whole and conflicts are real ones.
CoverageSound ==
  /\ part = "hourly" => /\ Hourly!TypeOK /\ Hourly!ValidationExact /\ Hourly!SubtractionExact
                        /\ Hourly!ReadersAgree /\ Hourly!VerifiedIsUsable /\ Hourly!WindowsAgree
                        /\ Hourly!GridsAgree
  /\ part = "off hour" => OffHour!ValidationExact /\ OffHour!SubtractionExact
  /\ part = "no trade" => /\ NoTrade!TypeOK /\ NoTrade!CertifiedSilent /\ NoTrade!NeverPartial
                          /\ NoTrade!ConflictIsReal /\ NoTrade!OnePageDecides /\ NoTrade!FingerprintAgrees
  /\ part = "gaps" => /\ Gaps!CertifiedSilent /\ Gaps!NeverPartial /\ Gaps!ConflictIsReal

\* The prospective shadow test: a final report is of a window that began after its
\* public commitment, one registration at most becomes final and an abandoned one never;
\* of overlapping and dying register commands one publishes, no abandonment is lost and
\* no residue is adopted; support is earned in every cell and no harm is hidden.
ShadowSound ==
  /\ part = "commitment" => /\ Commitment!TypeOK /\ Commitment!FinalIsProspective
                            /\ Commitment!OneRegistrationFinal /\ Commitment!AbandonedNeverFinal
  /\ part = "registration" => Registration!TypeOK /\ Registration!PublicationStays
  /\ part = "abandonment" => Abandonment!AbandonmentKept
  /\ part = "residue" => Residue!ResidueNeverAdopted
  /\ part = "evaluation" => /\ Evaluation!TypeOK /\ Evaluation!ReplayAdmissible
                            /\ Evaluation!SupportIsEarned /\ Evaluation!HarmNeverHidden

\* What no step may do: enter again before the cooldown of the last exit is over, buy on
\* a confirmation that is not of a recent earlier run, grow a draining position, resolve
\* a failed matching, change a value of the curve that lies in the past, replace a
\* published evidence file, or decide by evidence that was lost.
EvidenceSteps ==
  [][/\ part = "runs" => Runs!CooldownKept /\ Runs!ConfirmationFresh
     /\ part = "waiting" => Waiting!DrainingNeverBuys
     /\ part \in {"trades", "two markets"} => Trades!FailureIsFinal
     /\ part = "marks" => Marks!HistoryStable
     /\ part = "no trade" => NoTrade!PublishedStays
     /\ part = "evaluation" => Evaluation!LostNeverDecides]_vars
===============================================================================
