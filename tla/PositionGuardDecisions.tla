----------------------- MODULE PositionGuardDecisions -----------------------
(***************************************************************************)
(* The strategy's decision for one market over many market situations. A   *)
(* situation gives each timeframe seven candles whose third is the swing   *)
(* low, moving averages in one of their orders, and a momentum.            *)
(***************************************************************************)
EXTENDS PositionGuard

VARIABLES chart, holding, decision

vars == <<chart, holding, decision>>

Candle(x) == [close |-> x, high |-> x + 1, low |-> x - 1, closeTime |-> 0]
Candles(first, pivot, previous, latest) ==
  <<Candle(first), Candle(1040), Candle(pivot), Candle(1030), Candle(1040), Candle(previous), Candle(latest)>>

Momenta == {<<1, TRUE, 55, 120>>, <<-1, FALSE, 30, 80>>, <<1, FALSE, 70, 90>>}

Indicators(ema, m) ==
  [ema20 |-> ema[1], ema50 |-> ema[2], ema200 |-> ema[3], atr |-> 10,
   histogram |-> m[1], improving |-> m[2], rsi |-> m[3], volume |-> m[4]]

\* The structures of a timeframe, for closes before and after, averages and momenta.
Structures(tf, firsts, pivots, closes, averages, momenta) ==
  {AnalyzeTimeframe(tf, Candles(f, p, c[1], c[2]), c[2], Indicators(e, m)) :
     f \in firsts, p \in pivots, c \in closes, e \in averages, m \in momenta}

Hourly == Structures("1h", {1000}, {1000}, {980, 1020, 1041} \X {980, 1001, 1041, 1049, 1062},
                     {<<1005, 1000, 995>>, <<1035, 1045, 1050>>}, Momenta)
FourHourly == Structures("4h", {1010}, {995}, {<<1000, 1010>>, <<1020, 1041>>, <<990, 985>>, <<1041, 1062>>},
                         {<<1005, 1000, 995>>, <<1035, 1045, 1050>>}, {<<1, TRUE, 55, 120>>, <<-1, FALSE, 30, 80>>})
Daily == Structures("1d", {960, 1060}, {985}, {<<1000, 1010>>, <<1000, 988>>, <<990, 975>>},
                    {<<1005, 1000, 995>>, <<1035, 1045, 1050>>}, {<<1, TRUE, 55, 120>>})

Holdings == {"flat", "profit", "loss"}

\* A hundred thousand won, a third of it invested when a position is held.
Context(s, h) ==
  LET price == s["1h"].latestClose
      quantity == IF h = "flat" THEN 0 ELSE 30000 \div price
  IN [a |-> Analyze(s, price), quantity |-> quantity,
      cost |-> (CASE h = "flat" -> 0 [] h = "profit" -> (quantity * price * 9) \div 10
                  [] h = "loss" -> quantity * price + 1),
      availableKrw |-> 100000 - quantity * price, totalEquity |-> 100000,
      assetValue |-> quantity * price, totalExposure |-> quantity * price,
      latest |-> NoDecision, time |-> 10, exitAge |-> -1]

\* Candidate states: no history, just closed at a loss or with a gain, one ADD made.
CandidateStates ==
  {[adds |-> n, exitAt |-> x, exitPnl |-> r, path |-> p] :
     n \in 0 .. 1, x \in {-1, 9}, r \in {-1, 1}, p \in {"RECLAIM", "PULLBACK"}}

Init ==
  /\ \E h1 \in Hourly, h4 \in FourHourly, d1 \in Daily :
       chart = [tf \in Timeframes |-> CASE tf = "1h" -> h1 [] tf = "4h" -> h4 [] tf = "1d" -> d1]
  /\ holding \in Holdings /\ decision = NoDecision

\* buildDecision, in the baseline.
Decide ==
  /\ decision = NoDecision
  /\ decision' = DecideCore(Context(chart, holding))
  /\ UNCHANGED <<chart, holding>>

Spec == Init /\ [][Decide]_vars

-----------------------------------------------------------------------------
(***************************************************************************)
(* Properties                                                              *)
(***************************************************************************)

Made == decision # NoDecision
Buys(d) == d.action \in {"ENTER", "ADD"}

\* No buy while a completed 4h or daily close lies below the higher of the two supports
\* (the closes themselves, not the flags derived from them, position-guard-core.ts:715).
BuyAboveInvalidation ==
  Made /\ Buys(decision) =>
    LET level == Larger(chart["4h"].support, chart["1d"].support)
    IN ~CloseBelow(chart["4h"], level, 20) /\ ~CloseBelow(chart["1d"], level, 15)

\* The context with the position the decision opens or enlarges, at the price paid.
AfterBuying(c, d) ==
  LET price == c.a.currentPrice
      bought == d.notional \div price
  IN [c EXCEPT !.quantity = @ + bought, !.cost = @ + bought * price,
               !.availableKrw = @ - bought * price, !.assetValue = @ + bought * price,
               !.totalExposure = @ + bought * price]

\* What was bought is not sold in the market it was bought in: with the position open at
\* the price paid, neither the engine nor the candidate's early failure answers with a sale.
NoImmediateReversal ==
  Made /\ Buys(decision) =>
    \A c \in {Context(chart, holding)} : \A after \in {AfterBuying(c, decision)} :
      /\ DecideCore(after).action \notin {"REDUCE", "EXIT"}
      /\ ~EarlyFailure(after, DecideCore(after)) \/ holding = "loss"

\* How much risk a decision leaves: what it buys, or what it does not sell.
Risk(d) == CASE Buys(d) -> 10000 + d.notional [] OTHER -> 10000 - d.fraction

\* Whatever the phase and the candidate's history, the candidate route never takes more risk
\* than the baseline (position-guard-policy-router.ts:78); only PAUSED_FAULT withholds a sale.
CandidateNeverRiskier ==
  Made => \A c \in {Context(chart, holding)}, st \in CandidateStates,
             phase \in {"DISABLED", "PENDING_FLAT", "DRAINING", "ACTIVE"} :
            Risk(Route(c, decision, st, phase)) <= Risk(decision)
=============================================================================
