------------------------------ MODULE Backtest -------------------------------
(***************************************************************************)
(* The replay of the strategy over hourly frames: the baseline engine      *)
(* decides, a research policy may allow, suppress or override, and the     *)
(* effective decision is executed at the same close or at the next frame.  *)
(* Money is whole KRW, quantities whole units; fees and slippage are per   *)
(* mille. The held average price is kept as what the position cost.        *)
(***************************************************************************)
EXTENDS PositionGuard, Sequences, SequencesExt

CONSTANTS Situations,            \* the analyses a frame may carry
          Policies, Timings,     \* the research policies and execution timings replayed
          InitialCash, InitialQuantity, InitialCost,
          FeeRate, SlippageRate, \* per mille
          MaxFrames              \* bound on the frames

BacktestAssumption ==
  /\ {InitialCash, InitialQuantity, InitialCost, FeeRate, SlippageRate, MaxFrames} \subseteq Nat
  /\ Timings \subseteq {"SAME_CLOSE_MODELED", "NEXT_FRAME_MODELED"}

Components == {"EARLY_THESIS_FAILURE", "COOLDOWN_CONTROL", "HTF_TREND_GATE", "ADD_LIMITED"}
Ablations == [c \in Components |-> "COMBINED_MINUS_" \o c]
Combined == {"COMBINED_CONSERVATIVE"} \cup {Ablations[c] : c \in Components}
ConditionalAdds == {"ADD_RISK_CLEAR", "ADD_HIGH_ALIGNMENT", "ADD_CORE_TREND"}
Interventions == Components \cup Combined \cup {"STRICT_PULLBACK"}

PolicyAssumption == Policies \subseteq Interventions \cup ConditionalAdds \cup {"NONE", "NO_ADD"}

VARIABLES
  policy, timing,
  account,   \* [cash, quantity, cost]
  research,  \* [adds, pnl, exitAt, exitPnl, path]
  pending,   \* the decision of the last frame that waits for this one, or NoPending
  latest,    \* the decision the next frame knows
  results,   \* one record per frame
  metrics,   \* [trades, skipped, turnover, fees, realized, peak, inMarket]
  done,
  live,      \* history: the candidate's live state after the same executions
  bought     \* history: the fees of all buys

vars == <<policy, timing, account, research, pending, latest, results, metrics, done, live, bought>>

NoTrade == [action |-> "HOLD", quantity |-> 0, gross |-> 0, fee |-> 0, pnl |-> 0]
NoPending == [decision |-> NoDecision, source |-> 0]

EmptyResearch == [adds |-> 0, pnl |-> 0, exitAt |-> -1, exitPnl |-> 0, path |-> "NONE"]
EmptyLive == [adds |-> 0, quantity |-> 0, cost |-> 0, pnl |-> 0, exitAt |-> -1, exitPnl |-> 0, path |-> "NONE"]

-----------------------------------------------------------------------------
(***************************************************************************)
(* The research policies                                                   *)
(***************************************************************************)

\* isComponentActive
ComponentActive(p, component) ==
  p = component \/ (p \in Combined /\ p # Ablations[component])

\* initializeResearchState: a policy with memory needs it when a position is held.
NeedsCarryIn(p) == ComponentActive(p, "ADD_LIMITED") \/ ComponentActive(p, "COOLDOWN_CONTROL")

\* getStrictPullbackReason
StrictPullback(a) ==
  \/ a.entryPath # "PULLBACK" \/ ~a.f.pullbackZone \/ a.regime # "PULLBACK_IN_UPTREND"
  \/ a.f.breakdown1d \/ a.f.breakdown4h \/ a.trendAlignmentScore < 4 \/ a.recoveryQualityScore < 3
  \/ a.oneHourLocation \notin {"LOWER", "MIDDLE"} \/ ~a.f.volumeRecovery
  \/ ~a.f.macdImproving /\ ~a.f.rsiRecovery

\* evaluatePositionGuardResearchIntervention: what the policy does, in the order of its components.
Intervention(p, c, d, st) ==
  IF (p = "EARLY_THESIS_FAILURE" \/ p \in Combined) /\ d.action \in {"EXIT", "REDUCE"} THEN "ALLOW"
  ELSE IF ComponentActive(p, "EARLY_THESIS_FAILURE") /\ EarlyFailure(c, d) THEN "OVERRIDE_EXIT"
  ELSE IF \/ ComponentActive(p, "COOLDOWN_CONTROL") /\ Cooldown(c, d, st)
          \/ ComponentActive(p, "HTF_TREND_GATE") /\ TrendGate(c, d)
          \/ p = "STRICT_PULLBACK" /\ d.action = "ENTER" /\ StrictPullback(c.a)
          \/ ComponentActive(p, "ADD_LIMITED") /\ AddLimit(c, d, st) THEN "SUPPRESS"
  ELSE "ALLOW"

\* getConditionalAddSuppressionReason
ConditionalAddSuppressed(p, a) ==
  \/ a.f.atrShock \/ a.weakeningStage # "NONE"
  \/ p # "ADD_RISK_CLEAR" /\ a.trendAlignmentScore < 4
  \/ p = "ADD_CORE_TREND" /\ a.regime \notin CoreRegimes

\* getResearchSuppression and getConditionalAddPolicyEvaluation
AddSuppressed(p, d, a) ==
  d.action = "ADD" /\ (p = "NO_ADD" \/ (p \in ConditionalAdds /\ ConditionalAddSuppressed(p, a)))

\* toEffectiveDecision, and the suppression of an ADD, which executes nothing.
EffectiveDecision(p, c, d, st) ==
  IF p \in Interventions /\ Intervention(p, c, d, st) = "OVERRIDE_EXIT" THEN OverrideExit(d)
  ELSE IF p \in Interventions /\ Intervention(p, c, d, st) = "SUPPRESS" THEN Suppressed(d)
  ELSE IF AddSuppressed(p, d, c.a) THEN Suppressed(d)
  ELSE d

-----------------------------------------------------------------------------
(***************************************************************************)
(* The execution model                                                     *)
(***************************************************************************)

Fee(gross) == (gross * FeeRate) \div 1000

Skipped(acc, reason) == [account |-> acc, trade |-> NoTrade, skip |-> reason]

\* applyBuy
ApplyBuy(d, acc, price) ==
  LET affordable == Smaller(d.notional, (acc.cash * 1000) \div (1000 + FeeRate))
      paid == (price * (1000 + SlippageRate)) \div 1000
      units == affordable \div paid
      gross == units * paid
  IN CASE d.notional < MinimumTradeValue -> Skipped(acc, "BELOW_MINIMUM_TRADE_VALUE")
       [] d.notional >= MinimumTradeValue /\ affordable < MinimumTradeValue -> Skipped(acc, "INSUFFICIENT_CASH")
       [] OTHER ->
            [account |-> [cash |-> acc.cash - gross - Fee(gross), quantity |-> acc.quantity + units,
                          cost |-> acc.cost + gross],
             trade |-> [action |-> d.action, quantity |-> units, gross |-> gross, fee |-> Fee(gross), pnl |-> 0],
             skip |-> "NONE"]

\* applySell
ApplySell(d, acc, price) ==
  LET units == IF d.action = "EXIT" THEN acc.quantity ELSE RequestedQuantity(acc.quantity, d.fraction)
      gross == units * ((price * (1000 - SlippageRate)) \div 1000)
      basis == IF units = acc.quantity THEN acc.cost ELSE (acc.cost * units) \div acc.quantity
  IN CASE acc.quantity = 0 -> Skipped(acc, "NO_POSITION")
       [] acc.quantity > 0 /\ gross < MinimumTradeValue -> Skipped(acc, "BELOW_MINIMUM_TRADE_VALUE")
       [] OTHER ->
            [account |-> [cash |-> acc.cash + gross - Fee(gross), quantity |-> acc.quantity - units,
                          cost |-> acc.cost - basis],
             trade |-> [action |-> d.action, quantity |-> units, gross |-> gross, fee |-> Fee(gross),
                        pnl |-> gross - Fee(gross) - basis],
             skip |-> "NONE"]

\* isExecutableDecision
Executable(d) == d.disposition # "DEFERRED_CONFIRMATION" /\ d.action # "HOLD"

\* applyDecision
ApplyDecision(d, acc, price) ==
  CASE ~Executable(d) -> Skipped(acc, "NONE")
    [] Executable(d) /\ d.action \in {"ENTER", "ADD"} -> ApplyBuy(d, acc, price)
    [] OTHER -> ApplySell(d, acc, price)

\* advanceResearchState
AdvanceResearch(st, x, path, time) ==
  LET pnl == st.pnl + x.trade.pnl
  IN CASE x.trade.action = "ENTER" -> [st EXCEPT !.path = path]
       [] x.trade.action = "ADD" -> [st EXCEPT !.adds = @ + 1]
       [] x.trade.action = "REDUCE" -> [st EXCEPT !.pnl = pnl]
       [] x.trade.action = "EXIT" ->
            IF x.account.quantity = 0
            THEN [st EXCEPT !.adds = 0, !.pnl = 0, !.exitAt = time, !.exitPnl = pnl] ELSE [st EXCEPT !.pnl = pnl]
       [] OTHER -> st

\* advancePositionGuardCandidateState, the live pilot's, for the same execution: fees are part
\* of what a position cost.
AdvanceLive(s, x, path, time) ==
  LET t == x.trade
      removed == IF t.quantity = s.quantity THEN s.cost ELSE (s.cost * t.quantity) \div s.quantity
      pnl == s.pnl + t.gross - t.fee - removed
  IN CASE t.action \in {"ENTER", "ADD"} ->
            [s EXCEPT !.quantity = @ + t.quantity, !.cost = @ + t.gross + t.fee,
                      !.adds = @ + Points(t.action = "ADD", 1), !.path = IF t.action = "ENTER" THEN path ELSE @]
       [] t.action \in {"REDUCE", "EXIT"} ->
            IF t.quantity = s.quantity
            THEN [s EXCEPT !.adds = 0, !.quantity = 0, !.cost = 0, !.pnl = 0, !.exitAt = time, !.exitPnl = pnl]
            ELSE [s EXCEPT !.quantity = @ - t.quantity, !.cost = @ - removed, !.pnl = pnl]
       [] OTHER -> s

-----------------------------------------------------------------------------
(***************************************************************************)
(* The replay                                                              *)
(***************************************************************************)

Equity(acc, price) == acc.cash + acc.quantity * price

\* Frames are hourly; time is in half hours.
Now == 2 * Len(results)

\* runPositionGuardBacktest, up to the first frame. A policy with memory is not replayed over a
\* held position without it (initializeResearchState throws).
Init ==
  /\ policy \in Policies /\ timing \in Timings
  /\ InitialQuantity > 0 => ~NeedsCarryIn(policy)
  /\ account = [cash |-> InitialCash, quantity |-> InitialQuantity, cost |-> InitialCost]
  /\ research = EmptyResearch /\ pending = NoPending /\ latest = NoDecision /\ results = <<>>
  /\ metrics = [trades |-> 0, skipped |-> 0, turnover |-> 0, fees |-> 0, realized |-> 0,
                equity |-> 0, inMarket |-> 0]
  /\ done = FALSE
  /\ live = [EmptyLive EXCEPT !.quantity = InitialQuantity, !.cost = InitialCost] /\ bought = 0

\* buildContext: the replay never knows of an earlier exit.
BuildContext(a, acc) ==
  [a |-> a, quantity |-> acc.quantity, cost |-> acc.cost, availableKrw |-> acc.cash,
   totalEquity |-> Equity(acc, a.currentPrice), assetValue |-> acc.quantity * a.currentPrice,
   totalExposure |-> acc.quantity * a.currentPrice, latest |-> latest, time |-> Now, exitAge |-> -1]

\* Metrics of one frame.
Accumulate(m, x, acc, price) ==
  [trades |-> m.trades + Points(x.trade # NoTrade, 1),
   skipped |-> m.skipped + Points(x.skip # "NONE", 1),
   turnover |-> m.turnover + x.trade.gross, fees |-> m.fees + x.trade.fee,
   realized |-> m.realized + x.trade.pnl,
   equity |-> Equity(acc, price), inMarket |-> m.inMarket + Points(acc.quantity > 0, 1)]

\* The waiting decision is executed and kept for the next frame too.
WrongNextPending(d, waits) == IF waits THEN [decision |-> d, source |-> Len(results) + 1] ELSE pending

\* The decision that waits for the next frame.
NextPending(d, waits) == IF waits THEN [decision |-> d, source |-> Len(results) + 1] ELSE NoPending

\* The status of the frame whose decision was carried into this one.
SettledResults(carried, x) ==
  IF carried THEN [results EXCEPT ![pending.source].status =
                     IF x.trade # NoTrade THEN "EXECUTED_NEXT_FRAME" ELSE "SKIPPED_NEXT_FRAME"]
  ELSE results

\* One frame of runPositionGuardBacktest. The recorded decision is the engine's own.
Frame(a) ==
  LET next == timing = "NEXT_FRAME_MODELED"
      carried == next /\ pending # NoPending
      before == IF carried THEN ApplyDecision(pending.decision, account, a.currentPrice)
                ELSE Skipped(account, "NONE")
      state == IF carried THEN AdvanceResearch(research, before, pending.decision.path, Now) ELSE research
      c == BuildContext(a, before.account)
      d == DecideCore(c)
      e == EffectiveDecision(policy, c, d, state)
      x == IF next THEN before ELSE ApplyDecision(e, account, a.currentPrice)
      waits == next /\ Executable(e)
      path == IF next THEN pending.decision.path ELSE a.entryPath
  IN /\ ~done /\ Len(results) < MaxFrames
     /\ account' = x.account
     /\ research' = IF next THEN state ELSE AdvanceResearch(research, x, path, Now)
     /\ live' = AdvanceLive(live, x, path, Now)
     /\ bought' = bought + (IF x.trade.action \in {"ENTER", "ADD"} THEN x.trade.fee ELSE 0)
     /\ pending' = NextPending(e, waits)
     /\ metrics' = Accumulate(metrics, x, x.account, a.currentPrice)
     /\ results' = Append(SettledResults(carried, before),
                     [price |-> a.currentPrice, decision |-> e, trade |-> x.trade, skip |-> x.skip,
                      origin |-> IF carried /\ x.trade # NoTrade THEN pending.source ELSE 0,
                      status |-> IF waits THEN "PENDING_NEXT_FRAME" ELSE "NONE",
                      start |-> before.account, end |-> x.account, equity |-> Equity(x.account, a.currentPrice)])
     /\ latest' = [action |-> d.action, disposition |-> d.disposition, path |-> d.path,
                   bucket |-> d.bucket, time |-> Now]
     /\ UNCHANGED <<policy, timing, done>>

\* After the last frame: a waiting decision has no frame to be executed at.
Finish ==
  /\ ~done
  /\ done' = TRUE
  /\ results' = IF pending = NoPending THEN results
                ELSE [results EXCEPT ![pending.source].status = "SKIPPED_NO_NEXT_FRAME"]
  /\ UNCHANGED <<policy, timing, account, research, pending, latest, metrics, live, bought>>

Next == (\E a \in Situations : Frame(a)) \/ Finish

Spec == Init /\ [][Next]_vars

-----------------------------------------------------------------------------
(***************************************************************************)
(* The report                                                              *)
(***************************************************************************)

\* getInitialEquity, of the report: what the first frame starts with.
ReportedInitialEquity ==
  IF results = <<>> THEN metrics.equity ELSE Equity(results[1].start, results[1].price)

\* buildRegimePerformance and buildMonthlyReturns: frames grouped by a key, the equity's change
\* over each, starting from the frame before.
EquityChange(frames) ==
  LET Change(i) == results[i].equity - (IF i = 1 THEN ReportedInitialEquity ELSE results[i - 1].equity)
  IN FoldLeft(LAMBDA sum, i : sum + (IF i \in frames THEN Change(i) ELSE 0), 0, [i \in 1 .. Len(results) |-> i])

\* buildTradeDiagnostics: the sells won, or lost.
Sells(won) ==
  {i \in 1 .. Len(results) :
     /\ results[i].trade.action \in {"REDUCE", "EXIT"}
     /\ IF won THEN results[i].trade.pnl > 0 ELSE results[i].trade.pnl < 0}

\* getCompletedHoldFrames: how many frames each closed position was held, by the states before
\* and after each frame; 0 stands for no open position.
CompletedHoldFrames ==
  LET Opened(h, i) == IF h.open = 0 /\ results[i].start.quantity = 0 /\ results[i].end.quantity > 0 THEN i ELSE h.open
      Closes(i) == results[i].start.quantity > 0 /\ results[i].end.quantity = 0
      Step(h, i) == IF Opened(h, i) # 0 /\ Closes(i)
                    THEN [open |-> 0, lengths |-> Append(h.lengths, i - Opened(h, i) + 1)]
                    ELSE [h EXCEPT !.open = Opened(h, i)]
      first == IF results # <<>> /\ results[1].start.quantity > 0 THEN 1 ELSE 0
  IN FoldLeft(Step, [open |-> first, lengths |-> <<>>], [i \in 1 .. Len(results) |-> i]).lengths

-----------------------------------------------------------------------------
(***************************************************************************)
(* Properties                                                              *)
(***************************************************************************)

\* Types; the cash never goes below zero, fees included.
TypeOK ==
  /\ account.cash \in Nat /\ account.quantity \in Nat /\ account.cost \in Nat
  /\ account.quantity = 0 => account.cost = 0
  /\ research.adds \in Nat /\ pending.source \in 0 .. Len(results) /\ done \in BOOLEAN

\* The money adds up over any number of trades: what is held at cost and in cash is what was
\* there, plus the realized result, less the buys' fees; the sells' fees are in the result
\* already (position-guard-backtest.ts:1211 and :1275).
MoneyConserved ==
  account.cash + account.cost = InitialCash + InitialCost + metrics.realized - bought

\* An executable decision is executed or skipped at the frame after it, once: at the end none
\* waits, and every modelled trade has the decision of the frame before (position-guard-backtest.ts:347).
PendingSettledOnce ==
  /\ \A i \in 1 .. Len(results) : results[i].origin # 0 =>
       /\ results[i].origin = i - 1 /\ results[i - 1].status = "EXECUTED_NEXT_FRAME"
       /\ results[i].trade.action = results[i - 1].decision.action
  /\ \A i \in 1 .. Len(results) : results[i].status = "PENDING_NEXT_FRAME" => i = Len(results) /\ ~done

\* The candidate of the live pilot is the frozen research policy: given the same history, it
\* makes the same effective decision in every situation (position-guard-candidate-policy.ts:201).
FrozenParity ==
  \A c \in {BuildContext(a, account) : a \in Situations} : \A d \in {DecideCore(c)} :
    EffectiveDecision("COMBINED_CONSERVATIVE", c, d, research) = EvaluateCandidate(c, d, research)

Exits == {i \in 1 .. Len(results) : results[i].trade.action = "EXIT"}

\* The frame that opened the position an exit closes: the last ENTER before it, or the first.
Opening(i) ==
  LET entries == {j \in 1 .. i : results[j].trade.action = "ENTER"}
  IN IF entries = {} THEN 1 ELSE CHOOSE j \in entries : \A k \in entries : k <= j

\* The report's split of the result over the frames adds up to the whole, and the positions it
\* calls completed run from an entry to its exit (position-guard-backtest-report.ts:245, :368).
ReportAddsUp ==
  results # <<>> =>
    /\ EquityChange(1 .. Len(results)) = metrics.equity - ReportedInitialEquity
    /\ metrics.trades >= Cardinality(Sells(TRUE)) + Cardinality(Sells(FALSE))
    /\ timing = "SAME_CLOSE_MODELED" =>
         CompletedHoldFrames = [n \in 1 .. Cardinality(Exits) |->
                                  LET i == SetToSortSeq(Exits, <)[n] IN i - Opening(i) + 1]

=============================================================================
