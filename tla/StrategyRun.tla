----------------------------- MODULE StrategyRun -----------------------------
(***************************************************************************)
(* Strategy runs over time: the runner builds a decision for a market from *)
(* the account, the market's last recorded decision and its last sell,     *)
(* routes it through the pilot's phase, records it, passes it through the  *)
(* risk guards and hands it to execution; the order settles and the        *)
(* candidate's state advances by what was executed.                        *)
(*                                                                         *)
(* Time runs in half hours. Orders are market orders: one settles, wholly, *)
(* in part or not at all, before the next run (the scheduler's preflight   *)
(* refuses to run over an active order). No fees, whole units.             *)
(***************************************************************************)
EXTENDS PositionGuard, FiniteSets, Functions

CONSTANTS Markets, PilotMarket,  \* PilotMarket may be no market: the baseline alone
          Situations,            \* the analyses the market may show
          InitialPhase,          \* of the pilot, at the start
          InitialQuantity,       \* held in the pilot's market, bought at its first price
          Cash, AssetCap, TotalCap,  \* the risk policy's caps, hundredths of the equity
          MaxTime, MaxRuns       \* bounds: half hours, and runs

RunAssumption ==
  /\ IsFiniteSet(Markets) /\ IsFiniteSet(Situations)
  /\ {Cash, MaxTime, MaxRuns, InitialQuantity} \subseteq Nat /\ {AssetCap, TotalCap} \subseteq 0 .. 100

VARIABLES
  time, runs,
  cash, quantity, cost, price,  \* the account; price is that of the last snapshot
  latest,      \* the last recorded decision of each market
  soldAt,      \* when each market's last sell was filled, or -1
  order,       \* the order under way, or NoOrder
  refused,     \* the last decision the risk guards refused, or NoDecision
  phase, st,   \* the pilot's phase and the candidate's state
  episode      \* history: [adds, at, loss, paid, path] of the pilot's position and its last close

vars == <<time, runs, cash, quantity, cost, price, latest, soldAt, order, refused, phase, st, episode>>
account == <<cash, quantity, cost, soldAt>>

NoOrder == [market |-> "NONE", action |-> "HOLD", quantity |-> 0, price |-> 0, path |-> "NONE"]

\* createEmptyPositionGuardCandidateState
EmptyState == [adds |-> 0, quantity |-> 0, cost |-> 0, pnl |-> 0, exitAt |-> -1, exitPnl |-> 0, path |-> "NONE"]

FirstPrice == 1000

Value(m) == quantity[m] * price[m]
Exposure == FoldFunction(LAMBDA x, y : x + y, 0, [m \in Markets |-> Value(m)])
Equity == cash + Exposure

Init ==
  /\ time = 0 /\ runs = 0 /\ cash = Cash
  /\ quantity = [m \in Markets |-> IF m = PilotMarket THEN InitialQuantity ELSE 0]
  /\ cost = [m \in Markets |-> quantity[m] * FirstPrice] /\ price = [m \in Markets |-> FirstPrice]
  /\ latest = [m \in Markets |-> NoDecision] /\ soldAt = [m \in Markets |-> -1]
  /\ order = NoOrder /\ refused = NoDecision
  /\ phase = InitialPhase /\ st = EmptyState
  /\ episode = [adds |-> 0, at |-> -1, loss |-> FALSE, paid |-> 0, path |-> "NONE"]

-----------------------------------------------------------------------------
(***************************************************************************)
(* A run                                                                   *)
(***************************************************************************)

\* deriveRecentExitContext: any filled sell counts, a reduction too.
ExitAge(m) == IF soldAt[m] < 0 THEN -1 ELSE time - soldAt[m]

\* loadPositionGuardStrategyContext: balances, positions and exposure as of the preflight's
\* refresh, all at the price of the analysis.
LoadContext(m, a) ==
  LET value == quantity[m] * a.currentPrice
      exposure == Exposure - Value(m) + value
  IN [a |-> a, quantity |-> quantity[m], cost |-> cost[m], availableKrw |-> cash,
      totalEquity |-> cash + exposure, assetValue |-> value, totalExposure |-> exposure,
      latest |-> latest[m], time |-> time, exitAge |-> ExitAge(m)]

\* The phase a run is routed by.
RoutedPhase(m) == IF m = PilotMarket THEN phase ELSE "BASELINE"

\* createStrategyDecisionRecord, as toPreviousPositionGuardDecision reads it back.
DecisionRecord(d) ==
  [action |-> d.action, disposition |-> d.disposition, path |-> d.path, bucket |-> d.bucket, time |-> time]

\* toOrderSubmissionInput and toStrategyDecision: a deferred decision and a HOLD send nothing.
OrderInput(m, c, d) ==
  LET units == CASE d.action \in {"ENTER", "ADD"} -> d.notional \div c.a.currentPrice
                 [] d.action \in {"REDUCE", "EXIT"} -> RequestedQuantity(c.quantity, d.fraction)
                 [] OTHER -> 0
  IN IF d.disposition \in {"DEFERRED_CONFIRMATION", "SKIPPED"} \/ units = 0 THEN NoOrder
     ELSE [market |-> m, action |-> d.action, quantity |-> units, price |-> c.a.currentPrice, path |-> d.path]

\* evaluateRiskGuards: the minimum for every order, the caps for what increases exposure.
RiskAccepts(c, o) ==
  LET value == o.quantity * o.price
  IN /\ value >= MinimumTradeValue
     /\ o.action \in {"ENTER", "ADD"} =>
          /\ 100 * (c.assetValue + value) <= AssetCap * c.totalEquity
          /\ 100 * (c.totalExposure + value) <= TotalCap * c.totalEquity

\* runOnce: the decision is recorded before the order is built. The run may be cut off after
\* the record (ownership lost, a crash), or the submission fail.
RunOnce(m, a) ==
  LET c == LoadContext(m, a)
      d == Route(c, DecideCore(c), st, RoutedPhase(m))
      o == IF phase = "PAUSED_FAULT" /\ m = PilotMarket THEN NoOrder ELSE OrderInput(m, c, d)
  IN /\ order = NoOrder /\ runs < MaxRuns
     /\ runs' = runs + 1
     /\ price' = [price EXCEPT ![m] = a.currentPrice]
     /\ latest' = [latest EXCEPT ![m] = DecisionRecord(d)]
     /\ \/ o # NoOrder /\ RiskAccepts(c, o) /\ order' = o /\ refused' = NoDecision
        \/ o # NoOrder /\ ~RiskAccepts(c, o) /\ order' = NoOrder /\ refused' = DecisionRecord(d)
        \/ order' = NoOrder /\ refused' = NoDecision
     /\ UNCHANGED <<time, account, phase, st, episode>>

-----------------------------------------------------------------------------
(***************************************************************************)
(* The outcome of an order                                                 *)
(***************************************************************************)

\* The result is that of the last sale alone, and the entry path is not kept.
WrongAdvanceClose(s, o, units) ==
  IF units = 0 THEN s
  ELSE IF o.action \in {"ENTER", "ADD"}
  THEN [s EXCEPT !.quantity = @ + units, !.cost = @ + units * o.price, !.adds = @ + Points(o.action = "ADD", 1)]
  ELSE [s EXCEPT !.quantity = @ - units, !.cost = (@ * (s.quantity - units)) \div s.quantity,
                 !.adds = IF units = s.quantity THEN 0 ELSE @,
                 !.exitAt = IF units = s.quantity THEN time ELSE @,
                 !.exitPnl = units * o.price - s.cost]

\* advancePositionGuardCandidateState: a fill of the candidate's market; nothing for no fill.
AdvanceState(s, o, units) ==
  LET removed == IF units = s.quantity THEN s.cost ELSE (s.cost * units) \div s.quantity
      pnl == s.pnl + units * o.price - removed
  IN IF units = 0 THEN s
     ELSE IF o.action \in {"ENTER", "ADD"}
     THEN [s EXCEPT !.quantity = @ + units, !.cost = @ + units * o.price,
                    !.path = IF o.action = "ENTER" THEN o.path ELSE @,
                    !.adds = @ + Points(o.action = "ADD", 1)]
     ELSE IF units = s.quantity
     THEN [s EXCEPT !.adds = 0, !.quantity = 0, !.cost = 0, !.pnl = 0, !.exitAt = time, !.exitPnl = pnl]
     ELSE [s EXCEPT !.quantity = @ - units, !.cost = @ - removed, !.pnl = pnl]

\* The exchange's record of the pilot's position, kept apart from the code's.
RecordEpisode(e, o, units, left) ==
  LET value == units * o.price
  IN CASE units = 0 -> e
       [] units > 0 /\ o.action \in {"ENTER", "ADD"} ->
            [e EXCEPT !.adds = @ + Points(o.action = "ADD", 1), !.paid = @ + value,
                      !.path = IF o.action = "ENTER" THEN o.path ELSE @]
       [] units > 0 /\ o.action \in {"REDUCE", "EXIT"} /\ left > 0 -> [e EXCEPT !.paid = @ - value]
       [] OTHER -> [e EXCEPT !.adds = 0, !.paid = 0, !.at = time, !.loss = e.paid - value >= 0]

\* An order ends: all of it, half of it or nothing was executed.
Settle ==
  \E units \in {0, order.quantity \div 2, order.quantity} :
    LET m == order.market
        buys == order.action \in {"ENTER", "ADD"}
        left == IF buys THEN quantity[m] + units ELSE quantity[m] - units
    IN /\ order # NoOrder
       /\ cash' = cash + (IF buys THEN -1 ELSE 1) * units * order.price
       /\ quantity' = [quantity EXCEPT ![m] = left]
       /\ cost' = [cost EXCEPT ![m] = IF buys THEN @ + units * order.price ELSE (@ * left) \div quantity[m]]
       /\ soldAt' = IF ~buys /\ units = order.quantity THEN [soldAt EXCEPT ![m] = time] ELSE soldAt
       /\ IF m = PilotMarket /\ phase \in {"ACTIVE", "DRAINING"}
          THEN st' = AdvanceState(st, order, units) /\ episode' = RecordEpisode(episode, order, units, left)
          ELSE UNCHANGED <<st, episode>>
       /\ order' = NoOrder
       /\ UNCHANGED <<time, runs, price, latest, refused, phase>>

-----------------------------------------------------------------------------
(***************************************************************************)
(* The pilot's phase (its protocol is CandidatePilot's) and time           *)
(***************************************************************************)

PhaseTo(from, to, when) ==
  /\ order = NoOrder /\ phase = from /\ when
  /\ phase' = to
  /\ UNCHANGED <<time, runs, account, price, latest, order, refused, st, episode>>

Activate == PhaseTo("PENDING_FLAT", "ACTIVE", quantity[PilotMarket] = 0)
Drain == PhaseTo("ACTIVE", "DRAINING", TRUE)
Disable == PhaseTo("DRAINING", "DISABLED", quantity[PilotMarket] = 0)
Fault == \E from \in {"PENDING_FLAT", "ACTIVE", "DRAINING"} : PhaseTo(from, "PAUSED_FAULT", TRUE)

Tick ==
  /\ order = NoOrder /\ time < MaxTime
  /\ time' = time + 1
  /\ UNCHANGED <<runs, account, price, latest, order, refused, phase, st, episode>>

Next ==
  \/ \E m \in Markets, a \in Situations : RunOnce(m, a)
  \/ Settle \/ Tick
  \/ PilotMarket \in Markets /\ (Activate \/ Drain \/ Disable \/ Fault)

Spec == Init /\ [][Next]_vars

-----------------------------------------------------------------------------
(***************************************************************************)
(* Properties                                                              *)
(***************************************************************************)

TypeOK ==
  /\ time \in 0 .. MaxTime /\ runs \in 0 .. MaxRuns /\ cash \in Nat
  /\ \A m \in Markets : quantity[m] \in Nat /\ cost[m] \in Nat /\ soldAt[m] \in -1 .. MaxTime
  /\ \A m \in Markets : latest[m].action \in Actions /\ latest[m].disposition \in Dispositions
  /\ order.action \in Actions /\ st.adds \in Nat /\ st.quantity \in Nat
  /\ phase \in {"DISABLED", "PENDING_FLAT", "ACTIVE", "DRAINING", "PAUSED_FAULT"}

\* A buy, filled whole, leaves the market's value and the whole exposure within the strategy's
\* own allocations, whatever the other market did in between (position-guard-core.ts:544).
BuysWithinAllocations ==
  order.action \in {"ENTER", "ADD"} =>
    LET value == order.quantity * order.price
    IN /\ 100 * (Value(order.market) + value) <= StrongAssetMax * Equity
       /\ 100 * (Exposure + value) <= PortfolioMax * Equity

\* A reduction the strategy decides is never refused by the risk guards: the engine's own
\* minimum and the guards' look at the same quantity and price (position-guard-core.ts:888).
ReduceNeverRefused == refused.action # "REDUCE"

\* Between an episode's opening and its close the candidate adds at most MaxAdds times,
\* through partial fills, cancelled orders and reductions (position-guard-candidate-policy.ts:414).
EpisodeAddLimit == phase = "ACTIVE" => episode.adds <= MaxAdds

\* An active candidate does not re-enter within the cooldown of the position's real close:
\* after a close without gain, or by the entry path used before (position-guard-candidate-policy.ts:358).
CooldownKept ==
  order' # order /\ order'.action = "ENTER" /\ order'.market = PilotMarket /\ phase = "ACTIVE" /\ episode.at >= 0 =>
    /\ episode.loss => time - episode.at >= LossCooldown
    /\ episode.path = order'.path => time - episode.at >= PathCooldown

\* A draining or waiting pilot's position never grows (position-guard-policy-router.ts:126).
DrainingNeverBuys ==
  (phase \in {"DRAINING", "PENDING_FLAT"}) =>
    \A m \in Markets \cap {PilotMarket} : quantity'[m] <= quantity[m]

\* A buy after confirmation was put off by a run within the last hour and a half, and not a
\* run of the same clock hour (position-guard-core.ts:603).
ConfirmationFresh ==
  \A m \in Markets : latest'[m] # latest[m] /\ latest'[m].disposition = "EXECUTED_AFTER_CONFIRMATION" =>
    latest[m].disposition = "DEFERRED_CONFIRMATION" /\ time - latest[m].time \in 1 .. 3

=============================================================================
