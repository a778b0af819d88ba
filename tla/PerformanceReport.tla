-------------------------- MODULE PerformanceReport --------------------------
(***************************************************************************)
(* What the account's fills earned, computed twice from one stream, and    *)
(* the reports made from it.                                               *)
(*                                                                         *)
(* matchPerformanceTrades (performance-trade-matcher.ts) matches sells to  *)
(* lots first in, first out, and groups the realised slices into position  *)
(* episodes; calculatePerformance (performance-calculator.ts) keeps        *)
(* running sums per market.  Each step processes the next fill of the      *)
(* stream, sorted by time and id, in both.  A fee is a whole amount per    *)
(* unit, so allocating it to part of a fill is exact; quantities are whole *)
(* units, so the residue tolerance never applies.                          *)
(*                                                                         *)
(* The reports: the diagnostics of one or all markets                      *)
(* (performance-diagnostics.ts), the attribution to decision actions       *)
(* (performance-attribution.ts) and the calculator's totals.  A metric is  *)
(* a number or Null when it is not KNOWN.  Besides the fills, persisted    *)
(* mark prices of the markets arrive; each is valued against the whole     *)
(* stream whenever a report is made.                                       *)
(***************************************************************************)
EXTENDS Integers, Sequences, FiniteSets, SequencesExt

CONSTANTS
    Markets,
    Null,                \* a missing price, cost, fee or action
    Prices, Volumes,
    UnitFees,            \* fees per unit, Null among them
    Actions,             \* for each side the decision actions a fill may carry
    Gaps,                \* time between consecutive fills
    Openings,            \* possible positions before the stream: [Markets -> [qty, price]]
    MaxFills             \* bound: length of the stream

StreamAssumption ==
    /\ Prices \subseteq Nat \ {0} /\ Volumes \subseteq Nat \ {0}
    /\ UnitFees \subseteq Nat \cup {Null} /\ Gaps \subseteq Nat /\ MaxFills \in Nat

VARIABLES
    fills,       \* the stream so far; a fill's id is its position
    lots,        \* matcher: inventory of each market, oldest first
    episode,     \* matcher: the open episode of each market, or Null
    done,        \* matcher: completed episodes
    slices,      \* matcher: realisation slices
    failure,     \* matcher: the fill that sold more than there was, or 0
    calc         \* calculator: running sums of each market

vars == <<fills, lots, episode, done, slices, failure, calc>>

----------------------------------------------------------------------------
Add(a, b) == IF a = Null \/ b = Null THEN Null ELSE a + b
Times(a, n) == IF a = Null THEN Null ELSE a * n

Total(s) == FoldLeft(LAMBDA a, b : a + b, 0, s)
Sum(s) == IF \E i \in DOMAIN s : s[i] = Null THEN Null ELSE Total(s)
Of(s, Field(_)) == [i \in DOMAIN s |-> Field(s[i])]

Quantity(s) == Total(Of(s, LAMBDA e : e.qty))

WrongTake(s, v) == [i \in DOMAIN s |-> IF v >= s[i].qty THEN s[i].qty ELSE v]

(* The loop of consumeSell: what a sell of v takes from each lot.          *)
Take(s, v) ==
    [i \in DOMAIN s |->
        LET before == Quantity(SubSeq(s, 1, i - 1)) IN
        IF before >= v THEN 0 ELSE IF v - before < s[i].qty THEN v - before ELSE s[i].qty]

Remaining(s, taken) ==
    SelectSeq([i \in DOMAIN s |-> [s[i] EXCEPT !.qty = @ - taken[i]]], LAMBDA l : l.qty > 0)

----------------------------------------------------------------------------
Clock == IF fills = << >> THEN 0 ELSE fills[Len(fills)].at
Id == Len(fills) + 1

Fill(m, side, price, vol, fee, gap, action) ==
    [market |-> m, side |-> side, price |-> price, vol |-> vol, fee |-> fee,
     at |-> Clock + gap, action |-> action]

(* rejectAmbiguousInstants: opposite sides of one market in one instant    *)
(* refuse the whole report.                                                *)
Unambiguous(f) ==
    \A i \in DOMAIN fills :
        fills[i].market = f.market /\ fills[i].at = f.at => fills[i].side = f.side

----------------------------------------------------------------------------
(* The matcher.                                                            *)
OpeningLot(p) ==
    [src |-> "OPENING", ep |-> 0, entry |-> 0, qty |-> p.qty, price |-> p.price, fee |-> Null]

NewEpisode(f) ==
    [id |-> Id, market |-> f.market, opened |-> f.at, closed |-> Null, entries |-> << >>,
     exits |-> << >>, slices |-> << >>, qty |-> 0, gross |-> 0, fees |-> 0, net |-> 0]

Current(f) == IF episode[f.market] = Null THEN NewEpisode(f) ELSE episode[f.market]

(* addSelectedLot.                                                         *)
AddSelectedLot(f) ==
    /\ episode' = [episode EXCEPT ![f.market] =
           [Current(f) EXCEPT !.entries = Append(@, Id), !.qty = @ + f.vol]]
    /\ lots' = [lots EXCEPT ![f.market] =
           Append(@, [src |-> "SELECTED_STREAM", ep |-> Current(f).id, entry |-> Id,
                      qty |-> f.vol, price |-> f.price, fee |-> f.fee])]
    /\ UNCHANGED <<done, slices, failure>>

Slice(l, n, f) ==
    LET gross == IF l.price = Null THEN Null ELSE (f.price - l.price) * n
        buy == Times(l.fee, n)
        sell == Times(f.fee, n)
    IN [market |-> f.market, src |-> l.src, ep |-> l.ep, entry |-> l.entry, exit |-> Id,
        qty |-> n, price |-> l.price, gross |-> gross, buyFee |-> buy, sellFee |-> sell,
        net |-> IF Null \in {gross, buy, sell} THEN Null ELSE gross - buy - sell,
        hold |-> IF l.entry = 0 THEN Null ELSE f.at - fills[l.entry].at]

Realised(f) ==
    LET l == lots[f.market]
        taken == Take(l, f.vol)
        n == Cardinality({i \in DOMAIN l : taken[i] > 0})
    IN [i \in 1..n |-> Slice(l[i], taken[i], f)]

Selected(s) == SelectSeq(s, LAMBDA e : e.src = "SELECTED_STREAM")

(* The open episode after the slices of one sell.                          *)
Sold(e, new) ==
    LET mine == Selected(new)
        ids == SelectSeq([i \in DOMAIN new |-> Len(slices) + i],
                         LAMBDA i : new[i - Len(slices)].src = "SELECTED_STREAM")
    IN [e EXCEPT
        !.exits = Append(@, Id), !.slices = @ \o ids,
        !.qty = @ - Quantity(mine),
        !.gross = Add(@, Sum(Of(mine, LAMBDA s : s.gross))),
        !.fees = Add(@, Sum(Of(mine, LAMBDA s : Add(s.buyFee, s.sellFee)))),
        !.net = Add(@, Sum(Of(mine, LAMBDA s : s.net)))]

(* consumeSell.                                                            *)
ConsumeSell(f) ==
    LET new == Realised(f)
        m == f.market
        touched == Selected(new) # << >>
        e == Sold(episode[m], new)
    IN /\ slices' = slices \o new
       /\ lots' = [lots EXCEPT ![m] = Remaining(@, Take(@, f.vol))]
       /\ episode' = IF ~touched THEN episode
                     ELSE [episode EXCEPT ![m] = IF e.qty = 0 THEN Null ELSE e]
       /\ done' = IF touched /\ e.qty = 0 THEN Append(done, [e EXCEPT !.closed = f.at]) ELSE done
       /\ failure' = IF Quantity(new) < f.vol THEN [failure EXCEPT ![m] = Id] ELSE failure

----------------------------------------------------------------------------
(* The calculator.                                                         *)
CalcOpening(p) == [src |-> "OPENING", qty |-> p.qty, cost |-> p.price]

NewCalc(m, p) ==
    [lots |-> IF p.qty = 0 THEN << >> ELSE <<CalcOpening(p)>>, realised |-> 0, opening |-> 0,
     selected |-> 0, paid |-> 0, turnover |-> 0, unmatched |-> 0]

Counted(c, f) ==
    [c EXCEPT !.turnover = @ + f.price * f.vol, !.paid = Add(@, Times(f.fee, f.vol))]

CalcBuy(c, f) ==
    [Counted(c, f) EXCEPT !.lots =
        Append(@, [src |-> "SELECTED_STREAM", qty |-> f.vol, cost |-> Add(f.price, f.fee)])]

Pnl(l, n, f) == IF l.cost = Null \/ f.fee = Null THEN Null ELSE (f.price - f.fee - l.cost) * n

CalcSell(c, f) ==
    LET taken == Take(c.lots, f.vol)
        used == {i \in DOMAIN c.lots : taken[i] > 0}
        parts == [i \in 1..Cardinality(used) |-> Pnl(c.lots[i], taken[i], f)]
        From(src) == Sum([i \in DOMAIN parts |-> IF c.lots[i].src = src THEN parts[i] ELSE 0])
    IN [Counted(c, f) EXCEPT
        !.realised = Add(@, Sum(parts)),
        !.opening = Add(@, From("OPENING")), !.selected = Add(@, From("SELECTED_STREAM")),
        !.lots = Remaining(@, taken),
        !.unmatched = @ + f.vol - Total(taken)]

CalcFill(f) ==
    calc' = [calc EXCEPT ![f.market] = IF f.side = "bid" THEN CalcBuy(@, f) ELSE CalcSell(@, f)]

----------------------------------------------------------------------------
Init ==
    /\ fills = << >> /\ slices = << >> /\ done = << >>
    /\ \E o \in Openings :
          /\ lots = [m \in Markets |-> IF o[m].qty = 0 THEN << >> ELSE <<OpeningLot(o[m])>>]
          /\ calc = [m \in Markets |-> NewCalc(m, o[m])]
    /\ episode = [m \in Markets |-> Null] /\ failure = [m \in Markets |-> 0]

Process(f) ==
    /\ Len(fills) < MaxFills /\ Unambiguous(f)
    /\ fills' = Append(fills, f)
    /\ CalcFill(f)

Bid(f) == Process(f) /\ failure[f.market] = 0 /\ f.side = "bid" /\ AddSelectedLot(f)

Ask(f) == Process(f) /\ failure[f.market] = 0 /\ f.side = "ask" /\ ConsumeSell(f)

(* After an unmatched sell the market's later fills are only listed.       *)
Ignored(f) ==
    /\ Process(f) /\ failure[f.market] > 0
    /\ UNCHANGED <<lots, episode, done, slices, failure>>

Handle(f) == Bid(f) \/ Ask(f) \/ Ignored(f)

Next ==
    \E m \in Markets, side \in {"bid", "ask"}, p \in Prices, v \in Volumes, u \in UnitFees,
       g \in Gaps : \E a \in Actions[side] : Handle(Fill(m, side, p, v, u, g, a))

Spec == Init /\ [][Next]_vars

(***************************************************************************)
(* Properties                                                              *)
(***************************************************************************)

Held(m) == Selected(lots[m])
Slices(m) == SelectSeq(slices, LAMBDA s : s.market = m)
Bought(m) == SelectSeq(fills, LAMBDA f : f.market = m /\ f.side = "bid")

TypeOK ==
    /\ Len(fills) <= MaxFills
    /\ \A m \in Markets :
          /\ failure[m] \in 0..Len(fills)
          /\ \A i \in DOMAIN lots[m] : lots[m][i].qty > 0
          /\ \A i \in DOMAIN calc[m].lots : calc[m].lots[i].qty > 0
    /\ \A i \in DOMAIN slices : slices[i].qty > 0 /\ (slices[i].hold # Null => slices[i].hold >= 0)

(* Until a sell is unmatched, every unit sold was bought before and counted *)
(* once: each sell's slices add up to its volume, each buy's slices and its *)
(* lot add up to the buy, and slices leave in the order the lots came.      *)
FirstInFirstOut ==
    \A m \in Markets : failure[m] = 0 =>
        LET s == Slices(m) IN
        /\ \A i \in DOMAIN fills : fills[i].market = m =>
              LET out == Quantity(SelectSeq(s, LAMBDA e : i \in {e.entry, e.exit}))
                  in == Quantity(SelectSeq(lots[m], LAMBDA l : l.entry = i))
              IN out + in = fills[i].vol
        /\ \A i, j \in DOMAIN s : i < j => s[i].entry <= s[j].entry
        /\ \A i \in DOMAIN s, j \in DOMAIN lots[m] : s[i].entry <= lots[m][j].entry

(* The error "Selected lot has no matching episode" cannot occur, and an    *)
(* episode is complete exactly when everything it bought is sold: the open  *)
(* episode owns every selected lot, and its remaining quantity is theirs.   *)
EpisodesOwnLots ==
    \A m \in Markets :
        /\ episode[m] = Null <=> Held(m) = << >>
        /\ episode[m] # Null =>
              /\ \A i \in DOMAIN Held(m) : Held(m)[i].ep = episode[m].id
              /\ episode[m].qty = Quantity(Held(m))

(* Episodes of one market follow each other: one is closed strictly before  *)
(* the next is opened, also when fills share an instant.                    *)
EpisodesApart ==
    \A i \in DOMAIN done :
        /\ \A j \in DOMAIN done :
              i < j /\ done[i].market = done[j].market => done[i].closed < done[j].opened
        /\ LET e == episode[done[i].market] IN e # Null => done[i].closed < e.opened

(* The result of an episode is the sum of its slices, and each selected     *)
(* slice belongs to exactly one episode.                                    *)
Episodes(m) == SelectSeq(done, LAMBDA e : e.market = m) \o
               (IF episode[m] = Null THEN << >> ELSE <<episode[m]>>)

EpisodeResults ==
    \A m \in Markets :
        LET own == Selected(Slices(m)) IN
        \A i \in DOMAIN Episodes(m) :
            LET e == Episodes(m)[i]
                its == SelectSeq(own, LAMBDA s : s.ep = e.id)
            IN /\ e.net = Sum(Of(its, LAMBDA s : s.net))
               /\ Len(e.slices) = Len(its)
               /\ \A k \in DOMAIN e.slices : slices[e.slices[k]] = its[k]

(* The calculator and the matcher agree on what was earned and what is     *)
(* left, fee by fee and unknown by unknown, while nothing was oversold.    *)
EnginesAgree ==
    \A m \in Markets : calc[m].unmatched = 0 =>
        /\ failure[m] = 0
        /\ calc[m].selected = Sum(Of(Selected(Slices(m)), LAMBDA s : s.net))
        /\ Of(calc[m].lots, LAMBDA l : <<l.src, l.qty>>) = Of(lots[m], LAMBDA l : <<l.src, l.qty>>)
        /\ calc[m].opening = Sum(Of(SelectSeq(Slices(m), LAMBDA s : s.src = "OPENING"),
               LAMBDA s : IF s.gross = Null THEN Null ELSE Add(s.gross, Times(s.sellFee, -1))))

(* Both notice the same fill: what the calculator calls unmatched is what   *)
(* stopped the matcher, and the parts of the result add up to the whole.    *)
OversoldIsNoticed ==
    \A m \in Markets :
        /\ failure[m] > 0 <=> calc[m].unmatched > 0
        /\ calc[m].realised = Add(calc[m].opening, calc[m].selected)

(* Once a sell is unmatched, the market's attribution is closed: no later   *)
(* fill adds a slice or an episode.                                         *)
FailureIsFinal ==
    \A m \in Markets : failure[m] > 0 =>
        /\ failure'[m] = failure[m]
        /\ Slices(m)' = Slices(m) /\ Episodes(m)' = Episodes(m)

----------------------------------------------------------------------------
(***************************************************************************)
(* The reports                                                             *)
(***************************************************************************)

CONSTANTS MarkPrices, MaxMarks   \* observed prices, Null where a market is missing; bound

VARIABLE marks      \* observations: [at, price of each market]

rvars == <<vars, marks>>

Failed(ms) == \E m \in ms : failure[m] > 0
InMarkets(ms) == SelectSeq(slices, LAMBDA s : s.market \in ms)

(* selectedSlices.                                                         *)
SelectedSlices(ms) == Selected(InMarkets(ms))

----------------------------------------------------------------------------
(* normalizeMarkObservations: observations of one instant are merged, and  *)
(* refuse the report when they disagree.                                   *)
Agree(a, b) == \A m \in Markets : Null \in {a[m], b[m]} \/ a[m] = b[m]

Merged(a, b) == [m \in Markets |-> IF a[m] = Null THEN b[m] ELSE a[m]]

Observe(prices) ==
    /\ fills # << >>
    /\ LET n == Len(marks) IN
       IF n > 0 /\ marks[n].at = Clock
       THEN /\ Agree(marks[n].price, prices)
            /\ marks' = [marks EXCEPT ![n].price = Merged(@, prices)]
       ELSE n < MaxMarks /\ marks' = Append(marks, [at |-> Clock, price |-> prices])
    /\ UNCHANGED vars

By(s, t) == SelectSeq(s, LAMBDA e : fills[e.exit].at <= t)

BuysBy(m, t) == SelectSeq(Bought(m), LAMBDA f : f.at <= t)

(* valueAtObservation of one market.                                       *)
Value(o, m) ==
    LET buys == BuysBy(m, o.at)
        sold == By(SelectedSlices({m}), o.at)
        left == Total(Of(buys, LAMBDA f : f.vol)) - Quantity(sold)
        cost == Total(Of(buys, LAMBDA f : f.price * f.vol)) -
                Total(Of(sold, LAMBDA s : s.price * s.qty))
        mark == IF left > 0 THEN Times(o.price[m], left) ELSE 0
        gross == IF mark = Null THEN Null ELSE Total(Of(sold, LAMBDA s : s.gross)) + mark - cost
        realised == Sum(Of(sold, LAMBDA s : s.net))
        fees == Add(Sum(Of(buys, LAMBDA f : Times(f.fee, f.vol))),
                    Times(Sum(Of(sold, LAMBDA s : s.buyFee)), -1))
    IN [gross |-> gross,
        net |-> IF Null \in {gross, realised, fees} THEN Null ELSE realised + mark - cost - fees]

----------------------------------------------------------------------------
(* sumMetric, sumObservedMetric: unknown after a failure.                  *)
Metric(ms, values) == IF Failed(ms) THEN Null ELSE Sum(values)

NetRealized(ms) == Metric(ms, Of(SelectedSlices(ms), LAMBDA s : s.net))

Fees(s) == Add(s.buyFee, s.sellFee)

FeeMissing(ms) ==
    \/ \E m \in ms : \E i \in DOMAIN Bought(m) : Bought(m)[i].fee = Null
    \/ \E i \in DOMAIN SelectedSlices(ms) : SelectedSlices(ms)[i].sellFee = Null

FeeCompleteness(ms) ==
    IF Failed(ms) THEN "ATTRIBUTION_UNKNOWN" ELSE IF FeeMissing(ms) THEN "INCOMPLETE" ELSE "COMPLETE"

(* realizedPoints: cumulative result at each instant with a sale.          *)
SaleTimes(s) == SetToSortSeq({fills[s[i].exit].at : i \in DOMAIN s}, <)

RealizedPoints(ms) ==
    LET s == SelectedSlices(ms) IN
    [k \in DOMAIN SaleTimes(s) |-> Sum(Of(By(s, SaleTimes(s)[k]), LAMBDA e : e.net))]

Larger(a, b) == IF a >= b THEN a ELSE b

(* maxDrawdown: the largest fall from the highest point so far.            *)
MaxDrawdown(p) ==
    LET Step(acc, v) == <<Larger(acc[1], v), Larger(acc[2], Larger(acc[1], v) - v)>>
    IN FoldLeft(Step, <<0, 0>>, p)[2]

----------------------------------------------------------------------------
(* buildActionContributions, actionContributions.                          *)
Labels == {"ENTER", "ADD", "REDUCE", "EXIT", Null}

ActionOf(s, dimension) ==
    LET i == IF dimension = "ENTRY" THEN s.entry ELSE s.exit IN
    IF i = 0 THEN Null ELSE fills[i].action

Contribution(src, dimension, label) ==
    LET its == SelectSeq(slices, LAMBDA s : s.src = src /\ ActionOf(s, dimension) = label)
    IN [qty |-> Quantity(its), net |-> Metric(Markets, Of(its, LAMBDA s : s.net))]

(* buildSourceTotals.                                                      *)
SourceTotals(src) ==
    LET its == SelectSeq(slices, LAMBDA s : s.src = src)
    IN [qty |-> Quantity(its), gross |-> Metric(Markets, Of(its, LAMBDA s : s.gross)),
        fees |-> Metric(Markets, Of(its, Fees)), net |-> Metric(Markets, Of(its, LAMBDA s : s.net))]

(* incompleteCostGaps, incompleteFeeGaps, openingInventoryGaps.            *)
CostGaps == {i \in DOMAIN slices : slices[i].gross = Null}
FeeGaps == {i \in DOMAIN slices : Fees(slices[i]) = Null}
OpeningGaps == {i \in DOMAIN slices : slices[i].src = "OPENING"}

(* totalMarkets of the calculator.                                         *)
CalcTotal == Sum([i \in 1..Cardinality(Markets) |-> calc[SetToSeq(Markets)[i]].selected])

(* finishMarket: the unrealised result of what is left.                    *)
Finish(c, mark) ==
    LET left == Quantity(c.lots)
        cost == Sum(Of(c.lots, LAMBDA l : Times(l.cost, l.qty)))
        value == IF left = 0 THEN 0 ELSE Times(mark, left)
    IN IF Null \in {cost, value} THEN Null ELSE value - cost

----------------------------------------------------------------------------
RInit == Init /\ marks = << >>

RNext ==
    \/ Next /\ marks' = marks
    \/ \E prices \in [Markets -> MarkPrices] : Observe(prices)

RSpec == RInit /\ [][RNext]_rvars

(***************************************************************************)
(* Properties                                                              *)
(***************************************************************************)

RTypeOK ==
    /\ Len(marks) <= MaxMarks
    /\ \A i \in DOMAIN marks : marks[i].at \in 0..Clock /\ DOMAIN marks[i].price = Markets
    /\ \A i, j \in DOMAIN marks : i < j => marks[i].at < marks[j].at

(* The value of a past observation is history: fills of later instants do   *)
(* not change it, whatever they sell.                                       *)
HistoryStable ==
    \A i \in DOMAIN marks, m \in Markets :
        marks' = marks /\ fills'[Len(fills')].at > marks[i].at =>
            Value(marks[i], m)' = Value(marks[i], m)

(* At an observation after the last fill, the curve's value is what the     *)
(* slices realised plus what the lots still held would bring at the mark,   *)
(* each buy fee counted once, with the slice or with the lot.               *)
CurveMatchesLots ==
    \A i \in DOMAIN marks, m \in Markets :
        LET o == marks[i]
            held == Held(m)
            sold == SelectedSlices({m})
            v == Value(o, m)
        IN o.at = Clock /\ failure[m] = 0 =>
           /\ held # << >> /\ o.price[m] # Null =>
                 v.gross = Total(Of(sold, LAMBDA s : s.gross)) +
                           Total(Of(held, LAMBDA l : l.qty * (o.price[m] - l.price)))
           /\ v.net # Null => v.net = Total(Of(sold, LAMBDA s : s.net)) +
                 Total(Of(held, LAMBDA l : l.qty * (o.price[m] - l.price - l.fee)))
           /\ (v.gross = Null) <=> (held # << >> /\ o.price[m] = Null)

(* The mark curve's net value of a market is the calculator's realised plus *)
(* unrealised result at the same prices, and they are unknown together.     *)
CalculatorMatchesCurve ==
    \A i \in DOMAIN marks, m \in Markets :
        marks[i].at = Clock /\ failure[m] = 0 =>
            Value(marks[i], m).net = Add(calc[m].selected, Finish(calc[m], marks[i].price[m]))

(* The three reports give one number for the realised result, and after an  *)
(* unmatched sell in any market neither report gives any.                   *)
ReportsAgree ==
    /\ NetRealized(Markets) = SourceTotals("SELECTED_STREAM").net
    /\ ~Failed(Markets) => NetRealized(Markets) = CalcTotal
    /\ Failed(Markets) => NetRealized(Markets) = Null

(* Entry and exit attribution are two partitions of the same slices: each   *)
(* adds up to the source's totals, unknown exactly when a part is unknown.  *)
PartitionsAddUp ==
    \A src \in {"SELECTED_STREAM", "OPENING"}, d \in {"ENTRY", "EXIT"} :
        LET part == [l \in Labels |-> Contribution(src, d, l)]
            labels == SetToSeq(Labels)
            along(F(_)) == [i \in DOMAIN labels |-> F(part[labels[i]])]
        IN /\ Total(along(LAMBDA c : c.qty)) = SourceTotals(src).qty
           /\ Sum(along(LAMBDA c : c.net)) = SourceTotals(src).net

(* Every unknown total is explained: by a failure, or by a gap the report   *)
(* lists; so the reason MISSING_NET_REALIZED_PNL is never the answer.       *)
UnknownsExplained ==
    \A src \in {"SELECTED_STREAM", "OPENING"} :
        LET t == SourceTotals(src) IN
        /\ t.gross = Null => Failed(Markets) \/ CostGaps # {}
        /\ t.fees = Null => Failed(Markets) \/ FeeGaps # {}
        /\ t.net = Null => Failed(Markets) \/ CostGaps \cup FeeGaps # {}
        /\ CostGaps \subseteq OpeningGaps

(* Complete fees mean known net results, market by market and together.     *)
CompleteFeesKnown ==
    \A ms \in SUBSET Markets : ms # {} /\ FeeCompleteness(ms) = "COMPLETE" => NetRealized(ms) # Null

(* The drawdown is the largest fall between any two points of the curve     *)
(* that starts at zero, and the curve ends at the realised result.          *)
DrawdownIsLargestFall ==
    ~Failed(Markets) /\ NetRealized(Markets) # Null =>
        LET p == <<0>> \o RealizedPoints(Markets)
            falls == UNION {{p[i] - p[j] : i \in 1..j} : j \in DOMAIN p}
        IN /\ MaxDrawdown(RealizedPoints(Markets)) \in falls
           /\ \A f \in falls : f <= MaxDrawdown(RealizedPoints(Markets))
           /\ p[Len(p)] = NetRealized(Markets)
==============================================================================
