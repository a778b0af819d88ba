---------------------------- MODULE BacktestData -----------------------------
(***************************************************************************)
(* The data of a public backtest: candles of each timeframe are read page  *)
(* by page backwards from the end, then the hourly decision frames are cut *)
(* from them. Times are whole hours; the exchange leaves out the periods   *)
(* in which nothing was traded.                                            *)
(***************************************************************************)
EXTENDS Integers, Sequences, FiniteSets, SequencesExt

CONSTANTS Period,                     \* of each timeframe, in hours; "1h" is one of them
          LastHour,                   \* bound: the exchange's candles open in 0 .. LastHour
          HistoryStart, Start, End,   \* historyStartAt, startAt, endAt
          PageSize, PageLimit,
          Minimum                     \* minimumCompletedCandles, of every timeframe

DataAssumption ==
  /\ "1h" \in DOMAIN Period /\ \A tf \in DOMAIN Period : Period[tf] \in Nat \ {0}
  /\ {LastHour, HistoryStart, Start, End, Minimum} \subseteq Nat /\ HistoryStart <= Start /\ Start <= End
  /\ {PageSize, PageLimit} \subseteq Nat \ {0}

Timeframes == DOMAIN Period

VARIABLES
  source,  \* external: the opening hours of the exchange's candles of each timeframe
  fetched, \* the candles read so far
  order,   \* the timeframes still to be read; the first is being read
  to, pages, status,
  frames   \* the decision frames: [at, seen]

vars == <<source, fetched, order, to, pages, status, frames>>

Close(tf, open) == open + Period[tf]
Ascending(S) == [i \in 1 .. Cardinality(S) |-> CHOOSE x \in S : Cardinality({y \in S : y < x}) = i - 1]

\* external: the market's history, any periods without a trade
Histories == [Timeframes -> SUBSET (0 .. LastHour)]

Init ==
  /\ source \in {h \in Histories : \A tf \in Timeframes : \A o \in h[tf] : o % Period[tf] = 0}
  /\ fetched = [tf \in Timeframes |-> {}]
  /\ order \in {<<"1h">> \o SetToSeq(Timeframes \ {"1h"})}
  /\ to = End /\ pages = 0 /\ status = "fetching" /\ frames = <<>>

-----------------------------------------------------------------------------
(***************************************************************************)
(* Reading                                                                 *)
(***************************************************************************)

\* external: the newest candles that opened before an hour
Page(tf, before) ==
  LET older == Ascending({o \in source[tf] : o < before})
  IN ToSet(SubSeq(older, IF Len(older) > PageSize THEN Len(older) - PageSize + 1 ELSE 1, Len(older)))

\* Candles inside the history, by their closing hour.
InRange(tf, opens) == {o \in opens : Close(tf, o) >= HistoryStart /\ Close(tf, o) <= End}

Oldest(opens) == CHOOSE o \in opens : \A other \in opens : o <= other

\* What fetchTimeframeCandles does after a page.
AfterPage(tf, page) ==
  CASE page = {} -> "exhausted"
    [] page # {} /\ Close(tf, Oldest(page)) <= HistoryStart -> "reached"
    [] page # {} /\ Close(tf, Oldest(page)) > HistoryStart /\ Cardinality(page) < PageSize -> "exhausted"
    [] OTHER -> IF Oldest(page) = to THEN "stuck" ELSE "more"

\* One page of the first timeframe of order.
FetchPage ==
  LET tf == Head(order)
      page == Page(tf, to)
      after == AfterPage(tf, page)
      last == pages + 1 = PageLimit
  IN /\ status = "fetching" /\ order # <<>>
     /\ fetched' = [fetched EXCEPT ![tf] = @ \cup InRange(tf, page)]
     /\ \/ /\ after \in {"exhausted", "reached"}
           /\ order' = Tail(order) /\ to' = End /\ pages' = 0 /\ UNCHANGED status
        \/ /\ after = "more" /\ ~last
           /\ to' = Oldest(page) /\ pages' = pages + 1 /\ UNCHANGED <<order, status>>
        \/ /\ after = "stuck" \/ (after = "more" /\ last)
           /\ status' = IF after = "stuck" THEN "no progress" ELSE "page limit"
           /\ UNCHANGED <<order, to, pages>>
     /\ UNCHANGED <<source, frames>>

-----------------------------------------------------------------------------
(***************************************************************************)
(* Cutting                                                                 *)
(***************************************************************************)

\* advanceCompletedCounts: the counts only go up.
AdvanceCounts(counts, candles, cutoff) ==
  [tf \in Timeframes |->
     counts[tf] + Cardinality({i \in counts[tf] + 1 .. Len(candles[tf]) :
                                 \A j \in counts[tf] + 1 .. i : Close(tf, candles[tf][j]) <= cutoff})]

\* buildPositionGuardBacktestFrames, over one decision candle.
CutFrame(b, candles, open) ==
  LET at == Close("1h", open)
      counts == AdvanceCounts(b.counts, candles, at)
  IN IF at < Start \/ at > End THEN b
     ELSE [counts |-> counts,
           frames |-> IF \A tf \in Timeframes : counts[tf] >= Minimum
                      THEN Append(b.frames, [at |-> at, seen |-> [tf \in Timeframes |->
                                                                    SubSeq(candles[tf], 1, counts[tf])]])
                      ELSE b.frames]

\* All the frames; the candles are sorted by their closing hour first.
BuildFrames ==
  LET candles == [tf \in Timeframes |-> Ascending(fetched[tf])]
  IN /\ status = "fetching" /\ order = <<>>
     /\ frames' = FoldLeft(LAMBDA b, open : CutFrame(b, candles, open),
                           [counts |-> [tf \in Timeframes |-> 0], frames |-> <<>>], candles["1h"]).frames
     /\ status' = "done"
     /\ UNCHANGED <<source, fetched, order, to, pages>>

Next == FetchPage \/ BuildFrames

Spec == Init /\ [][Next]_vars

-----------------------------------------------------------------------------
(***************************************************************************)
(* Properties                                                              *)
(***************************************************************************)

TypeOK ==
  /\ status \in {"fetching", "page limit", "done"} /\ pages \in 0 .. PageLimit - 1
  /\ \A tf \in Timeframes : fetched[tf] \subseteq source[tf]

\* A read that ends without an error has every candle of the history: no page boundary, gap or
\* page limit loses one silently (position-guard-public-backtest.ts:222).
HistoryComplete ==
  \A tf \in Timeframes : tf \notin ToSet(order) => fetched[tf] = InRange(tf, source[tf])

\* Replay frames do not look ahead, and leave nothing out: each sees, of every timeframe, the
\* candles closed by then, in order (position-guard-backtest-frames.ts:135).
NoLookAhead ==
  \A i \in 1 .. Len(frames), tf \in Timeframes :
    frames[i].seen[tf] = Ascending({o \in InRange(tf, source[tf]) : Close(tf, o) <= frames[i].at})
=============================================================================
