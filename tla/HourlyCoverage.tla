--------------------------- MODULE HourlyCoverage ---------------------------
(***************************************************************************)
(* The hours of a candle dataset and the evidence that its gaps are hours  *)
(* without a trade.  Five readers decide, each with its own algorithm,     *)
(* which hours are explained: the validator of the evidence file           *)
(* (research-no-trade-evidence.ts), the classification of the dataset's    *)
(* gaps, the cadence count of the prospective replay, the hourly partition *)
(* used by the integrated evaluation and by the excursions                 *)
(* (performance-hourly-coverage.ts), and the source cadence of the feature *)
(* coverage (performance-candle-coverage.ts).                              *)
(*                                                                         *)
(* Time is counted in half hours, so that boundaries off the hour exist.   *)
(* A range is [from, to); a gap names the closes of its first and last     *)
(* missing candle and the observed closes next to it (None at the edge).   *)
(***************************************************************************)
EXTENDS Integers, SequencesExt

CONSTANTS
    Start,        \* historyStartAt of the dataset
    End,          \* endAt of the dataset
    MaxRanges,    \* bound: verified ranges in the file
    MaxSegments   \* bound: query segments in the file

Bounds == /\ Start \in Nat /\ End \in Nat /\ Start < End
          /\ MaxRanges \in Nat /\ MaxSegments \in Nat

VARIABLES
    observed,     \* opens of the hourly candles of the dataset
    ranges,       \* verifiedNoTradeRanges of the evidence file
    segments      \* querySegments of the evidence file

vars == <<observed, ranges, segments>>

Hour == 2
None == -1

CeilToHour(t) == IF t % Hour = 0 THEN t ELSE t + Hour - (t % Hour)

\* The opens of the nominal hours of the dataset, oldest first.
ExpectedOpens ==
    LET first == CeilToHour(Start)
    IN  [i \in 1..((End - first) \div Hour) |-> first + Hour * (i - 1)]

----------------------------------------------------------------------------
(* The evidence file, read entry by entry.                                 *)

\* assertContainedRange and the order check: an entry begins where the one
\* before it ended, or later, and lies in the range of the evidence.
Follows(entries, from, to) ==
    /\ from < to /\ Start <= from /\ to <= End
    /\ entries # <<>> => entries[Len(entries)].to <= from

ParseRange ==
    \E from, to \in Start..End :
        /\ Len(ranges) < MaxRanges
        /\ Follows(ranges, from, to)
        /\ ranges' = Append(ranges, [from |-> from, to |-> to])
        /\ UNCHANGED <<observed, segments>>

ParseSegment ==
    \E from, to \in Start..End, complete \in BOOLEAN :
        /\ Len(segments) < MaxSegments
        /\ Follows(segments, from, to)
        /\ segments' = Append(segments,
               [from |-> from, to |-> to, paginationComplete |-> complete])
        /\ UNCHANGED <<observed, ranges>>

Init ==
    /\ observed \in SUBSET Range(ExpectedOpens)
    /\ ranges = <<>>
    /\ segments = <<>>

Next == ParseRange \/ ParseSegment

Spec == Init /\ [][Next]_vars

----------------------------------------------------------------------------
(* Validation of the file against its dataset.                             *)

\* Walks the complete segments in order; a hole before the end refuses.
IsFullyCoveredByCompleteSegments(range) ==
    LET step(acc, s) ==
            IF acc.done \/ ~s.paginationComplete \/ s.to <= acc.until THEN acc
            ELSE IF s.from > acc.until THEN [acc EXCEPT !.done = TRUE]
            ELSE [until |-> s.to, done |-> s.to >= range.to, ok |-> s.to >= range.to]
    IN  FoldLeft(step, [until |-> range.from, done |-> FALSE, ok |-> FALSE], segments).ok

Overlaps(range, open, close) == open < range.to /\ range.from < close

\* validateResearchNoTradeEvidenceForDataset for a file bound to the dataset.
ValidFor ==
    /\ \A r \in Range(ranges) : IsFullyCoveredByCompleteSegments(r)
    /\ \A h \in observed, r \in Range(ranges) : ~Overlaps(r, h, h + Hour)

----------------------------------------------------------------------------
(* Classification of the gaps of the dataset.                              *)

\* Neighbouring hours become one range.
GroupNominalHourlyRanges(opens) ==
    LET step(acc, h) ==
            IF acc # <<>> /\ acc[Len(acc)].to = h
            THEN [acc EXCEPT ![Len(acc)].to = h + Hour]
            ELSE Append(acc, [from |-> h, to |-> h + Hour])
    IN  FoldLeft(step, <<>>, opens)

MissingRanges ==
    GroupNominalHourlyRanges(SelectSeq(ExpectedOpens, LAMBDA h : h \notin observed))

Least(a, b) == IF a < b THEN a ELSE b

\* What the verified ranges leave of one missing range, by a cursor that
\* moves over the verified ranges in order.
UncoveredOf(missing) ==
    LET step(acc, v) ==
            IF acc.stop \/ v.to <= acc.cursor THEN acc
            ELSE IF v.from >= missing.to THEN [acc EXCEPT !.stop = TRUE]
            ELSE [cursor |-> Least(v.to, missing.to),
                  stop   |-> v.to >= missing.to,
                  out    |-> IF v.from > acc.cursor
                             THEN Append(acc.out, [from |-> acc.cursor, to |-> Least(v.from, missing.to)])
                             ELSE acc.out]
        walked == FoldLeft(step, [cursor |-> missing.from, stop |-> FALSE, out |-> <<>>], ranges)
    IN  IF walked.cursor < missing.to
        THEN Append(walked.out, [from |-> walked.cursor, to |-> missing.to])
        ELSE walked.out

SubtractVerifiedRanges == FlattenSeq([i \in DOMAIN MissingRanges |-> UncoveredOf(MissingRanges[i])])

\* classifyIndependentNoTradeCoverage
Status ==
    IF MissingRanges = <<>> THEN "DENSE"
    ELSE IF SubtractVerifiedRanges = <<>> THEN "VERIFIED_SPARSE" ELSE "UNVERIFIED_SPARSE"

----------------------------------------------------------------------------
(* The cadence of the prospective replay, hour by hour.                    *)

WrongCovered(open) == \E r \in Range(ranges) : r.from < open /\ r.to >= open + Hour

Covered(open) == \E r \in Range(ranges) : r.from <= open /\ r.to >= open + Hour

\* countCadenceIntervals over [from, to): the hours neither observed nor
\* inside one verified range.
UnexplainedHours(from, to) ==
    {h \in from..(to - 1) : (h - from) % Hour = 0 /\ h \notin observed /\ ~Covered(h)}

----------------------------------------------------------------------------
(* The hourly partition of the integrated evaluation and the excursions.   *)

\* toCandleCoverageGaps: adjacent ranges become one gap.
ToCandleCoverageGaps(source) ==
    LET step(acc, r) ==
            IF acc # <<>> /\ acc[Len(acc)].to = r.from
            THEN [acc EXCEPT ![Len(acc)].to = r.to] ELSE Append(acc, r)
        grouped == FoldLeft(step, <<>>, source)
    IN  [i \in DOMAIN grouped |->
            [first |-> grouped[i].from + Hour, last |-> grouped[i].to,
             count |-> (grouped[i].to - grouped[i].from) \div Hour,
             previous |-> IF grouped[i].from > Start THEN grouped[i].from ELSE None,
             next |-> IF grouped[i].to + Hour <= End THEN grouped[i].to + Hour ELSE None]]

\* A gap shorter than an hour is refused where it is built.
GapsBuilt(gaps) == \A i \in DOMAIN gaps : gaps[i].count > 0

Aligned(t, anchor) == (t - anchor) % Hour = 0

\* parseRanges: bounds, count, canonical order and the named neighbours of
\* every gap, for the source boundary [start, end].
GapsParse(gaps, start, end) ==
    \A i \in DOMAIN gaps :
        LET g == gaps[i]
        IN  /\ Aligned(g.first, start) /\ Aligned(g.last, start)
            /\ g.first <= g.last /\ g.first - Hour >= start /\ g.last <= end
            /\ g.count = (g.last - g.first) \div Hour + 1
            /\ i > 1 => g.first > gaps[i - 1].last + Hour
            /\ g.previous = IF g.first - Hour > start THEN g.first - Hour ELSE None
            /\ g.next = IF g.last + Hour <= end THEN g.last + Hour ELSE None

GapOpens(gaps) == UNION {{h \in (gaps[i].first - Hour)..(gaps[i].last - Hour) :
                              Aligned(h, gaps[i].first)} : i \in DOMAIN gaps}

\* validateRangeNeighborsAgainstObservations
NeighboursObserved(gaps, seen, from, to) ==
    \A i \in DOMAIN gaps : \A close \in {gaps[i].previous, gaps[i].next} \ {None} :
        close - Hour >= from /\ close <= to => close - Hour \in seen

\* partitionHourlyCoverage accepts its input: window [from, to) of the
\* boundary [start, end], the observed hours seen, the gaps.
PartitionAccepts(gaps, seen, start, end, from, to) ==
    /\ start < end /\ Aligned(end, start)
    /\ from < to /\ Aligned(from, start) /\ Aligned(to, start)
    /\ from >= start /\ to <= end
    /\ \A h \in seen : Aligned(h, start) /\ h >= start /\ h + Hour <= end
    /\ GapsParse(gaps, start, end)
    /\ GapOpens(gaps) \cap seen = {}
    /\ NeighboursObserved(gaps, seen, from, to)

WindowOpens(from, to) == {h \in from..(to - 1) : Aligned(h, from)}

Unexplained(gaps, seen, from, to) == (WindowOpens(from, to) \ seen) \ GapOpens(gaps)

\* clipRange: the gap as the window sees it.
ClipRange(g, from, to) ==
    LET first == IF g.first < from + Hour THEN from + Hour ELSE g.first
        last  == IF g.last > to THEN to ELSE g.last
    IN  [first |-> first, last |-> last, count |-> (last - first) \div Hour + 1,
         previous |-> IF first - Hour > from THEN first - Hour ELSE None,
         next |-> IF last + Hour <= to THEN last + Hour ELSE None]

\* The clipped gaps of the partition; a gap outside the window is dropped.
Clipped(gaps, from, to) ==
    SelectSeq([i \in DOMAIN gaps |-> ClipRange(gaps[i], from, to)],
              LAMBDA g : g.first <= g.last)

\* createVerifiedNoTradeCoverageFromRanges over the whole dataset.
VerifiedCoverageCreated(gaps) ==
    /\ observed # {}
    /\ PartitionAccepts(gaps, observed, Start, End, Start, End)
    /\ Unexplained(gaps, observed, Start, End) = {}

\* buildIndependentNoTradeInput goes through.
IndependentInputBuilt ==
    /\ ValidFor /\ Status # "UNVERIFIED_SPARSE"
    /\ GapsBuilt(ToCandleCoverageGaps(ranges))
    /\ VerifiedCoverageCreated(ToCandleCoverageGaps(ranges))

----------------------------------------------------------------------------
(* The source cadence of the feature coverage: the grid is anchored at the *)
(* first observed candle instead of the start of the dataset.              *)

FirstExpectedClose(opens) ==
    IF opens = {} THEN Start + Hour
    ELSE LET first == CHOOSE h \in opens : \A o \in opens : h <= o
             leading == IF first <= Start THEN 0 ELSE (first - Start) \div Hour
         IN  first + Hour - leading * Hour

LastExpectedClose(opens) ==
    IF opens = {} THEN End
    ELSE LET close == Hour + CHOOSE h \in opens : \A o \in opens : h >= o
             trailing == IF End <= close THEN 0 ELSE (End - close) \div Hour
         IN  close + trailing * Hour

ExpectedCloses ==
    LET first == FirstExpectedClose(observed)
        last == LastExpectedClose(observed)
    IN  IF last < first THEN <<>>
        ELSE [i \in 1..((last - first) \div Hour + 1) |-> first + Hour * (i - 1)]

\* groupMissingCandles over the expected closes without a candle.
GroupMissingCandles ==
    LET seen(close) == close - Hour \in observed
        after(close) == IF seen(close + Hour) THEN close + Hour ELSE None
        step(acc, close) ==
            IF acc # <<>> /\ close - acc[Len(acc)].last = Hour
            THEN [acc EXCEPT ![Len(acc)].last = close, ![Len(acc)].count = @ + 1,
                             ![Len(acc)].next = after(close)]
            ELSE Append(acc, [first |-> close, last |-> close, count |-> 1,
                              previous |-> IF seen(close - Hour) THEN close - Hour ELSE None,
                              next |-> after(close)])
    IN  FoldLeft(step, <<>>, SelectSeq(ExpectedCloses, LAMBDA c : ~seen(c)))

----------------------------------------------------------------------------
(* Properties.                                                             *)

HalfHours(entries) == UNION {(entries[i].from)..(entries[i].to - 1) : i \in DOMAIN entries}
CandleHalfHours == UNION {h..(h + Hour - 1) : h \in observed}
OnTheHour == \A r \in Range(ranges) : r.from % Hour = 0 /\ r.to % Hour = 0
DatasetOnTheHour == Start % Hour = 0 /\ End % Hour = 0

\* The file holds ordered entries inside the dataset, and candles are hours
\* of the dataset (parseRanges, parseQuerySegments of the evidence).
TypeOK ==
    /\ observed \subseteq Range(ExpectedOpens)
    /\ \A e \in {ranges, segments} : \A i \in DOMAIN e :
           /\ Start <= e[i].from /\ e[i].from < e[i].to /\ e[i].to <= End
           /\ i > 1 => e[i - 1].to <= e[i].from

\* The cursor walk of the validator decides exactly what it stands for: a
\* file is valid for its dataset when every verified instant lies in a query
\* that was read to its end and none lies in an observed candle.
ValidationExact ==
    ValidFor <=>
        /\ HalfHours(ranges) \subseteq HalfHours(SelectSeq(segments, LAMBDA s : s.paginationComplete))
        /\ HalfHours(ranges) \cap CandleHalfHours = {}

\* Subtracting the verified ranges with a moving cursor loses no missing
\* instant and invents none, whatever the ranges' boundaries.
SubtractionExact ==
    /\ HalfHours(MissingRanges) = HalfHours([i \in DOMAIN ExpectedOpens |->
           [from |-> ExpectedOpens[i], to |-> ExpectedOpens[i] + Hour]]) \ CandleHalfHours
    /\ HalfHours(SubtractVerifiedRanges) = HalfHours(MissingRanges) \ HalfHours(ranges)

\* For verified ranges on the hour, as the collector writes them, the
\* classification and the replay's hour count find the same dataset explained.
ReadersAgree ==
    ValidFor /\ OnTheHour /\ DatasetOnTheHour =>
        (Status # "UNVERIFIED_SPARSE" <=> UnexplainedHours(Start, End) = {})

\* A dataset on the hour whose gaps the classification finds verified is
\* never refused by the partition the integrated evaluation builds next.
VerifiedIsUsable ==
    ValidFor /\ DatasetOnTheHour /\ observed # {} /\ Status # "UNVERIFIED_SPARSE" =>
        IndependentInputBuilt

\* Once the coverage of the dataset is created, every window of it (an
\* episode) is accepted with the candles of that window alone, explains every
\* hour, and hands on gaps that are canonical for the window itself.
WindowsAgree ==
    LET gaps == ToCandleCoverageGaps(ranges)
    IN  DatasetOnTheHour /\ IndependentInputBuilt =>
        \A from, to \in {t \in Start..End : Aligned(t, Start)} : from < to =>
            LET seen == observed \cap WindowOpens(from, to)
                clip == Clipped(gaps, from, to)
            IN  /\ PartitionAccepts(gaps, seen, Start, End, from, to)
                /\ Unexplained(gaps, seen, from, to) = {}
                /\ PartitionAccepts(clip, seen, from, to, from, to)
                /\ Unexplained(clip, seen, from, to) = {}

\* The grid anchored at the first candle finds the same gaps, with the same
\* neighbours, as the classification anchored at the clock.
GridsAgree ==
    observed # {} /\ DatasetOnTheHour =>
        GroupMissingCandles = ToCandleCoverageGaps(MissingRanges)

=============================================================================
