-------------------------- MODULE NoTradeEvidence ---------------------------
(***************************************************************************)
(* Acquiring independent evidence that the missing hours of a candle       *)
(* dataset had no trade (upbit-no-trade-evidence-acquisition.ts and its    *)
(* command).  A process reads the dataset, plans one query per missing     *)
(* hour, reads the exchange's minute candles backwards page by page, and   *)
(* publishes the evidence file through an exclusive copy.  Meanwhile the   *)
(* dataset may be collected again, another process may be acquiring for    *)
(* the same output, and an operator may remove the file.                   *)
(*                                                                         *)
(* A minute candle exists exactly where a trade happened; an hour is two   *)
(* minutes long here, as in HourlyCoverage, whose readers judge the file.  *)
(***************************************************************************)
EXTENDS Integers, SequencesExt

CONSTANTS
    Procs,           \* processes running the acquisition command
    Start,           \* historyStartAt of the dataset, on the hour
    End,             \* endAt of the dataset, on the hour
    PageSize,        \* rows asked for in one request
    PageLimit,       \* pages read for one segment
    MaxCollections   \* bound: how often the dataset is collected

Parameters ==
    /\ Start \in Nat /\ End \in Nat /\ Start < End
    /\ PageSize \in Nat \ {0} /\ PageLimit \in Nat \ {0}
    /\ MaxCollections \in Nat

VARIABLES
    traded,       \* minutes in which the market traded, back to its listing
    dataset,      \* opens of the hourly candles in the dataset file
    collections,  \* how often the dataset was collected
    acq,          \* per process: its acquisition, or Idle
    file,         \* the evidence file at the output path, or NoFile
    conflict      \* per process: the dataset its last conflict was about

vars == <<traded, dataset, collections, acq, file, conflict>>

Hour == 2
Idle == [state |-> "idle"]
Refused == [state |-> "refused"]   \* its own fingerprint check refused a query
NoFile == [parent |-> "none"]
NoConflict == {-1}

\* The readers of a dataset with an evidence file.
Judge(observed, ranges, segments) == INSTANCE HourlyCoverage
    WITH MaxRanges <- 0, MaxSegments <- 0

HourlyOpens == {h \in Start..(End - 1) : (h - Start) % Hour = 0}
TradedHours == {h \in HourlyOpens : h \in traded \/ h + 1 \in traded}

Init ==
    /\ traded \in SUBSET (0..(End - 1))
    /\ dataset = {}
    /\ collections = 0
    /\ acq = [p \in Procs |-> Idle]
    /\ file = NoFile
    /\ conflict = [p \in Procs |-> NoConflict]

\* The candle collector writes a dataset; it may have missed candles.
Collect ==
    /\ collections < MaxCollections
    /\ dataset' \in SUBSET TradedHours
    /\ collections' = collections + 1
    /\ UNCHANGED <<traded, acq, file, conflict>>

\* One query segment per missing hour.
SplitHourlyRanges(missing) ==
    FlattenSeq([i \in DOMAIN missing |->
        [k \in 1..((missing[i].to - missing[i].from) \div Hour) |->
            [from |-> missing[i].from + Hour * (k - 1), to |-> missing[i].from + Hour * k]]])

\* The command reads the clock (the collections so far tell its times apart)
\* and the dataset, checks that the output path is free and plans the queries.
Begin(p) ==
    /\ acq[p] = Idle /\ collections > 0
    /\ file = NoFile
    /\ LET plan == SplitHourlyRanges(Judge(dataset, <<>>, <<>>)!MissingRanges)
       IN  acq' = [acq EXCEPT ![p] =
               [state |-> "reading", parent |-> dataset, ranges |-> plan,
                cursor |-> IF plan = <<>> THEN End ELSE plan[1].to,
                pages |-> <<>>, segments |-> <<>>, collectedAt |-> collections]]
    /\ UNCHANGED <<traded, dataset, collections, file, conflict>>

Reading(p) == acq[p].state = "reading" /\ Len(acq[p].segments) < Len(acq[p].ranges)
Segment(p) == acq[p].ranges[Len(acq[p].segments) + 1]

\* The exchange answers with the newest PageSize candles before the cursor.
Page(cursor) ==
    {m \in traded : m < cursor /\ Cardinality({n \in traded : n < cursor /\ n > m}) < PageSize}

Oldest(rows) == CHOOSE m \in rows : \A n \in rows : m <= n

\* validateFingerprintInput: the pages must be a chain of requests that starts
\* at the end of the segment, continues at the oldest row of the page before,
\* and ends for the reason given.
FingerprintValid(segment, pages, reason) ==
    /\ pages # <<>>
    /\ pages[1].requestTo = segment.to
    /\ \A i \in 2..Len(pages) :
           /\ pages[i - 1].rows # {}
           /\ pages[i].requestTo = Oldest(pages[i - 1].rows)
           /\ Oldest(pages[i - 1].rows) >= segment.from
           /\ pages[i].requestTo < pages[i - 1].requestTo
    /\ \A i \in DOMAIN pages :
           /\ pages[i].requestTo \in (segment.from)..(segment.to)
           /\ \A m \in pages[i].rows : m < pages[i].requestTo /\ m \notin (segment.from)..(segment.to - 1)
    /\ LET last == pages[Len(pages)].rows
       IN  IF reason = "SOURCE_EXHAUSTED" THEN last = {}
           ELSE last # {} /\ Oldest(last) < segment.from

\* completedSegment: the query is recorded with the fingerprint of its pages,
\* and the next one is begun; an inconsistent chain ends the acquisition.
CompleteSegment(p, pages, reason) ==
    LET done == Append(acq[p].segments,
                       [from |-> Segment(p).from, to |-> Segment(p).to, paginationComplete |-> TRUE])
    IN  acq' = [acq EXCEPT ![p] =
            IF FingerprintValid(Segment(p), pages, reason)
            THEN [@ EXCEPT !.segments = done, !.pages = <<>>,
                     !.cursor = IF Len(done) < Len(acq[p].ranges) THEN acq[p].ranges[Len(done) + 1].to ELSE End]
            ELSE Refused]

InGap(p, m) == m >= Segment(p).from /\ m < Segment(p).to

\* The loop of collectSegment for one answered request.
ReadPage(p) ==
    /\ Reading(p)
    /\ LET rows == Page(acq[p].cursor)
           pages == Append(acq[p].pages, [requestTo |-> acq[p].cursor, rows |-> rows])
       IN  \/ /\ rows = {}
              /\ CompleteSegment(p, pages, "SOURCE_EXHAUSTED")
              /\ UNCHANGED conflict
           \/ /\ \E m \in rows : InGap(p, m)
              /\ acq' = [acq EXCEPT ![p] = Idle]
              /\ conflict' = [conflict EXCEPT ![p] = acq[p].parent]
           \/ /\ rows # {} /\ \A m \in rows : ~InGap(p, m)
              /\ IF Oldest(rows) < Segment(p).from
                 THEN CompleteSegment(p, pages, "CROSSED_RANGE_START")
                 ELSE acq' = [acq EXCEPT ![p] =
                          IF Len(pages) < PageLimit
                          THEN [@ EXCEPT !.cursor = Oldest(rows), !.pages = pages] ELSE Idle]
              /\ UNCHANGED conflict
    /\ UNCHANGED <<traded, dataset, collections, file>>

\* A request fails: the acquisition ends without a file.
ReadFails(p) ==
    /\ Reading(p)
    /\ acq' = [acq EXCEPT ![p] = Idle]
    /\ UNCHANGED <<traded, dataset, collections, file, conflict>>

\* All segments are read.
Complete(p) == acq[p].state = "reading" /\ Len(acq[p].segments) = Len(acq[p].ranges)

\* The evidence built from what was read.
Evidence(p) ==
    [parent |-> acq[p].parent, ranges |-> acq[p].ranges, segments |-> acq[p].segments,
     collectedAt |-> acq[p].collectedAt]

\* The evidence is written beside the output, read back, validated against
\* the dataset the process read and copied unless something is there.
Publish(p) ==
    /\ Complete(p)
    /\ file' = IF /\ Judge(acq[p].parent, acq[p].ranges, acq[p].segments)!ValidFor
                  /\ file = NoFile
               THEN Evidence(p) ELSE file
    /\ acq' = [acq EXCEPT ![p] = Idle]
    /\ UNCHANGED <<traded, dataset, collections, conflict>>

\* An operator clears the output path.
Clear ==
    /\ file # NoFile
    /\ file' = NoFile
    /\ UNCHANGED <<traded, dataset, collections, acq, conflict>>

Next ==
    \/ Collect \/ Clear
    \/ \E p \in Procs : Begin(p) \/ ReadPage(p) \/ ReadFails(p) \/ Publish(p)

Spec == Init /\ [][Next]_vars

----------------------------------------------------------------------------

TypeOK ==
    /\ traded \subseteq 0..(End - 1)
    /\ dataset \subseteq HourlyOpens
    /\ collections \in 0..MaxCollections
    /\ \A p \in Procs : acq[p].state = "reading" =>
           /\ acq[p].parent \subseteq HourlyOpens
           /\ Len(acq[p].segments) <= Len(acq[p].ranges)
    /\ file # NoFile => file.parent \subseteq HourlyOpens

\* No hour a published file certifies had a trade, whatever the dataset
\* missed and whoever else was acquiring (collectSegment's conflict check).
CertifiedSilent ==
    file # NoFile => \A r \in Range(file.ranges) : (r.from)..(r.to - 1) \cap traded = {}

\* No partial file is published: a file explains every missing hour of the
\* dataset it was acquired for, for both of its readers.
NeverPartial ==
    file # NoFile =>
        /\ Judge(file.parent, file.ranges, file.segments)!ValidFor
        /\ Judge(file.parent, file.ranges, file.segments)!Status # "UNVERIFIED_SPARSE"
        /\ Judge(file.parent, file.ranges, file.segments)!UnexplainedHours(Start, End) = {}

\* A conflict is reported only about a dataset that missed a traded hour, so
\* a dataset without a miss is never refused for what lies around its gaps.
ConflictIsReal ==
    \A p \in Procs : conflict[p] # NoConflict => TradedHours \ conflict[p] # {}

\* Every query ends with its first page: an answer that reaches into the gap
\* is a conflict at once, any other lies before the gap or is empty, so the
\* page limit never ends an acquisition.
OnePageDecides == \A p \in Procs : Reading(p) => acq[p].pages = <<>>

\* What the reading loop completes, the fingerprint's own check of the chain
\* of requests always accepts (computeNoTradeResponseFingerprint).
FingerprintAgrees == \A p \in Procs : acq[p] # Refused

\* A published file is never replaced by another process's file.
PublishedStays == file # NoFile => file' \in {file, NoFile}

=============================================================================
