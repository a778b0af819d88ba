---------------------------- MODULE HistoryRecovery ----------------------------
(***************************************************************************)
(* Exchange-history recovery (reconciliation-service.ts): every            *)
(* reconciliation run scans the open orders, the recent closed orders and  *)
(* one older window of each market, moves the market's checkpoint back by  *)
(* that window, inserts the orders the database does not know, and reports *)
(* coverage and confidence. Start-up checks and the pilot's recovery       *)
(* validate the report again (history-recovery-validation.ts).             *)
(*                                                                         *)
(* Time counts days.                                                       *)
(***************************************************************************)
EXTENDS Integers, FiniteSets, FiniteSetsExt

CONSTANTS
  Markets,     \* MANAGED_MARKETS
  Orders,      \* orders on the exchange account
  Lookback,    \* closedOrderLookbackDays
  StopBefore,  \* historyStopBeforeDays
  Retention,   \* historyRetentionAssumptionDays
  Capacity,    \* orders a scan can return: page limit times pages
  Resting,     \* whether an order may rest open on the exchange
  FirstDay,    \* the day the first run may start
  MaxTime,     \* bound: last day
  MaxGap,      \* bound: days between the starts of two runs
  MaxFaults    \* bound: lookup failures and crashes

HistoryConstants ==
  /\ IsFiniteSet(Markets) /\ IsFiniteSet(Orders) /\ Orders \subseteq Nat
  /\ Lookback \in Nat \ {0} /\ StopBefore \in Nat /\ StopBefore >= Lookback
  /\ Retention \in Nat /\ Retention >= Lookback
  /\ Capacity \in Nat \ {0} /\ Resting \in BOOLEAN
  /\ {FirstDay, MaxTime, MaxGap, MaxFaults} \subseteq Nat

VARIABLES
  now,
  ex,      \* the exchange's orders: [state, market, at]
  local,   \* orders with a row in the database
  cp,      \* history_recovery_checkpoints: next window's end of each market
  run,     \* the run in progress
  late,    \* checkpoint writes of a failed run's other markets, still to come
  report,  \* historyRecovery of the latest reconciliation run
  faults,
  lastStart

vars == <<now, ex, local, cp, run, late, report, faults, lastStart>>

None == -1
NoRun == [pc |-> "idle"]
NoReport == [level |-> "NONE"]
Kinds == {"open", "recent", "archive"}

NotScanned == [done |-> FALSE, got |-> {}, cut |-> FALSE]

Init ==
  /\ now = FirstDay
  /\ ex \in [Orders -> [state : {"none", "closed"}, market : Markets, at : 0..FirstDay]]
  /\ \A o \in Orders : ex[o].state = "none" => ex[o].at = 0
  /\ local = {} /\ cp = [m \in Markets |-> None] /\ run = NoRun
  /\ late = [m \in Markets |-> None] /\ report = NoReport
  /\ faults = 0 /\ lastStart = FirstDay

-----------------------------------------------------------------------------
(***************************************************************************)
(* The exchange and the clock.                                             *)
(***************************************************************************)

Tick ==
  /\ now < MaxTime /\ now + 1 - lastStart <= MaxGap /\ now' = now + 1
  /\ UNCHANGED <<ex, local, cp, run, late, report, faults, lastStart>>

\* Somebody trades on the account; the application's own order has its row first.
Place(o) ==
  /\ ex[o].state = "none"
  /\ ex' = [ex EXCEPT ![o] = [@ EXCEPT !.at = now, !.state = IF Resting THEN "open" ELSE "closed"]]
  /\ local' \in {local, local \cup {o}}
  /\ UNCHANGED <<now, cp, run, late, report, faults, lastStart>>

Close(o) ==
  /\ ex[o].state = "open" /\ ex' = [ex EXCEPT ![o].state = "closed"]
  /\ UNCHANGED <<now, local, cp, run, late, report, faults, lastStart>>

-----------------------------------------------------------------------------
(***************************************************************************)
(* A run.                                                                  *)
(***************************************************************************)

ArchiveEnd(started, checkpoint) == IF checkpoint = None THEN started - Lookback ELSE checkpoint

ArchiveStart(started, end) ==
  IF end <= started - StopBefore THEN end
  ELSE Max({end - Lookback, started - StopBefore})

\* Orders are known by the rows listed before the scans.
Begin ==
  /\ run.pc = "idle" /\ late = [m \in Markets |-> None]
  /\ run' = [pc |-> "scan", started |-> now, known |-> local,
             closed |-> {o \in Orders : ex[o].state = "closed"},
             end |-> [m \in Markets |-> ArchiveEnd(now, cp[m])],
             scans |-> [m \in Markets |-> [k \in Kinds |-> NotScanned]],
             saved |-> {}, todo |-> {}, recovered |-> 0]
  /\ lastStart' = now
  /\ UNCHANGED <<now, ex, local, cp, late, report, faults>>

\* What one listing call looks for.
Matching(m, kind) ==
  LET end == run.end[m]
      start == ArchiveStart(run.started, end)
  IN {o \in Orders :
        /\ ex[o].market = m
        /\ CASE kind = "open" -> ex[o].state = "open"
             [] kind = "recent" -> ex[o].state = "closed" /\ ex[o].at \in (run.started - Lookback)..run.started
             [] kind = "archive" ->
                  ex[o].state = "closed" /\ end > run.started - StopBefore /\ ex[o].at \in start..end}

Newer(o, p) == ex[o].at > ex[p].at \/ (ex[o].at = ex[p].at /\ o > p)

\* paginateExchangeOrderHistory: the newest first, until a page is not full or the
\* pages are used up.
Paginate(found) ==
  [done |-> TRUE, cut |-> Cardinality(found) >= Capacity,
   got |-> {o \in found : Cardinality({p \in found : Newer(p, o)}) < Capacity}]

\* listOpenOrders and listClosedOrders of every market are under way together.
Scan(m, kind) ==
  /\ run.pc = "scan" /\ ~run.scans[m][kind].done
  /\ run' = [run EXCEPT !.scans[m][kind] = Paginate(Matching(m, kind))]
  /\ UNCHANGED <<now, ex, local, cp, late, report, faults, lastStart>>

Scanned(m) == \A k \in Kinds : run.scans[m][k].done

\* The checkpoint stays where it was.
StuckNextEnd(m) == run.end[m]

NextEnd(m) == ArchiveStart(run.started, run.end[m])

\* saveHistoryRecoveryCheckpoint.
SaveCheckpoint(m) ==
  /\ run.pc = "scan" /\ Scanned(m) /\ m \notin run.saved
  /\ cp' = [cp EXCEPT ![m] = NextEnd(m)]
  /\ run' = [run EXCEPT !.saved = @ \cup {m}]
  /\ UNCHANGED <<now, ex, local, late, report, faults, lastStart>>

\* All markets are scanned: what was found is merged.
Merge ==
  /\ run.pc = "scan" /\ run.saved = Markets
  /\ run' = [run EXCEPT !.pc = "recover",
               !.todo = UNION {run.scans[m][k].got : m \in Markets, k \in Kinds}]
  /\ UNCHANGED <<now, ex, local, cp, late, report, faults, lastStart>>

-----------------------------------------------------------------------------
(***************************************************************************)
(* The report.                                                             *)
(***************************************************************************)

\* A window that reaches the stop-before boundary is not taken as the last.
WrongArchiveComplete(start, stop) == start < stop

ArchiveComplete(start, stop) == start <= stop

\* The batch of one market, with resolveHistoryRecoveryConfidenceReason.
Batch(m) ==
  LET start == ArchiveStart(run.started, run.end[m])
      stop == run.started - StopBefore
      boundary == run.started - Retention
      complete == ArchiveComplete(start, stop)
      cut == [k \in Kinds |-> run.scans[m][k].cut]
      limited == \E k \in Kinds : cut[k]
      retention == IF start <= boundary \/ stop < boundary THEN "BEYOND" ELSE "WITHIN"
  IN [recentStart |-> run.started - Lookback, recentEnd |-> run.started,
      archiveStart |-> start, archiveEnd |-> run.end[m], next |-> start,
      complete |-> complete, retention |-> retention, cut |-> cut,
      level |-> IF complete /\ ~limited /\ retention = "WITHIN" THEN "HIGH" ELSE "PARTIAL",
      reason |-> CASE limited -> "PAGE_LIMIT_REACHED"
                   [] ~limited /\ retention = "BEYOND" -> "BEYOND_ASSUMED_RETENTION"
                   [] OTHER -> IF complete THEN "ARCHIVE_COMPLETE" ELSE "ARCHIVE_IN_PROGRESS",
      pages |-> [k \in Kinds |-> IF k = "archive" /\ run.end[m] <= stop THEN 0 ELSE 1],
      count |-> MapThenSumSet(LAMBDA k : Cardinality(run.scans[m][k].got), Kinds)]

\* summarizeHistoryRecoveryConfidenceReason: the worst reason of any market.
WorstReason(reasons) ==
  CASE "PAGE_LIMIT_REACHED" \in reasons -> "PAGE_LIMIT_REACHED"
    [] "PAGE_LIMIT_REACHED" \notin reasons /\ "BEYOND_ASSUMED_RETENTION" \in reasons ->
         "BEYOND_ASSUMED_RETENTION"
    [] OTHER -> IF "ARCHIVE_IN_PROGRESS" \in reasons THEN "ARCHIVE_IN_PROGRESS" ELSE "ARCHIVE_COMPLETE"

\* The summary of a run whose scans succeeded; due is the model's own note of what
\* was closed on the exchange, in the covered range, when the run began.
Summary ==
  LET batch == [m \in Markets |-> Batch(m)] IN
  [level |-> IF \A m \in Markets : batch[m].level = "HIGH" THEN "HIGH" ELSE "PARTIAL",
   reason |-> WorstReason({batch[m].reason : m \in Markets}),
   coverage |-> IF \A m \in Markets : batch[m].complete THEN "COMPLETE" ELSE "IN_PROGRESS",
   retention |-> IF \E m \in Markets : batch[m].retention = "BEYOND" THEN "BEYOND" ELSE "WITHIN",
   stop |-> run.started - StopBefore, boundary |-> run.started - Retention,
   scanned |-> Cardinality(UNION {run.scans[m][k].got : m \in Markets, k \in Kinds}),
   recovered |-> run.recovered, issues |-> run.recovered, failures |-> 0,
   batches |-> batch, started |-> run.started,
   due |-> {o \in run.closed : ex[o].at >= run.started - StopBefore}]

\* buildFailedHistoryRecoverySummary.
FailedSummary ==
  [level |-> "FAILED", reason |-> "LOOKUP_FAILED", coverage |-> "IN_PROGRESS",
   retention |-> IF StopBefore > Retention THEN "BEYOND" ELSE "WITHIN",
   stop |-> run.started - StopBefore, boundary |-> run.started - Retention,
   scanned |-> 0, recovered |-> 0, issues |-> 0, failures |-> 1,
   batches |-> << >>, started |-> run.started, due |-> {}]

\* One order that was found: skipped if it is known, else saved. The identifier is
\* unique: a row that appeared since the run began makes the whole recovery fail.
Recover ==
  /\ run.pc = "recover" /\ run.todo # {}
  /\ LET o == CHOOSE o \in run.todo : \A p \in run.todo \ {o} : Newer(p, o) IN
     IF o \in run.known
     THEN run' = [run EXCEPT !.todo = @ \ {o}] /\ UNCHANGED <<local, report>>
     ELSE IF o \in local
     THEN run' = NoRun /\ report' = FailedSummary /\ UNCHANGED local
     ELSE /\ run' = [run EXCEPT !.todo = @ \ {o}, !.recovered = @ + 1]
          /\ local' = local \cup {o} /\ UNCHANGED report
  /\ UNCHANGED <<now, ex, cp, late, faults, lastStart>>

Finish ==
  /\ run.pc = "recover" /\ run.todo = {}
  /\ report' = Summary /\ run' = NoRun
  /\ UNCHANGED <<now, ex, local, cp, late, faults, lastStart>>

\* A listing call of market m fails. The run reports the failure; the calls of the
\* other markets go on and save their checkpoints.
LookupFails(m) ==
  /\ faults < MaxFaults /\ faults' = faults + 1
  /\ run.pc = "scan" /\ ~Scanned(m)
  /\ report' = FailedSummary /\ run' = NoRun
  /\ late' = [n \in Markets |-> IF n \in {m} \cup run.saved THEN None ELSE NextEnd(n)]
  /\ UNCHANGED <<now, ex, local, cp, lastStart>>

LateCheckpoint(m) ==
  /\ late[m] # None /\ cp' = [cp EXCEPT ![m] = late[m]]
  /\ late' = [late EXCEPT ![m] = None]
  /\ UNCHANGED <<now, ex, local, run, report, faults, lastStart>>

Crash ==
  /\ faults < MaxFaults /\ faults' = faults + 1
  /\ run.pc # "idle" /\ run' = NoRun /\ late' = [m \in Markets |-> None]
  /\ UNCHANGED <<now, ex, local, cp, report, lastStart>>

RunStep ==
  \/ Begin \/ Merge \/ Recover \/ Finish
  \/ \E m \in Markets :
       SaveCheckpoint(m) \/ LateCheckpoint(m) \/ \E kind \in Kinds : Scan(m, kind)

Next ==
  \/ Tick \/ Crash \/ RunStep
  \/ \E o \in Orders : Place(o) \/ Close(o)
  \/ \E m \in Markets : LookupFails(m)

Spec == Init /\ [][Next]_vars

-----------------------------------------------------------------------------
(***************************************************************************)
(* The validator (isStrictHistoryRecoverySummary).                         *)
(***************************************************************************)

\* What it derives of one market from the window's end.
StrictBatch(b, s) ==
  LET stop == s.started - StopBefore
      boundary == s.started - Retention
      start == IF b.archiveEnd <= stop THEN b.archiveEnd ELSE Max({b.archiveEnd - Lookback, stop})
      complete == b.archiveStart <= stop
      retention == IF b.archiveStart <= boundary \/ stop < boundary THEN "BEYOND" ELSE "WITHIN"
      limited == b.cut["open"] \/ b.cut["recent"] \/ b.cut["archive"]
  IN
  /\ b.recentStart = s.started - Lookback /\ b.recentEnd = s.started
  /\ b.archiveStart <= b.archiveEnd /\ b.archiveEnd <= b.recentStart
  /\ b.archiveStart = start /\ b.next = b.archiveStart
  /\ b.complete = complete /\ b.retention = retention
  /\ b.reason = (IF limited THEN "PAGE_LIMIT_REACHED"
                 ELSE IF retention = "BEYOND" THEN "BEYOND_ASSUMED_RETENTION"
                 ELSE IF complete THEN "ARCHIVE_COMPLETE" ELSE "ARCHIVE_IN_PROGRESS")
  /\ (b.level = "HIGH") = (complete /\ ~limited /\ retention = "WITHIN")
  /\ b.pages["open"] >= 1 /\ b.pages["recent"] >= 1
  /\ complete \/ b.pages["archive"] >= 1
  /\ \A k \in Kinds : b.cut[k] => b.pages[k] > 0
  /\ b.count > 0 => \E k \in Kinds : b.pages[k] > 0

StrictSummary(s) ==
  /\ s.stop = s.started - StopBefore /\ s.boundary = s.started - Retention
  /\ IF s.level = "FAILED"
     THEN /\ s.failures = 1 /\ s.issues = 0 /\ s.coverage = "IN_PROGRESS"
          /\ s.retention = (IF s.stop < s.boundary THEN "BEYOND" ELSE "WITHIN")
          /\ s.reason = "LOOKUP_FAILED" /\ s.scanned = 0 /\ s.recovered = 0 /\ s.batches = << >>
     ELSE LET B == {s.batches[m] : m \in Markets}
              count == MapThenSumSet(LAMBDA m : s.batches[m].count, Markets)
          IN /\ s.failures = 0 /\ \A b \in B : StrictBatch(b, s)
             /\ (s.coverage = "COMPLETE") = (\A b \in B : b.complete)
             /\ (s.retention = "BEYOND") = (\E b \in B : b.retention = "BEYOND")
             /\ (s.level = "HIGH") = (\A b \in B : b.level = "HIGH")
             /\ s.reason = WorstReason({b.reason : b \in B})
             /\ s.recovered <= s.scanned /\ s.issues = s.recovered
             /\ s.scanned <= count /\ (s.scanned > 0) = (count > 0)

-----------------------------------------------------------------------------
TypeOK ==
  /\ now \in FirstDay..MaxTime /\ local \subseteq Orders /\ faults \in 0..MaxFaults
  /\ run.pc \in {"idle", "scan", "recover"}
  /\ \A m \in Markets : cp[m] \in Int /\ late[m] \in Int
  /\ report.level \in {"NONE", "HIGH", "PARTIAL", "FAILED"}

\* Whatever the failures, truncations and crashes, the validator that start-up and
\* the pilot's recovery apply accepts the summary the service wrote.
SummaryAccepted == report # NoReport => StrictSummary(report)

\* When confidence is HIGH, every order that was closed in the covered range when
\* the run began has a row.
HighMeansRecovered == report.level = "HIGH" => report.due \subseteq local

=============================================================================
