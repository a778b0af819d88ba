------------------------- MODULE ReconciliationSweep -------------------------
(***************************************************************************)
(* A reconciliation run over the whole order table                         *)
(* (reconciliation-service.ts runWithRecord): dry-run artifacts are        *)
(* repaired locally, active rows and terminal rows that lack evidence      *)
(* become candidates, and the first of them, up to the lookup budget, are  *)
(* looked up and compare-and-set. Runs of the scheduler, of the sync       *)
(* command and of start-up may overlap.                                    *)
(*                                                                         *)
(* OrderSubmission has one order's submission against its recovery; here   *)
(* the rows compete for the budget.                                        *)
(***************************************************************************)
EXTENDS Integers, FiniteSets, FiniteSetsExt

CONSTANTS
  Runs,       \* runs that may be under way together
  Orders,     \* rows; numbered by updated_at at first
  Budget,     \* maxOrderLookupsPerRun
  Enough,     \* not-found observations that meet the absence bound
  Shapes,     \* the shapes rows may have at first
  Troubles,   \* how lookups of a troubled order may end
  MaxTroubled,\* bound: troubled orders
  MaxFaults   \* bound: crashes

SweepConstants ==
  /\ IsFiniteSet(Orders) /\ Orders \subseteq Nat \ {0}
  /\ Budget \in Nat \ {0} /\ Enough \in Nat \ {0} /\ MaxTroubled \in Nat /\ MaxFaults \in Nat
  /\ Troubles \subseteq {"transient", "binding", "permanent"}

VARIABLES
  row,     \* orders: [status, response, code, at]
  fills,   \* number of fills stored, the oldest first
  seen,    \* recovery observations: [found, missed]
  marked,  \* orders with a RECONCILIATION_RECOVERY_REQUIRED event
  ex,      \* the exchange: [state, fills]
  shape, trouble,   \* what an order is, and what its lookups meet
  run, report, faults

vars == <<row, fills, seen, marked, ex, shape, trouble, run, report, faults>>
rowVars == <<row, fills, seen, marked>>
world == <<ex, shape, trouble, faults>>

Nothing == <<"none", 0>>
Meta == <<"meta", 0>>
NoRun == [pc |-> "idle"]

Active == {"PERSISTED", "SUBMITTING", "OPEN", "PARTIALLY_FILLED", "RECONCILIATION_REQUIRED"}
Terminal == {"FILLED", "CANCELED", "REJECTED", "FAILED"}
Uncertain == {"SUBMITTING", "RECONCILIATION_REQUIRED", "FAILED", "REJECTED"}
Closed == {"done", "cancel"}

\* A row as execution-service or an earlier version left it.
FirstRow(s, o) ==
  LET R(status, response, code) == [status |-> status, response |-> response, code |-> code, at |-> o]
  IN CASE s = "persisted" -> R("PERSISTED", Nothing, "null")
       [] s = "submitting" -> R("SUBMITTING", Nothing, "null")
       [] s = "uncertain" -> R("RECONCILIATION_REQUIRED", Meta, "RECONCILIATION_REQUIRED")
       [] s \in {"open", "recovered"} -> R("OPEN", <<"wait", 0>>, "null")
       [] s = "rejected" -> R("REJECTED", Meta, "EXCHANGE_ORDER_REJECTED")
       [] s = "bareFilled" -> R("FILLED", Nothing, "null")
       [] s = "dustCanceled" -> R("CANCELED", <<"cancel", 1>>, "null")
       [] s \in {"dryPriced", "dryBare"} -> R("OPEN", Meta, "null")

\* isLocalDryRunExchangeArtifact; and a market buy, whose rest the exchange cancels.
Dry(o) == shape[o] \in {"dryPriced", "dryBare"}
PriceBid(o) == shape[o] = "dustCanceled"

FirstExchange(s) ==
  CASE s = "submitting" -> {Nothing, <<"wait", 0>>, <<"done", 2>>}
    [] s = "uncertain" -> {Nothing, <<"wait", 0>>, <<"cancel", 0>>}
    [] s \in {"open", "recovered"} -> {<<"wait", 0>>}
    [] s = "bareFilled" -> {<<"done", 2>>}
    [] s = "dustCanceled" -> {<<"cancel", 1>>}
    [] OTHER -> {Nothing}

Init ==
  /\ shape \in [Orders -> Shapes]
  /\ row = [o \in Orders |-> FirstRow(shape[o], o)]
  /\ fills = [o \in Orders |-> 0]
  /\ seen = [o \in Orders |-> [found |-> FALSE, missed |-> 0]]
  /\ marked = {o \in Orders : shape[o] \in {"uncertain", "recovered"}}
  /\ ex \in [Orders -> UNION {FirstExchange(s) : s \in Shapes}]
  /\ \A o \in Orders : ex[o] \in FirstExchange(shape[o])
  /\ trouble \in [Orders -> Troubles \cup {"none"}]
  /\ Cardinality({o \in Orders : trouble[o] # "none"}) <= MaxTroubled
  /\ run = [r \in Runs |-> NoRun] /\ report = [r \in Runs |-> [ok |-> FALSE]] /\ faults = 0

-----------------------------------------------------------------------------
(***************************************************************************)
(* The exchange.                                                           *)
(***************************************************************************)

Trades(o) ==
  /\ ex[o] = <<"wait", 0>> /\ ex' = [ex EXCEPT ![o] = <<"wait", 1>>]
  /\ UNCHANGED <<rowVars, shape, trouble, run, report, faults>>

Closes(o) ==
  /\ ex[o][1] = "wait"
  /\ ex' \in {[ex EXCEPT ![o] = <<"done", 2>>], [ex EXCEPT ![o] = <<"cancel", ex[o][2]>>]}
  /\ UNCHANGED <<rowVars, shape, trouble, run, report, faults>>

-----------------------------------------------------------------------------
(***************************************************************************)
(* Dry-run repair.                                                         *)
(***************************************************************************)

\* listActiveOrders, listOrders: everything below works on these rows.
Begin(r) ==
  /\ run[r].pc = "idle"
  /\ run' = [run EXCEPT ![r] =
       [pc |-> "repair", rows |-> row, now |-> Max({row[o].at : o \in Orders}) + 1,
        dry |-> {o \in Orders : Dry(o) /\ row[o].status \in Active},
        at |-> 0, step |-> "none", todo |-> {}, left |-> Budget, answer |-> Nothing, issues |-> FALSE]]
  /\ UNCHANGED <<rowVars, report, world>>

Abort(r) == run' = [run EXCEPT ![r] = NoRun]

\* listFills of one artifact.
ReadDryFills(r) ==
  /\ run[r].pc = "repair" /\ run[r].step = "none"
  /\ \E o \in run[r].dry :
       run' = [run EXCEPT ![r].at = o,
                 ![r].step = IF fills[o] > 0 THEN "FILLED" ELSE IF shape[o] = "dryBare" THEN "CANCELED" ELSE "fill"]
  /\ UNCHANGED <<rowVars, report, world>>

\* saveFill: the synthetic fill's exchangeFillId is the order's, and another run's
\* copy, which has another time, is a conflict.
RepairFillNew(o) == fills[o] = 0

CreateDryRunRepairFill(r) ==
  LET o == run[r].at IN
  /\ run[r].pc = "repair" /\ run[r].step = "fill"
  /\ IF RepairFillNew(o)
     THEN fills' = [fills EXCEPT ![o] = @ + 1] /\ run' = [run EXCEPT ![r].step = "FILLED"]
     ELSE Abort(r) /\ UNCHANGED fills
  /\ UNCHANGED <<row, seen, marked, report, world>>

\* updateOrder, which compares nothing, and the event.
RepairRow(r) ==
  LET o == run[r].at IN
  /\ run[r].pc = "repair" /\ run[r].step \in {"FILLED", "CANCELED"}
  /\ row' = [row EXCEPT ![o] = [run[r].rows[o] EXCEPT
               !.status = run[r].step, !.code = "null", !.at = run[r].now]]
  /\ run' = [run EXCEPT ![r].dry = @ \ {o}, ![r].step = "none", ![r].issues = TRUE]
  /\ UNCHANGED <<fills, seen, marked, report, world>>

-----------------------------------------------------------------------------
(***************************************************************************)
(* Candidates.                                                             *)
(***************************************************************************)

\* shouldReconcileTerminalOrder, after isSubmissionAbsenceConfirmed.
ShouldReconcileTerminal(o, r, n) ==
  \/ r.status = "FILLED" /\ (n = 0 \/ r.response = Nothing)
  \/ /\ r.status = "CANCELED"
     /\ r.response = Nothing \/ (PriceBid(o) /\ (n > 0 \/ (r.response[1] = "cancel" /\ r.response[2] > 0)))
  \/ /\ r.status \in {"REJECTED", "FAILED"} /\ r.response = Nothing
     /\ r.code # "ORDER_SUBMISSION_ABSENCE_CONFIRMED"

IsCandidate(o, r, n) == ~Dry(o) /\ (r.status \in Active \/ ShouldReconcileTerminal(o, r, n))

\* getActiveOrderPriority, getTerminalOrderPriority.
Priority(status) ==
  CASE status = "RECONCILIATION_REQUIRED" -> 0 [] status = "PARTIALLY_FILLED" -> 2
    [] status = "OPEN" -> 3 [] status = "PERSISTED" -> 4 [] status = "SUBMITTING" -> 5
    [] status = "FAILED" -> 7 [] status = "REJECTED" -> 8 [] status = "FILLED" -> 9
    [] status = "CANCELED" -> 10

\* The sort of buildReconciliationCandidates.
Before(p, q) ==
  Priority(p.status) < Priority(q.status) \/ (Priority(p.status) = Priority(q.status) /\ p.at < q.at)

BuildCandidates(r) ==
  /\ run[r].pc = "repair" /\ run[r].step = "none" /\ run[r].dry = {}
  /\ run' = [run EXCEPT ![r].pc = "work", ![r].at = 0,
               ![r].todo = {o \in Orders : IsCandidate(o, run[r].rows[o], fills[o])}]
  /\ UNCHANGED <<rowVars, report, world>>

-----------------------------------------------------------------------------
(***************************************************************************)
(* One candidate.                                                          *)
(***************************************************************************)

\* getOrder of the next candidate, bound to the row.
LookUp(r) ==
  /\ run[r].pc = "work" /\ run[r].at = 0 /\ run[r].left > 0
  /\ \E o \in run[r].todo :
       /\ \A p \in run[r].todo : ~Before(run[r].rows[p], run[r].rows[o])
       /\ run' = [run EXCEPT ![r].at = o, ![r].left = @ - 1, ![r].todo = @ \ {o},
                    ![r].answer = IF trouble[o] = "none" \/ (trouble[o] = "binding" /\ ex[o] = Nothing)
                                  THEN ex[o] ELSE <<trouble[o], 0>>]
  /\ UNCHANGED <<rowVars, report, world>>

Failed == {"transient", "binding", "permanent"}
Found(r) == run[r].answer[1] \in {"wait", "done", "cancel"}
Recovering(r) == run[r].rows[run[r].at].status \in Uncertain

\* Goes to the next candidate.
Done(r, issue) == run' = [run EXCEPT ![r].at = 0, ![r].issues = @ \/ issue]

\* mapExchangeOrderToLifecycleStatus.
LifecycleStatus(o, answer) ==
  CASE answer[1] = "done" -> "FILLED"
    [] answer[1] = "cancel" -> IF PriceBid(o) /\ answer[2] > 0 THEN "FILLED" ELSE "CANCELED"
    [] OTHER -> IF answer[2] > 0 THEN "PARTIALLY_FILLED" ELSE "OPEN"

StillAsRead(r) == row[run[r].at] = run[r].rows[run[r].at]

\* The first fill that is new ends the pass over the snapshot's fills.
WrongFillsAfter(n, trades) == Min({n + 1, trades})

\* Every fill that is not there yet is inserted.
FillsAfter(n, trades) == Max({n, trades})

\* applyExchangeSnapshot: the row is written only if something but its time changes;
\* recoverOrderByIdentifier has recorded FOUND before.
ApplyExchangeSnapshot(r) ==
  LET o == run[r].at
      old == run[r].rows[o]
      same == [old EXCEPT !.response = run[r].answer, !.code = "null",
                          !.status = LifecycleStatus(o, run[r].answer)]
      trades == run[r].answer[2]
      recheck == old.status \in Terminal
  IN
  /\ run[r].pc = "work" /\ run[r].at # 0 /\ Found(r)
  /\ seen' = IF Recovering(r) THEN [seen EXCEPT ![o].found = TRUE] ELSE seen
  /\ IF StillAsRead(r)
     THEN /\ row' = [row EXCEPT ![o] = IF same = old THEN old ELSE [same EXCEPT !.at = run[r].now]]
          /\ fills' = [fills EXCEPT ![o] = FillsAfter(@, trades)]
          /\ Done(r, Recovering(r) \/ recheck \/ same.status # old.status \/ trades > fills[o])
     ELSE Done(r, TRUE) /\ UNCHANGED <<row, fills>>
  /\ UNCHANGED <<marked, report, world>>

\* recoverOrderByIdentifier without a snapshot: the observation, and the absence.
RecordAbsence(r) ==
  LET o == run[r].at IN
  /\ run[r].pc = "work" /\ run[r].at # 0 /\ Recovering(r) /\ run[r].answer = Nothing
  /\ seen' = [seen EXCEPT ![o].missed = Min({@ + 1, Enough})]
  /\ row' = IF seen[o].missed + 1 >= Enough /\ ~seen[o].found
                 /\ row[o].status = run[r].rows[o].status /\ row[o].at = run[r].rows[o].at
            THEN [row EXCEPT ![o] = [@ EXCEPT !.status = "FAILED", !.at = run[r].now,
                                       !.code = "ORDER_SUBMISSION_ABSENCE_CONFIRMED"]]
            ELSE row
  /\ Done(r, TRUE)
  /\ UNCHANGED <<fills, marked, report, world>>

\* A transient failure, or during a recovery a snapshot of something else, is noted.
NoteTransient(r) ==
  /\ run[r].pc = "work" /\ run[r].at # 0
  /\ run[r].answer[1] = "transient" \/ (Recovering(r) /\ run[r].answer[1] = "binding")
  /\ Done(r, TRUE)
  /\ UNCHANGED <<rowVars, report, world>>

\* Any other failure of a recovery's lookup leaves the run, and no record of it.
LookUpThrows(r) ==
  /\ run[r].pc = "work" /\ run[r].at # 0 /\ Recovering(r) /\ run[r].answer[1] = "permanent"
  /\ Abort(r) /\ UNCHANGED <<rowVars, report, world>>

\* The row is no longer as it was read, or this is its first recovery.
MarkAccepted(r) == run[r].at \notin marked \/ ~StillAsRead(r)

\* markOrderForRecovery. validateReconciliationRecoveryCompletion refuses a second
\* recovery of the same order with an exception that leaves the run.
MarkOrderForRecovery(r) ==
  LET o == run[r].at IN
  /\ run[r].pc = "work" /\ run[r].at # 0 /\ ~Recovering(r)
  /\ run[r].answer = Nothing \/ run[r].answer[1] \in {"binding", "permanent"}
  /\ IF MarkAccepted(r)
     THEN /\ Done(r, TRUE)
          /\ IF StillAsRead(r)
             THEN /\ row' = [row EXCEPT ![o] = [@ EXCEPT !.status = "RECONCILIATION_REQUIRED",
                               !.code = "RECONCILIATION_REQUIRED", !.at = run[r].now]]
                  /\ marked' = marked \cup {o}
             ELSE UNCHANGED <<row, marked>>
     ELSE Abort(r) /\ UNCHANGED <<row, marked>>
  /\ UNCHANGED <<fills, seen, report, world>>

Deferred(r) == run[r].todo

\* saveReconciliationRun: SUCCESS without issues, else DRIFT_DETECTED. The model
\* notes beside it which rows were uncertain when the run began.
Finish(r) ==
  /\ run[r].pc = "work" /\ run[r].at = 0 /\ (run[r].left = 0 \/ run[r].todo = {})
  /\ report' = [report EXCEPT ![r] = [ok |-> ~run[r].issues /\ Deferred(r) = {},
       unsure |-> {o \in Orders : run[r].rows[o].status \in {"PERSISTED", "SUBMITTING", "RECONCILIATION_REQUIRED"}}]]
  /\ run' = [run EXCEPT ![r] = NoRun]
  /\ UNCHANGED <<rowVars, world>>

Crash ==
  /\ faults < MaxFaults /\ faults' = faults + 1
  /\ \E r \in Runs : run[r].pc # "idle"
  /\ run' = [r \in Runs |-> NoRun]
  /\ UNCHANGED <<rowVars, ex, shape, trouble, report>>

RunStep(r) ==
  \/ Begin(r) \/ ReadDryFills(r) \/ CreateDryRunRepairFill(r) \/ RepairRow(r) \/ BuildCandidates(r)
  \/ LookUp(r) \/ ApplyExchangeSnapshot(r) \/ RecordAbsence(r) \/ NoteTransient(r) \/ LookUpThrows(r)
  \/ MarkOrderForRecovery(r) \/ Finish(r)

Next ==
  \/ Crash
  \/ \E r \in Runs : RunStep(r)
  \/ \E o \in Orders : Trades(o) \/ Closes(o)

Spec == Init /\ [][Next]_vars

-----------------------------------------------------------------------------
TypeOK ==
  /\ \A o \in Orders : /\ row[o].status \in Active \cup Terminal /\ fills[o] \in 0..2
                       /\ seen[o].missed \in 0..Enough
  /\ marked \subseteq Orders
  /\ \A r \in Runs : run[r].pc \in {"idle", "repair", "work"} /\ report[r].ok \in BOOLEAN

\* No further lookup is due, and the exchange once had the order.
Settled(o) == row[o].status \in {"FILLED", "CANCELED"} /\ ~IsCandidate(o, row[o], fills[o])

\* An order that is left alone as FILLED or CANCELED is closed at the exchange, with
\* every trade of it in the ledger, whichever runs overlapped and wherever they
\* crashed.
SettledIsComplete ==
  \A o \in Orders : ~Dry(o) /\ Settled(o) => ex[o][1] \in Closed /\ fills[o] = ex[o][2]

\* A dry-run artifact never gets two fills, although overlapping runs and runs that
\* repeat after a crash all repair it.
RepairedOnce == \A o \in Orders : Dry(o) => fills[o] <= 1

\* SUCCESS, which the scheduler's preflight trusts, means that nothing was uncertain
\* when the run began: deferred, conflicting and failed lookups are all issues.
SuccessMeansCertain ==
  \A r \in Runs : report[r].ok => report[r].unsure = {}

=============================================================================
