---------------------------- MODULE OrderSubmission ----------------------------
(***************************************************************************)
(* How an order gets from a decision to the exchange and back: the         *)
(* execution service (submitOrderFromDecision), the account execution      *)
(* lease, the persisted order with its events and recovery observations,   *)
(* the reconciliation that recovers uncertain orders, and the operator     *)
(* state that allows or forbids sending.                                   *)
(*                                                                         *)
(* A task is one call of submitOrderFromDecision on the live adapter, a    *)
(* key the idempotency key of its decision. Runtime ownership is used as   *)
(* ExecutionFence promises it: a task whose process was superseded is      *)
(* stale and cannot send. An await is a boundary between two actions, so   *)
(* more interleavings are allowed than one event loop produces.            *)
(*                                                                         *)
(* OPEN stands for OPEN and PARTIALLY_FILLED, FILLED for FILLED and        *)
(* CANCELED, PAUSED for every system status but RUNNING. No row takes the  *)
(* same status twice (persistence refuses a second recovery or submission),*)
(* so updated_at is left out. Of the order_events those are kept that a    *)
(* decision depends on; RECONCILIATION_STATUS_UPDATED and the recovery     *)
(* observations leave an exchange response or a counter behind instead.    *)
(*                                                                         *)
(* The operators named Wrong... are mistakes this code could contain; no   *)
(* definition uses them. Each makes one of the properties below fail.      *)
(***************************************************************************)
EXTENDS Naturals

CONSTANTS Task,        \* calls of submitOrderFromDecision
          NoTask,      \* nobody
          Key,         \* idempotency keys
          Decisions,   \* which tasks may be for which keys
          Reconciler,  \* concurrent reconciliation passes
          Enough,      \* minimumNotFoundObservations
          Prompt,      \* whether the absence bound outlasts a request, see Settled
          MaxFaults,   \* bound: crashes, takeovers, mode changes while faults is below
          MaxCommands  \* bound: pauses and resumes while faults is below

ASSUME OrderAssumption == /\ NoTask \notin Task
                          /\ Decisions \subseteq [Task -> Key]
                          /\ Enough \in Nat \ {0, 1}
                          /\ Prompt \in BOOLEAN
                          /\ MaxFaults \in Nat /\ MaxCommands \in Nat

VARIABLES
  order,           \* the row of each key, NoOrder when there is none
  events,          \* the types of its order_events
  found, missed,   \* its recovery observations: a FOUND, how many NOT_FOUND (Enough
                   \* only once they are far enough apart as well)
  lease,           \* the row of account_execution_leases
  op, gate,        \* system status, and whether mode and gate are LIVE/ENABLED
  pc, key,         \* each task: where it is, its key
  stale,           \* tasks of a superseded process
  rec,             \* each reconciliation pass, see Pass
  ex,              \* what became of each key's request at the exchange
  faults           \* crashes, takeovers and operator commands so far

rowVars  == <<order, events>>
seenVars == <<found, missed>>
opVars   == <<op, gate>>
taskVars == <<pc, key>>
vars == <<rowVars, seenVars, lease, opVars, taskVars, stale, rec, ex, faults>>

ActiveStatuses == {"PERSISTED", "SUBMITTING", "OPEN", "RECONCILIATION_REQUIRED"}
Statuses == ActiveStatuses \cup {"none", "FILLED", "REJECTED", "FAILED"}
Row == [status : Statuses, by : Task \cup {NoTask}, uuid : BOOLEAN, response : BOOLEAN,
        code : {"null", "EXCHANGE_ORDER_REJECTED", "RECONCILIATION_REQUIRED",
                "ORDER_SUBMISSION_ABSENCE_CONFIRMED"}]
NoOrder == [status |-> "none", by |-> NoTask, uuid |-> FALSE, response |-> FALSE,
            code |-> "null"]
EventTypes == {"ORDER_SUBMITTED", "ORDER_REJECTED", "RECOVERY_REQUIRED",
               "ABSENCE_CONFIRMED"}
Lease == [owner : Task \cup {NoTask}, expired : BOOLEAN]
NoLease == [owner |-> NoTask, expired |-> FALSE]
Stages == {"new", "lease", "checks", "persist", "submitting", "renew", "final", "confirm",
           "send", "awaiting", "open", "closed", "rejected", "error", "fault",
           "faultThenRelease", "release", "done"}
Lookups == {"none", "open", "closed", "missing", "absent", "permanent"}
IdlePass == [at |-> "idle"]
Pass == {IdlePass} \cup [at : {"looking", "answered", "apply", "finalize"}, key : Key,
                         row : Row, result : Lookups]
Fates == {"none", "inflight", "live", "closed", "refused", "lost"}

TypeOK ==
  /\ order \in [Key -> Row]
  /\ events \in [Key -> SUBSET EventTypes]
  /\ found \in [Key -> BOOLEAN]
  /\ missed \in [Key -> 0 .. Enough]
  /\ lease \in Lease
  /\ op \in {"RUNNING", "PAUSED"}
  /\ gate \in BOOLEAN
  /\ pc \in [Task -> Stages]
  /\ key \in [Task -> Key]
  /\ stale \subseteq Task
  /\ rec \in [Reconciler -> Pass]
  /\ ex \in [Key -> Fates]
  /\ faults \in Nat

Init ==
  /\ order = [k \in Key |-> NoOrder]
  /\ events = [k \in Key |-> {}]
  /\ found = [k \in Key |-> FALSE]
  /\ missed = [k \in Key |-> 0]
  /\ lease = NoLease
  /\ op = "RUNNING"
  /\ gate = TRUE
  /\ pc = [t \in Task |-> "new"]
  /\ key \in Decisions
  /\ stale = {}
  /\ rec = [r \in Reconciler |-> IdlePass]
  /\ ex = [k \in Key |-> "none"]
  /\ faults = 0

-----------------------------------------------------------------------------
(***************************************************************************)
(* classifySubmissionBlockingOrder: which rows forbid another submission.  *)
(***************************************************************************)

\* Bounded absence with durable evidence, and no trace of the order.
AbsenceConfirmed(k) ==
  /\ order[k].status = "FAILED" /\ order[k].code = "ORDER_SUBMISSION_ABSENCE_CONFIRMED"
  /\ "ABSENCE_CONFIRMED" \in events[k] /\ missed[k] >= 2 /\ ~found[k]
  /\ "ORDER_SUBMITTED" \notin events[k] /\ ~order[k].uuid

\* A definitive rejection by the exchange, and no trace of the order.
RejectionConfirmed(k) ==
  /\ order[k].status = "REJECTED" /\ order[k].code = "EXCHANGE_ORDER_REJECTED"
  /\ "ORDER_REJECTED" \in events[k] /\ ~found[k]
  /\ events[k] \cap {"ORDER_SUBMITTED", "RECOVERY_REQUIRED"} = {} /\ ~order[k].uuid

DispatchEvidence(k) ==
  \/ order[k].uuid \/ order[k].response \/ found[k] \/ missed[k] > 0
  \/ events[k] \ {"ABSENCE_CONFIRMED"} # {}
  \/ order[k].code = "RECONCILIATION_REQUIRED"

\* Only the rows listActiveOrders returns.
WrongBlocking(k) == order[k].status \in ActiveStatuses \ {"RECONCILIATION_REQUIRED"}

Blocking(k) ==
  \/ order[k].status \in ActiveStatuses
  \/ /\ order[k].status \in {"FAILED", "REJECTED"}
     /\ ~AbsenceConfirmed(k) /\ ~RejectionConfirmed(k) /\ DispatchEvidence(k)

-----------------------------------------------------------------------------
(***************************************************************************)
(* Submission up to the send.                                              *)
(***************************************************************************)

Goto(t, stage) == pc' = [pc EXCEPT ![t] = stage]

Write(k, row, new) ==
  /\ order' = [order EXCEPT ![k] = row]
  /\ events' = [events EXCEPT ![k] = @ \cup new]

\* assertLocallyHeld, which may or may not have noticed a loss yet, and the
\* duplicate lookup.
Start(t) ==
  /\ pc[t] = "new"
  /\ \/ order[key[t]] = NoOrder /\ Goto(t, "lease")
     \/ /\ order[key[t]] # NoOrder \/ t \in stale
        /\ Goto(t, "done")
  /\ UNCHANGED <<rowVars, seenVars, lease, opVars, key, stale, rec, ex, faults>>

\* acquireLease of the store grants: no blocking order, and no lease in force.
LeaseAvailable ==
  /\ \A k \in Key : ~Blocking(k)
  /\ lease = NoLease \/ lease.expired

\* acquireLease; a refusal or an exception records the block and pauses.
AcquireLease(t) ==
  /\ pc[t] = "lease"
  /\ \/ /\ LeaseAvailable
        /\ lease' = [owner |-> t, expired |-> FALSE]
        /\ Goto(t, "checks")
     \/ Goto(t, "fault") /\ UNCHANGED lease
  /\ UNCHANGED <<rowVars, seenVars, opVars, key, stale, rec, ex, faults>>

\* listActiveOrders, getState, the adapter's authority, the risk guards and the
\* exchange's pre-trade validation. A failed read keeps the lease; an active
\* order or a foreign authority pauses and then gives it back; a local or
\* exchange rejection gives it back.
InitialChecks(t) ==
  /\ pc[t] = "checks"
  /\ \/ Goto(t, "fault")
     \/ /\ ~gate \/ \E k \in Key : order[k].status \in ActiveStatuses
        /\ Goto(t, "faultThenRelease")
     \/ /\ gate /\ \A k \in Key : order[k].status \notin ActiveStatuses
        /\ \/ Goto(t, "release")
           \/ op = "RUNNING" /\ Goto(t, "persist")
  /\ UNCHANGED <<rowVars, seenVars, lease, opVars, key, stale, rec, ex, faults>>

\* The upsert of a new row without the unique idempotency key.
WrongIntentAccepted(k) == TRUE

\* The UNIQUE constraint on the account's idempotency keys.
IntentAccepted(k) == order[k] = NoOrder

\* persistOrderIntent; an exception leaves through the finally that releases.
PersistOrderIntent(t) ==
  /\ pc[t] = "persist"
  /\ \/ /\ IntentAccepted(key[t])
        /\ Write(key[t], [NoOrder EXCEPT !.status = "PERSISTED", !.by = t], {})
        /\ Goto(t, "submitting")
     \/ Goto(t, "release") /\ UNCHANGED rowVars
  /\ UNCHANGED <<seenVars, lease, opVars, key, stale, rec, ex, faults>>

SubmittingRow(t) == [NoOrder EXCEPT !.status = "SUBMITTING", !.by = t]

\* updateOrder to SUBMITTING, which overwrites the row whatever it is by now.
UpdateOrderSubmitting(t) ==
  /\ pc[t] = "submitting"
  /\ \/ Write(key[t], SubmittingRow(t), {}) /\ Goto(t, "renew")
     \/ Goto(t, "release") /\ UNCHANGED rowVars
  /\ UNCHANGED <<seenVars, lease, opVars, key, stale, rec, ex, faults>>

\* renewLease and isOwnedLease; anything else keeps the order and the lease.
RenewLease(t) ==
  /\ pc[t] = "renew"
  /\ \/ /\ lease.owner = t /\ ~lease.expired
        /\ Goto(t, "final")
     \/ Goto(t, "fault")
  /\ UNCHANGED <<rowVars, seenVars, lease, opVars, key, stale, rec, ex, faults>>

\* The final operator state, and listSubmissionBlockingOrders, which must return
\* this task's row and no other.
SendAuthorized(t) ==
  /\ op = "RUNNING" /\ gate
  /\ order[key[t]] = SubmittingRow(t)
  /\ \A k \in Key \ {key[t]} : ~Blocking(k)

FinalChecks(t) ==
  /\ pc[t] = "final"
  /\ \/ SendAuthorized(t) /\ Goto(t, "confirm")
     \/ Goto(t, "fault")
  /\ UNCHANGED <<rowVars, seenVars, lease, opVars, key, stale, rec, ex, faults>>

\* findOrderById and assertFinalPersistedSubmissionAuthority: the row must be the
\* one this task wrote.
ConfirmOrderRow(t) ==
  /\ pc[t] = "confirm"
  /\ \/ order[key[t]] = SubmittingRow(t) /\ Goto(t, "send")
     \/ Goto(t, "fault")
  /\ UNCHANGED <<rowVars, seenVars, lease, opVars, key, stale, rec, ex, faults>>

\* runWithCurrentExecutionAuthority with createOrder in its callback. A lost
\* generation (which a process may suspect before it is superseded) or a changed
\* execution state just throws; lease and row stay.
CreateOrder(t) ==
  /\ pc[t] = "send"
  /\ \/ Goto(t, "done") /\ UNCHANGED ex
     \/ /\ t \notin stale /\ op = "RUNNING" /\ gate
        /\ ex' = [ex EXCEPT ![key[t]] = "inflight"]
        /\ Goto(t, "awaiting")
  /\ UNCHANGED <<rowVars, seenVars, lease, opVars, key, stale, rec, faults>>

-----------------------------------------------------------------------------
(***************************************************************************)
(* Submission after the send.                                              *)
(***************************************************************************)

\* What createOrder may yield now: the snapshot, a definitive rejection, or at
\* any time an error that leaves the outcome open.
AdapterAnswers(k) ==
  {"error"} \cup (CASE ex[k] = "live" -> {"open"}
                    [] ex[k] = "closed" -> {"open", "closed"}
                    [] ex[k] = "refused" -> {"rejected"}
                    [] OTHER -> {})

\* createOrder settles and assertCurrent follows: a process that is no longer
\* the owner, or cannot tell, leaves row and lease as they are.
OrderAnswered(t) ==
  /\ pc[t] = "awaiting"
  /\ \/ Goto(t, "done")
     \/ t \notin stale /\ \E a \in AdapterAnswers(key[t]) : Goto(t, a)
  /\ UNCHANGED <<rowVars, seenVars, lease, opVars, key, stale, rec, ex, faults>>

\* validateExchangeSubmissionCompletion and validateUncertainSubmissionCompletion
\* say APPLY: nobody has advanced the row.
SubmissionOpen(k, children) ==
  order[k].status \in {"PERSISTED", "SUBMITTING"} /\ events[k] \cap children = {}

\* The exchange's word for the state, unmapped.
WrongStatusOf(state) == state

\* mapExchangeOrderStatus.
StatusOf(state) == IF state = "open" THEN "OPEN" ELSE "FILLED"

\* persistExchangeSubmission of an accepted order; the lease is given back only
\* when the order is already terminal.
PersistAccepted(t) ==
  LET k == key[t] IN
  /\ pc[t] \in {"open", "closed"}
  /\ \/ /\ SubmissionOpen(k, {"ORDER_SUBMITTED", "ORDER_REJECTED"})
        /\ Write(k, [SubmittingRow(t) EXCEPT
                       !.status = StatusOf(pc[t]),
                       !.uuid = TRUE, !.response = TRUE], {"ORDER_SUBMITTED"})
        /\ Goto(t, IF pc[t] = "open" THEN "done" ELSE "release")
     \/ Goto(t, "fault") /\ UNCHANGED rowVars
  /\ UNCHANGED <<seenVars, lease, opVars, key, stale, rec, ex, faults>>

\* persistExchangeSubmission of a definitive rejection.
PersistRejected(t) ==
  LET k == key[t] IN
  /\ pc[t] = "rejected"
  /\ \/ /\ SubmissionOpen(k, {"ORDER_SUBMITTED", "ORDER_REJECTED"})
        /\ Write(k, [SubmittingRow(t) EXCEPT !.status = "REJECTED", !.response = TRUE,
                       !.code = "EXCHANGE_ORDER_REJECTED"], {"ORDER_REJECTED"})
        /\ Goto(t, "release")
     \/ Goto(t, "fault") /\ UNCHANGED rowVars
  /\ UNCHANGED <<seenVars, lease, opVars, key, stale, rec, ex, faults>>

UncertainRow(t) ==
  [SubmittingRow(t) EXCEPT !.status = "RECONCILIATION_REQUIRED", !.response = TRUE,
     !.code = "RECONCILIATION_REQUIRED"]

\* persistUncertainSubmission; the pause follows whether it succeeds or not, and
\* the lease is kept.
PersistUncertain(t) ==
  LET k == key[t] IN
  /\ pc[t] = "error"
  /\ \/ /\ SubmissionOpen(k, {"RECOVERY_REQUIRED"})
        /\ Write(k, UncertainRow(t), {"RECOVERY_REQUIRED"})
     \/ UNCHANGED rowVars
  /\ Goto(t, "fault")
  /\ UNCHANGED <<seenVars, lease, opVars, key, stale, rec, ex, faults>>

\* pauseForFault, alone or in recordLeaseBlockedAndPause. The pause fails when its
\* fault id was used before a resume, or predates the execution state; the risk
\* event beside it may fail too. Either way a lease that was to be given back is
\* kept.
PauseForFault(t) ==
  /\ pc[t] \in {"fault", "faultThenRelease"}
  /\ \/ op' \in {op, "PAUSED"} /\ Goto(t, "done")
     \/ pc[t] = "faultThenRelease" /\ op' = "PAUSED" /\ Goto(t, "release")
  /\ UNCHANGED <<rowVars, seenVars, lease, gate, key, stale, rec, ex, faults>>

\* Deletes the account's lease whoever owns it.
WrongLeaseAfterRelease(t) == NoLease

\* releaseLease deletes the row of this owner token only.
LeaseAfterRelease(t) == IF lease.owner = t THEN NoLease ELSE lease

\* releaseLeaseOrFail; a lease that is no longer one's own, or a release that
\* throws, pauses.
ReleaseLease(t) ==
  /\ pc[t] = "release"
  /\ \/ lease' = LeaseAfterRelease(t) /\ Goto(t, IF lease.owner = t THEN "done" ELSE "fault")
     \/ Goto(t, "fault") /\ UNCHANGED lease
  /\ UNCHANGED <<rowVars, seenVars, opVars, key, stale, rec, ex, faults>>

-----------------------------------------------------------------------------
(***************************************************************************)
(* Reconciliation: read the row, look the order up, record what was seen,  *)
(* and compare-and-set the row.                                            *)
(***************************************************************************)

\* No submission of k is on its way any more: no call is between its intent and
\* its send, and the exchange has taken or lost every request. Under Prompt the
\* configured bound (observations that far apart) is long enough for that.
Settled(k) ==
  /\ ex[k] # "inflight"
  /\ \A t \in Task :
       key[t] = k => pc[t] \notin {"submitting", "renew", "final", "confirm", "send"}

Idle(r) == rec' = [rec EXCEPT ![r] = IdlePass]

\* runWithRecord picks an active order; the row it read is all it works with.
PickOrder(r, k) ==
  /\ rec[r].at = "idle" /\ order[k].status \in ActiveStatuses
  /\ rec' = [rec EXCEPT ![r] = [at |-> "looking", key |-> k, row |-> order[k],
                                result |-> "none"]]
  /\ UNCHANGED <<rowVars, seenVars, lease, opVars, taskVars, stale, ex, faults>>

\* Any failure of getOrder taken for a 404.
WrongLookupResults(k) == {"missing", "absent"}

\* What getOrder may yield now: the order if the exchange has it, a 404 if not
\* ("absent" when that completes the bound on number and time).
LookupResults(k) ==
  (CASE ex[k] = "live" -> {"open"}
     [] ex[k] = "closed" -> {"closed"}
     [] OTHER -> {"missing"} \cup (IF missed[k] + 1 >= Enough /\ (Prompt => Settled(k))
                                   THEN {"absent"} ELSE {}))

\* getOrder by uuid, then by identifier.
LookUp(r) ==
  /\ rec[r].at = "looking"
  /\ \E result \in LookupResults(rec[r].key) :
       rec' = [rec EXCEPT ![r].at = "answered", ![r].result = result]
  /\ UNCHANGED <<rowVars, seenVars, lease, opVars, taskVars, stale, ex, faults>>

\* getOrder fails for good.
LookUpFails(r) ==
  /\ rec[r].at = "looking"
  /\ rec' = [rec EXCEPT ![r].at = "answered", ![r].result = "permanent"]
  /\ UNCHANGED <<rowVars, seenVars, lease, opVars, taskVars, stale, ex, faults>>

\* Only a row that was being submitted.
WrongRecovering(r) == rec[r].row.status = "SUBMITTING"

\* The row takes recoverOrderByIdentifier rather than a plain status update.
Recovering(r) == rec[r].row.status \in {"SUBMITTING", "RECONCILIATION_REQUIRED"}

\* evaluateBoundedAbsence over the observations with this one added: the bound is
\* reached now or was before, and the order was never found.
Absence(k, result) ==
  /\ ~found[k]
  /\ result = "absent" \/ (result = "missing" /\ missed[k] = Enough)

\* recoverOrderByIdentifier records its observation and decides what follows.
RecordObservation(r) ==
  LET k == rec[r].key
      result == rec[r].result IN
  /\ rec[r].at = "answered" /\ Recovering(r) /\ result # "permanent"
  /\ found' = [found EXCEPT ![k] = @ \/ result \in {"open", "closed"}]
  /\ missed' = [missed EXCEPT
                  ![k] = CASE result = "absent" -> Enough
                           [] result = "missing" /\ @ + 1 < Enough -> @ + 1
                           [] OTHER -> @]
  /\ \/ result \in {"open", "closed"} /\ rec' = [rec EXCEPT ![r].at = "apply"]
     \/ Absence(k, result) /\ rec' = [rec EXCEPT ![r].at = "finalize"]
     \/ result \notin {"open", "closed"} /\ ~Absence(k, result) /\ Idle(r)
  /\ UNCHANGED <<rowVars, lease, opVars, taskVars, stale, ex, faults>>

\* Writes without comparing.
WrongUnchanged(r) == TRUE

\* The compare of every compare-and-set: the row is still the one that was read.
Unchanged(r) == order[rec[r].key] = rec[r].row

\* applyExchangeSnapshot and persistReconciledExchangeSnapshot. A candidate
\* projection that fails during a recovery pauses.
ApplyExchangeSnapshot(r) ==
  LET k == rec[r].key
      next == [rec[r].row EXCEPT !.uuid = TRUE, !.response = TRUE, !.code = "null",
                 !.status = StatusOf(rec[r].result)] IN
  /\ \/ rec[r].at = "apply"
     \/ rec[r].at = "answered" /\ ~Recovering(r) /\ rec[r].result \in {"open", "closed"}
  /\ Unchanged(r)
  /\ Write(k, next, {})
  /\ \/ UNCHANGED op
     \/ Recovering(r) /\ op' = "PAUSED"
  /\ Idle(r)
  /\ UNCHANGED <<seenVars, lease, gate, taskVars, stale, ex, faults>>

\* finalizeBoundedSubmissionAbsence: the row, its event and the pause in one
\* transaction, compared by status and updated_at.
FinalizeAbsence(r) ==
  LET k == rec[r].key IN
  /\ rec[r].at = "finalize"
  /\ order[k].status = rec[r].row.status
  /\ Write(k, [order[k] EXCEPT !.status = "FAILED",
                 !.code = "ORDER_SUBMISSION_ABSENCE_CONFIRMED"], {"ABSENCE_CONFIRMED"})
  /\ op' = "PAUSED"
  /\ Idle(r)
  /\ UNCHANGED <<seenVars, lease, gate, taskVars, stale, ex, faults>>

\* markOrderForRecovery: a row that is not being recovered yet, and whose lookup
\* found nothing or failed for good, becomes RECONCILIATION_REQUIRED once.
MarkOrderForRecovery(r) ==
  LET k == rec[r].key IN
  /\ rec[r].at = "answered" /\ ~Recovering(r)
  /\ rec[r].result \in {"missing", "absent", "permanent"}
  /\ Unchanged(r) /\ "RECOVERY_REQUIRED" \notin events[k]
  /\ Write(k, [order[k] EXCEPT !.status = "RECONCILIATION_REQUIRED",
                 !.code = "RECONCILIATION_REQUIRED"], {"RECOVERY_REQUIRED"})
  /\ Idle(r)
  /\ UNCHANGED <<seenVars, lease, opVars, taskVars, stale, ex, faults>>

\* The pass ends without a trace: the compare-and-set said CONFLICT, a transient
\* failure was only noted, ownership was lost across an await, persistence threw
\* (the pause of an absence does when an operator command is later than the
\* observation). A snapshot that cannot be applied during a recovery pauses.
AbandonPass(r) ==
  /\ rec[r].at # "idle"
  /\ \/ UNCHANGED op
     \/ rec[r].at = "apply" /\ op' = "PAUSED"
  /\ Idle(r)
  /\ UNCHANGED <<rowVars, seenVars, lease, gate, taskVars, stale, ex, faults>>

-----------------------------------------------------------------------------
(***************************************************************************)
(* The operator, the clock, the process and the exchange.                  *)
(***************************************************************************)

\* pause, activateKillSwitch, and a resume that no kill switch prevents.
OperatorCommand ==
  /\ faults < MaxCommands /\ faults' = faults + 1
  /\ op' \in {"RUNNING", "PAUSED"}
  /\ UNCHANGED <<rowVars, seenVars, lease, gate, taskVars, stale, rec, ex>>

\* setExecutionMode, setLiveExecutionGate.
SetAuthority ==
  /\ faults < MaxFaults /\ faults' = faults + 1
  /\ gate' = ~gate
  /\ UNCHANGED <<rowVars, seenVars, lease, op, taskVars, stale, rec, ex>>

\* ACCOUNT_EXECUTION_LEASE_MS passes.
LeaseExpires ==
  /\ lease # NoLease /\ ~lease.expired
  /\ lease' = [lease EXCEPT !.expired = TRUE]
  /\ UNCHANGED <<rowVars, seenVars, opVars, taskVars, stale, rec, ex, faults>>

\* The process dies wherever it is; another one starts.
Crash ==
  /\ faults < MaxFaults /\ faults' = faults + 1
  /\ pc' = [t \in Task |-> IF pc[t] # "new" /\ t \notin stale THEN "done" ELSE pc[t]]
  /\ rec' = [r \in Reconciler |-> IdlePass]
  /\ UNCHANGED <<rowVars, seenVars, lease, opVars, key, stale, ex>>

\* Another process becomes the owner while this one lives on, and may even begin
\* calls before it notices.
Superseded ==
  /\ faults < MaxFaults /\ faults' = faults + 1
  /\ \E s \in SUBSET Task : /\ {t \in Task : pc[t] # "new"} \subseteq s
                            /\ stale' = stale \cup s
  /\ UNCHANGED <<rowVars, seenVars, lease, opVars, taskVars, rec, ex>>

\* The exchange takes the order, refuses it, or never receives it.
ExchangeDecides(k) ==
  /\ ex[k] = "inflight"
  /\ \E fate \in {"live", "refused", "lost"} : ex' = [ex EXCEPT ![k] = fate]
  /\ UNCHANGED <<rowVars, seenVars, lease, opVars, taskVars, stale, rec, faults>>

\* An order is filled or canceled.
ExchangeCloses(k) ==
  /\ ex[k] = "live" /\ ex' = [ex EXCEPT ![k] = "closed"]
  /\ UNCHANGED <<rowVars, seenVars, lease, opVars, taskVars, stale, rec, faults>>

Submit(t) ==
  \/ Start(t) \/ AcquireLease(t) \/ InitialChecks(t) \/ PersistOrderIntent(t)
  \/ UpdateOrderSubmitting(t) \/ RenewLease(t) \/ FinalChecks(t)
  \/ ConfirmOrderRow(t) \/ CreateOrder(t)
  \/ OrderAnswered(t) \/ PersistAccepted(t) \/ PersistRejected(t) \/ PersistUncertain(t)
  \/ PauseForFault(t) \/ ReleaseLease(t)

Reconcile(r) ==
  \/ \E k \in Key : PickOrder(r, k)
  \/ LookUp(r) \/ LookUpFails(r) \/ RecordObservation(r) \/ ApplyExchangeSnapshot(r)
  \/ FinalizeAbsence(r) \/ MarkOrderForRecovery(r) \/ AbandonPass(r)

Next ==
  \/ \E t \in Task : Submit(t)
  \/ \E r \in Reconciler : Reconcile(r)
  \/ OperatorCommand \/ SetAuthority \/ LeaseExpires \/ Crash \/ Superseded
  \/ \E k \in Key : ExchangeDecides(k) \/ ExchangeCloses(k)

Spec == Init /\ [][Next]_vars

\* The event loop runs every call on, the exchange decides every request, and
\* passes are started again and again (scheduler, sync command, startup), each
\* over all active orders; getOrder and the database answer again and again, and
\* the clock reaches the absence bound.
FairSpec ==
  /\ Spec
  /\ \A t \in Task : WF_vars(Submit(t))
  /\ \A k \in Key : WF_vars(ExchangeDecides(k))
  /\ \A r \in Reconciler :
       /\ \A k \in Key : SF_vars(PickOrder(r, k))
       /\ \A results \in {{"missing"}, {"open", "closed", "absent"}} :
            /\ SF_vars(LookUp(r) /\ rec'[r].result \in results)
            /\ SF_vars(RecordObservation(r) /\ rec[r].result \in results)
       /\ SF_vars(ApplyExchangeSnapshot(r) \/ FinalizeAbsence(r))
       /\ WF_vars(AbandonPass(r))

-----------------------------------------------------------------------------
(***************************************************************************)
(* What the code promises.                                                 *)
(***************************************************************************)

Unresolved(k) == ex[k] \in {"inflight", "live"}
Terminal(k) == order[k].status \in {"FILLED", "REJECTED", "FAILED"}

\* An order that is on its way to the exchange or live there is a row that
\* listSubmissionBlockingOrders returns, wherever the process crashed, whatever
\* the adapter answered and whatever reconciliation made of it.
UnresolvedBlocks == \A k \in Key : Unresolved(k) => Blocking(k)

\* An absence-confirmed row never reached the exchange and never will: RISK_POLICY
\* counts it among the "rows with definitive non-dispatch authority".
AbsenceIsNonDispatch ==
  \A k \in Key : AbsenceConfirmed(k) => ex[k] \in {"none", "refused", "lost"}

\* createOrder is never called while another order of the account is on its way
\* or live, although leases expire and are taken over between the checks.
SendsExclusive ==
  [][\A k \in Key : ex[k] # ex'[k] /\ ex'[k] = "inflight"
       => \A j \in Key \ {k} : ~Unresolved(j)]_vars

\* createOrder is called at most once for an idempotency key, whichever calls
\* race past the duplicate lookup and whichever process they run in.
SentOnce ==
  [][\A k \in Key : ex[k] # ex'[k] /\ ex'[k] = "inflight" => ex[k] = "none"]_vars

\* A task's lease is not deleted, by it or by anybody, while the order it sent is
\* on its way or live: "active, uncertain, or post-send persistence-failure
\* outcomes retain it".
LeaseKept ==
  [][lease # NoLease /\ lease' = NoLease
       => \A k \in Key : order[k].by = lease.owner => ~Unresolved(k)]_vars

\* A terminal row never changes and the exchange's uuid is never lost, although
\* submission and reconciliation write the same row across awaits.
LifecycleForward ==
  [][\A k \in Key : /\ Terminal(k) => order'[k] = order[k]
                    /\ order[k].uuid => order'[k].uuid]_vars

\* A row that may have been dispatched is eventually resolved: found at the
\* exchange, rejected, or confirmed absent.
RecoveryConcludes ==
  \A k \in Key : order[k].status \in {"SUBMITTING", "RECONCILIATION_REQUIRED"}
                    ~> order[k].status = "OPEN" \/ Terminal(k)

===============================================================================
