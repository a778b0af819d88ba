------------------------- MODULE OrderSubmissionProofs -------------------------
(***************************************************************************)
(* Proofs about OrderSubmission, for any sets of calls, keys and passes,   *)
(* any decisions and any number of faults.                                 *)
(*                                                                         *)
(* IInv strengthens the checked properties.  Its unconditional part says   *)
(* who wrote a row, what calls and passes were told and what a call that   *)
(* gives its lease back leaves behind.  Its conditional part holds when    *)
(* the absence bound outlasts a request (Prompt): absence is concluded     *)
(* only of what is gone, so rows that are or may be sent stay active, so   *)
(* they block a rival's final checks, so sends exclude each other.         *)
(***************************************************************************)
EXTENDS OrderSubmission, TLAPS

\* Stages of a call: its row is written and not sent; sent and not yet written
\* back; and not yet written.
Unsent == {"submitting", "renew", "final", "confirm", "send"}
Answered == {"awaiting", "open", "closed", "rejected", "error"}
Early == {"new", "lease", "checks", "persist"}

\* No request of k is or will be at the exchange.
Gone(k) ==
  /\ ex[k] \in {"none", "refused", "lost"}
  /\ \A t \in Task : key[t] = k => pc[t] \notin Unsent

\* A row belongs to the task that wrote it, and only that task sends it, once.
Authorship ==
  /\ \A k \in Key : order[k].status = "none" => order[k] = NoOrder /\ ex[k] = "none"
  /\ \A k \in Key : \A t \in Task : order[k].by = t => key[t] = k /\ pc[t] \notin Early
  /\ \A t \in Task : pc[t] \in Unsent \cup Answered => order[key[t]].by = t
  /\ \A t \in Task : pc[t] \in Unsent => ex[key[t]] = "none"

\* What a task or a pass was told is still so.
Told ==
  /\ \A t \in Task : /\ pc[t] = "closed" => ex[key[t]] = "closed"
                     /\ pc[t] = "rejected" => ex[key[t]] = "refused"
                     /\ pc[t] = "open" => ex[key[t]] \in {"live", "closed"}
  /\ \A r \in Reconciler : rec[r].at # "idle" =>
       /\ order[rec[r].key].status # "none" /\ rec[r].row.status \in ActiveStatuses
       /\ rec[r].result = "open" => ex[rec[r].key] \in {"live", "closed"}
       /\ rec[r].result = "closed" => ex[rec[r].key] = "closed"
       /\ rec[r].at = "apply" => rec[r].result \in {"open", "closed"}

\* A row that is being submitted is active and carries no exchange evidence.
Evidence ==
  /\ \A k \in Key : order[k].uuid => ex[k] \in {"live", "closed"}
  /\ \A k \in Key : order[k].status \in {"PERSISTED", "SUBMITTING"} => ~order[k].uuid

\* Absence is concluded only of what is gone.
AbsenceSound ==
  /\ \A k \in Key : order[k].status = "FAILED" => Gone(k)
  /\ \A k \in Key : missed[k] = Enough => Gone(k) /\ order[k].status # "none"
  /\ \A r \in Reconciler : rec[r].at # "idle" =>
       (rec[r].result = "absent" \/ rec[r].at = "finalize" => Gone(rec[r].key))

\* The row of a call that may still send is one that blocks others.
UnsentActive ==
  \A t \in Task : pc[t] \in Unsent => order[key[t]].status \in ActiveStatuses

\* So is the row of an order that is on its way or live.
UnresolvedActive ==
  \A k \in Key : Unresolved(k) => order[k].status \in ActiveStatuses

\* A call past its final checks is alone: no other order is on its way or live, and
\* no other call is about to send.
Exclusive ==
  \A t \in Task : pc[t] \in {"confirm", "send"} =>
    /\ \A j \in Key \ {key[t]} : ~Unresolved(j)
    /\ \A s \in Task : pc[s] \in {"confirm", "send"} => key[s] = key[t]

\* A call that is about to give its lease back left no order on its way or live.
Releasable ==
  \A t \in Task : pc[t] \in {"release", "faultThenRelease"} =>
    \A k \in Key : order[k].by = t => ~Unresolved(k)

\* The inductive invariant.
IInv ==
  /\ TypeOK /\ Authorship /\ Told /\ Evidence /\ Releasable
  /\ Prompt => AbsenceSound /\ UnsentActive /\ UnresolvedActive /\ Exclusive

--------------------------------------------------------------------------------

(***************************************************************************)
(* Rows and passes are well-formed.                                        *)
(***************************************************************************)

\* The rows the code writes are rows.
LEMMA RowsTyped ==
  ASSUME NEW t \in Task
  PROVE  /\ NoOrder \in Row
         /\ [NoOrder EXCEPT !.status = "PERSISTED", !.by = t] \in Row
         /\ SubmittingRow(t) \in Row
         /\ UncertainRow(t) \in Row
         /\ \A s \in Statuses : [SubmittingRow(t) EXCEPT !.status = s,
                                   !.uuid = TRUE, !.response = TRUE] \in Row
         /\ [SubmittingRow(t) EXCEPT !.status = "REJECTED", !.response = TRUE,
                   !.code = "EXCHANGE_ORDER_REJECTED"] \in Row
  BY DEF NoOrder, Row, SubmittingRow, UncertainRow, Statuses, ActiveStatuses

\* A pass that is under way has a key, a row and a result.
LEMMA PassTyped ==
  ASSUME TypeOK, NEW r \in Reconciler, rec[r].at # "idle"
  PROVE  /\ rec[r] \in [at : {"looking", "answered", "apply", "finalize"}, key : Key,
                         row : Row, result : Lookups]
         /\ rec[r].key \in Key /\ rec[r].row \in Row /\ rec[r].result \in Lookups
  BY DEF TypeOK, Pass, IdlePass

\* A write leaves rows and sets of events.
LEMMA WriteTyped ==
  ASSUME TypeOK, NEW k \in Key, NEW row \in Row, NEW new \in SUBSET EventTypes,
         Write(k, row, new)
  PROVE  order' \in [Key -> Row] /\ events' \in [Key -> SUBSET EventTypes]
  <1>1. order' \in [Key -> Row]
    BY DEF Write, TypeOK
  <1>2. events[k] \cup new \in SUBSET EventTypes
    BY DEF TypeOK
  <1>3. events' = [events EXCEPT ![k] = events[k] \cup new]
    BY DEF Write
  <1> QED
    BY <1>1, <1>2, <1>3 DEF TypeOK

\* Initial states are typed.
LEMMA InitTyped == Init => TypeOK
  <1> SUFFICES ASSUME Init PROVE TypeOK
    OBVIOUS
  <1>1. NoOrder \in Row
    BY DEF NoOrder, Row, Statuses, ActiveStatuses
  <1> QED
    BY <1>1, OrderAssumption DEF Init, TypeOK, Lease, NoLease, Stages, Pass, IdlePass, Fates

\* Every step of executeOrder keeps the types.
LEMMA SubmitTyped ==
  ASSUME TypeOK, NEW t \in Task, Submit(t)
  PROVE  TypeOK'
  <1> USE DEF Goto
  <1>1. CASE Start(t)
    BY <1>1 DEF Start, TypeOK, Stages, rowVars, seenVars, opVars
  <1>2. CASE AcquireLease(t)
    <2>1. lease' \in Lease
      <3>1. [owner |-> t, expired |-> FALSE] \in Lease
        BY DEF Lease
      <3> QED
        BY <1>2, <3>1 DEF AcquireLease, TypeOK
    <2>2. pc' \in [Task -> Stages]
      BY <1>2 DEF AcquireLease, TypeOK, Stages
    <2> QED
      BY <1>2, <2>1, <2>2 DEF AcquireLease, TypeOK, rowVars, seenVars, opVars
  <1>3. CASE InitialChecks(t)
    BY <1>3 DEF InitialChecks, TypeOK, Stages, rowVars, seenVars, opVars
  <1>4. CASE PersistOrderIntent(t)
    <2>0. key[t] \in Key
      BY DEF TypeOK
    <2>2. order' \in [Key -> Row] /\ events' \in [Key -> SUBSET EventTypes]
      <3>1. CASE UNCHANGED rowVars
        BY <3>1 DEF TypeOK, rowVars
      <3>2. CASE Write(key[t], [NoOrder EXCEPT !.status = "PERSISTED", !.by = t], {})
        <4>1. {} \in SUBSET EventTypes
          BY DEF EventTypes
        <4> QED
          BY <3>2, <4>1, <2>0, RowsTyped, WriteTyped
      <3> QED
        BY <1>4, <3>1, <3>2 DEF PersistOrderIntent
    <2>3. pc' \in [Task -> Stages]
      BY <1>4 DEF PersistOrderIntent, TypeOK, Stages
    <2> QED
      BY <1>4, <2>2, <2>3 DEF PersistOrderIntent, TypeOK, seenVars, opVars
  <1>5. CASE UpdateOrderSubmitting(t)
    <2>0. key[t] \in Key
      BY DEF TypeOK
    <2>2. order' \in [Key -> Row] /\ events' \in [Key -> SUBSET EventTypes]
      <3>1. CASE UNCHANGED rowVars
        BY <3>1 DEF TypeOK, rowVars
      <3>2. CASE Write(key[t], SubmittingRow(t), {})
        <4>1. {} \in SUBSET EventTypes
          BY DEF EventTypes
        <4> QED
          BY <3>2, <4>1, <2>0, RowsTyped, WriteTyped
      <3> QED
        BY <1>5, <3>1, <3>2 DEF UpdateOrderSubmitting
    <2>3. pc' \in [Task -> Stages]
      BY <1>5 DEF UpdateOrderSubmitting, TypeOK, Stages
    <2> QED
      BY <1>5, <2>2, <2>3 DEF UpdateOrderSubmitting, TypeOK, seenVars, opVars
  <1>6. CASE RenewLease(t)
    BY <1>6 DEF RenewLease, TypeOK, Stages, rowVars, seenVars, opVars
  <1>7. CASE FinalChecks(t)
    BY <1>7 DEF FinalChecks, TypeOK, Stages, rowVars, seenVars, opVars
  <1>8. CASE ConfirmOrderRow(t)
    BY <1>8 DEF ConfirmOrderRow, TypeOK, Stages, rowVars, seenVars, opVars
  <1>9. CASE CreateOrder(t)
    BY <1>9 DEF CreateOrder, TypeOK, Stages, Fates, rowVars, seenVars, opVars
  <1>10. CASE OrderAnswered(t)
    BY <1>10 DEF OrderAnswered, AdapterAnswers, TypeOK, Stages, rowVars, seenVars, opVars
  <1>11. CASE PersistAccepted(t)
    <2>0. key[t] \in Key /\ StatusOf(pc[t]) \in Statuses
      BY DEF TypeOK, StatusOf, Statuses, ActiveStatuses
    <2>2. order' \in [Key -> Row] /\ events' \in [Key -> SUBSET EventTypes]
      <3>1. CASE UNCHANGED rowVars
        BY <3>1 DEF TypeOK, rowVars
      <3>2. CASE Write(key[t], [SubmittingRow(t) EXCEPT !.status = StatusOf(pc[t]),
                   !.uuid = TRUE, !.response = TRUE], {"ORDER_SUBMITTED"})
        <4>1. {"ORDER_SUBMITTED"} \in SUBSET EventTypes
          BY DEF EventTypes
        <4> QED
          BY <3>2, <4>1, <2>0, RowsTyped, WriteTyped
      <3> QED
        BY <1>11, <3>1, <3>2 DEF PersistAccepted
    <2>3. pc' \in [Task -> Stages]
      BY <1>11 DEF PersistAccepted, TypeOK, Stages
    <2> QED
      BY <1>11, <2>2, <2>3 DEF PersistAccepted, TypeOK, seenVars, opVars
  <1>12. CASE PersistRejected(t)
    <2>0. key[t] \in Key
      BY DEF TypeOK
    <2>2. order' \in [Key -> Row] /\ events' \in [Key -> SUBSET EventTypes]
      <3>1. CASE UNCHANGED rowVars
        BY <3>1 DEF TypeOK, rowVars
      <3>2. CASE Write(key[t], [SubmittingRow(t) EXCEPT !.status = "REJECTED",
                   !.response = TRUE, !.code = "EXCHANGE_ORDER_REJECTED"], {"ORDER_REJECTED"})
        <4>1. {"ORDER_REJECTED"} \in SUBSET EventTypes
          BY DEF EventTypes
        <4> QED
          BY <3>2, <4>1, <2>0, RowsTyped, WriteTyped
      <3> QED
        BY <1>12, <3>1, <3>2 DEF PersistRejected
    <2>3. pc' \in [Task -> Stages]
      BY <1>12 DEF PersistRejected, TypeOK, Stages
    <2> QED
      BY <1>12, <2>2, <2>3 DEF PersistRejected, TypeOK, seenVars, opVars
  <1>13. CASE PersistUncertain(t)
    <2>0. key[t] \in Key
      BY DEF TypeOK
    <2>2. order' \in [Key -> Row] /\ events' \in [Key -> SUBSET EventTypes]
      <3>1. CASE UNCHANGED rowVars
        BY <3>1 DEF TypeOK, rowVars
      <3>2. CASE Write(key[t], UncertainRow(t), {"RECOVERY_REQUIRED"})
        <4>1. {"RECOVERY_REQUIRED"} \in SUBSET EventTypes
          BY DEF EventTypes
        <4> QED
          BY <3>2, <4>1, <2>0, RowsTyped, WriteTyped
      <3> QED
        BY <1>13, <3>1, <3>2 DEF PersistUncertain
    <2>3. pc' \in [Task -> Stages]
      BY <1>13 DEF PersistUncertain, TypeOK, Stages
    <2> QED
      BY <1>13, <2>2, <2>3 DEF PersistUncertain, TypeOK, seenVars, opVars
  <1>14. CASE PauseForFault(t)
    BY <1>14 DEF PauseForFault, TypeOK, Stages, rowVars, seenVars
  <1>15. CASE ReleaseLease(t)
    <2>1. lease' \in Lease
      <3>1. NoLease \in Lease
        BY DEF Lease, NoLease
      <3> QED
        BY <1>15, <3>1 DEF ReleaseLease, LeaseAfterRelease, TypeOK
    <2>2. pc' \in [Task -> Stages]
      BY <1>15 DEF ReleaseLease, TypeOK, Stages
    <2> QED
      BY <1>15, <2>1, <2>2 DEF ReleaseLease, TypeOK, rowVars, seenVars, opVars
  <1> QED
    BY <1>1, <1>2, <1>3, <1>4, <1>5, <1>6, <1>7, <1>8, <1>9, <1>10, <1>11, <1>12,
       <1>13, <1>14, <1>15 DEF Submit

\* Every step of a reconciliation pass keeps the types.
LEMMA ReconcileTyped ==
  ASSUME TypeOK, NEW r \in Reconciler, Reconcile(r)
  PROVE  TypeOK'
  <1> USE DEF rowVars, seenVars, opVars, taskVars
  <1>0. IdlePass \in Pass
    BY DEF Pass
  <1>1. CASE \E k \in Key : PickOrder(r, k)
    <2>1. PICK k \in Key : PickOrder(r, k)
      BY <1>1
    <2>2. [at |-> "looking", key |-> k, row |-> order[k], result |-> "none"] \in Pass
      BY DEF TypeOK, Pass, Lookups
    <2> QED
      BY <2>1, <2>2 DEF PickOrder, TypeOK
  <1>2. ASSUME rec[r].at = "looking", NEW result \in Lookups,
               rec' = [rec EXCEPT ![r].at = "answered", ![r].result = result],
               UNCHANGED <<rowVars, seenVars, lease, opVars, taskVars, stale, ex, faults>>
        PROVE  TypeOK'
    <2>1. [rec[r] EXCEPT !.at = "answered", !.result = result] \in Pass
      BY <1>2, PassTyped DEF Pass
    <2> QED
      BY <1>2, <2>1 DEF TypeOK
  <1>3. CASE LookUp(r)
    <2>1. LookupResults(rec[r].key) \subseteq Lookups
      BY DEF LookupResults, Lookups
    <2> QED
      BY <1>2, <1>3, <2>1 DEF LookUp
  <1>4. CASE LookUpFails(r)
    BY <1>2, <1>4 DEF LookUpFails, Lookups
  <1>5. CASE RecordObservation(r)
    <2>1. \A at \in {"apply", "finalize"} : [rec[r] EXCEPT !.at = at] \in Pass
      BY <1>5, PassTyped DEF Pass, RecordObservation
    <2>2. rec' \in [Reconciler -> Pass]
      BY <1>0, <1>5, <2>1 DEF RecordObservation, Idle, TypeOK
    <2>3. missed' \in [Key -> 0 .. Enough]
      <3>1. rec[r].key \in Key
        BY <1>5, PassTyped DEF RecordObservation
      <3> DEFINE m == missed[rec[r].key]
                 n == CASE rec[r].result = "absent" -> Enough
                        [] rec[r].result = "missing" /\ m + 1 < Enough -> m + 1
                        [] OTHER -> m
      <3>2. missed' = [missed EXCEPT ![rec[r].key] = n]
        BY <1>5 DEF RecordObservation
      <3>3. n \in 0 .. Enough
        <4>1. m \in 0 .. Enough /\ Enough \in Nat
          BY <3>1, OrderAssumption DEF TypeOK
        <4> HIDE DEF m
        <4> QED
          BY <4>1
      <3> HIDE DEF n
      <3> QED
        BY <3>2, <3>3 DEF TypeOK
    <2>4. found' \in [Key -> BOOLEAN]
      BY <1>5 DEF RecordObservation, TypeOK
    <2> QED
      BY <1>5, <2>2, <2>3, <2>4 DEF RecordObservation, TypeOK
  <1>6. CASE ApplyExchangeSnapshot(r)
    <2>1. [rec[r].row EXCEPT !.uuid = TRUE, !.response = TRUE, !.code = "null",
              !.status = StatusOf(rec[r].result)] \in Row
      BY <1>6, PassTyped DEF ApplyExchangeSnapshot, Row, StatusOf, Statuses, ActiveStatuses
    <2> QED
      BY <1>0, <1>6, <2>1 DEF ApplyExchangeSnapshot, Write, Idle, TypeOK
  <1>7. CASE FinalizeAbsence(r)
    <2>1. rec[r].key \in Key
      BY <1>7, PassTyped DEF FinalizeAbsence
    <2>2. [order[rec[r].key] EXCEPT !.status = "FAILED",
              !.code = "ORDER_SUBMISSION_ABSENCE_CONFIRMED"] \in Row
      <3>1. order[rec[r].key] \in Row
        BY <2>1 DEF TypeOK
      <3> QED
        BY <3>1 DEF Row, Statuses
    <2> QED
      BY <1>0, <1>7, <2>1, <2>2, WriteTyped DEF FinalizeAbsence, Idle, TypeOK, EventTypes
  <1>8. CASE MarkOrderForRecovery(r)
    <2>1. rec[r].key \in Key
      BY <1>8, PassTyped DEF MarkOrderForRecovery
    <2>2. [order[rec[r].key] EXCEPT !.status = "RECONCILIATION_REQUIRED",
              !.code = "RECONCILIATION_REQUIRED"] \in Row
      <3>1. order[rec[r].key] \in Row
        BY <2>1 DEF TypeOK
      <3> QED
        BY <3>1 DEF Row, Statuses, ActiveStatuses
    <2> QED
      BY <1>0, <1>8, <2>1, <2>2, WriteTyped DEF MarkOrderForRecovery, Idle, TypeOK, EventTypes
  <1>9. CASE AbandonPass(r)
    BY <1>0, <1>9 DEF AbandonPass, Idle, TypeOK
  <1> QED
    BY <1>1, <1>3, <1>4, <1>5, <1>6, <1>7, <1>8, <1>9 DEF Reconcile

\* The steps of the operator, the clock and the process.
Disturbance == OperatorCommand \/ SetAuthority \/ LeaseExpires \/ Crash \/ Superseded

\* So do the operator, the clock, the process and the exchange.
LEMMA EnvironmentTyped ==
  ASSUME TypeOK,
         Disturbance \/ \E k \in Key : ExchangeDecides(k) \/ ExchangeCloses(k)
  PROVE  TypeOK'
  <1> USE DEF rowVars, seenVars, opVars, taskVars
  <1>1. CASE OperatorCommand
    BY <1>1 DEF OperatorCommand, TypeOK
  <1>2. CASE SetAuthority
    BY <1>2 DEF SetAuthority, TypeOK
  <1>3. CASE LeaseExpires
    BY <1>3 DEF LeaseExpires, TypeOK, Lease
  <1>4. CASE Crash
    BY <1>4 DEF Crash, TypeOK, Stages, Pass
  <1>5. CASE Superseded
    BY <1>5 DEF Superseded, TypeOK
  <1>6. CASE \E k \in Key : ExchangeDecides(k) \/ ExchangeCloses(k)
    BY <1>6 DEF ExchangeDecides, ExchangeCloses, TypeOK, Fates
  <1> QED
    BY <1>1, <1>2, <1>3, <1>4, <1>5, <1>6 DEF Disturbance

--------------------------------------------------------------------------------
(***************************************************************************)
(* Steps that write no row and send nothing.                               *)
(***************************************************************************)

\* A task gives up, goes on before its intent, or goes on between its checks.
Quiet(a, b) ==
  \/ b = a
  \/ b \in {"done", "fault"}
  \/ a \in Early /\ b \in Early
  \/ a \in Early \cup {"submitting", "faultThenRelease"} /\ b \in {"release", "faultThenRelease"}
  \/ a = "renew" /\ b = "final"
  \/ a = "confirm" /\ b = "send"

\* Such steps, and passes that end, keep the invariant.
LEMMA QuietStep ==
  ASSUME IInv, TypeOK', UNCHANGED <<order, missed, key, ex>>,
         \A t \in Task : Quiet(pc[t], pc'[t]),
         \A r \in Reconciler : rec'[r] = rec[r] \/ rec'[r] = IdlePass
  PROVE  IInv'
  <1> USE DEF Quiet, Unsent, Answered, Early
  <1>1. \A r \in Reconciler : rec'[r].at # "idle" => rec'[r] = rec[r]
    BY DEF IdlePass
  <1>2. Authorship'
    BY DEF IInv, Authorship
  <1>3. Told'
    BY <1>1 DEF IInv, Told
  <1>4. Evidence'
    BY DEF IInv, Evidence
  <1>5. Releasable'
    BY DEF IInv, Authorship, Releasable, Unresolved, TypeOK
  <1>6. ASSUME Prompt
        PROVE  AbsenceSound' /\ UnsentActive' /\ UnresolvedActive' /\ Exclusive'
    <2>1. \A k \in Key : Gone(k) => Gone(k)'
      BY <1>6 DEF Gone
    <2>2. AbsenceSound'
      BY <1>1, <1>6, <2>1, PassTyped DEF IInv, AbsenceSound
    <2>3. UnsentActive'
      BY <1>6 DEF IInv, UnsentActive
    <2>4. UnresolvedActive'
      BY <1>6 DEF IInv, UnresolvedActive, Unresolved
    <2>5. Exclusive'
      BY <1>6 DEF IInv, Exclusive, Unresolved
    <2> QED
      BY <2>2, <2>3, <2>4, <2>5
  <1> QED
    BY <1>2, <1>3, <1>4, <1>5, <1>6 DEF IInv

\* The same for one task that moves on.
LEMMA QuietTask ==
  ASSUME IInv, TypeOK', NEW t \in Task, NEW stage, Goto(t, stage), Quiet(pc[t], stage),
         UNCHANGED <<order, missed, key, ex, rec>>
  PROVE  IInv'
  <1>1. \A s \in Task : Quiet(pc[s], pc'[s])
    BY DEF Goto, Quiet, IInv, TypeOK
  <1> QED
    BY <1>1, QuietStep

--------------------------------------------------------------------------------
(***************************************************************************)
(* Steps of a submission.                                                  *)
(***************************************************************************)

\* The order intent: a new row, owned by the task that goes on to submit it.
LEMMA IntentStep ==
  ASSUME IInv, TypeOK', NEW t \in Task, pc[t] = "persist", order[key[t]] = NoOrder,
         Write(key[t], [NoOrder EXCEPT !.status = "PERSISTED", !.by = t], {}),
         Goto(t, "submitting"), UNCHANGED <<missed, key, ex, rec>>
  PROVE  IInv'
  <1> DEFINE k == key[t]
  <1>1. k \in Key
    BY DEF IInv, TypeOK
  <1>2. /\ order'[k].status = "PERSISTED" /\ order'[k].by = t /\ ~order'[k].uuid
        /\ \A j \in Key \ {k} : order'[j] = order[j]
    BY <1>1 DEF Write, NoOrder, IInv, TypeOK
  <1>3. pc'[t] = "submitting" /\ \A s \in Task \ {t} : pc'[s] = pc[s]
    BY DEF Goto, IInv, TypeOK
  <1>4. order[k].status = "none" /\ order[k].by = NoTask /\ ex[k] = "none"
    BY <1>1 DEF NoOrder, IInv, Authorship
  <1>5. \A s \in Task : key[s] \in Key
    BY DEF IInv, TypeOK
  <1> HIDE DEF k
  <1>6. \A s \in Task \ {t} : key[s] = k => pc[s] \notin Unsent \cup Answered
    BY <1>4, OrderAssumption DEF IInv, Authorship
  <1> USE DEF Unsent, Answered, Early
  <1>7. Authorship'
    BY <1>1, <1>2, <1>3, <1>4, <1>5, <1>6, OrderAssumption DEF IInv, Authorship, k
  <1>8. Told'
    BY <1>1, <1>2, <1>3, <1>4, PassTyped DEF IInv, Told
  <1>9. Evidence'
    BY <1>1, <1>2 DEF IInv, Evidence
  <1>10. Releasable'
    BY <1>1, <1>2, <1>3 DEF IInv, Releasable, Unresolved
  <1>11. ASSUME Prompt
         PROVE  AbsenceSound' /\ UnsentActive' /\ UnresolvedActive' /\ Exclusive'
    <2>1. \A j \in Key \ {k} : Gone(j) => Gone(j)'
      BY <1>3 DEF Gone, k
    <2>2. AbsenceSound'
      BY <1>1, <1>2, <1>4, <1>11, <2>1, PassTyped DEF IInv, AbsenceSound, Told
    <2>3. UnsentActive'
      BY <1>1, <1>2, <1>3, <1>5, <1>11 DEF IInv, UnsentActive, ActiveStatuses, k
    <2>4. UnresolvedActive'
      BY <1>1, <1>2, <1>11 DEF IInv, UnresolvedActive, Unresolved, ActiveStatuses
    <2>5. Exclusive'
      BY <1>3, <1>11 DEF IInv, Exclusive, Unresolved
    <2> QED
      BY <2>2, <2>3, <2>4, <2>5
  <1> QED
    BY <1>7, <1>8, <1>9, <1>10, <1>11 DEF IInv

\* A write by the row's own task, before its send or after the answer, that is
\* true of the exchange: it keeps the owner, takes no uuid away, and leaves the
\* active states only with an order that is resolved.
LEMMA OwnWrite ==
  ASSUME IInv, TypeOK', NEW t \in Task, NEW stage, NEW row \in Row, NEW new,
         pc[t] \in {"submitting"} \cup (Answered \ {"awaiting"}),
         Write(key[t], row, new), Goto(t, stage), UNCHANGED <<missed, key, ex, rec>>,
         row.by = t, row.status \notin {"none", "PERSISTED", "FAILED"},
         row.uuid => ex[key[t]] \in {"live", "closed"} /\ row.status # "SUBMITTING",
         Unresolved(key[t]) => row.status \in ActiveStatuses,
         \/ pc[t] = "submitting" /\ row.status = "SUBMITTING" /\ stage = "renew"
         \/ pc[t] # "submitting" /\ stage \in {"done", "fault"}
         \/ pc[t] # "submitting" /\ stage = "release" /\ ~Unresolved(key[t])
  PROVE  IInv'
  <1> DEFINE k == key[t]
  <1>1. k \in Key /\ \A s \in Task : key[s] \in Key
    BY DEF IInv, TypeOK
  <1>2. order'[k] = row /\ \A j \in Key \ {k} : order'[j] = order[j]
    BY <1>1 DEF Write, IInv, TypeOK
  <1>3. pc'[t] = stage /\ \A s \in Task \ {t} : pc'[s] = pc[s]
    BY DEF Goto, IInv, TypeOK
  <1> USE DEF Unsent, Answered, Early
  <1>4. order[k].by = t /\ order[k].status # "none"
    <2>1. order[k].by = t
      BY <1>1 DEF IInv, Authorship
    <2> QED
      BY <1>1, <2>1, OrderAssumption DEF IInv, Authorship, NoOrder
  <1> HIDE DEF k
  <1>5. \A s \in Task \ {t} : key[s] = k => pc[s] \notin Unsent \cup Answered
    BY <1>4 DEF IInv, Authorship
  <1>6. Authorship'
    BY <1>1, <1>2, <1>3, <1>4, <1>5 DEF IInv, Authorship, k
  <1>7. Told'
    BY <1>1, <1>2, <1>3, <1>4, PassTyped DEF IInv, Told
  <1>8. Evidence'
    BY <1>1, <1>2 DEF IInv, Evidence, k
  <1>9. Releasable'
    BY <1>1, <1>2, <1>3, <1>4 DEF IInv, Authorship, Releasable, Unresolved, k
  <1>10. ASSUME Prompt
         PROVE  AbsenceSound' /\ UnsentActive' /\ UnresolvedActive' /\ Exclusive'
    <2>1. \A j \in Key : Gone(j) => Gone(j)'
      BY <1>3 DEF Gone
    <2>2. AbsenceSound'
      BY <1>1, <1>2, <1>10, <2>1, PassTyped DEF IInv, AbsenceSound
    <2>3. UnsentActive'
      BY <1>1, <1>2, <1>3, <1>5, <1>10 DEF IInv, UnsentActive, ActiveStatuses, k
    <2>4. UnresolvedActive'
      BY <1>1, <1>2, <1>10 DEF IInv, UnresolvedActive, Unresolved, k
    <2>5. Exclusive'
      BY <1>3, <1>10 DEF IInv, Exclusive, Unresolved
    <2> QED
      BY <2>2, <2>3, <2>4, <2>5
  <1> QED
    BY <1>6, <1>7, <1>8, <1>9, <1>10 DEF IInv

\* The final checks let one task of one key through: a rival that is past them
\* has a row that blocks, and so has an order that is on its way or live.
LEMMA FinalChecksStep ==
  ASSUME IInv, TypeOK', NEW t \in Task, pc[t] = "final", SendAuthorized(t),
         Goto(t, "confirm"), UNCHANGED <<order, missed, key, ex, rec>>
  PROVE  IInv'
  <1> USE DEF Unsent, Answered, Early
  <1>1. pc'[t] = "confirm" /\ \A s \in Task \ {t} : pc'[s] = pc[s]
    BY DEF Goto, IInv, TypeOK
  <1>2. Authorship' /\ Told' /\ Evidence' /\ Releasable'
    BY <1>1 DEF IInv, Authorship, Told, Evidence, Releasable, Unresolved
  <1>3. ASSUME Prompt
        PROVE  AbsenceSound' /\ UnsentActive' /\ UnresolvedActive' /\ Exclusive'
    <2>1. \A k \in Key : Gone(k) => Gone(k)'
      BY <1>1 DEF Gone
    <2>2. AbsenceSound'
      BY <1>3, <2>1, PassTyped DEF IInv, AbsenceSound
    <2>3. UnsentActive' /\ UnresolvedActive'
      BY <1>1, <1>3 DEF IInv, UnsentActive, UnresolvedActive, Unresolved
    <2>4. \A j \in Key \ {key[t]} : order[j].status \notin ActiveStatuses
      BY DEF SendAuthorized, Blocking
    <2>5. \A j \in Key \ {key[t]} : ~Unresolved(j)
      BY <1>3, <2>4 DEF IInv, UnresolvedActive
    <2>6. \A s \in Task : pc[s] \in {"confirm", "send"} => key[s] = key[t]
      BY <1>3, <2>4 DEF IInv, UnsentActive, TypeOK
    <2>7. Exclusive'
      BY <1>1, <1>3, <2>5, <2>6 DEF IInv, Exclusive, Unresolved
    <2> QED
      BY <2>2, <2>3, <2>7
  <1> QED
    BY <1>2, <1>3 DEF IInv

\* The send itself.
LEMMA SendStep ==
  ASSUME IInv, TypeOK', NEW t \in Task, pc[t] = "send",
         ex' = [ex EXCEPT ![key[t]] = "inflight"], Goto(t, "awaiting"),
         UNCHANGED <<order, missed, key, rec>>
  PROVE  IInv'
  <1> DEFINE k == key[t]
  <1>1. k \in Key /\ \A s \in Task : key[s] \in Key
    BY DEF IInv, TypeOK
  <1>2. ex'[k] = "inflight" /\ \A j \in Key \ {k} : ex'[j] = ex[j]
    BY <1>1 DEF IInv, TypeOK
  <1>3. pc'[t] = "awaiting" /\ \A s \in Task \ {t} : pc'[s] = pc[s]
    BY DEF Goto, IInv, TypeOK
  <1> USE DEF Unsent, Answered, Early
  <1>4. order[k].by = t /\ order[k].status # "none" /\ ex[k] = "none"
    <2>1. order[k].by = t /\ ex[k] = "none"
      BY <1>1 DEF IInv, Authorship
    <2> QED
      BY <1>1, <2>1, OrderAssumption DEF IInv, Authorship, NoOrder
  <1> HIDE DEF k
  <1>5. \A s \in Task \ {t} : key[s] = k => pc[s] \notin Unsent \cup Answered
    BY <1>4 DEF IInv, Authorship
  <1>6. Authorship'
    BY <1>1, <1>2, <1>3, <1>4, <1>5 DEF IInv, Authorship, k
  <1>7. Told'
    BY <1>1, <1>2, <1>3, <1>4, PassTyped DEF IInv, Told, k
  <1>8. Evidence'
    BY <1>1, <1>2, <1>4 DEF IInv, Evidence
  <1>9. Releasable'
    BY <1>1, <1>2, <1>3, <1>4 DEF IInv, Releasable, Unresolved
  <1>10. ASSUME Prompt
         PROVE  AbsenceSound' /\ UnsentActive' /\ UnresolvedActive' /\ Exclusive'
    <2>1. \A j \in Key : Gone(j) => Gone(j)'
      BY <1>2, <1>3 DEF Gone, k
    <2>2. AbsenceSound'
      BY <1>10, <2>1, PassTyped DEF IInv, AbsenceSound
    <2>3. UnsentActive'
      BY <1>3, <1>10 DEF IInv, UnsentActive
    <2>4. UnresolvedActive'
      BY <1>2, <1>10 DEF IInv, UnsentActive, UnresolvedActive, Unresolved, k
    <2>5. \A s \in Task : pc'[s] \notin {"confirm", "send"}
      BY <1>3, <1>5, <1>10 DEF IInv, Exclusive, k
    <2> QED
      BY <2>2, <2>3, <2>4, <2>5 DEF Exclusive
  <1> QED
    BY <1>6, <1>7, <1>8, <1>9, <1>10 DEF IInv

\* The answer says what the exchange did.
LEMMA AnswerStep ==
  ASSUME IInv, TypeOK', NEW t \in Task, pc[t] = "awaiting",
         NEW a \in AdapterAnswers(key[t]), Goto(t, a),
         UNCHANGED <<order, missed, key, ex, rec>>
  PROVE  IInv'
  <1> USE DEF Unsent, Answered, Early
  <1>1. pc'[t] = a /\ \A s \in Task \ {t} : pc'[s] = pc[s]
    BY DEF Goto, IInv, TypeOK
  <1>2. /\ a \in {"error", "open", "closed", "rejected"}
        /\ a = "closed" => ex[key[t]] = "closed"
        /\ a = "rejected" => ex[key[t]] = "refused"
        /\ a = "open" => ex[key[t]] \in {"live", "closed"}
    BY DEF AdapterAnswers
  <1>3. Authorship'
    BY <1>1, <1>2 DEF IInv, Authorship
  <1>4. Told'
    BY <1>1, <1>2 DEF IInv, Told
  <1>5. Evidence' /\ Releasable'
    BY <1>1, <1>2 DEF IInv, Evidence, Releasable, Unresolved
  <1>6. ASSUME Prompt
        PROVE  AbsenceSound' /\ UnsentActive' /\ UnresolvedActive' /\ Exclusive'
    <2>1. \A k \in Key : Gone(k) => Gone(k)'
      BY <1>1, <1>2 DEF Gone
    <2>2. AbsenceSound'
      BY <1>6, <2>1, PassTyped DEF IInv, AbsenceSound
    <2>3. UnsentActive' /\ UnresolvedActive' /\ Exclusive'
      BY <1>1, <1>2, <1>6 DEF IInv, UnsentActive, UnresolvedActive, Exclusive, Unresolved
    <2> QED
      BY <2>2, <2>3
  <1> QED
    BY <1>3, <1>4, <1>5, <1>6 DEF IInv

\* Every step of executeOrder keeps the invariant.
LEMMA SubmitKeeps ==
  ASSUME IInv, NEW t \in Task, Submit(t)
  PROVE  IInv'
  <1>0. TypeOK /\ TypeOK' /\ key[t] \in Key
    BY SubmitTyped DEF IInv, TypeOK
  <1> USE <1>0 DEF rowVars, seenVars
  <1>1. ASSUME NEW stage, Goto(t, stage), Quiet(pc[t], stage),
               UNCHANGED <<order, missed, key, ex, rec>>
        PROVE  IInv'
    BY <1>1, QuietTask
  <1>2. CASE Start(t)
    BY <1>1, <1>2 DEF Start, Quiet, Early
  <1>3. CASE AcquireLease(t)
    BY <1>1, <1>3 DEF AcquireLease, Quiet, Early
  <1>4. CASE InitialChecks(t)
    BY <1>1, <1>4 DEF InitialChecks, Quiet, Early
  <1>5. CASE PersistOrderIntent(t)
    BY <1>1, <1>5, IntentStep DEF PersistOrderIntent, IntentAccepted, Quiet, Early
  <1>6. CASE UpdateOrderSubmitting(t)
    <2>1. /\ SubmittingRow(t) \in Row /\ SubmittingRow(t).by = t
          /\ SubmittingRow(t).status = "SUBMITTING" /\ ~SubmittingRow(t).uuid
      BY RowsTyped DEF SubmittingRow, NoOrder
    <2> QED
      BY <1>1, <1>6, <2>1, OwnWrite DEF UpdateOrderSubmitting, Quiet, ActiveStatuses
  <1>7. CASE RenewLease(t)
    BY <1>1, <1>7 DEF RenewLease, Quiet
  <1>8. CASE FinalChecks(t)
    BY <1>1, <1>8, FinalChecksStep DEF FinalChecks, Quiet
  <1>9. CASE ConfirmOrderRow(t)
    BY <1>1, <1>9 DEF ConfirmOrderRow, Quiet
  <1>10. CASE CreateOrder(t)
    BY <1>1, <1>10, SendStep DEF CreateOrder, Quiet
  <1>11. CASE OrderAnswered(t)
    BY <1>1, <1>11, AnswerStep DEF OrderAnswered, Quiet
  <1>12. CASE PersistAccepted(t)
    <2> DEFINE row == [SubmittingRow(t) EXCEPT !.status = StatusOf(pc[t]),
                          !.uuid = TRUE, !.response = TRUE]
    <2>1. StatusOf(pc[t]) \in Statuses
      BY DEF StatusOf, Statuses, ActiveStatuses
    <2>2. row \in Row /\ row.by = t /\ row.status = StatusOf(pc[t])
      BY <2>1, RowsTyped DEF SubmittingRow, NoOrder
    <2>3. /\ ex[key[t]] \in {"live", "closed"}
          /\ pc[t] = "closed" => ~Unresolved(key[t])
          /\ pc[t] = "open" => row.status = "OPEN"
          /\ pc[t] # "open" => row.status = "FILLED"
      BY <1>12, <2>2 DEF PersistAccepted, IInv, Told, Unresolved, StatusOf
    <2> HIDE DEF row
    <2>4. CASE Goto(t, "fault") /\ UNCHANGED rowVars
      BY <1>1, <1>12, <2>4 DEF PersistAccepted, Quiet
    <2>5. CASE /\ Write(key[t], row, {"ORDER_SUBMITTED"})
               /\ Goto(t, IF pc[t] = "open" THEN "done" ELSE "release")
      BY <1>12, <2>2, <2>3, <2>5, OwnWrite DEF PersistAccepted, Answered, ActiveStatuses
    <2> QED
      BY <1>12, <2>4, <2>5 DEF PersistAccepted, row
  <1>13. CASE PersistRejected(t)
    <2> DEFINE row == [SubmittingRow(t) EXCEPT !.status = "REJECTED", !.response = TRUE,
                          !.code = "EXCHANGE_ORDER_REJECTED"]
    <2>1. row \in Row /\ row.by = t /\ row.status = "REJECTED" /\ ~row.uuid
      BY RowsTyped DEF SubmittingRow, NoOrder
    <2>2. ~Unresolved(key[t])
      BY <1>13 DEF PersistRejected, IInv, Told, Unresolved
    <2> HIDE DEF row
    <2>3. CASE Goto(t, "fault") /\ UNCHANGED rowVars
      BY <1>1, <1>13, <2>3 DEF PersistRejected, Quiet
    <2>4. CASE Write(key[t], row, {"ORDER_REJECTED"}) /\ Goto(t, "release")
      BY <1>13, <2>1, <2>2, <2>4, OwnWrite DEF PersistRejected, Answered
    <2> QED
      BY <1>13, <2>3, <2>4 DEF PersistRejected, row
  <1>14. CASE PersistUncertain(t)
    <2>1. /\ UncertainRow(t) \in Row /\ UncertainRow(t).by = t /\ ~UncertainRow(t).uuid
          /\ UncertainRow(t).status = "RECONCILIATION_REQUIRED"
      BY RowsTyped DEF UncertainRow, SubmittingRow, NoOrder
    <2>2. CASE UNCHANGED rowVars
      BY <1>1, <1>14, <2>2 DEF PersistUncertain, Quiet
    <2>3. CASE Write(key[t], UncertainRow(t), {"RECOVERY_REQUIRED"})
      BY <1>14, <2>1, <2>3, OwnWrite DEF PersistUncertain, Answered, ActiveStatuses
    <2> QED
      BY <1>14, <2>2, <2>3 DEF PersistUncertain
  <1>15. CASE PauseForFault(t)
    BY <1>1, <1>15 DEF PauseForFault, Quiet
  <1>16. CASE ReleaseLease(t)
    BY <1>1, <1>16 DEF ReleaseLease, Quiet
  <1> QED
    BY <1>2, <1>3, <1>4, <1>5, <1>6, <1>7, <1>8, <1>9, <1>10, <1>11, <1>12, <1>13,
       <1>14, <1>15, <1>16 DEF Submit

--------------------------------------------------------------------------------
(***************************************************************************)
(* Steps of a reconciliation pass.                                         *)
(***************************************************************************)

\* A pass that goes on, writing no row: what it was told is so, and absence is
\* told or recorded only of what is gone.
LEMMA PassStep ==
  ASSUME IInv, TypeOK', NEW r \in Reconciler, NEW p \in Pass,
         rec' = [rec EXCEPT ![r] = p], UNCHANGED <<order, pc, key, ex>>,
         p.at # "idle" =>
           /\ order[p.key].status # "none" /\ p.row.status \in ActiveStatuses
           /\ p.result = "open" => ex[p.key] \in {"live", "closed"}
           /\ p.result = "closed" => ex[p.key] = "closed"
           /\ p.at = "apply" => p.result \in {"open", "closed"}
           /\ Prompt /\ (p.result = "absent" \/ p.at = "finalize") => Gone(p.key),
         Prompt => \A k \in Key : missed'[k] = Enough =>
                     missed[k] = Enough \/ (Gone(k) /\ order[k].status # "none")
  PROVE  IInv'
  <1>1. rec'[r] = p /\ \A q \in Reconciler \ {r} : rec'[q] = rec[q]
    BY DEF IInv, TypeOK
  <1>2. Authorship' /\ Evidence' /\ Releasable'
    BY DEF IInv, Authorship, Evidence, Releasable, Unresolved
  <1>3. Told'
    BY <1>1 DEF IInv, Told
  <1>4. ASSUME Prompt
        PROVE  AbsenceSound' /\ UnsentActive' /\ UnresolvedActive' /\ Exclusive'
    <2>1. \A k : Gone(k) => Gone(k)'
      BY DEF Gone
    <2>2. AbsenceSound'
      BY <1>1, <1>4, <2>1 DEF IInv, AbsenceSound
    <2>3. UnsentActive' /\ UnresolvedActive' /\ Exclusive'
      BY <1>4 DEF IInv, UnsentActive, UnresolvedActive, Exclusive, Unresolved
    <2> QED
      BY <2>2, <2>3
  <1> QED
    BY <1>2, <1>3, <1>4 DEF IInv

\* A compare-and-set of a pass: it keeps the owner, writes only what the exchange
\* says, and confirms only the absence of what is gone.
LEMMA PassWrite ==
  ASSUME IInv, TypeOK', NEW r \in Reconciler, NEW k \in Key, NEW row \in Row, NEW new,
         order[k].status # "none", Write(k, row, new), Idle(r),
         UNCHANGED <<missed, pc, key, ex>>,
         row.by = order[k].by, row.status \notin {"none", "PERSISTED", "SUBMITTING"},
         row.uuid => ex[k] \in {"live", "closed"},
         row.status \notin ActiveStatuses =>
           \/ row.status # "FAILED" /\ ex[k] = "closed"
           \/ Prompt => Gone(k)
  PROVE  IInv'
  <1>1. order'[k] = row /\ \A j \in Key \ {k} : order'[j] = order[j]
    BY DEF Write, IInv, TypeOK
  <1>2. \A q \in Reconciler : rec'[q].at # "idle" => rec'[q] = rec[q]
    BY DEF Idle, IdlePass, IInv, TypeOK
  <1>3. Authorship'
    <2>1. \A j \in Key : order'[j].by = order[j].by
      BY <1>1
    <2>2. \A t \in Task : key[t] \in Key
      BY DEF IInv, TypeOK
    <2> QED
      BY <1>1, <2>1, <2>2 DEF IInv, Authorship
  <1>4. Told'
    BY <1>1, <1>2, PassTyped DEF IInv, Told
  <1>5. Evidence'
    BY <1>1 DEF IInv, Evidence
  <1>6. Releasable'
    BY <1>1 DEF IInv, Releasable, Unresolved
  <1>7. ASSUME Prompt
        PROVE  AbsenceSound' /\ UnsentActive' /\ UnresolvedActive' /\ Exclusive'
    <2>1. \A j : Gone(j) => Gone(j)'
      BY DEF Gone
    <2>2. AbsenceSound'
      BY <1>1, <1>2, <1>7, <2>1 DEF IInv, AbsenceSound, ActiveStatuses
    <2>3. UnsentActive'
      <3>1. row.status \notin ActiveStatuses =>
              \A t \in Task : key[t] = k => pc[t] \notin Unsent
        BY <1>7 DEF Gone, IInv, Authorship
      <3> QED
        BY <1>1, <1>7, <3>1 DEF IInv, UnsentActive, TypeOK
    <2>4. UnresolvedActive'
      BY <1>1, <1>7 DEF IInv, UnresolvedActive, Unresolved, Gone
    <2>5. Exclusive'
      BY <1>7 DEF IInv, Exclusive, Unresolved
    <2> QED
      BY <2>2, <2>3, <2>4, <2>5
  <1> QED
    BY <1>3, <1>4, <1>5, <1>6, <1>7 DEF IInv

\* Every step of a reconciliation pass keeps the invariant.
LEMMA ReconcileKeeps ==
  ASSUME IInv, NEW r \in Reconciler, Reconcile(r)
  PROVE  IInv'
  <1>0. TypeOK /\ TypeOK'
    BY ReconcileTyped DEF IInv
  <1> USE <1>0 DEF rowVars, seenVars, taskVars
  <1>1. CASE \E k \in Key : PickOrder(r, k)
    <2>1. PICK k \in Key : PickOrder(r, k)
      BY <1>1
    <2> DEFINE p == [at |-> "looking", key |-> k, row |-> order[k], result |-> "none"]
    <2>2. p \in Pass /\ p.key = k /\ p.row = order[k] /\ p.result = "none" /\ p.at = "looking"
      BY DEF TypeOK, Pass, Lookups
    <2>3. rec' = [rec EXCEPT ![r] = p]
      BY <2>1 DEF PickOrder
    <2> HIDE DEF p
    <2> QED
      BY <2>1, <2>2, <2>3, PassStep DEF PickOrder, ActiveStatuses
  <1>2. ASSUME rec[r].at = "looking", NEW result \in Lookups,
               rec' = [rec EXCEPT ![r].at = "answered", ![r].result = result],
               UNCHANGED <<rowVars, seenVars, taskVars, ex>>,
               result = "open" => ex[rec[r].key] \in {"live", "closed"},
               result = "closed" => ex[rec[r].key] = "closed",
               Prompt /\ result = "absent" => Gone(rec[r].key)
        PROVE  IInv'
    <2> DEFINE p == [rec[r] EXCEPT !.at = "answered", !.result = result]
    <2>1. p \in Pass /\ p.key = rec[r].key /\ p.row = rec[r].row /\ p.at = "answered"
                     /\ p.result = result
      BY <1>2, PassTyped DEF Pass
    <2>2. rec' = [rec EXCEPT ![r] = p]
      BY <1>2 DEF TypeOK
    <2>3. order[p.key].status # "none" /\ p.row.status \in ActiveStatuses
      BY <1>2, <2>1 DEF IInv, Told
    <2> HIDE DEF p
    <2> QED
      BY <1>2, <2>1, <2>2, <2>3, PassStep
  <1>3. CASE LookUp(r)
    <2>1. PICK result \in LookupResults(rec[r].key) :
            rec' = [rec EXCEPT ![r].at = "answered", ![r].result = result]
      BY <1>3 DEF LookUp
    <2>2. rec[r].at = "looking" /\ rec[r].key \in Key
      BY <1>3, PassTyped DEF LookUp
    <2>3. /\ result \in Lookups
          /\ result = "open" => ex[rec[r].key] \in {"live", "closed"}
          /\ result = "closed" => ex[rec[r].key] = "closed"
      BY <2>1 DEF LookupResults, Lookups
    <2>4. Prompt /\ result = "absent" =>
             Settled(rec[r].key) /\ ex[rec[r].key] \notin {"live", "closed"}
      BY <2>1 DEF LookupResults
    <2>5. Prompt /\ result = "absent" => Gone(rec[r].key)
      BY <2>2, <2>4 DEF Settled, Gone, Unsent, TypeOK, Fates
    <2> QED
      BY <1>2, <1>3, <2>1, <2>2, <2>3, <2>5 DEF LookUp
  <1>4. CASE LookUpFails(r)
    BY <1>2, <1>4 DEF LookUpFails, Lookups
  <1>5. CASE RecordObservation(r)
    <2>1. /\ rec[r].at = "answered" /\ rec[r].key \in Key
          /\ order[rec[r].key].status # "none" /\ rec[r].row.status \in ActiveStatuses
      BY <1>5, PassTyped DEF RecordObservation, IInv, Told
    <2>2. \A k \in Key \ {rec[r].key} : missed'[k] = missed[k]
      BY <1>5 DEF RecordObservation, TypeOK
    <2>3. missed'[rec[r].key] = Enough =>
             missed[rec[r].key] = Enough \/ rec[r].result = "absent"
      <3>1. missed[rec[r].key] \in Nat /\ Enough \in Nat
        BY <2>1, OrderAssumption DEF TypeOK
      <3> QED
        BY <1>5, <2>1, <3>1 DEF RecordObservation, TypeOK
    <2>4. Prompt => \A k \in Key : missed'[k] = Enough =>
                      missed[k] = Enough \/ (Gone(k) /\ order[k].status # "none")
      BY <2>1, <2>2, <2>3 DEF IInv, AbsenceSound
    <2>5. ASSUME NEW at \in {"apply", "finalize"}, rec' = [rec EXCEPT ![r].at = at],
                 at = "apply" => rec[r].result \in {"open", "closed"},
                 at = "finalize" => Absence(rec[r].key, rec[r].result)
          PROVE  IInv'
      <3> DEFINE p == [rec[r] EXCEPT !.at = at]
      <3>1. p \in Pass /\ p.key = rec[r].key /\ p.row = rec[r].row /\ p.at = at
                       /\ p.result = rec[r].result
        BY <2>1, PassTyped DEF Pass
      <3>2. rec' = [rec EXCEPT ![r] = p]
        BY <2>5 DEF TypeOK
      <3> HIDE DEF p
      <3>3. Prompt /\ at = "finalize" => Gone(p.key)
        BY <2>1, <2>5, <3>1 DEF Absence, IInv, AbsenceSound
      <3>4. /\ p.result = "open" => ex[p.key] \in {"live", "closed"}
            /\ p.result = "closed" => ex[p.key] = "closed"
            /\ Prompt /\ p.result = "absent" => Gone(p.key)
        BY <2>1, <3>1 DEF IInv, Told, AbsenceSound
      <3> QED
        <4>1. UNCHANGED <<order, pc, key, ex>>
          BY <1>5 DEF RecordObservation
        <4>2. /\ order[p.key].status # "none" /\ p.row.status \in ActiveStatuses
              /\ p.at = "apply" => p.result \in {"open", "closed"}
              /\ Prompt /\ (p.result = "absent" \/ p.at = "finalize") => Gone(p.key)
          BY <2>1, <2>5, <3>1, <3>3, <3>4
        <4> QED
          BY <2>4, <3>1, <3>2, <3>4, <4>1, <4>2, PassStep
    <2>6. CASE Idle(r)
      <3>1. IdlePass \in Pass /\ IdlePass.at = "idle" /\ rec' = [rec EXCEPT ![r] = IdlePass]
        BY <2>6 DEF Idle, Pass, IdlePass
      <3> HIDE DEF IdlePass
      <3> QED
        BY <1>5, <2>4, <3>1, PassStep DEF RecordObservation
    <2> QED
      BY <1>5, <2>5, <2>6 DEF RecordObservation
  <1>6. CASE ApplyExchangeSnapshot(r)
    <2> DEFINE k == rec[r].key
               row == [rec[r].row EXCEPT !.uuid = TRUE, !.response = TRUE, !.code = "null",
                         !.status = StatusOf(rec[r].result)]
    <2>1. /\ rec[r].at # "idle" /\ rec[r].result \in {"open", "closed"}
          /\ order[k] = rec[r].row
      BY <1>6 DEF ApplyExchangeSnapshot, Unchanged, IInv, Told
    <2>2. k \in Key /\ rec[r].row \in Row
      BY <2>1, PassTyped
    <2>3. row \in Row /\ row.by = order[k].by /\ row.uuid
                     /\ row.status = StatusOf(rec[r].result)
      BY <2>1, <2>2 DEF Row, StatusOf, Statuses, ActiveStatuses
    <2>4. /\ order[k].status # "none" /\ ex[k] \in {"live", "closed"}
          /\ rec[r].result = "closed" => ex[k] = "closed"
      BY <2>1, <2>2 DEF IInv, Told
    <2>5. /\ rec[r].result = "open" => row.status = "OPEN"
          /\ rec[r].result = "closed" => row.status = "FILLED"
      BY <2>3 DEF StatusOf
    <2>6. Write(k, row, {}) /\ Idle(r)
      BY <1>6 DEF ApplyExchangeSnapshot
    <2> HIDE DEF k, row
    <2> QED
      BY <1>6, <2>1, <2>2, <2>3, <2>4, <2>5, <2>6, PassWrite
         DEF ApplyExchangeSnapshot, ActiveStatuses
  <1>7. CASE FinalizeAbsence(r)
    <2> DEFINE k == rec[r].key
               row == [order[k] EXCEPT !.status = "FAILED",
                         !.code = "ORDER_SUBMISSION_ABSENCE_CONFIRMED"]
    <2>1. rec[r].at = "finalize" /\ k \in Key
      BY <1>7, PassTyped DEF FinalizeAbsence
    <2>2. order[k] \in Row
      BY <2>1 DEF TypeOK
    <2>3. /\ row \in Row /\ row.by = order[k].by /\ row.uuid = order[k].uuid
          /\ row.status = "FAILED"
      BY <2>2 DEF Row, Statuses
    <2>4. /\ order[k].status # "none" /\ (Prompt => Gone(k))
          /\ row.uuid => ex[k] \in {"live", "closed"}
      BY <2>1, <2>3 DEF IInv, Told, AbsenceSound, Evidence
    <2>5. Write(k, row, {"ABSENCE_CONFIRMED"}) /\ Idle(r)
      BY <1>7 DEF FinalizeAbsence
    <2> HIDE DEF k, row
    <2> QED
      BY <1>7, <2>1, <2>3, <2>4, <2>5, PassWrite DEF FinalizeAbsence
  <1>8. CASE MarkOrderForRecovery(r)
    <2> DEFINE k == rec[r].key
               row == [order[k] EXCEPT !.status = "RECONCILIATION_REQUIRED",
                         !.code = "RECONCILIATION_REQUIRED"]
    <2>1. rec[r].at = "answered" /\ k \in Key
      BY <1>8, PassTyped DEF MarkOrderForRecovery
    <2>2. order[k] \in Row
      BY <2>1 DEF TypeOK
    <2>3. /\ row \in Row /\ row.by = order[k].by /\ row.uuid = order[k].uuid
          /\ row.status = "RECONCILIATION_REQUIRED"
      BY <2>2 DEF Row, Statuses, ActiveStatuses
    <2>4. /\ order[k].status # "none"
          /\ row.uuid => ex[k] \in {"live", "closed"}
      BY <2>1, <2>3 DEF IInv, Told, Evidence
    <2>5. Write(k, row, {"RECOVERY_REQUIRED"}) /\ Idle(r)
      BY <1>8 DEF MarkOrderForRecovery
    <2> HIDE DEF k, row
    <2> QED
      BY <1>8, <2>1, <2>3, <2>4, <2>5, PassWrite DEF MarkOrderForRecovery, ActiveStatuses
  <1>9. CASE AbandonPass(r)
    <2>1. \A q \in Reconciler : rec'[q] = rec[q] \/ rec'[q] = IdlePass
      BY <1>9 DEF AbandonPass, Idle, TypeOK
    <2> QED
      BY <1>9, <2>1, QuietStep DEF AbandonPass, Quiet
  <1> QED
    BY <1>1, <1>3, <1>4, <1>5, <1>6, <1>7, <1>8, <1>9 DEF Reconcile

--------------------------------------------------------------------------------
(***************************************************************************)
(* Steps of the operator, the clock, the process and the exchange.         *)
(***************************************************************************)

\* Operator commands, lease expiry, crashes and takeovers keep the invariant: they
\* write no row, and a call they end only stops.
LEMMA DisturbanceKeeps ==
  ASSUME IInv, Disturbance
  PROVE  IInv'
  <1>1. TypeOK'
    BY EnvironmentTyped DEF IInv
  <1>2. UNCHANGED <<order, missed, key, ex>>
    BY DEF Disturbance, OperatorCommand, SetAuthority, LeaseExpires, Crash, Superseded,
           rowVars, seenVars, taskVars
  <1>3. \A t \in Task : Quiet(pc[t], pc'[t])
    BY DEF Disturbance, OperatorCommand, SetAuthority, LeaseExpires, Crash, Superseded,
           taskVars, Quiet
  <1>4. \A r \in Reconciler : rec'[r] = rec[r] \/ rec'[r] = IdlePass
    BY DEF Disturbance, OperatorCommand, SetAuthority, LeaseExpires, Crash, Superseded
  <1> QED
    BY <1>1, <1>2, <1>3, <1>4, QuietStep

\* The exchange decides on a request or closes an order: what was told stays so.
LEMMA ExchangeKeeps ==
  ASSUME IInv, NEW k \in Key, ExchangeDecides(k) \/ ExchangeCloses(k)
  PROVE  IInv'
  <1>1. TypeOK'
    BY EnvironmentTyped DEF IInv
  <1>2. /\ \/ ex[k] = "inflight" /\ ex'[k] \in {"live", "refused", "lost"}
           \/ ex[k] = "live" /\ ex'[k] = "closed"
        /\ \A j \in Key \ {k} : ex'[j] = ex[j]
    <2>1. ex \in [Key -> Fates]
      BY DEF IInv, TypeOK
    <2>2. CASE ExchangeDecides(k)
      <3>1. PICK fate \in {"live", "refused", "lost"} : ex' = [ex EXCEPT ![k] = fate]
        BY <2>2 DEF ExchangeDecides
      <3>2. ex[k] = "inflight"
        BY <2>2 DEF ExchangeDecides
      <3>3. ex'[k] = fate /\ \A j \in Key \ {k} : ex'[j] = ex[j]
        BY <2>1, <3>1
      <3> QED
        BY <3>2, <3>3
    <2>3. CASE ExchangeCloses(k)
      BY <2>1, <2>3 DEF ExchangeCloses
    <2> QED
      BY <2>2, <2>3
  <1>3. UNCHANGED <<order, missed, pc, key, rec>>
    BY DEF ExchangeDecides, ExchangeCloses, rowVars, seenVars, taskVars
  <1>4. \A t \in Task : key[t] \in Key
    BY DEF IInv, TypeOK
  <1>5. Authorship'
    BY <1>2, <1>3, <1>4 DEF IInv, Authorship
  <1>6. Told'
    BY <1>2, <1>3, <1>4, PassTyped DEF IInv, Told
  <1>7. Evidence'
    BY <1>2, <1>3 DEF IInv, Evidence
  <1>8. Releasable'
    BY <1>2, <1>3 DEF IInv, Releasable, Unresolved
  <1>9. ASSUME Prompt
        PROVE  AbsenceSound' /\ UnsentActive' /\ UnresolvedActive' /\ Exclusive'
    <2>1. \A j \in Key : Gone(j) => Gone(j)'
      BY <1>2, <1>3 DEF Gone
    <2>2. AbsenceSound'
      BY <1>3, <1>9, <2>1, PassTyped DEF IInv, AbsenceSound
    <2>3. UnsentActive' /\ UnresolvedActive' /\ Exclusive'
      BY <1>2, <1>3, <1>9 DEF IInv, UnsentActive, UnresolvedActive, Exclusive, Unresolved
    <2> QED
      BY <2>2, <2>3
  <1> QED
    BY <1>1, <1>5, <1>6, <1>7, <1>8, <1>9 DEF IInv

--------------------------------------------------------------------------------
(***************************************************************************)
(* The theorems.                                                           *)
(***************************************************************************)

\* No order, call or pass exists at first.
LEMMA InitIInv == Init => IInv
  <1> SUFFICES ASSUME Init PROVE IInv
    OBVIOUS
  <1>1. TypeOK
    BY InitTyped
  <1>2. /\ \A k \in Key : order[k] = NoOrder /\ ex[k] = "none" /\ missed[k] # Enough
        /\ \A t \in Task : pc[t] = "new"
        /\ \A r \in Reconciler : rec[r].at = "idle"
    BY OrderAssumption DEF Init, IdlePass
  <1>3. NoOrder.status = "none" /\ NoOrder.by \notin Task /\ ~NoOrder.uuid
    BY OrderAssumption DEF NoOrder
  <1> USE DEF Unsent, Answered, Early
  <1>4. Authorship /\ Told
    BY <1>2, <1>3 DEF Authorship, Told
  <1>5. Evidence /\ Releasable
    BY <1>2, <1>3 DEF Evidence, Releasable
  <1>6. AbsenceSound /\ UnsentActive /\ UnresolvedActive /\ Exclusive
    BY <1>2, <1>3 DEF AbsenceSound, UnsentActive, UnresolvedActive, Exclusive, Unresolved
  <1> QED
    BY <1>1, <1>4, <1>5, <1>6 DEF IInv

\* The invariant is inductive.
LEMMA NextIInv == IInv /\ [Next]_vars => IInv'
  <1> SUFFICES ASSUME IInv, [Next]_vars PROVE IInv'
    OBVIOUS
  <1>1. ASSUME NEW t \in Task, Submit(t) PROVE IInv'
    BY <1>1, SubmitKeeps
  <1>2. ASSUME NEW r \in Reconciler, Reconcile(r) PROVE IInv'
    BY <1>2, ReconcileKeeps
  <1>3. CASE Disturbance
    BY <1>3, DisturbanceKeeps
  <1>4. ASSUME NEW k \in Key, ExchangeDecides(k) \/ ExchangeCloses(k) PROVE IInv'
    BY <1>4, ExchangeKeeps
  <1>5. CASE UNCHANGED vars
    <2>1. UNCHANGED <<order, missed, key, ex, pc, rec>> /\ TypeOK'
      BY <1>5 DEF vars, rowVars, seenVars, opVars, taskVars, IInv, TypeOK
    <2> QED
      BY <2>1, QuietStep DEF Quiet
  <1> QED
    BY <1>1, <1>2, <1>3, <1>4, <1>5 DEF Next, Disturbance

\* The strengthened invariant holds in every reachable state: who owns a row, what
\* tasks and passes were told, what blocks, and what a lease may be given back for.
THEOREM OrderInvariant == Spec => []IInv
  BY InitIInv, NextIInv, PTL DEF Spec

\* Rows, leases, tasks, passes and observations stay well-formed.
THEOREM OrderTypeCorrect == Spec => []TypeOK
  <1>1. IInv => TypeOK
    BY DEF IInv
  <1> QED
    BY <1>1, OrderInvariant, PTL

\* The step that calls createOrder.
LEMMA InflightIsSent ==
  ASSUME IInv, [Next]_vars, NEW k \in Key, ex[k] # ex'[k], ex'[k] = "inflight"
  PROVE  \E t \in Task : pc[t] = "send" /\ key[t] = k
  <1>1. ASSUME NEW t \in Task, Submit(t) PROVE pc[t] = "send" /\ key[t] = k
    <2>1. ex' # ex
      OBVIOUS
    <2>2. CreateOrder(t)
      BY <1>1, <2>1 DEF Submit, Start, AcquireLease, InitialChecks, PersistOrderIntent,
         UpdateOrderSubmitting, RenewLease, FinalChecks, ConfirmOrderRow, OrderAnswered,
         PersistAccepted, PersistRejected, PersistUncertain, PauseForFault, ReleaseLease
    <2> QED
      BY <2>2 DEF CreateOrder, IInv, TypeOK
  <1>2. ASSUME NEW r \in Reconciler, Reconcile(r) PROVE FALSE
    BY <1>2 DEF Reconcile, PickOrder, LookUp, LookUpFails, RecordObservation,
       ApplyExchangeSnapshot, FinalizeAbsence, MarkOrderForRecovery, AbandonPass
  <1>3. CASE Disturbance
    BY <1>3 DEF Disturbance, OperatorCommand, SetAuthority, LeaseExpires, Crash, Superseded
  <1>4. ASSUME NEW j \in Key, ExchangeDecides(j) \/ ExchangeCloses(j) PROVE FALSE
    BY <1>4 DEF ExchangeDecides, ExchangeCloses, IInv, TypeOK
  <1>5. CASE UNCHANGED vars
    BY <1>5 DEF vars
  <1> QED
    BY <1>1, <1>2, <1>3, <1>4, <1>5 DEF Next, Disturbance

\* createOrder is called at most once per idempotency key, for any number of
\* calls, passes, crashes and takeovers.
THEOREM OrdersSentOnce == Spec => SentOnce
  <1> DEFINE Once == \A k \in Key : ex[k] # ex'[k] /\ ex'[k] = "inflight" => ex[k] = "none"
  <1>1. IInv /\ [Next]_vars => Once
    BY InflightIsSent DEF IInv, Authorship, Unsent
  <1>2. IInv /\ [Next]_vars => [Once]_vars
    BY <1>1
  <1> HIDE DEF Once
  <1>3. Spec => [][Once]_vars
    BY <1>2, OrderInvariant, PTL DEF Spec
  <1> QED
    BY <1>3 DEF SentOnce, Once

\* If the absence bound outlasts a request, an order that is on its way or live
\* always forbids another submission.
THEOREM UnresolvedAlwaysBlocks ==
  ASSUME Prompt PROVE Spec => []UnresolvedBlocks
  <1>1. IInv => UnresolvedBlocks
    BY DEF IInv, UnresolvedActive, UnresolvedBlocks, Blocking
  <1> QED
    BY <1>1, OrderInvariant, PTL

\* If the absence bound outlasts a request, a confirmed absence is real.
THEOREM AbsenceIsReal ==
  ASSUME Prompt PROVE Spec => []AbsenceIsNonDispatch
  <1>1. IInv => AbsenceIsNonDispatch
    BY DEF IInv, AbsenceSound, Gone, AbsenceIsNonDispatch, AbsenceConfirmed
  <1> QED
    BY <1>1, OrderInvariant, PTL

\* If the absence bound outlasts a request, no two orders of the account are on
\* their way or live because of one another's checks.
THEOREM SendsAreExclusive ==
  ASSUME Prompt PROVE Spec => SendsExclusive
  <1> DEFINE Alone == \A k \in Key : ex[k] # ex'[k] /\ ex'[k] = "inflight"
                        => \A j \in Key \ {k} : ~Unresolved(j)
  <1>1. IInv /\ [Next]_vars => Alone
    BY InflightIsSent DEF IInv, Exclusive
  <1>2. IInv /\ [Next]_vars => [Alone]_vars
    BY <1>1
  <1> HIDE DEF Alone
  <1>3. Spec => [][Alone]_vars
    BY <1>2, OrderInvariant, PTL DEF Spec
  <1> QED
    BY <1>3 DEF SendsExclusive, Alone

\* Only its owner deletes a lease, and not while its order is on its way or live.
THEOREM LeaseIsKept == Spec => LeaseKept
  <1> DEFINE Kept == lease # NoLease /\ lease' = NoLease
                       => \A k \in Key : order[k].by = lease.owner => ~Unresolved(k)
  <1>1. ASSUME IInv, [Next]_vars, lease # NoLease, lease' = NoLease,
               NEW k \in Key, order[k].by = lease.owner
        PROVE  ~Unresolved(k)
    <2>1. ASSUME NEW t \in Task, Submit(t) PROVE ~Unresolved(k)
      <3>1. AcquireLease(t) \/ ReleaseLease(t)
        BY <1>1, <2>1 DEF Submit, Start, InitialChecks, PersistOrderIntent,
           UpdateOrderSubmitting, RenewLease, FinalChecks, ConfirmOrderRow, CreateOrder,
           OrderAnswered, PersistAccepted, PersistRejected, PersistUncertain, PauseForFault
      <3>2. ~AcquireLease(t)
        BY <1>1, OrderAssumption DEF AcquireLease, NoLease
      <3>3. pc[t] = "release" /\ lease.owner = t
        BY <1>1, <3>1, <3>2 DEF ReleaseLease, LeaseAfterRelease
      <3> QED
        BY <1>1, <3>3 DEF IInv, Releasable
    <2>2. ASSUME NEW r \in Reconciler, Reconcile(r) PROVE FALSE
      BY <1>1, <2>2 DEF Reconcile, PickOrder, LookUp, LookUpFails, RecordObservation,
         ApplyExchangeSnapshot, FinalizeAbsence, MarkOrderForRecovery, AbandonPass
    <2>3. CASE Disturbance
      <3>1. ~LeaseExpires
        BY <1>1 DEF LeaseExpires, NoLease, IInv, TypeOK, Lease
      <3> QED
        BY <1>1, <2>3, <3>1 DEF Disturbance, OperatorCommand, SetAuthority, Crash, Superseded
    <2>4. ASSUME NEW j \in Key, ExchangeDecides(j) \/ ExchangeCloses(j) PROVE FALSE
      BY <1>1, <2>4 DEF ExchangeDecides, ExchangeCloses
    <2>5. CASE UNCHANGED vars
      BY <1>1, <2>5 DEF vars
    <2> QED
      BY <1>1, <2>1, <2>2, <2>3, <2>4, <2>5 DEF Next, Disturbance
  <1>2. IInv /\ [Next]_vars => [Kept]_vars
    BY <1>1
  <1> HIDE DEF Kept
  <1>3. Spec => [][Kept]_vars
    BY <1>2, OrderInvariant, PTL DEF Spec
  <1> QED
    BY <1>3 DEF LeaseKept, Kept

\* If the absence bound outlasts a request, terminal rows and uuids are final:
\* every write compares, or comes before the send.
THEOREM LifecycleIsForward ==
  ASSUME Prompt PROVE Spec => LifecycleForward
  <1> DEFINE Forward == \A k \in Key : /\ Terminal(k) => order'[k] = order[k]
                                       /\ order[k].uuid => order'[k].uuid
  <1>1. ASSUME TypeOK, NEW k \in Key, NEW row, NEW new, Write(k, row, new), ~Terminal(k),
               order[k].uuid => row.uuid
        PROVE  Forward
    BY <1>1 DEF Write, TypeOK
  <1>2. UNCHANGED order => Forward
    OBVIOUS
  <1> HIDE DEF Forward
  <1>3. ASSUME IInv, NEW t \in Task, Submit(t) PROVE Forward
    <2>1. TypeOK /\ key[t] \in Key
      BY <1>3 DEF IInv, TypeOK
    <2>2. CASE UNCHANGED order
      BY <1>2, <2>2
    <2>3. CASE PersistOrderIntent(t) /\ order' # order
      <3>1. order[key[t]].status = "none" /\ ~order[key[t]].uuid
        BY <2>3 DEF PersistOrderIntent, IntentAccepted, NoOrder, rowVars
      <3> QED
        BY <1>1, <2>1, <2>3, <3>1 DEF PersistOrderIntent, Terminal, rowVars
    <2>4. CASE UpdateOrderSubmitting(t) /\ order' # order
      <3>1. ~Terminal(key[t]) /\ ~order[key[t]].uuid
        BY <1>3, <2>1, <2>4 DEF UpdateOrderSubmitting, IInv, Authorship, Evidence,
           UnsentActive, Unsent, Terminal, ActiveStatuses
      <3> QED
        BY <1>1, <2>1, <2>4, <3>1 DEF UpdateOrderSubmitting, rowVars
    <2>5. ASSUME SubmissionOpen(key[t], {"RECOVERY_REQUIRED"})
                   \/ SubmissionOpen(key[t], {"ORDER_SUBMITTED", "ORDER_REJECTED"})
          PROVE  ~Terminal(key[t]) /\ ~order[key[t]].uuid
      BY <1>3, <2>1, <2>5 DEF SubmissionOpen, Terminal, IInv, Evidence
    <2>6. CASE PersistAccepted(t) /\ order' # order
      BY <1>1, <2>1, <2>5, <2>6 DEF PersistAccepted, rowVars
    <2>7. CASE PersistRejected(t) /\ order' # order
      BY <1>1, <2>1, <2>5, <2>7 DEF PersistRejected, rowVars
    <2>8. CASE PersistUncertain(t) /\ order' # order
      BY <1>1, <2>1, <2>5, <2>8 DEF PersistUncertain, rowVars
    <2> QED
      BY <1>3, <2>2, <2>3, <2>4, <2>6, <2>7, <2>8 DEF Submit, Start, AcquireLease,
         InitialChecks, RenewLease, FinalChecks, ConfirmOrderRow, CreateOrder,
         OrderAnswered, PauseForFault, ReleaseLease, rowVars
  <1>4. ASSUME IInv, NEW r \in Reconciler, Reconcile(r) PROVE Forward
    <2>1. TypeOK /\ (rec[r].at # "idle" => rec[r].key \in Key /\ rec[r].row \in Row)
      BY <1>4, PassTyped DEF IInv
    <2>2. CASE UNCHANGED order
      BY <1>2, <2>2
    <2>3. rec[r].at # "idle" => rec[r].row.status \in ActiveStatuses
      BY <1>4 DEF IInv, Told
    <2>4. rec[r].at # "idle" /\ order[rec[r].key].status = rec[r].row.status
             => ~Terminal(rec[r].key)
      BY <2>3 DEF Terminal, ActiveStatuses
    <2>5. CASE ApplyExchangeSnapshot(r)
      <3>1. rec[r].at # "idle" /\ order[rec[r].key] = rec[r].row
        BY <2>5 DEF ApplyExchangeSnapshot, Unchanged
      <3>2. [rec[r].row EXCEPT !.uuid = TRUE, !.response = TRUE, !.code = "null",
                !.status = StatusOf(rec[r].result)].uuid
        BY <2>1, <3>1 DEF Row
      <3> QED
        BY <1>1, <2>1, <2>4, <2>5, <3>1, <3>2 DEF ApplyExchangeSnapshot
    <2>6. CASE FinalizeAbsence(r)
      <3>1. rec[r].at # "idle" /\ order[rec[r].key].status = rec[r].row.status
        BY <2>6 DEF FinalizeAbsence
      <3>2. order[rec[r].key] \in Row
        BY <2>1, <3>1 DEF TypeOK
      <3>3. [order[rec[r].key] EXCEPT !.status = "FAILED",
                !.code = "ORDER_SUBMISSION_ABSENCE_CONFIRMED"].uuid = order[rec[r].key].uuid
        BY <3>2 DEF Row
      <3> QED
        BY <1>1, <2>1, <2>4, <2>6, <3>1, <3>3 DEF FinalizeAbsence
    <2>7. CASE MarkOrderForRecovery(r)
      <3>1. rec[r].at # "idle" /\ order[rec[r].key].status = rec[r].row.status
        BY <2>7 DEF MarkOrderForRecovery, Unchanged
      <3>2. order[rec[r].key] \in Row
        BY <2>1, <3>1 DEF TypeOK
      <3>3. [order[rec[r].key] EXCEPT !.status = "RECONCILIATION_REQUIRED",
                !.code = "RECONCILIATION_REQUIRED"].uuid = order[rec[r].key].uuid
        BY <3>2 DEF Row
      <3> QED
        BY <1>1, <2>1, <2>4, <2>7, <3>1, <3>3 DEF MarkOrderForRecovery
    <2> QED
      BY <1>4, <2>2, <2>5, <2>6, <2>7 DEF Reconcile, PickOrder, LookUp, LookUpFails,
         RecordObservation, AbandonPass, rowVars
  <1>5. IInv /\ [Next]_vars => [Forward]_vars
    <2> SUFFICES ASSUME IInv, Next PROVE Forward
      OBVIOUS
    <2>1. CASE Disturbance \/ \E k \in Key : ExchangeDecides(k) \/ ExchangeCloses(k)
      <3>1. UNCHANGED order
        BY <2>1 DEF Disturbance, OperatorCommand, SetAuthority, LeaseExpires, Crash,
           Superseded, ExchangeDecides, ExchangeCloses, rowVars
      <3> QED
        BY <1>2, <3>1
    <2> QED
      BY <1>3, <1>4, <2>1 DEF Next, Disturbance
  <1>6. Spec => [][Forward]_vars
    BY <1>5, OrderInvariant, PTL DEF Spec
  <1> QED
    BY <1>6 DEF LifecycleForward, Forward

================================================================================
