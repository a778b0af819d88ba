---------------------------- MODULE CandidatePilot ----------------------------
(***************************************************************************)
(* The life of one BTC candidate deployment: start-up initialization,      *)
(* recovery verification before a run, activation, bound submissions, the  *)
(* projection of terminal orders into evidence, rollback, fault pauses and *)
(* crashes, all over one database that every actor reads in several        *)
(* transactions and writes in one.                                         *)
(*                                                                         *)
(* First the persisted authority and the checks made of it: the replay of  *)
(* execution evidence into the exact candidate state, the start-up         *)
(* initializer's validation of the retained history, and the recovery      *)
(* service's validation of the same history. An authority d is a record    *)
(*   dep    the deployment row    [phase, created, updated, act]           *)
(*   st     the exact state row   [ver, qty, last, lastId]                 *)
(*   ev     the evidence rows     [id, at, action, exec, rem]              *)
(*   audit  the audit events      [type, at, from, to, ver, id]            *)
(* Instants are integers (nanoseconds); None stands for SQL NULL.          *)
(***************************************************************************)
EXTENDS Integers, Sequences, SequencesExt, FiniteSets, FiniteSetsExt

None == -1

Buys == {"ENTER", "ADD"}
Sells == {"REDUCE", "EXIT"}

-----------------------------------------------------------------------------
(***************************************************************************)
(* Exact replay (candidate-evidence-decimals.ts).                          *)
(***************************************************************************)

\* createExactEmptyCandidateState.
EmptyState == [ver |-> 0, qty |-> 0, last |-> None, lastId |-> 0]

\* What projecting throws for.
Rejected == [ver |-> None, qty |-> None, last |-> None, lastId |-> None]

\* deriveExactRemainingQuantity; below zero is the throw.
Remaining(qty, action, exec) == IF action \in Buys THEN qty + exec ELSE qty - exec

\* assertExactChronology.
Follows(s, e) == s.last = None \/ e.at > s.last \/ (e.at = s.last /\ e.id > s.lastId)

\* advanceExactCandidateState.
Advance(s, e) ==
  LET rest == Remaining(s.qty, e.action, e.exec)
      legal == /\ s # Rejected /\ Follows(s, e) /\ rest >= 0 /\ rest = e.rem
               /\ (e.action = "ENTER") => s.qty = 0
               /\ (e.action # "ENTER") => s.qty > 0
  IN IF legal
     THEN [ver |-> s.ver + 1, qty |-> rest, last |-> e.at, lastId |-> e.id]
     ELSE Rejected

Earlier(a, b) == a.at < b.at \/ (a.at = b.at /\ a.id < b.id)

Ordered(ev) == SetToSortSeq(ev, Earlier)

\* projectExactCandidateState.
Project(ev) == FoldLeft(Advance, EmptyState, Ordered(ev))

-----------------------------------------------------------------------------
(***************************************************************************)
(* Audit history.                                                          *)
(***************************************************************************)

\* How the ids of two events of one instant compare: fault ids start with
\* "candidate-", the others with the deployment id and the event's own word.
IdRank(type) ==
  CASE type = "FAULT_PAUSED" -> 0 [] type = "PHASE_TRANSITION" -> 1
    [] type = "DEPLOYMENT_CREATED" -> 2 [] type = "STATE_ADVANCED" -> 3
    [] type = "ROLLBACK_COMPLETED" -> 4 [] type = "ROLLBACK_STARTED" -> 5

\* ORDER BY created_at_epoch_ns, id.
AuditEarlier(a, b) ==
  \/ a.at < b.at
  \/ a.at = b.at /\ (IdRank(a.type) < IdRank(b.type)
                      \/ (IdRank(a.type) = IdRank(b.type) /\ a.id < b.id))

OrderedAudit(audit) == SetToSortSeq(audit, AuditEarlier)

Of(events, type) == SelectSeq(events, LAMBDA a : a.type = type)

Event(type, at, from, to, ver, id) ==
  [type |-> type, at |-> at, from |-> from, to |-> to, ver |-> ver, id |-> id]

CreatedEvent(dep) == Event("DEPLOYMENT_CREATED", dep.created, "NONE", "PENDING_FLAT", 0, 0)
ActivationEvent(dep) == Event("PHASE_TRANSITION", dep.act, "PENDING_FLAT", "ACTIVE", 0, 0)
AdvancedEvent(e, phase, ver) == Event("STATE_ADVANCED", e.at, phase, phase, ver, e.id)

IsFlat(s) == s.qty = 0

-----------------------------------------------------------------------------
(***************************************************************************)
(* The initializer's validation (position-guard-pilot-initializer.ts).     *)
(***************************************************************************)

\* snapshotDeployment.
DeploymentChronology(dep, t) ==
  /\ dep.created <= dep.updated /\ dep.updated <= t
  /\ dep.act # None => dep.created <= dep.act /\ dep.act <= dep.updated

\* snapshotEvidenceRecords; the rows are read in chronology order.
EvidenceAccepted(d, t) ==
  \A e \in d.ev : e.at <= t /\ d.dep.act # None /\ e.at >= d.dep.act

\* snapshotAuditEvents.
AuditAccepted(d, t) ==
  \A a \in d.audit : d.dep.created <= a.at /\ a.at <= t /\ a.ver \in 0..d.st.ver

\* assertRollbackBoundaryStateVersion; None is the throw.
RollbackBoundary(A) ==
  LET at == CHOOSE i \in DOMAIN A : A[i].type = "ROLLBACK_STARTED"
      preceding == Len(Of(SubSeq(A, 1, at - 1), "STATE_ADVANCED"))
  IN IF A[at].ver = preceding THEN preceding ELSE None

\* assertCanonicalFaultAudit.
CanonicalFault(dep, st, E, faults, from) ==
  /\ Len(faults) = 1
  /\ faults[1].from = from /\ faults[1].to = "PAUSED_FAULT"
  /\ faults[1].ver = st.ver /\ faults[1].at = dep.updated
  /\ E # <<>> => faults[1].at >= Last(E).at

\* assertCanonicalRollbackStartedAudit; faultAt is None without a fault.
CanonicalRollbackStarted(dep, E, A, boundary, faultAt) ==
  LET r == Of(A, "ROLLBACK_STARTED")[1] IN
  /\ Len(Of(A, "ROLLBACK_STARTED")) = 1 /\ dep.act # None
  /\ r = Event("ROLLBACK_STARTED", r.at, "ACTIVE", "DRAINING", boundary, 0)
  /\ r.at >= dep.act
  /\ faultAt # None => r.at < faultAt
  /\ faultAt = None => dep.updated = r.at
  /\ boundary > 0 => r.at >= E[boundary].at
  /\ boundary < Len(E) => r.at <= E[boundary + 1].at
  /\ boundary < Len(E) /\ faultAt # None => faultAt > Last(E).at

\* assertRetainedLifecycleAuthority, of rows presented in the given phase.
RetainedLifecycle(phase, updated, d, A) ==
  LET dep == [d.dep EXCEPT !.phase = phase, !.updated = updated]
      E == Ordered(d.ev)
      activations == Of(A, "PHASE_TRANSITION")
      advances == Of(A, "STATE_ADVANCED")
      faults == Of(A, "FAULT_PAUSED")
      rollbacks == Of(A, "ROLLBACK_STARTED")
      boundary == IF Len(rollbacks) = 1 THEN RollbackBoundary(A) ELSE Len(E)
      PhaseAt(i) == IF i <= boundary THEN "ACTIVE" ELSE "DRAINING"
  IN
  /\ IF dep.act = None
     THEN phase # "ACTIVE" /\ activations = <<>> /\ E = <<>>
     ELSE /\ activations = <<ActivationEvent(dep)>>
          /\ phase = "ACTIVE" => updated = dep.act
  /\ Len(advances) = Len(E) /\ boundary # None
  /\ \A i \in DOMAIN E :
       /\ PhaseAt(i) = "DRAINING" => E[i].action \in Sells
       /\ advances[i] = AdvancedEvent(E[i], PhaseAt(i), i)
  /\ CASE phase = "ACTIVE" -> faults = <<>> /\ rollbacks = <<>>
       [] phase = "DRAINING" ->
            /\ faults = <<>> /\ Len(rollbacks) = 1
            /\ CanonicalRollbackStarted(dep, E, A, boundary, None)
       [] phase = "PAUSED_FAULT" ->
            /\ CanonicalFault(dep, d.st, E, faults,
                 IF rollbacks # <<>> THEN "DRAINING"
                 ELSE IF dep.act = None THEN "PENDING_FLAT" ELSE "ACTIVE")
            /\ rollbacks # <<>> =>
                 CanonicalRollbackStarted(dep, E, A, boundary, faults[1].at)
  /\ Len(A) = 1 + Len(activations) + Len(advances) + Len(rollbacks) + Len(faults)

\* assertDisabledLifecycleAuthority.
DisabledLifecycle(d, A) ==
  LET done == Of(A, "ROLLBACK_COMPLETED")
      before == SelectSeq(A, LAMBDA a : a # done[1])
      starts == Of(before, "ROLLBACK_STARTED")
  IN
  /\ IsFlat(d.st) /\ Len(done) = 1 /\ Of(A, "FAULT_PAUSED") = <<>>
  /\ done[1].to = "DISABLED" /\ done[1].ver = d.st.ver /\ done[1].at = d.dep.updated
  /\ CASE done[1].from = "PENDING_FLAT" ->
            d.dep.act = None /\ d.ev = {} /\ before = <<CreatedEvent(d.dep)>>
       [] done[1].from = "ACTIVE" ->
            /\ d.dep.act # None /\ done[1].at >= d.dep.act
            /\ RetainedLifecycle("ACTIVE", d.dep.act, d, before)
       [] done[1].from = "DRAINING" ->
            /\ starts # <<>> /\ done[1].at > starts[1].at
            /\ RetainedLifecycle("DRAINING", starts[1].at, d, before)
       [] OTHER -> FALSE
  /\ \A e \in d.ev : done[1].at >= e.at
  /\ Last(A) = done[1]

\* assertPristinePendingAuthority.
Pristine(d, A) ==
  /\ d.dep.act = None /\ d.dep.updated = d.dep.created
  /\ d.st = EmptyState /\ d.ev = {} /\ Len(A) = 1

\* validateAndSnapshotAuthority at clock t: start-up keeps this authority.
InitializerAccepts(d, t) ==
  LET A == OrderedAudit(d.audit) IN
  /\ DeploymentChronology(d.dep, t) /\ EvidenceAccepted(d, t)
  /\ d.st = Project(d.ev) /\ AuditAccepted(d, t)
  /\ Of(A, "DEPLOYMENT_CREATED") = <<CreatedEvent(d.dep)>>
  /\ CASE d.dep.phase = "PENDING_FLAT" -> Pristine(d, A)
       [] d.dep.phase \in {"ACTIVE", "DRAINING", "PAUSED_FAULT"} ->
            RetainedLifecycle(d.dep.phase, d.dep.updated, d, A)
       [] d.dep.phase = "DISABLED" -> DisabledLifecycle(d, A)

-----------------------------------------------------------------------------
(***************************************************************************)
(* The recovery service's validation (position-guard-pilot-recovery.ts).   *)
(***************************************************************************)

\* verifyCanonicalDeploymentCreatedAudit.
CreatedVerified(d, A) == Of(A, "DEPLOYMENT_CREATED") = <<CreatedEvent(d.dep)>>

\* An activation in the instant of the creation is refused.
WrongActivationVerified(d, A) ==
  /\ d.dep.act # None /\ d.dep.act > d.dep.created
  /\ Of(A, "PHASE_TRANSITION") = <<ActivationEvent(d.dep)>>

\* verifyCanonicalActivationAudit.
ActivationVerified(d, A) ==
  /\ d.dep.act # None /\ d.dep.act >= d.dep.created
  /\ Of(A, "PHASE_TRANSITION") = <<ActivationEvent(d.dep)>>

\* verifyCanonicalStateAdvanceChain: the first n events carry ACTIVE.
AdvanceChainVerified(d, A, n) ==
  LET E == Ordered(d.ev)
      advances == Of(A, "STATE_ADVANCED")
  IN /\ Len(advances) = Len(E) /\ d.st.ver = Len(E)
     /\ \A i \in DOMAIN E :
          advances[i] = AdvancedEvent(E[i], IF i <= n THEN "ACTIVE" ELSE "DRAINING", i)

\* verifyCanonicalRollbackStarted.
RollbackVerified(d, rollbacks) ==
  /\ Len(rollbacks) = 1
  /\ rollbacks[1].from = "ACTIVE" /\ rollbacks[1].to = "DRAINING"
  /\ rollbacks[1].ver <= Len(Ordered(d.ev))

\* The evidence on both sides of the rollback.
BoundaryVerified(d, r) ==
  LET E == Ordered(d.ev) IN
  \A i \in DOMAIN E :
    /\ E[i].at > d.dep.act
    /\ i <= r.ver => E[i].at <= r.at
    /\ i > r.ver => E[i].at >= r.at /\ E[i].action \in Sells

\* verifyActiveChronology.
ActiveChronology(d, A, t) ==
  /\ CreatedVerified(d, A) /\ ActivationVerified(d, A)
  /\ AdvanceChainVerified(d, A, Len(A))
  /\ \A e \in d.ev : e.at > d.dep.act /\ e.at <= t
  /\ Len(A) = Len(Ordered(d.ev)) + 2

\* verifyDrainingChronology.
DrainingChronology(d, A) ==
  LET rollbacks == Of(A, "ROLLBACK_STARTED")
      r == rollbacks[1]
  IN
  /\ CreatedVerified(d, A) /\ ActivationVerified(d, A)
  /\ RollbackVerified(d, rollbacks) /\ Of(A, "ROLLBACK_COMPLETED") = <<>>
  /\ r.at = d.dep.updated /\ r.at >= d.dep.act
  /\ AdvanceChainVerified(d, A, r.ver) /\ BoundaryVerified(d, r)
  /\ Len(A) = Len(Ordered(d.ev)) + 3

\* verifyDisabledRollback.
DisabledRollback(d, A, t) ==
  LET done == Of(A, "ROLLBACK_COMPLETED")
      rollbacks == Of(A, "ROLLBACK_STARTED")
      n == Len(Ordered(d.ev))
  IN
  /\ IsFlat(d.st) /\ Len(done) = 1
  /\ done[1].to = "DISABLED" /\ done[1].at = d.dep.updated /\ done[1].ver = d.st.ver
  /\ CreatedVerified(d, A)
  /\ CASE done[1].from = "PENDING_FLAT" ->
            d.dep.act = None /\ Len(A) = 2 /\ d.ev = {} /\ d.st = EmptyState
       [] done[1].from = "ACTIVE" ->
            /\ ActivationVerified(d, A) /\ AdvanceChainVerified(d, A, n)
            /\ \A e \in d.ev : e.at > d.dep.act /\ e.at <= done[1].at
            /\ Len(A) = n + 3
       [] done[1].from = "DRAINING" ->
            /\ ActivationVerified(d, A) /\ RollbackVerified(d, rollbacks)
            /\ rollbacks[1].at >= d.dep.act /\ rollbacks[1].at < done[1].at
            /\ AdvanceChainVerified(d, A, rollbacks[1].ver)
            /\ BoundaryVerified(d, rollbacks[1])
            /\ \A e \in d.ev : e.at <= done[1].at
            /\ Len(A) = n + 4
       [] OTHER -> FALSE
  /\ done[1].at <= t

\* verifyDeploymentIdentity.
IdentityVerified(d, t) == DeploymentChronology(d.dep, t)

\* verifyAuditAuthority.
AuditVerified(d, t) == \A a \in d.audit : a.at <= t

\* verifyEvidenceAndState.
EvidenceVerified(d, t) == (\A e \in d.ev : e.at <= t) /\ d.st = Project(d.ev)

\* The history as verifyReadyAuthority and verifyRollbackAuthority judge it at
\* clock t, with the phase's own chronology.
RecoveryAccepts(d, t) ==
  LET A == OrderedAudit(d.audit) IN
  /\ IdentityVerified(d, t) /\ AuditVerified(d, t) /\ EvidenceVerified(d, t)
  /\ CASE d.dep.phase = "PENDING_FLAT" -> d.ev = {} /\ d.st = EmptyState
       [] d.dep.phase = "ACTIVE" -> ActiveChronology(d, A, t)
       [] d.dep.phase = "DRAINING" -> DrainingChronology(d, A)
       [] d.dep.phase = "DISABLED" -> DisabledRollback(d, A, t)
       [] OTHER -> FALSE

-----------------------------------------------------------------------------
(***************************************************************************)
(* The deployment's life                                                   *)
(***************************************************************************)

CONSTANTS
  Orders,      \* order ids, numbers: evidence ids compare as they do
  MaxTime,     \* bound: the clock stops here
  Budget,      \* bounds: how many [commands, crashes, snapshots, recoveries] there may be
  Freshness    \* freshnessThresholdMs, in the clock's units

PilotConstants ==
  /\ Orders \subseteq Nat \ {0} /\ IsFiniteSet(Orders)
  /\ MaxTime \in Nat /\ Freshness \in Nat
  /\ Budget \in [{"commands", "crashes", "snapshots", "recoveries"} -> Nat]

VARIABLES
  now,      \* the clock, in steps of 2 so that one nanosecond more is an instant of its own
  up,       \* the process runs
  dep, st, ev, audit,   \* the pilot's rows
  op,       \* execution_state: [status, at]
  ord,      \* order rows with their bindings and fills
  ex,       \* the exchange's orders
  base,     \* BTC held from before the pilot
  snap,     \* latest reconciliation snapshot: [qty, at], or NoSnap
  rec,      \* the recovery service's current call; rec.mid remembers the database
            \* when the second collect began
  sub,      \* the execution service's candidate submission
  prj,      \* the projection of one terminal order
  left      \* what is left of the budget

pilot == <<dep, st, ev, audit>>
vars == <<now, up, pilot, op, ord, ex, base, snap, rec, sub, prj, left>>

Phases == {"PENDING_FLAT", "ACTIVE", "DRAINING", "PAUSED_FAULT", "DISABLED"}
Pausable == {"PENDING_FLAT", "ACTIVE", "DRAINING"}
Terminal == {"FILLED", "CANCELED", "FAILED"}

NoDep == [phase |-> "NONE", created |-> None, updated |-> None, act |-> None]
NoSnap == [qty |-> None, at |-> None]
NoOrder == [status |-> "NONE", action |-> "NONE", qty |-> 0, req |-> None,
            exec |-> 0, at |-> None, mark |-> "none", upd |-> None]
NoExchange == [state |-> "none", exec |-> 0, at |-> None]
NoCopy == [dep |-> NoDep, snap |-> NoSnap, ord |-> << >>, st |-> EmptyState,
           ev |-> {}, audit |-> {}]
Idle == [pc |-> "idle"]
NoSub == [pc |-> "idle", dep |-> NoDep, st |-> EmptyState, order |-> 0, action |-> "NONE"]
NoRec == [pc |-> "idle", pass |-> 1, kind |-> "VERIFY", clock |-> None,
          receipt |-> NoSnap, base |-> NoCopy, copy |-> NoCopy, mid |-> NoCopy]

Db == [dep |-> dep, snap |-> snap, ord |-> ord, st |-> st, ev |-> ev, audit |-> audit]

\* BTC on the exchange account.
Holding ==
  base +
  MapThenSumSet(LAMBDA o : IF ord[o].action \in Buys THEN ex[o].exec ELSE 0 - ex[o].exec, Orders)

Init ==
  /\ now = 0 /\ up = FALSE
  /\ dep = NoDep /\ st = EmptyState /\ ev = {} /\ audit = {}
  /\ op = [status |-> "PAUSED", at |-> 0]
  /\ ord = [o \in Orders |-> NoOrder] /\ ex = [o \in Orders |-> NoExchange]
  /\ base \in {0, 1} /\ snap = NoSnap
  /\ rec = NoRec /\ sub = NoSub /\ prj = Idle /\ left = Budget

\* One of the bounded events happens.
Spend(what) == left[what] > 0 /\ left' = [left EXCEPT ![what] = @ - 1]

-----------------------------------------------------------------------------
(***************************************************************************)
(* Repository transactions (sqlite-candidate-pilot-repository.ts).         *)
(***************************************************************************)

LatestAudit == Max({a.at : a \in audit})

\* pauseForRecoveryFaultAtomically, first occurrence: the pilot and the account
\* are paused in one transaction. It throws when the phase cannot be paused or
\* the instant precedes what is persisted.
FaultPausable(at) ==
  /\ dep.phase \in Pausable
  /\ at >= dep.updated /\ at >= LatestAudit
  /\ dep.phase = "DRAINING" => at > dep.updated /\ at > LatestAudit

\* deriveFaultPauseTransitionAt and the execution_state update.
PauseAccount(at) == op' = [status |-> "PAUSED", at |-> Max({at, op.at})]

PauseForFault(at) ==
  /\ dep' = [dep EXCEPT !.phase = "PAUSED_FAULT", !.updated = at]
  /\ audit' = audit \cup {Event("FAULT_PAUSED", at, dep.phase, "PAUSED_FAULT", st.ver, 0)}
  /\ PauseAccount(at)
  /\ UNCHANGED <<st, ev>>

\* resolveCandidateIntentFaultOccurrence.
IntentFaultAt(at) ==
  LET latest == Max({dep.updated, LatestAudit})
  IN IF at <= latest THEN latest + 1 ELSE at

\* pauseForCandidateIntentFault: an instant that is too early is moved, not refused.
IntentFault(at) ==
  IF dep.phase \in Pausable THEN PauseForFault(IntentFaultAt(at))
  ELSE UNCHANGED <<pilot, op>>

-----------------------------------------------------------------------------
(***************************************************************************)
(* Process, clock, operator and exchange.                                  *)
(***************************************************************************)

Tick ==
  /\ now + 2 <= MaxTime /\ now' = now + 2
  /\ UNCHANGED <<up, pilot, op, ord, ex, base, snap, rec, sub, prj, left>>

\* initialize with no deployment: one transaction inserts the rows.
Initialize ==
  /\ ~up /\ dep = NoDep /\ up' = TRUE
  /\ dep' = [phase |-> "PENDING_FLAT", created |-> now, updated |-> now, act |-> None]
  /\ audit' = {CreatedEvent(dep')}
  /\ UNCHANGED <<now, st, ev, op, ord, ex, base, snap, rec, sub, prj, left>>

\* initialize with a deployment: it is validated and kept. A refusal, or a
\* DISABLED deployment under candidate selection, pauses the account and ends
\* the start-up.
Restart ==
  /\ ~up /\ dep # NoDep
  /\ IF InitializerAccepts([dep |-> dep, st |-> st, ev |-> ev, audit |-> audit], now)
        /\ dep.phase # "DISABLED"
     THEN up' = TRUE /\ UNCHANGED op
     ELSE op' = [status |-> "PAUSED", at |-> now] /\ UNCHANGED up
  /\ UNCHANGED <<now, pilot, ord, ex, base, snap, rec, sub, prj, left>>

\* The process dies between two of its transactions.
Crash ==
  /\ Spend("crashes")
  /\ up /\ up' = FALSE
  /\ rec' = NoRec /\ sub' = NoSub /\ prj' = Idle
  /\ UNCHANGED <<now, pilot, op, ord, ex, base, snap>>

Operator(status) ==
  /\ Spend("commands")
  /\ up /\ op.status # status /\ op' = [status |-> status, at |-> now]
  /\ UNCHANGED <<now, up, pilot, ord, ex, base, snap, rec, sub, prj>>

\* What was held before the pilot is sold.
SellBase ==
  /\ base = 1 /\ base' = 0
  /\ UNCHANGED <<now, up, pilot, op, ord, ex, snap, rec, sub, prj, left>>

ExchangeCloses(o) ==
  /\ ex[o].state = "live"
  /\ \E exec \in {0, ord[o].qty} :
       ex' = [ex EXCEPT ![o] = [state |-> IF exec = 0 THEN "canceled" ELSE "filled",
                                exec |-> exec, at |-> now]]
  /\ UNCHANGED <<now, up, pilot, op, ord, base, snap, rec, sub, prj, left>>

-----------------------------------------------------------------------------
(***************************************************************************)
(* Synchronisation: order rows, snapshots, and the projection of terminal  *)
(* orders (candidate-evidence-service.ts).                                 *)
(***************************************************************************)

\* The row as the exchange reports the order.
Reported(o) ==
  [ord[o] EXCEPT
     !.status = CASE ex[o].state = "live" -> "OPEN" [] ex[o].state = "filled" -> "FILLED"
                  [] ex[o].state = "canceled" -> "CANCELED" [] OTHER -> "FAILED",
     !.exec = ex[o].exec, !.at = ex[o].at, !.upd = now]

InSubmission(o) == sub.pc # "idle" /\ sub.order = o

\* Reconciliation of one active order; an order that was never sent is found
\* absent once its submission is over.
Reconcile(o) ==
  /\ up /\ ord[o].status \in {"SUBMITTING", "OPEN", "RECONCILIATION_REQUIRED"}
  /\ ex[o].state = "none" => ~InSubmission(o)
  /\ Reported(o).status # ord[o].status /\ ord' = [ord EXCEPT ![o] = Reported(o)]
  /\ UNCHANGED <<now, up, pilot, op, ex, base, snap, rec, sub, prj, left>>

\* The exchange's balances are persisted as the run's snapshots.
Snapshot ==
  /\ Spend("snapshots")
  /\ up /\ snap' = [qty |-> Holding, at |-> now] /\ snap' # snap
  /\ UNCHANGED <<now, up, pilot, op, ord, ex, base, rec, sub, prj>>

\* classifyTerminalOrderForSweep: what the sweep hands to the projection.
Eligible(o) ==
  /\ ord[o].status \in {"FILLED", "CANCELED"} /\ ord[o].mark = "none"
  /\ dep.phase \in {"ACTIVE", "DRAINING"}
  /\ ~\E e \in ev : e.id = o

\* processTerminalOrder up to its write: deployment, state and evidence are read.
ProjectRead(o) ==
  /\ up /\ prj.pc = "idle" /\ Eligible(o)
  /\ LET before == Project({e \in ev : e.at < ord[o].at \/ (e.at = ord[o].at /\ e.id < o)})
         rest == Remaining(before.qty, ord[o].action, ord[o].exec)
         e == [id |-> o, at |-> ord[o].at, action |-> ord[o].action,
               exec |-> ord[o].exec, rem |-> rest]
     IN prj' = [pc |-> IF ord[o].exec = 0 THEN "nofill"
                       ELSE IF ord[o].at < ord[o].req \/ rest < 0 THEN "fault" ELSE "write",
                order |-> o, ver |-> st.ver, e |-> e]
  /\ UNCHANGED <<now, up, pilot, op, ord, ex, base, snap, rec, sub, left>>

\* persistCandidateProjectionFault: the order's event and the account's pause.
ProjectionFault(o) ==
  /\ ord' = [ord EXCEPT ![o].mark = "fault", ![o].upd = now]
  /\ op' = [status |-> "PAUSED", at |-> now]

\* The state after the evidence, or Rejected: version compare-and-swap and the
\* replay of everything persisted with it.
Advances(p) ==
  LET next == Project(ev \cup {p.e})
  IN IF p.ver = st.ver /\ next.ver = st.ver + 1 THEN next ELSE Rejected

\* advanceStateWithEvidence and its outcome. The phase of the audit event is the
\* one persisted now.
ProjectWrite ==
  /\ prj.pc = "write" /\ prj' = Idle
  /\ LET next == Advances(prj) IN
     IF \E e \in ev : e.id = prj.order THEN UNCHANGED <<pilot, op, ord>>
     ELSE IF next = Rejected THEN ProjectionFault(prj.order) /\ UNCHANGED pilot
     ELSE /\ ev' = ev \cup {prj.e} /\ st' = next
          /\ audit' = audit \cup {AdvancedEvent(prj.e, dep.phase, next.ver)}
          /\ UNCHANGED <<dep, op, ord>>
  /\ UNCHANGED <<now, up, ex, base, snap, rec, sub, left>>

ProjectFault ==
  /\ prj.pc = "fault" /\ prj' = Idle /\ ProjectionFault(prj.order)
  /\ UNCHANGED <<now, up, pilot, ex, base, snap, rec, sub, left>>

\* recordTerminalNoFill.
ProjectNoFill ==
  /\ prj.pc = "nofill" /\ prj' = Idle
  /\ ord' = [ord EXCEPT ![prj.order].mark = "nofill", ![prj.order].upd = now]
  /\ UNCHANGED <<now, up, pilot, op, ex, base, snap, rec, sub, left>>

-----------------------------------------------------------------------------
(***************************************************************************)
(* Recovery (position-guard-pilot-recovery.ts): two collects of everything *)
(* that is persisted, each over several reads, and one write.              *)
(***************************************************************************)

OrdersVerified(rows, t) ==
  \A o \in Orders :
    rows[o].status # "NONE" =>
      rows[o].status \in Terminal /\ rows[o].req <= t /\ rows[o].upd <= t

\* verifyReconciliation: the receipt is of the latest run, and fresh.
ReceiptHolds(c, receipt, t) ==
  c.snap = receipt /\ receipt.at <= t /\ t - receipt.at <= Freshness

\* verifyInventory.
InventoryMatches(c) == c.dep.phase # "PENDING_FLAT" => c.st.qty = c.snap.qty

\* verifyReadyAuthority and verifyRollbackAuthority: the receipt is the latest
\* snapshot and fresh, no order is open or uncertain, the history is canonical
\* and the exchange holds what the evidence adds up to.
Verified(c, receipt, t) ==
  /\ ReceiptHolds(c, receipt, t) /\ OrdersVerified(c.ord, t)
  /\ RecoveryAccepts(c, t) /\ InventoryMatches(c)

\* confirmStableReady: both collects are equal, and the second is verified too.
Confirmed(r) == r.copy = r.base /\ Verified(r.copy, r.receipt, r.clock)

\* verifyAndPrepareBtcRun, requestRollback and completeRollback start with the
\* clock and the receipt of the run's own synchronisation.
RecoveryBegin(kind) ==
  /\ Spend("recoveries")
  /\ up /\ rec.pc = "idle" /\ snap # NoSnap /\ dep # NoDep
  /\ rec' = [NoRec EXCEPT !.pc = IF kind = "VERIFY" THEN "dep" ELSE "pause",
                          !.kind = kind, !.clock = now, !.receipt = snap]
  /\ UNCHANGED <<now, up, pilot, op, ord, ex, base, snap, sub, prj>>

\* ensureGlobalRollbackPause.
RollbackPause ==
  /\ rec.pc = "pause" /\ rec' = [rec EXCEPT !.pc = "dep"]
  /\ IF op.status = "PAUSED" THEN UNCHANGED op ELSE op' = [status |-> "PAUSED", at |-> now]
  /\ UNCHANGED <<now, up, pilot, ord, ex, base, snap, sub, prj, left>>

\* resolveDeployment, readPersistedAccountEvidence and readCandidateAuthority,
\* one read of the database after the other.
RecoveryRead ==
  /\ \/ /\ rec.pc = "dep"
        /\ rec' = [rec EXCEPT !.pc = "account", !.copy.dep = dep]
     \/ /\ rec.pc = "account"
        /\ rec' = [rec EXCEPT !.pc = "state", !.copy.snap = snap, !.copy.ord = ord]
     \/ /\ rec.pc = "state"
        /\ rec' = [rec EXCEPT !.pc = "evidence", !.copy.st = st]
     \/ /\ rec.pc = "evidence"
        /\ rec' = [rec EXCEPT !.pc = "audit", !.copy.ev = ev]
     \/ /\ rec.pc = "audit"
        /\ rec' = [rec EXCEPT !.pc = IF rec.pass = 1 THEN "decide" ELSE "confirm",
                              !.copy.audit = audit]
  /\ UNCHANGED <<now, up, pilot, op, ord, ex, base, snap, sub, prj, left>>

\* The second collect starts.
Reread(copy) ==
  rec' = [rec EXCEPT !.pc = "dep", !.pass = 2, !.base = copy, !.copy = NoCopy, !.mid = Db]

\* What the first collect leads to.
Decision(c) ==
  CASE c.dep.phase = "PAUSED_FAULT" -> "idle"
    [] c.dep.phase # "PAUSED_FAULT" /\ ~Verified(c, rec.receipt, rec.clock) -> "fault"
    [] OTHER ->
       IF rec.kind = "VERIFY"
       THEN IF c.dep.phase = "PENDING_FLAT" /\ c.snap.qty = 0 THEN "activate" ELSE "reread"
       ELSE IF c.dep.phase = "DISABLED"
               \/ (rec.kind = "COMPLETE" /\ (c.dep.phase # "DRAINING" \/ ~IsFlat(c.st)))
            THEN "idle"
            ELSE IF IsFlat(c.st) THEN "complete"
            ELSE IF c.dep.phase = "ACTIVE" THEN "start" ELSE "idle"

RecoveryDecide ==
  /\ rec.pc = "decide"
  /\ LET next == Decision(rec.copy) IN
     CASE next = "reread" -> Reread(rec.copy)
       [] next = "idle" -> rec' = NoRec
       [] OTHER -> rec' = [rec EXCEPT !.pc = next]
  /\ UNCHANGED <<now, up, pilot, op, ord, ex, base, snap, sub, prj, left>>

\* activateDeployment: a compare-and-swap of phase and update instant.
Activate ==
  /\ rec.pc = "activate"
  /\ IF dep.phase = "PENDING_FLAT" /\ dep.updated = rec.copy.dep.updated
     THEN /\ dep' = [dep EXCEPT !.phase = "ACTIVE", !.act = rec.clock, !.updated = rec.clock]
          /\ audit' = audit \cup {Event("PHASE_TRANSITION", rec.clock, "PENDING_FLAT",
                                        "ACTIVE", st.ver, 0)}
          /\ rec' = [rec EXCEPT !.pc = "activated", !.copy.dep = dep']
     ELSE rec' = [rec EXCEPT !.pc = "fault"] /\ UNCHANGED <<dep, audit>>
  /\ UNCHANGED <<now, up, st, ev, op, ord, ex, base, snap, sub, prj, left>>

\* activatePendingFlat goes on: the audit is read again and verified with the
\* activated row, then the second collect starts.
Activated ==
  /\ rec.pc = "activated"
  /\ LET c == [rec.copy EXCEPT !.audit = audit] IN
     IF ActiveChronology(c, OrderedAudit(audit), rec.clock)
        /\ \A a \in audit : a.at <= rec.clock
     THEN Reread(c)
     ELSE rec' = [rec EXCEPT !.pc = "fault", !.copy = c]
  /\ UNCHANGED <<now, up, pilot, op, ord, ex, base, snap, sub, prj, left>>

\* READY: in ACTIVE and DRAINING the run may submit under this authority.
RecoveryConfirm ==
  /\ rec.pc = "confirm"
  /\ IF Confirmed(rec)
     THEN /\ rec' = NoRec
          /\ IF sub.pc = "idle" /\ rec.copy.dep.phase \in {"ACTIVE", "DRAINING"}
             THEN sub' = [NoSub EXCEPT !.pc = "ready", !.dep = rec.copy.dep, !.st = rec.copy.st]
             ELSE UNCHANGED sub
     ELSE rec' = [rec EXCEPT !.pc = "fault"] /\ UNCHANGED sub
  /\ UNCHANGED <<now, up, pilot, op, ord, ex, base, snap, prj, left>>

\* persistFault. A DISABLED pilot stays so and only the account is paused; when
\* the transaction refuses the instant or the phase, the call throws.
RecoveryFault ==
  /\ rec.pc = "fault" /\ rec' = NoRec
  /\ IF rec.copy.dep.phase = "DISABLED" THEN PauseAccount(rec.clock) /\ UNCHANGED pilot
     ELSE IF FaultPausable(rec.clock) THEN PauseForFault(rec.clock)
     ELSE UNCHANGED <<pilot, op>>
  /\ UNCHANGED <<now, up, ord, ex, base, snap, sub, prj, left>>

\* What startRollback and completeRollback compare in their transaction.
RollbackAuthorized ==
  /\ dep.phase = rec.copy.dep.phase /\ dep.updated = rec.copy.dep.updated
  /\ st.ver = rec.copy.st.ver /\ op.status = "PAUSED"

\* validateCandidatePilotRollbackChronology.
RollbackChronology ==
  /\ rec.clock >= dep.updated /\ rec.clock >= dep.created
  /\ dep.phase = "DRAINING" => rec.clock > dep.updated
  /\ st.last # None => rec.clock >= st.last

\* assertGlobalRollbackPause and startRollback or completeRollback. A lost pause
\* is a recovery fault, a lost comparison a control error, a bad instant a fault.
Rollback ==
  /\ rec.pc \in {"start", "complete"}
  /\ IF op.status # "PAUSED" \/ (RollbackAuthorized /\ ~RollbackChronology)
     THEN rec' = [rec EXCEPT !.pc = "fault"] /\ UNCHANGED <<dep, audit>>
     ELSE /\ rec' = NoRec
          /\ IF ~RollbackAuthorized THEN UNCHANGED <<dep, audit>>
             ELSE LET to == IF rec.pc = "start" THEN "DRAINING" ELSE "DISABLED"
                      type == IF rec.pc = "start" THEN "ROLLBACK_STARTED" ELSE "ROLLBACK_COMPLETED"
                  IN /\ dep' = [dep EXCEPT !.phase = to, !.updated = rec.clock]
                     /\ audit' = audit \cup {Event(type, rec.clock, dep.phase, to, st.ver, 0)}
  /\ UNCHANGED <<now, up, st, ev, op, ord, ex, base, snap, sub, prj, left>>

-----------------------------------------------------------------------------
(***************************************************************************)
(* Candidate submission (execution-service.ts).                            *)
(***************************************************************************)

\* What the router lets a run do with an authority.
Actions(d, s) ==
  CASE s.qty = 0 -> IF d.phase = "ACTIVE" THEN {"ENTER"} ELSE {}
    [] OTHER -> Sells \cup (IF d.phase = "ACTIVE" THEN {"ADD"} ELSE {})

Quantity(action, s) ==
  CASE action = "ENTER" -> 2 [] action = "EXIT" -> s.qty [] OTHER -> 1

Blocking(except) == {o \in Orders \ {except} : ord[o].status \notin Terminal \cup {"NONE"}}

\* The first authority check: the account runs and nothing blocks a submission.
SubmissionBegin ==
  /\ sub.pc = "ready"
  /\ IF op.status = "RUNNING" /\ Blocking(0) = {}
     THEN \/ \E o \in Orders, action \in Actions(sub.dep, sub.st) :
               /\ ord[o] = NoOrder
               /\ sub' = [sub EXCEPT !.pc = "persist", !.order = o, !.action = action]
          \/ sub' = NoSub
     ELSE sub' = NoSub
  /\ UNCHANGED <<now, up, pilot, op, ord, ex, base, snap, rec, prj, left>>

\* What validateCandidateBoundOrderIntent compares: phase, update instant,
\* activation and state version are those of the verified authority.
AuthorityHolds == dep = sub.dep /\ st.ver = sub.st.ver

\* createCandidateExecutionAttemptTimestamps and persistCandidateBoundOrderIntent,
\* then the row's SUBMITTING update.
SubmissionPersist ==
  /\ sub.pc = "persist"
  /\ IF now > sub.dep.act /\ AuthorityHolds
     THEN /\ ord' = [ord EXCEPT ![sub.order] =
                       [NoOrder EXCEPT !.status = "SUBMITTING", !.action = sub.action,
                          !.qty = Quantity(sub.action, sub.st), !.req = now + 1, !.upd = now + 1]]
          /\ sub' = [sub EXCEPT !.pc = "final"]
          /\ UNCHANGED <<pilot, op>>
     ELSE /\ IntentFault(Max({now, sub.dep.updated + 1}))
          /\ sub' = NoSub /\ UNCHANGED ord
  /\ UNCHANGED <<now, up, ex, base, snap, rec, prj, left>>

\* assertFinalCandidatePreSendAuthority; then the execution state and the blocking
\* orders are read. A failure pauses the pilot and the account; the row stays.
SubmissionRevalidate ==
  /\ \/ /\ sub.pc = "final" /\ AuthorityHolds
        /\ sub' = [sub EXCEPT !.pc = "gate"] /\ UNCHANGED <<pilot, op>>
     \/ /\ sub.pc = "gate" /\ op.status = "RUNNING" /\ Blocking(sub.order) = {}
        /\ sub' = [sub EXCEPT !.pc = "send"] /\ UNCHANGED <<pilot, op>>
     \/ /\ \/ sub.pc = "final" /\ ~AuthorityHolds
           \/ sub.pc = "gate" /\ (op.status # "RUNNING" \/ Blocking(sub.order) # {})
        /\ sub' = NoSub /\ IntentFault(ord[sub.order].req)
  /\ UNCHANGED <<now, up, ord, ex, base, snap, rec, prj, left>>

\* runWithCurrentExecutionAuthority: the account's state is read once more in the
\* transaction the order is sent from.
SubmissionSend ==
  /\ sub.pc = "send"
  /\ IF op.status = "RUNNING"
     THEN /\ ex' = [ex EXCEPT ![sub.order].state = "live"]
          /\ sub' = [sub EXCEPT !.pc = "await"]
     ELSE sub' = NoSub /\ UNCHANGED ex
  /\ UNCHANGED <<now, up, pilot, op, ord, base, snap, rec, prj, left>>

\* The answer, if nobody has advanced the row: an order already closed is
\* terminal at once; an unclear answer requires reconciliation and pauses.
SubmissionAnswer ==
  /\ sub.pc = "await" /\ sub' = NoSub
  /\ \/ /\ ord' = IF ord[sub.order].status = "SUBMITTING"
                  THEN [ord EXCEPT ![sub.order] = Reported(sub.order)] ELSE ord
        /\ UNCHANGED op
     \/ /\ ord' = IF ord[sub.order].status = "SUBMITTING"
                  THEN [ord EXCEPT ![sub.order].status = "RECONCILIATION_REQUIRED",
                                   ![sub.order].upd = now]
                  ELSE ord
        /\ op' = [status |-> "PAUSED", at |-> now]
  /\ UNCHANGED <<now, up, pilot, ex, base, snap, rec, prj, left>>

-----------------------------------------------------------------------------
Projection ==
  ProjectWrite \/ ProjectFault \/ ProjectNoFill \/ \E o \in Orders : ProjectRead(o)

Recovery ==
  \/ \E kind \in {"VERIFY", "REQUEST", "COMPLETE"} : RecoveryBegin(kind)
  \/ RollbackPause \/ RecoveryRead \/ RecoveryDecide \/ Activate \/ Activated
  \/ RecoveryConfirm \/ RecoveryFault \/ Rollback

Submission ==
  SubmissionBegin \/ SubmissionPersist \/ SubmissionRevalidate \/ SubmissionSend
  \/ SubmissionAnswer

Next ==
  \/ Tick \/ Initialize \/ Restart \/ Crash \/ SellBase \/ Snapshot
  \/ \E status \in {"RUNNING", "PAUSED"} : Operator(status)
  \/ \E o \in Orders : ExchangeCloses(o) \/ Reconcile(o)
  \/ Projection \/ Recovery \/ Submission

Spec == Init /\ [][Next]_vars

-----------------------------------------------------------------------------
Authority == [dep |-> dep, st |-> st, ev |-> ev, audit |-> audit]

TypeOK ==
  /\ now \in 0..MaxTime /\ up \in BOOLEAN
  /\ dep.phase \in Phases \cup {"NONE"}
  /\ op.status \in {"RUNNING", "PAUSED"}
  /\ \A o \in Orders :
       ord[o].status \in Terminal \cup {"NONE", "SUBMITTING", "OPEN", "RECONCILIATION_REQUIRED"}

\* The persisted exact state is the replay of all persisted evidence in the order
\* of its instants, however late and in whatever order the sweep projects it.
StateIsReplay == st = Project(ev)

\* READY is given on an authority that was in the database as a whole at one
\* instant, although it is read in several transactions that other writers
\* interleave with: confirmStableReady collects twice and compares.
ReadyAuthorityExisted ==
  rec.pc = "confirm" /\ Confirmed(rec) => rec.copy = rec.mid

\* The initializer and the recovery service decide alike about any authority
\* the pilot reaches: start-up does not keep what recovery will fault, nor the
\* other way round.
VerifiersAgree ==
  dep.phase \in {"ACTIVE", "DRAINING", "DISABLED"} =>
    (InitializerAccepts(Authority, now + 1) <=> RecoveryAccepts(Authority, now + 1))

\* What start-up keeps, recovery finds canonical too.
KeptIsRecoverable ==
  dep.phase \in {"ACTIVE", "DRAINING", "DISABLED"} =>
    (InitializerAccepts(Authority, now + 1) => RecoveryAccepts(Authority, now + 1))

\* An order leaves under a deployment row that changed after the last candidate
\* check (a rollback or a fault pause got in between) only if the operator's
\* command is at least as late as that change: the transitions pause the account
\* and the send's own transaction reads it.
ChangedAuthorityNeedsResume ==
  \A o \in Orders :
    ex[o].state = "none" /\ ex'[o].state = "live" /\ dep # sub.dep => op.at >= dep.updated

\* A DISABLED pilot holds nothing: no projected order leaves inventory behind and
\* no pilot order is or comes to be open on the exchange.
DisabledIsFlat ==
  dep.phase = "DISABLED" =>
    IsFlat(st) /\ \A o \in Orders : ex[o].state # "live"
===============================================================================
